----------------------------- MODULE NodeProofs -----------------------------
(***************************************************************************)
(* Theorems about Node for any number of nodes and any bounds: a term has  *)
(* at most one leader, votes are stable whatever a crash leaves in         *)
(* storage, and the apply loop misses no work.  NodeInv is the inductive   *)
(* invariant.                                                              *)
(*                                                                         *)
(* Good(n) is what a node satisfies between two critical sections,         *)
(* Calm(n, f) what a critical section that casts and counts no vote does.  *)
(***************************************************************************)
EXTENDS Node, FiniteSetTheorems, TLAPS

Good(n) == IsNode(n) /\ Stored(n) /\ (n.waiting => Idle(n))

\* The term does not fall and the vote in a term stays.
Evolves(n, f) ==
    /\ f.currentTerm >= n.currentTerm
    /\ f.currentTerm = n.currentTerm /\ n.votedFor # Nil => f.votedFor = n.votedFor

\* A node that is still candidate or leader is so in the same term.
Calm(n, f) ==
    /\ Evolves(n, f)
    /\ f.role # Follower => f.role = n.role /\ f.currentTerm = n.currentTerm /\ f.votedFor = n.votedFor
    /\ f.votes \subseteq n.votes /\ f.counting \subseteq n.counting
    /\ f.role # Follower => f.votes = n.votes

-----------------------------------------------------------------------------
(* Storage and roles. *)

\* What a node writes is what it reads after a restart.
LEMMA SaveFacts ==
    ASSUME NEW storage, IsStorage(storage), NEW n, IsNode(n)
    PROVE  LET st == SaveRaftState(storage, n) IN
           /\ IsStorage(st)
           /\ loadFromStorage(st).currentTerm = n.currentTerm
           /\ loadFromStorage(st).votedFor = n.votedFor
           /\ "raft_state" \in DOMAIN st
<1> DEFINE state == [CurrentTerm |-> n.currentTerm, VotedFor |-> n.votedFor, Log |-> serializeLog(n.log)]
           st == SaveRaftState(storage, n)
<1>1. state.CurrentTerm = n.currentTerm /\ state.VotedFor = n.votedFor
  OBVIOUS
<1>2. n.currentTerm \in Nat /\ n.votedFor \in Server \cup {Nil}
  BY DEF IsNode
<1>3. "raft_state" \in DOMAIN st /\ st["raft_state"] = state
  BY DEF SaveRaftState, Set
<1> HIDE DEF st, state
<1>4. QED
  BY <1>1, <1>2, <1>3 DEF IsStorage, loadFromStorage, Has, LoadRaftState, st

\* The snapshot that is written next does not change that.
LEMMA PersistFacts ==
    ASSUME NEW n, IsNode(n)
    PROVE  LET f == persistLocked(n) IN
           /\ f = [n EXCEPT !.storage = f.storage]
           /\ IsStorage(f.storage)
           /\ loadFromStorage(f.storage).currentTerm = n.currentTerm
           /\ loadFromStorage(f.storage).votedFor = n.votedFor
<1> DEFINE st == SaveRaftState(n.storage, n)
           all == SaveSnapshot(st, n)
<1>1. persistLocked(n) = [n EXCEPT !.storage = all]
  BY DEF persistLocked
<1>2. /\ IsStorage(st) /\ loadFromStorage(st).currentTerm = n.currentTerm
      /\ loadFromStorage(st).votedFor = n.votedFor /\ "raft_state" \in DOMAIN st
  BY SaveFacts DEF IsNode
<1> HIDE DEF st
<1>3. "raft_state" \in DOMAIN all /\ all["raft_state"] = st["raft_state"]
  BY <1>2 DEF SaveSnapshot, Set
<1> HIDE DEF all
<1>4. IsStorage(all)
  BY <1>2, <1>3 DEF IsStorage, Has, LoadRaftState
<1>5. loadFromStorage(all).currentTerm = n.currentTerm /\ loadFromStorage(all).votedFor = n.votedFor
  BY <1>2, <1>3 DEF loadFromStorage, Has, LoadRaftState
<1>6. persistLocked(n).storage = all
  BY <1>1 DEF IsNode
<1>7. QED
  BY <1>1, <1>4, <1>5, <1>6

LEMMA PersistGood ==
    ASSUME NEW n, IsNode(n), n.waiting => Idle(n)
    PROVE  LET f == persistLocked(n) IN
           /\ Good(f)
           /\ f.role = n.role /\ f.currentTerm = n.currentTerm /\ f.votedFor = n.votedFor
           /\ f.votes = n.votes /\ f.counting = n.counting /\ f.electing = n.electing
           /\ f.log = n.log /\ f.commitIndex = n.commitIndex /\ f.lastApplied = n.lastApplied
           /\ f.snapPending = n.snapPending /\ f.waiting = n.waiting
<1> DEFINE f == persistLocked(n)
<1>1. /\ f = [n EXCEPT !.storage = f.storage] /\ IsStorage(f.storage)
      /\ loadFromStorage(f.storage).currentTerm = n.currentTerm
      /\ loadFromStorage(f.storage).votedFor = n.votedFor
  BY PersistFacts
<1>2. PICK st : f = [n EXCEPT !.storage = st] /\ st = f.storage
  BY <1>1
<1> HIDE DEF f
<1>3. /\ f.role = n.role /\ f.currentTerm = n.currentTerm /\ f.votedFor = n.votedFor
      /\ f.votes = n.votes /\ f.counting = n.counting /\ f.electing = n.electing
      /\ f.log = n.log /\ f.commitIndex = n.commitIndex /\ f.lastApplied = n.lastApplied
      /\ f.snapPending = n.snapPending /\ f.waiting = n.waiting
      /\ f.msgs = n.msgs /\ f.service = n.service /\ f.epoch = n.epoch
  BY <1>2 DEF IsNode
<1>4. IsNode(f)
  BY <1>1, <1>2, <1>3 DEF IsNode
<1>5. Stored(f)
  BY <1>1, <1>3 DEF Stored
<1>6. QED
  BY <1>3, <1>4, <1>5 DEF Good, Idle, f

LEMMA Roles == Follower # Candidate /\ Candidate # Leader /\ Follower # Leader
    BY DEF Follower, Candidate, Leader

LEMMA NodeFields ==
    ASSUME NEW n, IsNode(n)
    PROVE  /\ n.role \in {Follower, Candidate, Leader} /\ n.currentTerm \in Nat
           /\ n.votedFor \in Server \cup {Nil} /\ n.electing \in SUBSET Nat
           /\ n.counting \in Votes /\ n.votes \in Votes /\ n.waiting \in BOOLEAN
           /\ IsStorage(n.storage)
    BY DEF IsNode

LEMMA FollowerFacts ==
    ASSUME NEW n, Good(n), NEW term \in Nat
    PROVE  LET f == becomeFollowerLocked(n, term) IN
           /\ Good(f) /\ Calm(n, f) /\ f.log = n.log
           /\ f.currentTerm = IF term < n.currentTerm THEN n.currentTerm ELSE term
           /\ term >= n.currentTerm => f.role = Follower
           /\ term = n.currentTerm => f.votedFor = n.votedFor
           /\ f.votes = n.votes /\ f.counting = n.counting
<1> DEFINE g == [n EXCEPT !.role = Follower, !.currentTerm = term,
                          !.votedFor = IF term > n.currentTerm THEN Nil ELSE @]
           f == becomeFollowerLocked(n, term)
<1>1. IsNode(n) /\ n.currentTerm \in Nat
  BY NodeFields DEF Good
<1>2. f = IF term < n.currentTerm THEN n ELSE IF term # n.currentTerm THEN persistLocked(g) ELSE g
  BY DEF becomeFollowerLocked
<1>3. CASE term < n.currentTerm
  <2>1. f = n
    BY <1>2, <1>3
  <2>2. QED
    BY <1>1, <1>3, <2>1 DEF Good, Calm, Evolves
<1>4. ASSUME term >= n.currentTerm
      PROVE  /\ IsNode(g) /\ g.role = Follower /\ g.currentTerm = term /\ g.log = n.log
             /\ g.votedFor = IF term > n.currentTerm THEN Nil ELSE n.votedFor
             /\ g.votes = n.votes /\ g.counting = n.counting /\ g.waiting = n.waiting
             /\ g.commitIndex = n.commitIndex /\ g.lastApplied = n.lastApplied
             /\ g.snapPending = n.snapPending /\ g.storage = n.storage
  BY Zenon, <1>1 DEF IsNode
<1> HIDE DEF g
<1>5. CASE term = n.currentTerm
  <2>1. f = g
    BY <1>1, <1>2, <1>5
  <2>2. Good(g)
    BY <1>1, <1>4, <1>5 DEF Good, Stored, Idle
  <2>3. QED
    BY <1>1, <1>4, <1>5, <2>1, <2>2 DEF Calm, Evolves
<1>6. CASE term > n.currentTerm
  <2>1. f = persistLocked(g)
    BY <1>1, <1>2, <1>6
  <2>2. g.waiting => Idle(g)
    <3>1. n.waiting => n.commitIndex <= n.lastApplied /\ ~n.snapPending
      BY DEF Good, Idle
    <3>2. /\ g.waiting = n.waiting /\ g.commitIndex = n.commitIndex
          /\ g.lastApplied = n.lastApplied /\ g.snapPending = n.snapPending
      BY <1>1, <1>4, <1>6
    <3>3. QED
      BY <3>1, <3>2, Zenon DEF Idle
  <2> HIDE DEF f
  <2>3. /\ Good(f) /\ f.role = g.role /\ f.currentTerm = g.currentTerm /\ f.votedFor = g.votedFor
        /\ f.votes = g.votes /\ f.counting = g.counting /\ f.log = g.log
    BY <1>1, <1>4, <1>6, <2>1, <2>2, PersistGood
  <2>4. QED
    BY <1>1, <1>4, <1>6, <2>3 DEF Calm, Evolves, f
<1>7. QED
  BY <1>1, <1>3, <1>5, <1>6

-----------------------------------------------------------------------------
(* Steps. *)

AllGood == TypeOK /\ \A i \in Server : Good(node[i])

\* What every step does.
Sound == AllGood' /\ \A i \in Server : Evolves(node[i], node'[i])

\* What a step outside elections does to the votes.
Calmly ==
    /\ \A i \in Server : Calm(node[i], node'[i])
    /\ \A r \in replies' : r.type = "RequestVote" => r \in replies

LEMMA SameCalm ==
    ASSUME NEW n, IsNode(n)
    PROVE  Calm(n, n)
<1>1. n.currentTerm \in Nat
  BY NodeFields
<1>2. QED
  BY <1>1 DEF Calm, Evolves

LEMMA CalmTransitive ==
    ASSUME NEW n, NEW g, NEW f, IsNode(n), IsNode(g), IsNode(f), Calm(n, g), Calm(g, f)
    PROVE  Calm(n, f)
<1>1. n.currentTerm \in Nat /\ g.currentTerm \in Nat /\ f.currentTerm \in Nat
  BY NodeFields
<1>2. Evolves(n, f)
  BY <1>1 DEF Calm, Evolves
<1>3. QED
  BY <1>2 DEF Calm

LEMMA FrameSound ==
    ASSUME AllGood, NEW i \in Server, NEW f, Good(f), Evolves(node[i], f),
           node' = [node EXCEPT ![i] = f],
           \A m \in requests' : IsRequest(m), \A r \in replies' : IsReply(r)
    PROVE  Sound
<1>1. DOMAIN node = Server /\ \A k \in Server : Good(node[k]) /\ IsNode(node[k])
  BY DEF AllGood, TypeOK
<1>2. DOMAIN node' = Server /\ node'[i] = f /\ \A k \in Server : k # i => node'[k] = node[k]
  BY <1>1
<1>3. ASSUME NEW k \in Server PROVE Good(node'[k]) /\ Evolves(node[k], node'[k])
  <2>1. CASE k = i
    BY <1>2, <2>1
  <2>2. CASE k # i
    <3>1. node'[k] = node[k] /\ Evolves(node[k], node[k])
      BY <1>1, <1>2, <2>2, SameCalm DEF Calm
    <3>2. QED
      BY <1>1, <3>1
  <2>3. QED
    BY <2>1, <2>2
<1>4. \A k \in Server : IsNode(node'[k])
  BY <1>3 DEF Good
<1>5. TypeOK'
  BY <1>2, <1>4 DEF TypeOK
<1>6. QED
  BY <1>3, <1>5 DEF Sound, AllGood

LEMMA FrameCalm ==
    ASSUME AllGood, NEW i \in Server, NEW f, Good(f), Calm(node[i], f),
           node' = [node EXCEPT ![i] = f],
           \A m \in requests' : IsRequest(m), \A r \in replies' : IsReply(r),
           \A r \in replies' : r.type = "RequestVote" => r \in replies
    PROVE  Sound /\ Calmly
<1>1. DOMAIN node = Server /\ \A k \in Server : IsNode(node[k])
  BY DEF AllGood, TypeOK
<1>2. node'[i] = f /\ \A k \in Server : k # i => node'[k] = node[k]
  BY <1>1
<1>3. ASSUME NEW k \in Server PROVE Calm(node[k], node'[k])
  <2>1. CASE k = i
    BY <1>2, <2>1
  <2>2. CASE k # i
    BY <1>1, <1>2, <2>2, SameCalm
  <2>3. QED
    BY <2>1, <2>2
<1>4. Sound
  BY Zenon, FrameSound DEF Calm
<1>5. QED
  BY <1>3, <1>4 DEF Calmly

\* The messages are those of before, or answers to a request.
LEMMA AnswerTypes ==
    ASSUME AllGood, NEW m \in requests, NEW resp, Answer(m, resp), resp.Term \in Nat
    PROVE  /\ \A r \in replies' : IsReply(r)
           /\ \A r \in replies' : r \in replies
                \/ (r.type = m.type /\ r.from = m.to /\ r.to = m.from /\ r.req = m.req /\ r.resp = resp)
<1> DEFINE a == [type |-> m.type, from |-> m.to, to |-> m.from, epoch |-> m.epoch,
                 req |-> m.req, resp |-> resp]
<1>1. replies' \subseteq replies \cup {a}
  BY DEF Answer, Newest
<1>2. a.type = m.type /\ a.from = m.to /\ a.to = m.from /\ a.req = m.req /\ a.resp = resp
  OBVIOUS
<1> HIDE DEF a
<1>3. IsRequest(m) /\ \A r \in replies : IsReply(r)
  BY DEF AllGood, TypeOK
<1>4. IsReply(a)
  BY <1>2, <1>3 DEF IsReply, IsRequest
<1>5. QED
  BY <1>1, <1>2, <1>3, <1>4

LEMMA CallTypes ==
    ASSUME AllGood, NEW new, Call(new), \A m \in new : IsRequest(m)
    PROVE  \A m \in requests' : IsRequest(m)
<1>1. requests' \subseteq requests \cup new
  BY DEF Call, Newest
<1>2. QED
  BY <1>1 DEF AllGood, TypeOK

LEMMA Given ==
    ASSUME AllGood
    PROVE  /\ DOMAIN node = Server /\ \A i \in Server : Good(node[i]) /\ IsNode(node[i])
           /\ \A m \in requests : m.from \in Server /\ m.to \in Server /\ m.req.Term \in Nat
           /\ \A r \in replies : /\ r.from \in Server /\ r.to \in Server
                                 /\ r.req.Term \in Nat /\ r.resp.Term \in Nat
           /\ \A m \in requests : IsRequest(m)
           /\ \A r \in replies : IsReply(r)
    BY DEF AllGood, TypeOK, IsRequest, IsReply

-----------------------------------------------------------------------------
(* Replication. *)

\* Another log, saved.
LEMMA RelogFacts ==
    ASSUME NEW n, Good(n), NEW l
    PROVE  LET f == persistLocked([n EXCEPT !.log = l])
           IN  Good(f) /\ Calm(n, f)
<1> DEFINE g == [n EXCEPT !.log = l]
<1>1. IsNode(n)
  BY DEF Good
<1>2. /\ IsNode(g) /\ g.role = n.role /\ g.currentTerm = n.currentTerm /\ g.votedFor = n.votedFor
      /\ g.votes = n.votes /\ g.counting = n.counting /\ g.log = l /\ g.waiting = n.waiting
      /\ g.commitIndex = n.commitIndex /\ g.lastApplied = n.lastApplied /\ g.snapPending = n.snapPending
  BY <1>1 DEF IsNode
<1> HIDE DEF g
<1>3. g.waiting => Idle(g)
  BY <1>2 DEF Good, Idle
<1> DEFINE f == persistLocked(g)
<1>4. /\ Good(f) /\ f.role = g.role /\ f.currentTerm = g.currentTerm /\ f.votedFor = g.votedFor
      /\ f.votes = g.votes /\ f.counting = g.counting /\ f.log = g.log /\ f.commitIndex = g.commitIndex
  BY <1>2, <1>3, PersistGood
<1> HIDE DEF f
<1>5. Calm(n, f)
  BY <1>1, <1>2, <1>4, NodeFields DEF Calm, Evolves
<1>6. QED
  BY <1>2, <1>4, <1>5 DEF f, g

\* The fields elections and storage do not depend on.
LEMMA OtherFields ==
    ASSUME NEW n, Good(n), NEW f, IsNode(f), f.waiting => Idle(f),
           f.role = n.role, f.currentTerm = n.currentTerm, f.votedFor = n.votedFor,
           f.votes = n.votes, f.counting = n.counting, f.storage = n.storage
    PROVE  Good(f) /\ Calm(n, f)
<1>1. n.currentTerm \in Nat /\ Stored(n)
  BY NodeFields DEF Good
<1>2. QED
  BY <1>1 DEF Good, Stored, Calm, Evolves

LEMMA StartStep ==
    ASSUME AllGood, NEW i \in Server, NEW command \in Command, Start(i, command)
    PROVE  Sound /\ Calmly
<1> DEFINE n == node[i]
           e == [Term |-> n.currentTerm, Command |-> command]
           l == append(n.log, e)
           f == persistLocked([n EXCEPT !.log = l])
<1>1. Good(n)
  BY Given
<1>2. node' = [node EXCEPT ![i] = f] /\ requests' = requests /\ replies' = replies
  BY DEF Start
<1> HIDE DEF l
<1>3. Good(f) /\ Calm(n, f)
  BY <1>1, RelogFacts
<1> HIDE DEF f
<1>4. QED
  BY Zenon, <1>2, <1>3, FrameCalm, Given

\* What a leader knows of p.
LEMMA ProgressFacts ==
    ASSUME NEW n, Good(n), NEW p, NEW match, NEW next
    PROVE  LET f == [n EXCEPT !.matchIndex[p] = match, !.nextIndex[p] = next]
           IN  Good(f) /\ Calm(n, f)
<1> DEFINE f == [n EXCEPT !.matchIndex[p] = match, !.nextIndex[p] = next]
<1>1. IsNode(n)
  BY DEF Good
<1>2. /\ IsNode(f) /\ f.role = n.role /\ f.currentTerm = n.currentTerm /\ f.votedFor = n.votedFor
      /\ f.votes = n.votes /\ f.counting = n.counting /\ f.storage = n.storage /\ f.waiting = n.waiting
      /\ f.commitIndex = n.commitIndex /\ f.lastApplied = n.lastApplied /\ f.snapPending = n.snapPending
  BY Zenon, <1>1 DEF IsNode
<1> HIDE DEF f
<1>3. f.waiting => Idle(f)
  BY <1>2 DEF Good, Idle
<1>4. QED
  BY Zenon, <1>2, <1>3, OtherFields DEF f

LEMMA ReplicateToTypes ==
    ASSUME AllGood, NEW i \in Server, NEW p \in Server
    PROVE  IsRequest(replicateTo(i, p))
<1>1. node[i].currentTerm \in Nat
  BY Given, NodeFields
<1>2. QED
  BY <1>1 DEF replicateTo, Request, IsRequest

LEMMA StartReplicationStep ==
    ASSUME AllGood, NEW i \in Server, startReplication(i)
    PROVE  Sound /\ Calmly
<1> DEFINE n == node[i]
           new == {replicateTo(i, p) : p \in Server \ {i}}
           a == size(n.log) - 1
           b == size(n.log)
           f == [n EXCEPT !.matchIndex[i] = a, !.nextIndex[i] = b]
<1>1. Good(n) /\ IsNode(n) /\ DOMAIN node = Server
  BY Given
<1>2. node' = [node EXCEPT ![i] = f] /\ Call(new) /\ replies' = replies
  BY Zenon, <1>1 DEF startReplication
<1> HIDE DEF a, b
<1>3. Good(f) /\ Calm(n, f)
  BY Zenon, <1>1, ProgressFacts
<1> HIDE DEF f
<1>4. \A m \in new : IsRequest(m)
  BY ReplicateToTypes
<1> HIDE DEF new
<1>5. \A m \in requests' : IsRequest(m)
  BY <1>2, <1>4, CallTypes
<1>6. QED
  BY Zenon, <1>2, <1>3, <1>5, FrameCalm, Given

\* commitIndex moves, and the apply loop is woken.
LEMMA WakeFacts ==
    ASSUME NEW n, Good(n), NEW k, NEW pending
    PROVE  LET f == Signal([n EXCEPT !.snapPending = pending, !.commitIndex = k])
           IN  Good(f) /\ Calm(n, f)
<1> DEFINE f == Signal([n EXCEPT !.snapPending = pending, !.commitIndex = k])
<1>1. IsNode(n)
  BY DEF Good
<1>2. f = [n EXCEPT !.snapPending = pending, !.commitIndex = k, !.waiting = FALSE]
  BY <1>1 DEF Signal, IsNode
<1>3. /\ IsNode(f) /\ f.role = n.role /\ f.currentTerm = n.currentTerm /\ f.votedFor = n.votedFor
      /\ f.votes = n.votes /\ f.counting = n.counting /\ f.storage = n.storage /\ f.waiting = FALSE
  BY ZenonT(60), <1>1, <1>2 DEF IsNode
<1> HIDE DEF f
<1>4. Good(f) /\ Calm(n, f)
  BY <1>3, OtherFields
<1>5. QED
  BY <1>4 DEF f

LEMMA CommitFacts ==
    ASSUME NEW n, Good(n), NEW k
    PROVE  LET f == Signal([n EXCEPT !.commitIndex = k])
           IN  Good(f) /\ Calm(n, f)
<1>1. [n EXCEPT !.commitIndex = k] = [n EXCEPT !.snapPending = n.snapPending, !.commitIndex = k]
  BY Zenon DEF Good, IsNode
<1>2. QED
  BY Zenon, <1>1, WakeFacts

LEMMA StoreFacts ==
    ASSUME NEW n, Good(n), NEW req
    PROVE  Good(store(n, req)) /\ Calm(n, store(n, req))
<1> DEFINE l == appendFrom(n.log, req.PrevLogIndex, req.Entries)
           f == persistLocked([n EXCEPT !.log = l])
           k == Min({req.LeaderCommit, lastIndex(f.log)})
           g == Signal([f EXCEPT !.commitIndex = k])
<1>1. store(n, req) \in {f, g}
  BY DEF store
<1> HIDE DEF l, k
<1>2. Good(f) /\ Calm(n, f)
  BY RelogFacts
<1> HIDE DEF f
<1>3. Good(g) /\ Calm(f, g)
  BY <1>2, CommitFacts
<1> HIDE DEF g
<1>4. Calm(n, g)
  BY <1>2, <1>3, CalmTransitive DEF Good
<1>5. QED
  BY <1>1, <1>2, <1>3, <1>4

LEMMA HandleAppendEntriesStep ==
    ASSUME AllGood, NEW m \in requests, HandleAppendEntries(m)
    PROVE  Sound /\ Calmly
<1> DEFINE j == m.to
           old == node[j].currentTerm
           n == becomeFollowerLocked(node[j], m.req.Term)
           accept == m.req.Term >= old /\ matches(n.log, m.req)
           f == IF accept THEN store(n, m.req) ELSE n
           c == IF m.req.Term < old \/ accept THEN <<InvalidTerm, InvalidIndex>> ELSE conflict(n.log, m.req)
           resp == [Term |-> old, Success |-> accept, Conflict |-> c]
<1>1. j \in Server /\ Good(node[j]) /\ IsNode(node[j]) /\ m.req.Term \in Nat /\ old \in Nat
  BY Given, NodeFields
<1>2. /\ m.type = "AppendEntries" /\ node' = [node EXCEPT ![j] = f] /\ requests' = requests
      /\ Answer(m, resp)
  BY Zenon DEF HandleAppendEntries
<1>3. Good(n) /\ Calm(node[j], n)
  BY Zenon, <1>1, FollowerFacts
<1> HIDE DEF n, accept
<1>4. Good(store(n, m.req)) /\ Calm(n, store(n, m.req))
  BY <1>3, StoreFacts
<1>5. Calm(node[j], store(n, m.req))
  BY <1>1, <1>3, <1>4, CalmTransitive DEF Good
<1>6. Good(f) /\ Calm(node[j], f)
  BY <1>3, <1>4, <1>5
<1>7. resp.Term \in Nat
  BY <1>1
<1> HIDE DEF f, c, resp, old
<1>8. /\ \A r \in replies' : IsReply(r)
      /\ \A r \in replies' : r \in replies \/ r.type = m.type
  BY <1>2, <1>7, AnswerTypes
<1> HIDE DEF j
<1>9. QED
  BY Zenon, <1>1, <1>2, <1>6, <1>8, FrameCalm, Given

LEMMA UpdateCommitFacts ==
    ASSUME NEW n, Good(n)
    PROVE  Good(updateCommitIndexLocked(n)) /\ Calm(n, updateCommitIndexLocked(n))
<1> DEFINE k == majorityIdx(n)
           f == Signal([n EXCEPT !.commitIndex = k])
<1>1. updateCommitIndexLocked(n) \in {n, f}
  BY DEF updateCommitIndexLocked
<1> HIDE DEF k
<1>2. Good(f) /\ Calm(n, f)
  BY CommitFacts
<1> HIDE DEF f
<1>3. QED
  BY <1>1, <1>2, SameCalm DEF Good

LEMMA BackOffFacts ==
    ASSUME NEW n, Good(n), NEW p, NEW prevIdx, NEW clash
    PROVE  Good(backOff(n, p, prevIdx, clash)) /\ Calm(n, backOff(n, p, prevIdx, clash))
<1> DEFINE first == firstFor(n.log, clash[1])
           probe == IF clash[1] = InvalidTerm \/ first = InvalidIndex THEN clash[2] ELSE first
           next == Max({Min({probe, prevIdx + 1}), n.log.snapLastIdx + 1})
           f == [n EXCEPT !.nextIndex[p] = next]
<1>1. IsNode(n) /\ backOff(n, p, prevIdx, clash) = f
  BY DEF Good, backOff
<1> HIDE DEF next
<1>2. /\ IsNode(f) /\ f.role = n.role /\ f.currentTerm = n.currentTerm /\ f.votedFor = n.votedFor
      /\ f.votes = n.votes /\ f.counting = n.counting /\ f.storage = n.storage /\ f.waiting = n.waiting
      /\ f.commitIndex = n.commitIndex /\ f.lastApplied = n.lastApplied /\ f.snapPending = n.snapPending
  BY <1>1 DEF IsNode
<1> HIDE DEF f
<1>3. f.waiting => Idle(f)
  BY <1>2 DEF Good, Idle
<1>4. QED
  BY <1>1, <1>2, <1>3, OtherFields

LEMMA SendAppendEntriesStep ==
    ASSUME AllGood, NEW r \in replies, sendAppendEntries(r)
    PROVE  Sound /\ Calmly
<1> DEFINE i == r.to
           n == node[i]
           match == r.req.PrevLogIndex + Len(r.req.Entries)
           a == becomeFollowerLocked(n, r.resp.Term)
           p == [n EXCEPT !.matchIndex[r.from] = match, !.nextIndex[r.from] = match + 1]
           b == updateCommitIndexLocked(p)
           c == backOff(n, r.from, r.req.PrevLogIndex, r.resp.Conflict)
           f == IF r.resp.Term > n.currentTerm THEN a
                ELSE IF contextLostLocked(n, Leader, r.req.Term) THEN n
                ELSE IF r.resp.Success THEN b ELSE c
<1>1. i \in Server /\ r.resp.Term \in Nat /\ Good(n) /\ IsNode(n)
  BY Given
<1>2. /\ node' = [node EXCEPT ![i] = f] /\ requests' = requests /\ replies' = replies
  BY DEF sendAppendEntries
<1>3. Good(a) /\ Calm(n, a)
  BY Zenon, <1>1, FollowerFacts
<1> HIDE DEF match
<1>4. Good(p) /\ Calm(n, p)
  BY Zenon, <1>1, ProgressFacts
<1> HIDE DEF p
<1>5. Good(b) /\ Calm(p, b)
  BY <1>4, UpdateCommitFacts
<1>6. Good(c) /\ Calm(n, c)
  BY <1>1, BackOffFacts
<1> HIDE DEF a, b, c
<1>7. Calm(n, b) /\ Calm(n, n)
  BY <1>1, <1>4, <1>5, CalmTransitive, SameCalm DEF Good
<1>8. Good(f) /\ Calm(n, f)
  BY <1>1, <1>3, <1>5, <1>6, <1>7
<1> HIDE DEF f, i
<1>9. QED
  BY Zenon, <1>1, <1>2, <1>8, FrameCalm, Given DEF i

-----------------------------------------------------------------------------
(* Snapshots. *)

LEMMA SnapshotStep ==
    ASSUME AllGood, NEW i \in Server, Snapshot(i)
    PROVE  Sound /\ Calmly
<1> DEFINE l == doSnapshot(node[i].log, Len(node[i].service), node[i].service)
           f == persistLocked([node[i] EXCEPT !.log = l])
<1>1. Good(node[i]) /\ DOMAIN node = Server
  BY Given
<1>2. node' = [node EXCEPT ![i] = f] /\ requests' = requests /\ replies' = replies
  BY <1>1 DEF Snapshot, takeSnapshot
<1> HIDE DEF l
<1>3. Good(f) /\ Calm(node[i], f)
  BY <1>1, RelogFacts
<1> HIDE DEF f
<1>4. QED
  BY Zenon, <1>2, <1>3, FrameCalm, Given

LEMMA InstalledFacts ==
    ASSUME NEW n, Good(n), NEW req, req.Term \in Nat
    PROVE  \E g, l : Good(g) /\ Calm(n, g) /\ installed(n, req) = [g EXCEPT !.log = l]
<1> DEFINE g == becomeFollowerLocked(n, req.Term)
           l == installSnapshot(g.log, req.LastIncludedIndex, req.LastIncludedTerm, req.Snapshot)
<1>1. Good(g) /\ Calm(n, g)
  BY FollowerFacts
<1>2. installed(n, req) = [g EXCEPT !.log = l]
  BY DEF installed
<1> HIDE DEF g, l
<1>3. QED
  BY Zenon, <1>1, <1>2

LEMMA AnnounceFacts ==
    ASSUME NEW n, Good(n), NEW index
    PROVE  Good(announce(n, index)) /\ Calm(n, announce(n, index))
<1> DEFINE k == Max({n.commitIndex, index})
<1>1. announce(n, index) = Signal([n EXCEPT !.snapPending = TRUE, !.commitIndex = k])
  BY DEF announce, Good, IsNode
<1> HIDE DEF k
<1>2. QED
  BY Zenon, <1>1, WakeFacts

LEMMA HandleInstallSnapshotStep ==
    ASSUME AllGood, NEW m \in requests, HandleInstallSnapshot(m)
    PROVE  Sound /\ Calmly
<1> DEFINE j == m.to
           h == persistLocked(installed(node[j], m.req))
           a == announce(h, m.req.LastIncludedIndex)
           b == becomeFollowerLocked(node[j], m.req.Term)
           n == IF Installs(node[j], m.req) THEN a ELSE b
           resp == [Term |-> n.currentTerm]
<1>1. /\ j \in Server /\ Good(node[j]) /\ IsNode(node[j]) /\ m.req.Term \in Nat
  BY Given
<1>2. /\ m.type = "InstallSnapshot" /\ node' = [node EXCEPT ![j] = n] /\ requests' = requests
      /\ Answer(m, resp)
  BY DEF HandleInstallSnapshot
<1>3. PICK g, l : Good(g) /\ Calm(node[j], g) /\ installed(node[j], m.req) = [g EXCEPT !.log = l]
  <2> DEFINE k == node[j]
             req == m.req
  <2>1. Good(k) /\ req.Term \in Nat
    BY <1>1
  <2> HIDE DEF k, req
  <2>2. \E g, l : Good(g) /\ Calm(k, g) /\ installed(k, req) = [g EXCEPT !.log = l]
    BY <2>1, InstalledFacts, Zenon
  <2>3. QED
    BY Zenon, <2>2 DEF k, req
<1>4. Good(h) /\ Calm(g, h)
  BY <1>3, RelogFacts
<1> HIDE DEF h
<1>5. Good(a) /\ Calm(h, a)
  BY <1>4, AnnounceFacts
<1> HIDE DEF a
<1>6. Calm(node[j], a)
  <2>1. Calm(g, a)
    BY <1>3, <1>4, <1>5, CalmTransitive DEF Good
  <2>2. QED
    BY <1>1, <1>3, <1>5, <2>1, CalmTransitive DEF Good
<1>7. Good(b) /\ Calm(node[j], b)
  BY Zenon, <1>1, FollowerFacts
<1> HIDE DEF b
<1>8. Good(n) /\ Calm(node[j], n)
  BY <1>5, <1>6, <1>7
<1> HIDE DEF n
<1>9. resp.Term \in Nat
  BY <1>8, NodeFields DEF Good
<1> HIDE DEF resp
<1>10. /\ \A r \in replies' : IsReply(r)
       /\ \A r \in replies' : r \in replies \/ r.type = m.type
  BY <1>2, <1>9, AnswerTypes
<1> HIDE DEF j
<1>11. QED
  BY Zenon, <1>1, <1>2, <1>8, <1>10, FrameCalm, Given

LEMMA SendInstallSnapshotStep ==
    ASSUME AllGood, NEW r \in replies, sendInstallSnapshot(r)
    PROVE  Sound /\ Calmly
<1> DEFINE i == r.to
           n == node[i]
           a == becomeFollowerLocked(n, r.resp.Term)
           s == n.log.snapLastIdx
           p == [n EXCEPT !.matchIndex[r.from] = s, !.nextIndex[r.from] = s + 1]
           f == IF r.resp.Term > n.currentTerm THEN a
                ELSE IF contextLostLocked(n, Leader, r.req.Term) THEN n
                ELSE p
<1>1. i \in Server /\ r.resp.Term \in Nat /\ Good(n) /\ IsNode(n)
  BY Given
<1>2. node' = [node EXCEPT ![i] = f] /\ requests' = requests /\ replies' = replies
  BY DEF sendInstallSnapshot
<1>3. Good(a) /\ Calm(n, a)
  BY Zenon, <1>1, FollowerFacts
<1> HIDE DEF s
<1>4. Good(p) /\ Calm(n, p)
  BY Zenon, <1>1, ProgressFacts
<1> HIDE DEF a, p
<1>5. Good(f) /\ Calm(n, f)
  BY <1>1, <1>3, <1>4, SameCalm
<1> HIDE DEF f, i
<1>6. QED
  BY Zenon, <1>1, <1>2, <1>5, FrameCalm, Given DEF i

-----------------------------------------------------------------------------
(* The apply loop. *)

LEMMA ApplicationTickerStep ==
    ASSUME AllGood, NEW i \in Server, applicationTicker(i)
    PROVE  Sound /\ Calmly
<1> DEFINE n == node[i]
           a == [n EXCEPT !.waiting = TRUE]
           b == collect(n)
<1>1. Good(n) /\ IsNode(n) /\ DOMAIN node = Server
  BY Given
<1>2. /\ node' = [node EXCEPT ![i] = IF Idle(n) THEN a ELSE b]
      /\ requests' = requests /\ replies' = replies /\ ~n.waiting
  BY <1>1 DEF applicationTicker
<1>3. CASE Idle(n)
  <2>1. /\ IsNode(a) /\ a.role = n.role /\ a.currentTerm = n.currentTerm /\ a.votedFor = n.votedFor
        /\ a.votes = n.votes /\ a.counting = n.counting /\ a.storage = n.storage
        /\ a.commitIndex = n.commitIndex /\ a.lastApplied = n.lastApplied /\ a.snapPending = n.snapPending
    BY ZenonT(60), <1>1 DEF IsNode
  <2>2. node' = [node EXCEPT ![i] = a]
    BY <1>2, <1>3
  <2> HIDE DEF a
  <2>3. Idle(a)
    BY <1>3, <2>1 DEF Idle
  <2>4. Good(a) /\ Calm(n, a)
    BY <1>1, <2>1, <2>3, OtherFields
  <2>5. QED
    BY Zenon, <1>2, <2>2, <2>4, FrameCalm, Given
<1>4. CASE ~Idle(n)
  <2> DEFINE from == IF n.snapPending THEN n.log.snapLastIdx ELSE n.lastApplied
             first == IF n.snapPending THEN <<<<"snapshot", n.log.snapshot>>>> ELSE <<>>
             msgs == first \o [k \in 1..(n.commitIndex - from) |-> <<"command", at(n.log, from + k)>>]
             last == Max({from, n.commitIndex})
  <2>1. b = [n EXCEPT !.msgs = msgs, !.lastApplied = last, !.snapPending = FALSE]
    BY DEF collect
  <2> HIDE DEF msgs, last, b
  <2>2. /\ IsNode(b) /\ b.role = n.role /\ b.currentTerm = n.currentTerm /\ b.votedFor = n.votedFor
        /\ b.votes = n.votes /\ b.counting = n.counting /\ b.storage = n.storage /\ b.waiting = n.waiting
    BY ZenonT(60), <1>1, <2>1 DEF IsNode
  <2>3. Good(b) /\ Calm(n, b)
    BY <1>1, <1>2, <2>2, OtherFields
  <2>4. node' = [node EXCEPT ![i] = b]
    BY <1>2, <1>4
  <2>5. QED
    BY Zenon, <1>2, <2>3, <2>4, FrameCalm, Given
<1>5. QED
  BY <1>3, <1>4

LEMMA SendStep ==
    ASSUME AllGood, NEW i \in Server, NEW room \in BOOLEAN, send(i, room)
    PROVE  Sound /\ Calmly
<1> DEFINE n == node[i]
           msgs == Tail(n.msgs)
           service == IF room THEN receive(n.service, Head(n.msgs)) ELSE Nil
           f == [n EXCEPT !.msgs = msgs, !.service = service]
<1>1. Good(n) /\ IsNode(n) /\ DOMAIN node = Server
  BY Given
<1>2. node' = [node EXCEPT ![i] = f] /\ requests' = requests /\ replies' = replies
  BY Zenon, <1>1 DEF send
<1> HIDE DEF msgs, service
<1>3. /\ IsNode(f) /\ f.role = n.role /\ f.currentTerm = n.currentTerm /\ f.votedFor = n.votedFor
      /\ f.votes = n.votes /\ f.counting = n.counting /\ f.storage = n.storage /\ f.waiting = n.waiting
      /\ f.commitIndex = n.commitIndex /\ f.lastApplied = n.lastApplied /\ f.snapPending = n.snapPending
  BY Zenon, <1>1 DEF IsNode
<1> HIDE DEF f
<1>4. f.waiting => Idle(f)
  BY <1>1, <1>3 DEF Good, Idle
<1>5. Good(f) /\ Calm(n, f)
  BY <1>1, <1>3, <1>4, OtherFields
<1>6. QED
  BY Zenon, <1>2, <1>5, FrameCalm, Given

-----------------------------------------------------------------------------
(* Crashes. *)

\* A node that starts from what was stored.
LEMMA NewNodeFacts ==
    ASSUME NEW storage, IsStorage(storage), NEW epoch
    PROVE  LET f == NewNode(storage, epoch) IN
           /\ Good(f) /\ f.role = Follower /\ f.votes = {} /\ f.counting = {}
           /\ f.currentTerm = loadFromStorage(storage).currentTerm
           /\ f.votedFor = loadFromStorage(storage).votedFor
<1> DEFINE loaded == loadFromStorage(storage)
           f == NewNode(storage, epoch)
<1>1. loaded.currentTerm \in Nat /\ loaded.votedFor \in Server \cup {Nil}
  BY DEF loadFromStorage, IsStorage
<1>2. PICK log, zero, index :
        f = [role |-> Follower, currentTerm |-> loaded.currentTerm, votedFor |-> loaded.votedFor,
             log |-> log, nextIndex |-> zero, matchIndex |-> zero,
             commitIndex |-> index, lastApplied |-> index, snapPending |-> FALSE,
             electing |-> {}, counting |-> {}, votes |-> {}, waiting |-> FALSE, msgs |-> <<>>,
             service |-> log.snapshot, epoch |-> epoch, storage |-> storage]
  BY Zenon DEF NewNode
<1> HIDE DEF f, loaded
<1>3. IsNode(f)
  BY <1>1, <1>2 DEF IsNode, Votes
<1>4. Stored(f) /\ ~f.waiting
  BY <1>2 DEF Stored, loaded
<1>5. QED
  BY <1>2, <1>3, <1>4 DEF Good, f, loaded

LEMMA BootStep ==
    ASSUME AllGood, NEW i \in Server, NEW storage, IsStorage(storage), Boot(i, storage),
           NEW g, IsNode(g), Calm(node[i], g),
           loadFromStorage(storage).currentTerm = g.currentTerm,
           loadFromStorage(storage).votedFor = g.votedFor
    PROVE  Sound /\ Calmly
<1> DEFINE f == NewNode(storage, node[i].epoch + 1)
<1>1. node' = [node EXCEPT ![i] = f] /\ requests' = requests /\ replies' = replies
  BY DEF Boot
<1>2. /\ Good(f) /\ f.role = Follower /\ f.votes = {} /\ f.counting = {}
      /\ f.currentTerm = g.currentTerm /\ f.votedFor = g.votedFor
  BY NewNodeFacts
<1> HIDE DEF f
<1>3. Calm(node[i], f)
  BY <1>2 DEF Calm, Evolves
<1>4. QED
  BY Zenon, <1>1, <1>2, <1>3, FrameCalm, Given

LEMMA RestartStep ==
    ASSUME AllGood, NEW i \in Server, Restart(i)
    PROVE  Sound /\ Calmly
<1>1. Good(node[i]) /\ IsNode(node[i]) /\ IsStorage(node[i].storage)
  BY Given, NodeFields
<1>2. Boot(i, node[i].storage) /\ Calm(node[i], node[i])
  BY <1>1, SameCalm DEF Restart
<1>3. QED
  BY <1>1, <1>2, BootStep DEF Good, Stored

\* A crash after the state was written and before the snapshot was.
LEMMA CrashInPersistStep ==
    ASSUME AllGood, NEW i \in Server, crashInPersist(i)
    PROVE  Sound /\ Calmly
<1>1. PICK n \in Cutting(i) : Boot(i, SaveRaftState(n.storage, n))
  BY DEF crashInPersist
<1>2. Good(node[i])
  BY Given
<1>3. \E g, l : Good(g) /\ Calm(node[i], g) /\ n = [g EXCEPT !.log = l]
  <2>1. CASE n = takeSnapshot(node[i]) /\ Snapshots(node[i])
    BY Zenon, <1>2, <2>1, SameCalm DEF Good, takeSnapshot
  <2>2. CASE \E m \in requests : m.type = "InstallSnapshot" /\ n = installed(node[i], m.req)
    <3>1. PICK m \in requests : m.type = "InstallSnapshot" /\ n = installed(node[i], m.req)
      BY <2>2
    <3> DEFINE k == node[i]
               req == m.req
    <3>2. Good(k) /\ req.Term \in Nat /\ n = installed(k, req)
      BY <1>2, <3>1, Given
    <3> HIDE DEF k, req
    <3>3. \E g, l : Good(g) /\ Calm(k, g) /\ installed(k, req) = [g EXCEPT !.log = l]
      BY <3>2, InstalledFacts, Zenon
    <3>4. QED
      BY Zenon, <3>2, <3>3 DEF k
  <2>3. QED
    BY <1>1, <2>1, <2>2 DEF Cutting
<1>4. PICK g, l : Good(g) /\ Calm(node[i], g) /\ n = [g EXCEPT !.log = l]
  BY Zenon, <1>3
<1>5. /\ IsNode(n) /\ n.role = g.role /\ n.currentTerm = g.currentTerm /\ n.votedFor = g.votedFor
      /\ n.votes = g.votes /\ n.counting = g.counting
  BY <1>4 DEF Good, IsNode
<1>6. Calm(node[i], n)
  BY <1>4, <1>5 DEF Calm, Evolves
<1>7. QED
  BY <1>1, <1>5, <1>6, SaveFacts, BootStep DEF IsNode

-----------------------------------------------------------------------------
(* Votes. *)

\* j's vote for i in term t, cast in this step and the only one of the term.
Cast(j, i, t) ==
    /\ node'[j].currentTerm = t /\ node'[j].votedFor = i
    /\ \A k \in Server : HoldsVote(j, k, t) => k = i

\* What a step may do to the votes.
Fair ==
    /\ \A j, i \in Server, t \in Nat : HoldsVote(j, i, t)' => HoldsVote(j, i, t) \/ Cast(j, i, t)
    /\ \A i \in Server :
          /\ node'[i].role # Follower => node'[i].votedFor = i
          /\ IsLeader(i)' => IsMajority(VotesFor(i, node[i].currentTerm))'

\* Such a step keeps the votes unique and remembered.
LEMMA FairKeepsVotes ==
    ASSUME AllGood, VoteInv, Sound, Fair
    PROVE  VoteInv'
<1>1. \A j \in Server : node[j].currentTerm \in Nat /\ node'[j].currentTerm \in Nat
  BY NodeFields DEF Sound, AllGood, TypeOK
<1>2. ASSUME NEW j \in Server, NEW i \in Server, NEW t \in Nat, HoldsVote(j, i, t)'
      PROVE  \/ node'[j].currentTerm > t
             \/ node'[j].currentTerm = t /\ node'[j].votedFor = i
  <2>1. CASE Cast(j, i, t)
    BY <2>1 DEF Cast
  <2>2. CASE HoldsVote(j, i, t)
    <3>1. node[j].currentTerm > t \/ (node[j].currentTerm = t /\ node[j].votedFor = i)
      BY <2>2 DEF VoteInv
    <3>2. /\ node'[j].currentTerm >= node[j].currentTerm
          /\ node'[j].currentTerm = node[j].currentTerm =>
                (node[j].votedFor # Nil => node'[j].votedFor = node[j].votedFor)
      BY Zenon DEF Sound, Evolves
    <3>3. i # Nil
      BY NodeAssumption
    <3>4. QED
      BY <1>1, <3>1, <3>2, <3>3
  <2>3. QED
    BY <1>2, <2>1, <2>2 DEF Fair
<1>3. ASSUME NEW j \in Server, NEW i \in Server, NEW k \in Server, NEW t \in Nat,
             HoldsVote(j, i, t)', HoldsVote(j, k, t)'
      PROVE  i = k
  <2>1. HoldsVote(j, i, t) \/ Cast(j, i, t)
    BY <1>3 DEF Fair
  <2>2. HoldsVote(j, k, t) \/ Cast(j, k, t)
    BY <1>3 DEF Fair
  <2>3. QED
    BY <2>1, <2>2 DEF Cast, VoteInv
<1> DEFINE Remembered == \A j, i \in Server, t \in Nat :
              HoldsVote(j, i, t) =>
                  \/ node[j].currentTerm > t
                  \/ node[j].currentTerm = t /\ node[j].votedFor = i
           Unique == \A j, i, k \in Server, t \in Nat : HoldsVote(j, i, t) /\ HoldsVote(j, k, t) => i = k
           Elected == \A i \in Server :
              /\ node[i].role # Follower => node[i].votedFor = i
              /\ IsLeader(i) => IsMajority(VotesFor(i, node[i].currentTerm))
<1>4. Elected'
  BY DEF Fair
<1>5. Remembered'
  BY <1>2
<1>6. Unique'
  BY <1>3
<1>7. QED
  BY <1>4, <1>5, <1>6 DEF VoteInv

\* Steps outside elections cast no vote.
LEMMA CalmIsFair ==
    ASSUME VoteInv, Calmly
    PROVE  Fair
<1>1. ASSUME NEW j \in Server, NEW i \in Server, NEW t \in Nat, HoldsVote(j, i, t)'
      PROVE  HoldsVote(j, i, t)
  <2>1. CASE <<t, j>> \in node'[i].votes \cup node'[i].counting
    BY <2>1 DEF Calmly, Calm, HoldsVote
  <2>2. CASE \E r \in replies' : /\ r.type = "RequestVote" /\ r.resp.VoteGranted
                                 /\ r.from = j /\ r.to = i /\ r.req.Term = t
    BY <2>2 DEF Calmly, HoldsVote
  <2>3. QED
    BY <1>1, <2>1, <2>2 DEF HoldsVote
<1>2. ASSUME NEW i \in Server
      PROVE  /\ node'[i].role # Follower => node'[i].votedFor = i
             /\ IsLeader(i)' => IsMajority(VotesFor(i, node[i].currentTerm))'
  <2>1. /\ node[i].role # Follower => node[i].votedFor = i
        /\ IsLeader(i) => IsMajority(VotesFor(i, node[i].currentTerm))
    BY DEF VoteInv
  <2>2. Calm(node[i], node'[i])
    BY DEF Calmly
  <2>3. ASSUME node'[i].role # Follower
        PROVE  /\ node'[i].role = node[i].role /\ node'[i].votedFor = node[i].votedFor
               /\ VotesFor(i, node[i].currentTerm)' = VotesFor(i, node[i].currentTerm)
    BY <2>2, <2>3 DEF Calm, VotesFor
  <2>4. QED
    BY <2>1, <2>3, Roles DEF IsLeader, IsMajority
<1>3. QED
  BY <1>1, <1>2 DEF Fair

\* One node changes, and possibly a RequestVote is answered by r.
LEMMA FairFrame ==
    ASSUME AllGood, VoteInv, NEW i \in Server, NEW f, node' = [node EXCEPT ![i] = f],
           f.role # Follower => f.votedFor = i,
           f.role = Leader => IsMajority({p \in Server : <<f.currentTerm, p>> \in f.votes}),
           \A j \in Server, t \in Nat :
               <<t, j>> \in f.votes \cup f.counting => HoldsVote(j, i, t) \/ Cast(j, i, t),
           \A r \in replies' :
               r.type = "RequestVote" /\ r.resp.VoteGranted
                   => r \in replies \/ Cast(r.from, r.to, r.req.Term)
    PROVE  Fair
<1>1. DOMAIN node = Server
  BY Given
<1>2. node'[i] = f /\ \A k \in Server : k # i => node'[k] = node[k]
  BY <1>1
<1>3. ASSUME NEW j \in Server, NEW k \in Server, NEW t \in Nat, HoldsVote(j, k, t)'
      PROVE  HoldsVote(j, k, t) \/ Cast(j, k, t)
  <2>1. CASE <<t, j>> \in node'[k].votes \cup node'[k].counting
    <3>1. CASE k = i
      BY <1>2, <2>1, <3>1
    <3>2. CASE k # i
      BY <1>2, <2>1, <3>2 DEF HoldsVote
    <3>3. QED
      BY <3>1, <3>2
  <2>2. CASE \E r \in replies' : /\ r.type = "RequestVote" /\ r.resp.VoteGranted
                                 /\ r.from = j /\ r.to = k /\ r.req.Term = t
    BY <2>2 DEF HoldsVote
  <2>3. QED
    BY <1>3, <2>1, <2>2 DEF HoldsVote
<1>4. ASSUME NEW k \in Server
      PROVE  /\ node'[k].role # Follower => node'[k].votedFor = k
             /\ IsLeader(k)' => IsMajority(VotesFor(k, node[k].currentTerm))'
  <2>1. CASE k = i
    BY Zenon, <1>2, <2>1 DEF IsLeader, VotesFor, IsMajority
  <2>2. CASE k # i
    <3>1. node'[k] = node[k]
      BY <1>2, <2>2
    <3>2. VotesFor(k, node[k].currentTerm)' = VotesFor(k, node[k].currentTerm)
      BY <3>1 DEF VotesFor
    <3>3. QED
      BY <3>1, <3>2 DEF IsLeader, VoteInv, IsMajority
  <2>3. QED
    BY <2>1, <2>2
<1>5. QED
  BY <1>3, <1>4 DEF Fair

-----------------------------------------------------------------------------
(* The actions of an election. *)

LEMMA ElectionTickerStep ==
    ASSUME AllGood, VoteInv, NEW i \in Server, electionTicker(i)
    PROVE  Sound /\ Fair
<1> DEFINE n == node[i]
           t == n.currentTerm + 1
           g == [n EXCEPT !.role = Candidate, !.currentTerm = t, !.votedFor = i]
           c == persistLocked(g)
           e == c.electing \cup {c.currentTerm}
           f == [c EXCEPT !.electing = e]
<1>1. Good(n) /\ IsNode(n) /\ n.currentTerm \in Nat
  BY Given, NodeFields
<1>2. c = becomeCandidateLocked(n, i)
  BY <1>1 DEF becomeCandidateLocked
<1>3. node' = [node EXCEPT ![i] = f] /\ requests' = requests /\ replies' = replies
  BY Zenon, <1>2 DEF electionTicker
<1>4. t \in Nat /\ t > n.currentTerm
  BY <1>1
<1> HIDE DEF t
<1>5. /\ IsNode(g) /\ g.role = Candidate /\ g.currentTerm = t /\ g.votedFor = i
      /\ g.votes = n.votes /\ g.counting = n.counting /\ g.waiting = n.waiting
      /\ g.commitIndex = n.commitIndex /\ g.lastApplied = n.lastApplied /\ g.snapPending = n.snapPending
  BY Zenon, <1>1, <1>4 DEF IsNode
<1> HIDE DEF g
<1>6. g.waiting => Idle(g)
  <2>1. n.waiting => n.commitIndex <= n.lastApplied /\ ~n.snapPending
    BY <1>1 DEF Good, Idle
  <2>2. QED
    BY <1>5, <2>1, Zenon DEF Idle
<1>7. /\ Good(c) /\ c.role = Candidate /\ c.currentTerm = t /\ c.votedFor = i
      /\ c.votes = n.votes /\ c.counting = n.counting
  BY <1>5, <1>6, PersistGood
<1> HIDE DEF c
<1>8. e \in SUBSET Nat /\ IsNode(c)
  BY <1>4, <1>7, NodeFields DEF Good
<1> HIDE DEF e
<1>9. /\ IsNode(f) /\ f.role = c.role /\ f.currentTerm = c.currentTerm /\ f.votedFor = c.votedFor
      /\ f.votes = c.votes /\ f.counting = c.counting /\ f.storage = c.storage /\ f.waiting = c.waiting
      /\ f.commitIndex = c.commitIndex /\ f.lastApplied = c.lastApplied /\ f.snapPending = c.snapPending
  BY <1>8 DEF IsNode
<1> HIDE DEF f
<1>10. f.waiting => Idle(f)
  BY <1>7, <1>9 DEF Good, Idle
<1>11. Good(f)
  BY <1>7, <1>9, <1>10, OtherFields
<1>12. Evolves(n, f)
  BY <1>1, <1>4, <1>7, <1>9 DEF Evolves
<1>13. Sound
  BY Zenon, <1>3, <1>11, <1>12, FrameSound, Given
<1>14. \A j \in Server, u \in Nat : <<u, j>> \in f.votes \cup f.counting => HoldsVote(j, i, u)
  BY <1>7, <1>9 DEF HoldsVote
<1>15. Fair
  BY Zenon, <1>3, <1>7, <1>9, <1>14, Roles, FairFrame
<1>16. QED
  BY <1>13, <1>15

LEMMA StartElectionStep ==
    ASSUME AllGood, VoteInv, NEW i \in Server, NEW term \in node[i].electing, startElection(i, term)
    PROVE  Sound /\ Fair
<1> DEFINE n == node[i]
           e == n.electing \ {term}
           h == [n EXCEPT !.electing = e]
           over == contextLostLocked(h, Candidate, term)
           v == IF over THEN n.votes ELSE n.votes \cup {<<term, i>>}
           f == [n EXCEPT !.electing = e, !.votes = v]
           req == [Term |-> term, LastLogIndex |-> lastIndex(h.log), LastLogTerm |-> lastTerm(h.log)]
           new == {Request(i, p, "RequestVote", req) : p \in Server \ {i}}
<1>1. Good(n) /\ IsNode(n) /\ n.currentTerm \in Nat /\ DOMAIN node = Server /\ term \in Nat
  BY Given, NodeFields
<1>2. e \in SUBSET Nat /\ v \in Votes /\ v \subseteq n.votes \cup {<<term, i>>} /\ n.votes \subseteq v
  BY <1>1, NodeFields DEF Votes
<1>3. over = ~(n.currentTerm = term /\ n.role = Candidate)
  BY <1>1 DEF contextLostLocked, IsNode
<1>4. f = IF over THEN h ELSE [h EXCEPT !.votes = @ \cup {<<term, i>>}]
  BY Zenon, <1>1 DEF IsNode
<1>5. node' = [node EXCEPT ![i] = f] /\ replies' = replies
  BY <1>4 DEF startElection
<1>6. requests' = requests \/ Call(new)
  BY DEF startElection
<1>7. over => v = n.votes
  OBVIOUS
<1> HIDE DEF over
<1>8. \A m \in new : IsRequest(m)
  BY <1>1 DEF Request, IsRequest
<1> HIDE DEF new
<1>9. \A m \in requests' : IsRequest(m)
  BY <1>6, <1>8, CallTypes, Given
<1> HIDE DEF e, v
<1>10. /\ IsNode(f) /\ f.role = n.role /\ f.currentTerm = n.currentTerm /\ f.votedFor = n.votedFor
       /\ f.votes = v /\ f.counting = n.counting /\ f.storage = n.storage /\ f.waiting = n.waiting
       /\ f.commitIndex = n.commitIndex /\ f.lastApplied = n.lastApplied /\ f.snapPending = n.snapPending
  BY ZenonT(60), <1>1, <1>2 DEF IsNode
<1> HIDE DEF f
<1>11. Good(f) /\ Evolves(n, f)
  BY <1>1, <1>10 DEF Good, Stored, Idle, Evolves
<1>12. Sound
  BY Zenon, <1>5, <1>9, <1>11, FrameSound, Given
<1>13. /\ n.role # Follower => n.votedFor = i
       /\ n.role = Leader => IsMajority(VotesFor(i, n.currentTerm))
  BY DEF VoteInv, IsLeader
<1>14. n.role = Leader => v = n.votes
  BY Zenon, <1>3, <1>7, Roles
<1>15. n.role = Leader => {p \in Server : <<f.currentTerm, p>> \in f.votes} = VotesFor(i, n.currentTerm)
  BY Zenon, <1>10, <1>14 DEF VotesFor
<1>16. ASSUME ~over PROVE Cast(i, i, term)
  <2>1. n.currentTerm = term /\ n.votedFor = i /\ node'[i] = f
    BY Zenon, <1>1, <1>3, <1>5, <1>13, <1>16, Roles
  <2>2. ASSUME NEW k \in Server, HoldsVote(i, k, term) PROVE k = i
    <3>1. n.currentTerm > term \/ (n.currentTerm = term /\ n.votedFor = k)
      BY <1>1, <2>2 DEF VoteInv
    <3>2. QED
      BY <1>1, <2>1, <3>1
  <2>3. QED
    BY <1>10, <2>1, <2>2 DEF Cast
<1>17. ASSUME NEW j \in Server, NEW u \in Nat, <<u, j>> \in f.votes \cup f.counting
       PROVE  HoldsVote(j, i, u) \/ Cast(j, i, u)
  <2>1. CASE <<u, j>> \in n.votes \cup n.counting
    BY <2>1 DEF HoldsVote
  <2>2. CASE ~over /\ u = term /\ j = i
    BY <1>16, <2>2
  <2>3. QED
    BY Zenon, <1>2, <1>7, <1>10, <1>17, <2>1, <2>2
<1>18. Fair
  BY Zenon, <1>5, <1>10, <1>13, <1>15, <1>17, FairFrame
<1>19. QED
  BY <1>12, <1>18

LEMMA HandleRequestVoteStep ==
    ASSUME AllGood, VoteInv, NEW m \in requests, HandleRequestVote(m)
    PROVE  Sound /\ Fair
<1> DEFINE j == m.to
           t == m.req.Term
           old == node[j].currentTerm
           n == IF t > old THEN becomeFollowerLocked(node[j], t) ELSE node[j]
           granted == /\ t >= old
                      /\ mayVote(n, m.from)
                      /\ ~isMoreUpToDateLocked(n, m.req.LastLogIndex, m.req.LastLogTerm)
           g == [n EXCEPT !.votedFor = m.from]
           f == IF granted THEN persistLocked(g) ELSE n
           resp == [Term |-> n.currentTerm, VoteGranted |-> granted]
<1>1. j \in Server /\ m.from \in Server /\ t \in Nat /\ DOMAIN node = Server
  BY Given
<1>2. Good(node[j]) /\ IsNode(node[j]) /\ old \in Nat
  BY <1>1, Given, NodeFields
<1>3. /\ Good(n) /\ Evolves(node[j], n) /\ n.votes = node[j].votes /\ n.counting = node[j].counting
      /\ t > old => n.role = Follower /\ n.currentTerm = t
      /\ ~(t > old) => n = node[j]
  <2>1. CASE t > old
    <3>1. n = becomeFollowerLocked(node[j], t) /\ t >= old /\ ~(t < old)
      BY <1>1, <1>2, <2>1
    <3>2. QED
      BY ZenonT(60), <1>1, <1>2, <2>1, <3>1, FollowerFacts DEF Calm
  <2>2. CASE ~(t > old)
    <3>1. n = node[j]
      BY <2>2
    <3>2. QED
      BY <1>2, <2>2, <3>1, SameCalm DEF Calm
  <2>3. QED
    BY Zenon, <2>1, <2>2
<1>4. m.type = "RequestVote" /\ node' = [node EXCEPT ![j] = f] /\ Answer(m, resp) /\ requests' \subseteq requests
  BY Zenon DEF HandleRequestVote
<1>5. granted => t >= old /\ n.votedFor \in {Nil, m.from}
  BY Zenon DEF mayVote
<1> HIDE DEF n, granted
<1>6. IsNode(n) /\ n.currentTerm \in Nat
  BY <1>3, NodeFields DEF Good
<1>7. /\ IsNode(g) /\ g.role = n.role /\ g.currentTerm = n.currentTerm /\ g.votedFor = m.from
      /\ g.votes = n.votes /\ g.counting = n.counting /\ g.waiting = n.waiting
      /\ g.commitIndex = n.commitIndex /\ g.lastApplied = n.lastApplied /\ g.snapPending = n.snapPending
  BY <1>1, <1>6 DEF IsNode
<1> HIDE DEF g
<1>8. g.waiting => Idle(g)
  BY <1>3, <1>7 DEF Good, Idle
<1>9. /\ Good(f) /\ f.role = n.role /\ f.currentTerm = n.currentTerm
      /\ f.votes = n.votes /\ f.counting = n.counting
      /\ granted => f.votedFor = m.from
      /\ ~granted => f = n
  <2>1. CASE granted
    BY <1>7, <1>8, <2>1, PersistGood
  <2>2. CASE ~granted
    BY <1>3, <2>2
  <2>3. QED
    BY <2>1, <2>2
<1> HIDE DEF f
<1>10. Evolves(node[j], f)
  <2>1. CASE granted
    <3>1. n.votedFor # Nil => n.votedFor = f.votedFor
      BY <1>5, <1>9, <2>1
    <3>2. n.currentTerm >= old /\ (n.currentTerm = old /\ node[j].votedFor # Nil => n.votedFor = node[j].votedFor)
      BY <1>3 DEF Evolves
    <3>3. QED
      BY <1>2, <1>6, <1>9, <3>1, <3>2 DEF Evolves
  <2>2. QED
    BY <1>3, <1>9, <2>1
<1>11. resp.Term \in Nat /\ resp.VoteGranted = granted
  BY <1>6
<1> HIDE DEF resp
<1>12. /\ \A r \in replies' : IsReply(r)
       /\ \A r \in replies' : r \in replies
            \/ (r.type = m.type /\ r.from = m.to /\ r.to = m.from /\ r.req = m.req /\ r.resp = resp)
  BY <1>4, <1>11, AnswerTypes
<1>13. Sound
  <2>1. \A q \in requests' : IsRequest(q)
    BY <1>4, Given
  <2> HIDE DEF j
  <2>2. QED
    BY Zenon, <1>1, <1>4, <1>9, <1>10, <1>12, <2>1, FrameSound
<1>14. node'[j] = f
  BY <1>1, <1>4
<1>15. ASSUME granted PROVE Cast(j, m.from, t)
  <2>1. f.currentTerm = t /\ f.votedFor = m.from
    BY <1>1, <1>2, <1>3, <1>5, <1>9, <1>15
  <2>2. ASSUME NEW k \in Server, HoldsVote(j, k, t) PROVE k = m.from
    <3>1. node[j].currentTerm > t \/ (node[j].currentTerm = t /\ node[j].votedFor = k)
      BY <1>1, <2>2 DEF VoteInv
    <3>2. old = t /\ node[j].votedFor = k
      BY <1>1, <1>2, <1>5, <1>15, <3>1
    <3>3. n = node[j]
      BY <1>1, <1>2, <1>3, <3>2
    <3>4. QED
      BY <1>5, <1>15, <3>2, <3>3, NodeAssumption
  <2>3. QED
    BY <1>14, <2>1, <2>2 DEF Cast
<1>16. \A r \in replies' : r.type = "RequestVote" /\ r.resp.VoteGranted
          => r \in replies \/ Cast(r.from, r.to, r.req.Term)
  BY <1>11, <1>12, <1>15
<1>17. node[j].role # Follower => node[j].votedFor = j
  BY <1>1 DEF VoteInv
<1>18. ASSUME f.role # Follower
       PROVE  /\ f.role = node[j].role /\ f.currentTerm = node[j].currentTerm /\ f.votedFor = j
              /\ f.votes = node[j].votes
  <2>1. n = node[j]
    BY <1>3, <1>9, <1>18
  <2>2. granted => m.from = j
    BY <1>1, <1>5, <1>9, <1>17, <1>18, <2>1, NodeAssumption
  <2>3. QED
    BY <1>9, <1>17, <1>18, <2>1, <2>2
<1>19. f.role = Leader => IsMajority({p \in Server : <<f.currentTerm, p>> \in f.votes})
  <2>1. HAVE f.role = Leader
  <2>2. IsMajority(VotesFor(j, node[j].currentTerm))
    BY Zenon, <1>1, <1>18, <2>1, Roles DEF VoteInv, IsLeader
  <2>3. VotesFor(j, node[j].currentTerm) = {p \in Server : <<f.currentTerm, p>> \in f.votes}
    BY <1>18, <2>1, Roles DEF VotesFor
  <2>4. QED
    BY <2>2, <2>3
<1>20. \A k \in Server, u \in Nat : <<u, k>> \in f.votes \cup f.counting => HoldsVote(k, j, u)
  BY Zenon, <1>3, <1>9 DEF HoldsVote
<1>21. Fair
  <2> HIDE DEF j
  <2>1. QED
    BY Zenon, <1>1, <1>4, <1>16, <1>18, <1>19, <1>20, FairFrame
<1>22. QED
  BY <1>13, <1>21

LEMMA VoteReturnedStep ==
    ASSUME AllGood, VoteInv, NEW r \in replies, voteReturned(r)
    PROVE  Sound /\ Fair
<1> DEFINE i == r.to
           n == node[i]
           c == n.counting \cup {<<r.req.Term, r.from>>}
           g == [n EXCEPT !.counting = c]
           late == contextLostLocked(n, Candidate, r.req.Term) \/ ~r.resp.VoteGranted
           f == IF r.resp.Term > n.currentTerm THEN becomeFollowerLocked(n, r.resp.Term)
                ELSE IF late THEN n ELSE g
<1>1. i \in Server /\ r.from \in Server /\ r.resp.Term \in Nat /\ r.req.Term \in Nat
  BY Given
<1>2. Good(n) /\ IsNode(n) /\ n.currentTerm \in Nat
  BY <1>1, Given, NodeFields
<1>3. /\ r.type = "RequestVote" /\ node' = [node EXCEPT ![i] = f]
      /\ requests' = requests /\ replies' \subseteq replies
  BY DEF voteReturned
<1>4. /\ Good(f) /\ Evolves(n, f)
      /\ f.role # Follower => f.role = n.role /\ f.currentTerm = n.currentTerm /\ f.votedFor = n.votedFor
      /\ f.votes = n.votes
      /\ f.counting = n.counting \/ (f.counting = c /\ r.resp.VoteGranted)
  <2>1. CASE r.resp.Term > n.currentTerm
    <3>1. f = becomeFollowerLocked(n, r.resp.Term)
      BY <2>1, Zenon
    <3> HIDE DEF f
    <3>2. QED
      BY ZenonT(60), <1>1, <1>2, <3>1, FollowerFacts DEF Calm
  <2>2. CASE ~(r.resp.Term > n.currentTerm) /\ late
    <3>1. f = n
      BY <2>2, Zenon
    <3> HIDE DEF f
    <3>2. QED
      BY <1>2, <3>1, SameCalm DEF Calm
  <2>3. CASE ~(r.resp.Term > n.currentTerm) /\ ~late
    <3>1. f = g /\ r.resp.VoteGranted
      BY <2>3, Zenon
    <3> HIDE DEF f, late
    <3>2. c \in Votes
      BY <1>1, <1>2, NodeFields DEF Votes
    <3> HIDE DEF c
    <3>3. /\ IsNode(g) /\ g.role = n.role /\ g.currentTerm = n.currentTerm /\ g.votedFor = n.votedFor
          /\ g.votes = n.votes /\ g.counting = c /\ g.storage = n.storage /\ g.waiting = n.waiting
          /\ g.commitIndex = n.commitIndex /\ g.lastApplied = n.lastApplied /\ g.snapPending = n.snapPending
      BY Zenon, <1>2, <3>2 DEF IsNode
    <3> HIDE DEF g
    <3>4. Good(g) /\ Evolves(n, g)
      BY <1>2, <3>3 DEF Good, Stored, Idle, Evolves
    <3>5. QED
      BY Zenon, <3>1, <3>3, <3>4
  <2>4. QED
    BY Zenon, <2>1, <2>2, <2>3
<1> HIDE DEF f
<1>5. \A j \in Server, u \in Nat : <<u, j>> \in f.votes \cup f.counting => HoldsVote(j, i, u)
  BY <1>3, <1>4 DEF HoldsVote
<1>6. /\ n.role # Follower => n.votedFor = i
      /\ n.role = Leader => IsMajority(VotesFor(i, n.currentTerm))
  BY <1>1 DEF VoteInv, IsLeader
<1>7. f.role = Leader => IsMajority({p \in Server : <<f.currentTerm, p>> \in f.votes})
  <2>1. HAVE f.role = Leader
  <2>2. VotesFor(i, n.currentTerm) = {p \in Server : <<f.currentTerm, p>> \in f.votes}
    BY Zenon, <1>4, <2>1, Roles DEF VotesFor
  <2>3. QED
    BY Zenon, <1>4, <1>6, <2>1, <2>2, Roles
<1>8. f.role # Follower => f.votedFor = i
  BY Zenon, <1>4, <1>6
<1> HIDE DEF i
<1>9. Sound
  BY Zenon, <1>1, <1>3, <1>4, FrameSound, Given DEF n
<1>10. Fair
  BY Zenon, <1>1, <1>3, <1>5, <1>7, <1>8, FairFrame
<1>11. QED
  BY <1>9, <1>10

LEMMA LargerMajority ==
    ASSUME NEW V, NEW W \in SUBSET Server, V \subseteq W, IsMajority(V)
    PROVE  IsMajority(W)
<1>1. IsFiniteSet(Server) /\ IsFiniteSet(W)
  BY NodeAssumption, FS_Subset
<1>2. IsFiniteSet(V) /\ Cardinality(V) <= Cardinality(W)
  BY <1>1, FS_Subset
<1>3. Cardinality(V) \in Nat /\ Cardinality(W) \in Nat /\ Cardinality(Server) \in Nat
  BY <1>1, <1>2, FS_CardinalityType
<1>4. QED
  BY <1>2, <1>3 DEF IsMajority

LEMMA CountVoteStep ==
    ASSUME AllGood, VoteInv, NEW i \in Server, NEW vote \in node[i].counting, countVote(i, vote)
    PROVE  Sound /\ Fair
<1> DEFINE n == node[i]
           c == n.counting \ {vote}
           v == n.votes \cup {vote}
           h == [n EXCEPT !.counting = c, !.votes = v]
           won == IsMajority({p \in Server : <<vote[1], p>> \in h.votes})
           next == [p \in Server |-> size(h.log)]
           zero == [p \in Server |-> 0]
           l == [h EXCEPT !.role = Leader, !.nextIndex = next, !.matchIndex = zero]
           takes == won /\ h.role = Candidate /\ h.currentTerm = vote[1]
           f == IF takes THEN l ELSE h
<1>1. Good(n) /\ IsNode(n) /\ n.currentTerm \in Nat /\ DOMAIN node = Server
  BY Given, NodeFields
<1>2. vote \in Nat \X Server /\ c \in Votes /\ v \in Votes
  BY <1>1, NodeFields DEF Votes
<1>3. /\ node' = [node EXCEPT ![i] = f] /\ requests' = requests /\ replies' = replies
  BY <1>1 DEF countVote, becomeLeaderLocked
<1>4. c \subseteq n.counting /\ v \subseteq n.votes \cup n.counting /\ n.votes \subseteq v
  OBVIOUS
<1> HIDE DEF c, v
<1>5. /\ IsNode(h) /\ h.role = n.role /\ h.currentTerm = n.currentTerm /\ h.votedFor = n.votedFor
      /\ h.votes = v /\ h.counting = c /\ h.storage = n.storage /\ h.waiting = n.waiting
      /\ h.commitIndex = n.commitIndex /\ h.lastApplied = n.lastApplied /\ h.snapPending = n.snapPending
  BY ZenonT(60), <1>1, <1>2 DEF IsNode
<1> HIDE DEF h
<1> HIDE DEF next, zero
<1>7. /\ IsNode(l) /\ l.role = Leader /\ l.currentTerm = h.currentTerm /\ l.votedFor = h.votedFor
      /\ l.votes = h.votes /\ l.counting = h.counting /\ l.storage = h.storage /\ l.waiting = h.waiting
      /\ l.commitIndex = h.commitIndex /\ l.lastApplied = h.lastApplied /\ l.snapPending = h.snapPending
  BY Zenon, <1>5 DEF IsNode
<1>8. (f = l /\ takes) \/ f = h
  OBVIOUS
<1>9. takes => /\ IsMajority({p \in Server : <<vote[1], p>> \in v})
               /\ n.role = Candidate /\ n.currentTerm = vote[1]
  BY <1>5
<1> HIDE DEF l, f, takes
<1>10. /\ IsNode(f) /\ f.currentTerm = n.currentTerm /\ f.votedFor = n.votedFor
       /\ f.votes = v /\ f.counting = c /\ f.storage = n.storage /\ f.waiting = n.waiting
       /\ f.commitIndex = n.commitIndex /\ f.lastApplied = n.lastApplied /\ f.snapPending = n.snapPending
       /\ f.role = n.role \/ (takes /\ f.role = Leader)
  BY Zenon, <1>5, <1>7, <1>8
<1>11. Good(f) /\ Evolves(n, f)
  BY <1>1, <1>10 DEF Good, Stored, Idle, Evolves
<1>12. Sound
  BY Zenon, <1>3, <1>11, FrameSound, Given
<1>13. /\ n.role # Follower => n.votedFor = i
       /\ n.role = Leader => IsMajority(VotesFor(i, n.currentTerm))
  BY DEF VoteInv, IsLeader
<1>14. f.role # Follower => f.votedFor = i
  BY Zenon, <1>9, <1>10, <1>13, Roles
<1>15. f.role = Leader => IsMajority({p \in Server : <<f.currentTerm, p>> \in f.votes})
  <2>1. CASE takes
    BY Zenon, <1>9, <1>10, <2>1
  <2>2. CASE f.role = Leader /\ f.role = n.role
    <3>1. VotesFor(i, n.currentTerm) \subseteq {p \in Server : <<f.currentTerm, p>> \in f.votes}
      BY Zenon, <1>4, <1>10 DEF VotesFor
    <3>2. QED
      BY Zenon, <1>13, <2>2, <3>1, LargerMajority
  <2>3. QED
    BY <1>10, <2>1, <2>2
<1>16. \A j \in Server, u \in Nat : <<u, j>> \in f.votes \cup f.counting => HoldsVote(j, i, u)
  BY Zenon, <1>4, <1>10 DEF HoldsVote
<1>17. Fair
  BY Zenon, <1>3, <1>14, <1>15, <1>16, FairFrame
<1>18. QED
  BY <1>12, <1>17

-----------------------------------------------------------------------------
(* The theorems. *)

\* Before the first step nobody has voted and every apply loop is awake.
LEMMA InitInv == Init => AllGood /\ VoteInv
<1> SUFFICES ASSUME Init PROVE AllGood /\ VoteInv
  OBVIOUS
<1> DEFINE f == NewNode(NewRaftStorage, 0)
<1>1. IsStorage(NewRaftStorage)
  BY DEF NewRaftStorage, IsStorage, Has
<1>2. Good(f) /\ f.role = Follower /\ f.votes = {} /\ f.counting = {}
  BY <1>1, NewNodeFacts
<1>3. node = [i \in Server |-> f] /\ requests = {} /\ replies = {}
  BY DEF Init
<1> HIDE DEF f
<1>4. \A i \in Server : node[i] = f
  BY <1>3
<1>5. TypeOK
  BY <1>2, <1>3, <1>4 DEF TypeOK, Good
<1>6. \A j, i \in Server, t \in Nat : ~HoldsVote(j, i, t)
  BY <1>2, <1>3, <1>4 DEF HoldsVote
<1>7. VoteInv
  BY <1>2, <1>4, <1>6, Roles DEF VoteInv, IsLeader
<1>8. QED
  BY <1>2, <1>4, <1>5, <1>7 DEF AllGood

\* Every action keeps the nodes in order and the votes unique and remembered.
LEMMA NextStep ==
    ASSUME AllGood, VoteInv, Next
    PROVE  Sound /\ Fair
<1>1. ASSUME NEW i \in Server, electionTicker(i) PROVE Sound /\ Fair
  BY <1>1, ElectionTickerStep
<1>2. ASSUME NEW i \in Server, NEW term \in node[i].electing, startElection(i, term) PROVE Sound /\ Fair
  BY <1>2, StartElectionStep
<1>3. ASSUME NEW m \in requests, HandleRequestVote(m) PROVE Sound /\ Fair
  BY <1>3, HandleRequestVoteStep
<1>4. ASSUME NEW r \in replies, voteReturned(r) PROVE Sound /\ Fair
  BY <1>4, VoteReturnedStep
<1>5. ASSUME NEW i \in Server, NEW vote \in node[i].counting, countVote(i, vote) PROVE Sound /\ Fair
  BY <1>5, CountVoteStep
<1>6. ASSUME NEW i \in Server, NEW command \in Command, Start(i, command) PROVE Sound /\ Calmly
  BY <1>6, StartStep
<1>7. ASSUME NEW i \in Server, startReplication(i) PROVE Sound /\ Calmly
  BY <1>7, StartReplicationStep
<1>8. ASSUME NEW m \in requests, HandleAppendEntries(m) PROVE Sound /\ Calmly
  BY <1>8, HandleAppendEntriesStep
<1>9. ASSUME NEW r \in replies, sendAppendEntries(r) PROVE Sound /\ Calmly
  BY <1>9, SendAppendEntriesStep
<1>10. ASSUME NEW i \in Server, Snapshot(i) PROVE Sound /\ Calmly
  BY <1>10, SnapshotStep
<1>11. ASSUME NEW m \in requests, HandleInstallSnapshot(m) PROVE Sound /\ Calmly
  BY <1>11, HandleInstallSnapshotStep
<1>12. ASSUME NEW r \in replies, sendInstallSnapshot(r) PROVE Sound /\ Calmly
  BY <1>12, SendInstallSnapshotStep
<1>13. ASSUME NEW i \in Server, applicationTicker(i) PROVE Sound /\ Calmly
  BY <1>13, ApplicationTickerStep
<1>14. ASSUME NEW i \in Server, NEW room \in BOOLEAN, send(i, room) PROVE Sound /\ Calmly
  BY <1>14, SendStep
<1>15. ASSUME NEW i \in Server, Restart(i) PROVE Sound /\ Calmly
  BY <1>15, RestartStep
<1>16. ASSUME NEW i \in Server, crashInPersist(i) PROVE Sound /\ Calmly
  BY <1>16, CrashInPersistStep
<1>17. QED
  BY Zenon, <1>1, <1>2, <1>3, <1>4, <1>5, <1>6, <1>7, <1>8, <1>9, <1>10, <1>11, <1>12, <1>13, <1>14, <1>15,
     <1>16, CalmIsFair DEF Next

LEMMA NextKeepsInv ==
    ASSUME AllGood, VoteInv, [Next]_vars
    PROVE  AllGood' /\ VoteInv'
<1>1. CASE Next
  BY <1>1, NextStep, FairKeepsVotes DEF Sound
<1>2. CASE UNCHANGED vars
  <2>1. node' = node /\ requests' = requests /\ replies' = replies
    BY <1>2 DEF vars
  <2>2. AllGood'
    BY <2>1 DEF AllGood, TypeOK
  <2>3. VoteInv'
    BY SMTT(60), <2>1 DEF VoteInv, HoldsVote, VotesFor, IsLeader
  <2>4. QED
    BY <2>2, <2>3
<1>3. QED
  BY <1>1, <1>2

\* Two leaders of a term would have a common voter, which has one vote.
LEMMA OneLeader ==
    ASSUME AllGood, VoteInv
    PROVE  ElectionSafety
<1> SUFFICES ASSUME NEW i \in Server, NEW j \in Server, IsLeader(i), IsLeader(j),
                    node[i].currentTerm = node[j].currentTerm
             PROVE  i = j
  BY DEF ElectionSafety
<1> DEFINE t == node[i].currentTerm
           V == VotesFor(i, t)
           W == VotesFor(j, t)
<1>1. t \in Nat /\ V \subseteq Server /\ W \subseteq Server
  BY Given, NodeFields DEF VotesFor
<1>2. 2 * Cardinality(V) > Cardinality(Server) /\ 2 * Cardinality(W) > Cardinality(Server)
  BY DEF VoteInv, IsMajority
<1>3. \A p \in V : HoldsVote(p, i, t)
  BY DEF HoldsVote, VotesFor
<1>4. \A p \in W : HoldsVote(p, j, t)
  BY DEF HoldsVote, VotesFor
<1> HIDE DEF V, W
<1>5. V \cap W # {}
  <2>1. IsFiniteSet(Server) /\ IsFiniteSet(V) /\ IsFiniteSet(W)
    BY <1>1, NodeAssumption, FS_Subset
  <2>2. Cardinality(V) \in Nat /\ Cardinality(W) \in Nat /\ Cardinality(Server) \in Nat
    BY <2>1, FS_CardinalityType
  <2>3. Cardinality(V) + Cardinality(W) > Cardinality(Server)
    BY <1>2, <2>2
  <2>4. QED
    BY <1>1, <2>1, <2>3, FS_MajoritiesIntersect
<1>6. PICK p \in Server : p \in V /\ p \in W
  BY <1>1, <1>5
<1>7. QED
  BY SMTT(60), <1>1, <1>3, <1>4, <1>6 DEF VoteInv

\* NodeInv is an invariant: after every critical section of node.go, and
\* after every crash, the term and the vote are those loadFromStorage would
\* read, each counted vote is remembered by its voter, and a sleeping apply
\* loop has nothing to do.
THEOREM NodeInvariant == Spec => []NodeInv
<1>1. AllGood /\ VoteInv => NodeInv
  BY DEF AllGood, Good, NodeInv, AsleepOnlyWhenIdle
<1>2. QED
  BY <1>1, InitInv, NextKeepsInv, PTL DEF Spec

\* At most one node is leader in a term, whatever the transport loses,
\* repeats or reorders and wherever persistLocked is cut by a crash: two
\* majorities counted by startElection would share a voter.
THEOREM AtMostOneLeader == Spec => []ElectionSafety
<1>1. NodeInv => AllGood /\ VoteInv
  BY DEF AllGood, Good, NodeInv, AsleepOnlyWhenIdle, TypeOK
<1>2. NodeInv => ElectionSafety
  BY <1>1, OneLeader
<1>3. QED
  BY <1>2, NodeInvariant, PTL

\* applicationTicker waits on applyCond only while nothing is committed
\* beyond lastApplied and no snapshot is pending: no wake-up is missed.
THEOREM SleepsOnlyWhenIdle == Spec => []AsleepOnlyWhenIdle
<1>1. NodeInv => AsleepOnlyWhenIdle
  BY DEF NodeInv
<1>2. QED
  BY <1>1, NodeInvariant, PTL

\* A node's term never falls and its vote in a term never changes, across
\* becomeFollowerLocked, HandleRequestVote, restarts and crashes between the
\* two writes of persistLocked.
THEOREM VotesAreKept == Spec => VoteStable
<1> DEFINE Kept == \A i \in Server :
              /\ node'[i].currentTerm >= node[i].currentTerm
              /\ node'[i].currentTerm = node[i].currentTerm /\ node[i].votedFor # Nil
                    => node'[i].votedFor = node[i].votedFor
<1>1. NodeInv => AllGood /\ VoteInv
  BY DEF AllGood, Good, NodeInv, AsleepOnlyWhenIdle, TypeOK
<1>2. NodeInv /\ [Next]_vars => [Kept]_vars
  <2>1. SUFFICES ASSUME NodeInv, Next PROVE Kept
    OBVIOUS
  <2>2. Sound
    BY <1>1, <2>1, NextStep
  <2>3. QED
    BY <2>2 DEF Sound, Evolves
<1>3. QED
  BY <1>2, NodeInvariant, PTL DEF Spec, VoteStable
=============================================================================
