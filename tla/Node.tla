-------------------------------- MODULE Node --------------------------------
(***************************************************************************)
(* The second Raft of the repository, src/raft/node.go, with its storage   *)
(* (storage*.go) and its transports (transport*.go).  It shares RaftLog    *)
(* with the first one and nothing else.  Every action is one critical      *)
(* section of n.mu; what happens between two of them is a separate action. *)
(*                                                                         *)
(* node[i] is the struct Node of node i, with                              *)
(*   storage   what SaveRaftState and SaveSnapshot have stored             *)
(*   electing  terms whose startElection goroutine has not run yet         *)
(*   counting  votes <<term, peer>> past the check under n.mu, not counted *)
(*   votes     votes <<term, peer>> counted by startElection of that term  *)
(*   waiting   applicationTicker sleeps in applyCond.Wait                  *)
(*   msgs      what its round has collected and not yet sent               *)
(*   service   the entries the service has applied, Nil once it missed one *)
(*   epoch     how often the node was restarted                            *)
(* Timers are abstracted: a timeout may expire at any time.                *)
(***************************************************************************)
EXTENDS RaftLog, FiniteSets, FiniteSetsExt

CONSTANTS Server,
          Bytes,        \* the commands that are non-empty byte slices
          Impatient,    \* bound: the nodes whose election timer may expire
          Serving,      \* bound: the nodes whose apply loop gets to run
          Lagging,      \* bound: the nodes whose applyCh may be full
          Compacting,   \* bound: the nodes whose service takes snapshots
          Crashing,     \* bound: the nodes that may be restarted
          MaxTerm,      \* bound: no election timeout in this term
          MaxLog,       \* bound: largest log index a client command gets
          MaxEpoch      \* bound: restarts, of all nodes together

ASSUME NodeAssumption ==
    /\ IsFiniteSet(Server) /\ Server # {} /\ Nil \notin Server
    /\ Bytes \subseteq Command /\ Impatient \subseteq Server /\ Serving \subseteq Server
    /\ Lagging \subseteq Serving /\ Compacting \subseteq Serving /\ Crashing \subseteq Server

VARIABLES node, requests, replies,
          lost          \* a restart has dropped entries of a log

vars == <<node, requests, replies, lost>>

Follower == "Follower"
Candidate == "Candidate"
Leader == "Leader"

-----------------------------------------------------------------------------
(* Storage.  Both implementations map keys to values, and a node uses two
   keys; nothing makes the two writes of persistLocked one. *)

serializeLog(rl) ==
    [snapLastIdx |-> rl.snapLastIdx, snapLastTerm |-> rl.snapLastTerm, tailLog |-> rl.tailLog]

\* The bytes of the snapshot are not part of what serializeLog writes.
deserializeLog(data) ==
    [snapLastIdx |-> data.snapLastIdx, snapLastTerm |-> data.snapLastTerm,
     snapshot |-> <<>>, tailLog |-> data.tailLog]

NewRaftStorage == [key \in {} |-> Nil]

\* Get finds the key, and does not answer ErrNotFound.
Has(storage, key) == key \in DOMAIN storage

Set(storage, key, value) ==
    [k \in DOMAIN storage \cup {key} |-> IF k = key THEN value ELSE storage[k]]

SaveRaftState(storage, n) ==
    Set(storage, "raft_state", [CurrentTerm |-> n.currentTerm, VotedFor |-> n.votedFor,
                                Log |-> serializeLog(n.log)])

LoadRaftState(storage) == storage["raft_state"]

SaveSnapshot(storage, n) ==
    Set(storage, "snapshot", [Index |-> n.log.snapLastIdx, Term |-> n.log.snapLastTerm,
                              Data |-> n.log.snapshot])

LoadSnapshot(storage) == storage["snapshot"]

persistLocked(n) == [n EXCEPT !.storage = SaveSnapshot(SaveRaftState(@, n), n)]

\* A log that starts at a snapshot: NewLog(index, term, data, nil).
logFrom(snapshot) ==
    [snapLastIdx |-> snapshot.Index, snapLastTerm |-> snapshot.Term,
     snapshot |-> snapshot.Data, tailLog |-> <<dummy(snapshot.Term)>>]

loadFromStorageForgetsVote(storage) ==
    [currentTerm |-> IF Has(storage, "raft_state") THEN LoadRaftState(storage).CurrentTerm ELSE 1,
     votedFor |-> Nil,
     log |-> IF Has(storage, "snapshot") THEN logFrom(LoadSnapshot(storage)) ELSE NewLog]

\* Term, vote and log after a start.  A stored snapshot, which persistLocked
\* leaves behind even at index 0, replaces the log that was just read.
loadFromStorage(storage) ==
    LET state == LoadRaftState(storage) IN
    [currentTerm |-> IF Has(storage, "raft_state") THEN state.CurrentTerm ELSE 1,
     votedFor |-> IF Has(storage, "raft_state") THEN state.VotedFor ELSE Nil,
     log |-> IF Has(storage, "snapshot") THEN logFrom(LoadSnapshot(storage))
             ELSE IF Has(storage, "raft_state") THEN deserializeLog(state.Log)
             ELSE NewLog]

NewNode(storage, epoch) ==
    LET loaded == loadFromStorage(storage)
        index == IF Has(storage, "snapshot") THEN LoadSnapshot(storage).Index ELSE 0
    IN
    [role |-> Follower, currentTerm |-> loaded.currentTerm, votedFor |-> loaded.votedFor,
     log |-> loaded.log,
     nextIndex |-> [p \in Server |-> 0], matchIndex |-> [p \in Server |-> 0],
     commitIndex |-> index, lastApplied |-> index, snapPending |-> FALSE,
     electing |-> {}, counting |-> {}, votes |-> {}, waiting |-> FALSE, msgs |-> <<>>,
     service |-> loaded.log.snapshot, epoch |-> epoch, storage |-> storage]

-----------------------------------------------------------------------------
(* State changes inside one critical section, as functions on the struct. *)

Signal(n) == [n EXCEPT !.waiting = FALSE]

becomeFollowerLocked(n, term) ==
    LET f == [n EXCEPT !.role = Follower, !.currentTerm = term,
                       !.votedFor = IF term > n.currentTerm THEN Nil ELSE @]
    IN  IF term < n.currentTerm THEN n
        ELSE IF term # n.currentTerm THEN persistLocked(f) ELSE f

becomeCandidateLocked(n, me) ==
    persistLocked([n EXCEPT !.role = Candidate, !.currentTerm = @ + 1, !.votedFor = me])

becomeLeaderLocked(n) ==
    [n EXCEPT !.role = Leader,
              !.nextIndex = [p \in Server |-> size(n.log)],
              !.matchIndex = [p \in Server |-> 0]]

contextLostLocked(n, role, term) == ~(n.currentTerm = term /\ n.role = role)

isMoreUpToDateLocked(n, candidateIndex, candidateTerm) ==
    IF lastTerm(n.log) # candidateTerm
    THEN lastTerm(n.log) > candidateTerm
    ELSE lastIndex(n.log) > candidateIndex

\* More than half of the nodes: votes > GetPeerCount() / 2 in integer division.
IsMajority(S) == 2 * Cardinality(S) > Cardinality(Server)

majorityIdxLast(n) == Max({n.matchIndex[p] : p \in Server})

\* Entry (peerCount - 1) / 2 of the sorted matchIndex.
majorityIdx(n) ==
    Max({k \in {n.matchIndex[p] : p \in Server} :
            IsMajority({p \in Server : n.matchIndex[p] >= k})})

updateCommitIndexLocked(n) ==
    LET k == majorityIdx(n) IN
    IF k > n.commitIndex /\ k >= n.log.snapLastIdx /\ at(n.log, k).Term = n.currentTerm
    THEN Signal([n EXCEPT !.commitIndex = k])
    ELSE n

-----------------------------------------------------------------------------
(* The transports.  A call is lost, or its answer is, by never being
   handled; a caller that has timed out is one whose answer is lost.  The
   replication ticker sends the same requests again and again, so these and
   their answers stay, but the newer one between two nodes replaces the
   older.  RequestVote is sent and answered at most once. *)

\* Protocol buffers carry a command as bytes; any other type arrives as nil.
wire(e) == [e EXCEPT !.Command = IF @ \in Bytes THEN @ ELSE Nil]

Replicates(m) == m.type \in {"AppendEntries", "InstallSnapshot"}

Newest(old, new) ==
    new \cup {m \in old : ~(Replicates(m) /\ \E k \in new : Replicates(k) /\ k.from = m.from /\ k.to = m.to)}

Call(new) == requests' = Newest(requests, new)

\* The answer to m; it reaches only the incarnation of m.from that asked.
Answer(m, resp) ==
    replies' = Newest(replies, {[type |-> m.type, from |-> m.to, to |-> m.from, epoch |-> m.epoch,
                                 req |-> m.req, resp |-> resp]})

Request(i, p, type, req) ==
    [type |-> type, from |-> i, to |-> p, epoch |-> node[i].epoch, req |-> req]

-----------------------------------------------------------------------------
(* Elections. *)

electionTicker(i) ==
    LET n == becomeCandidateLocked(node[i], i) IN
    /\ node[i].role # Leader
    /\ i \in Impatient /\ node[i].currentTerm < MaxTerm
    /\ node' = [node EXCEPT ![i] = [n EXCEPT !.electing = @ \cup {n.currentTerm}]]
    /\ UNCHANGED <<requests, replies, lost>>

startElection(i, term) ==
    LET n == [node[i] EXCEPT !.electing = @ \ {term}]
        req == [Term |-> term, LastLogIndex |-> lastIndex(n.log), LastLogTerm |-> lastTerm(n.log)]
    IN
    /\ IF contextLostLocked(n, Candidate, term)
       THEN node' = [node EXCEPT ![i] = n] /\ UNCHANGED requests
       ELSE /\ node' = [node EXCEPT ![i] = [n EXCEPT !.votes = @ \cup {<<term, i>>}]]
            /\ Call({Request(i, p, "RequestVote", req) : p \in Server \ {i}})
    /\ UNCHANGED <<replies, lost>>

mayVoteAgain(n, candidate) == n.role # Leader

\* A vote may be given again to the candidate that already has it.
mayVote(n, candidate) == n.votedFor \in {Nil, candidate}

HandleRequestVote(m) ==
    LET j == m.to
        old == node[j].currentTerm
        n == IF m.req.Term > old THEN becomeFollowerLocked(node[j], m.req.Term) ELSE node[j]
        granted == /\ m.req.Term >= old
                   /\ mayVote(n, m.from)
                   /\ ~isMoreUpToDateLocked(n, m.req.LastLogIndex, m.req.LastLogTerm)
    IN
    /\ m.type = "RequestVote"
    /\ node' = [node EXCEPT ![j] =
                  IF granted THEN persistLocked([n EXCEPT !.votedFor = m.from]) ELSE n]
    /\ requests' = requests \ {m}
    /\ Answer(m, [Term |-> n.currentTerm, VoteGranted |-> granted])
    /\ UNCHANGED lost

\* The goroutine of startElection once SendRequestVote has returned, up to
\* the point where it releases n.mu.
voteReturned(r) ==
    LET i == r.to
        n == node[i]
    IN
    /\ r.type = "RequestVote"
    /\ r.epoch = n.epoch
    /\ node' = [node EXCEPT ![i] =
                  IF r.resp.Term > n.currentTerm THEN becomeFollowerLocked(n, r.resp.Term)
                  ELSE IF contextLostLocked(n, Candidate, r.req.Term) \/ ~r.resp.VoteGranted THEN n
                  ELSE [n EXCEPT !.counting = @ \cup {<<r.req.Term, r.from>>}]]
    /\ replies' = replies \ {r}
    /\ UNCHANGED <<requests, lost>>

\* The rest of that goroutine.  The vote is counted without n.mu; the one
\* that wins looks again whether the election is still on.
countVote(i, vote) ==
    LET n == [node[i] EXCEPT !.counting = @ \ {vote}, !.votes = @ \cup {vote}]
        won == IsMajority({p \in Server : <<vote[1], p>> \in n.votes})
    IN
    /\ node' = [node EXCEPT ![i] =
                  IF won /\ n.role = Candidate /\ n.currentTerm = vote[1]
                  THEN becomeLeaderLocked(n) ELSE n]
    /\ UNCHANGED <<requests, replies, lost>>

-----------------------------------------------------------------------------
(* Replication. *)

Start(i, command) ==
    LET n == node[i] IN
    /\ n.role = Leader
    /\ size(n.log) <= MaxLog
    /\ node' = [node EXCEPT ![i] =
                  persistLocked([n EXCEPT !.log = append(@, [Term |-> n.currentTerm, Command |-> command])])]
    /\ UNCHANGED <<requests, replies, lost>>

\* What startReplication sends to node p, as it arrives there.
replicateTo(i, p) ==
    LET n == node[i]
        prevIdx == n.nextIndex[p] - 1
        entries == tail(n.log, prevIdx + 1)
    IN  IF prevIdx < n.log.snapLastIdx
        THEN Request(i, p, "InstallSnapshot",
                     [Term |-> n.currentTerm,
                      LastIncludedIndex |-> n.log.snapLastIdx,
                      LastIncludedTerm |-> n.log.snapLastTerm,
                      Snapshot |-> n.log.snapshot])
        ELSE Request(i, p, "AppendEntries",
                     [Term |-> n.currentTerm,
                      PrevLogIndex |-> prevIdx,
                      PrevLogTerm |-> at(n.log, prevIdx).Term,
                      Entries |-> [k \in DOMAIN entries |-> wire(entries[k])],
                      LeaderCommit |-> n.commitIndex])

\* One round of replicationTicker; it ends when the node is no longer leader.
startReplication(i) ==
    /\ node[i].role = Leader
    /\ node' = [node EXCEPT ![i].matchIndex[i] = size(node[i].log) - 1,
                            ![i].nextIndex[i] = size(node[i].log)]
    /\ Call({replicateTo(i, p) : p \in Server \ {i}})
    /\ UNCHANGED <<replies, lost>>

matches(rl, req) ==
    InRange(rl, req.PrevLogIndex) /\ at(rl, req.PrevLogIndex).Term = req.PrevLogTerm

\* What a follower reports if not: <<ConflictTerm, ConflictIdx>>.
conflict(rl, req) ==
    IF req.PrevLogIndex >= size(rl) THEN <<InvalidTerm, size(rl)>>
    ELSE IF req.PrevLogIndex < rl.snapLastIdx THEN <<rl.snapLastTerm, rl.snapLastIdx>>
    ELSE LET term == at(rl, req.PrevLogIndex).Term IN <<term, firstFor(rl, term)>>

\* The follower takes the entries, saves them, and follows LeaderCommit as
\* far as its log goes.
store(n, req) ==
    LET f == persistLocked([n EXCEPT !.log = appendFrom(@, req.PrevLogIndex, req.Entries)]) IN
    IF req.LeaderCommit > n.commitIndex
    THEN Signal([f EXCEPT !.commitIndex = Min({req.LeaderCommit, lastIndex(f.log)})])
    ELSE f

HandleAppendEntries(m) ==
    LET j == m.to
        old == node[j].currentTerm
        n == becomeFollowerLocked(node[j], m.req.Term)
        accept == m.req.Term >= old /\ matches(n.log, m.req)
    IN
    /\ m.type = "AppendEntries"
    /\ node' = [node EXCEPT ![j] = IF accept THEN store(n, m.req) ELSE n]
    /\ Answer(m, [Term |-> old, Success |-> accept,
                  Conflict |-> IF m.req.Term < old \/ accept THEN <<InvalidTerm, InvalidIndex>>
                               ELSE conflict(n.log, m.req)])
    /\ UNCHANGED <<requests, lost>>

\* Where to probe next: not behind the entry just refused, and never below
\* the snapshot.
backOff(n, p, prevIdx, clash) ==
    LET first == firstFor(n.log, clash[1])
        probe == IF clash[1] = InvalidTerm \/ first = InvalidIndex THEN clash[2] ELSE first
    IN  [n EXCEPT !.nextIndex[p] = Max({Min({probe, prevIdx + 1}), n.log.snapLastIdx + 1})]

\* sendAppendEntries once SendAppendEntries has returned.
sendAppendEntries(r) ==
    LET i == r.to
        n == node[i]
        match == r.req.PrevLogIndex + Len(r.req.Entries)
    IN
    /\ r.type = "AppendEntries"
    /\ r.epoch = n.epoch
    /\ node' = [node EXCEPT ![i] =
                  IF r.resp.Term > n.currentTerm THEN becomeFollowerLocked(n, r.resp.Term)
                  ELSE IF contextLostLocked(n, Leader, r.req.Term) THEN n
                  ELSE IF r.resp.Success
                       THEN updateCommitIndexLocked([n EXCEPT !.matchIndex[r.from] = match,
                                                              !.nextIndex[r.from] = match + 1])
                       ELSE backOff(n, r.from, r.req.PrevLogIndex, r.resp.Conflict)]
    /\ UNCHANGED <<requests, replies, lost>>

-----------------------------------------------------------------------------
(* Snapshots. *)

\* The service hands over its state after the last entry it has applied.
Snapshots(n) ==
    n.service # Nil /\ Len(n.service) <= n.commitIndex /\ Len(n.service) > n.log.snapLastIdx

takeSnapshot(n) == [n EXCEPT !.log = doSnapshot(@, Len(n.service), n.service)]

Snapshot(i) ==
    /\ i \in Compacting
    /\ Snapshots(node[i])
    /\ node' = [node EXCEPT ![i] = persistLocked(takeSnapshot(@))]
    /\ UNCHANGED <<requests, replies, lost>>

Installs(n, req) == req.Term >= n.currentTerm /\ n.log.snapLastIdx < req.LastIncludedIndex

installed(n, req) ==
    [becomeFollowerLocked(n, req.Term) EXCEPT
        !.log = installSnapshot(@, req.LastIncludedIndex, req.LastIncludedTerm, req.Snapshot)]

announceSilently(n, index) ==
    [n EXCEPT !.snapPending = TRUE, !.commitIndex = Max({@, index})]

announceNothing(n, index) == Signal([n EXCEPT !.commitIndex = Max({@, index})])

\* What the apply loop is told of a snapshot that was installed.
announce(n, index) ==
    Signal([n EXCEPT !.snapPending = TRUE, !.commitIndex = Max({@, index})])

HandleInstallSnapshot(m) ==
    LET j == m.to
        n == IF Installs(node[j], m.req)
             THEN announce(persistLocked(installed(node[j], m.req)), m.req.LastIncludedIndex)
             ELSE becomeFollowerLocked(node[j], m.req.Term)
    IN
    /\ m.type = "InstallSnapshot"
    /\ node' = [node EXCEPT ![j] = n]
    /\ Answer(m, [Term |-> n.currentTerm])
    /\ UNCHANGED <<requests, lost>>

\* sendInstallSnapshot once SendInstallSnapshot has returned: it takes the
\* snapshot the leader has now, not the one it sent.
sendInstallSnapshot(r) ==
    LET i == r.to
        n == node[i]
    IN
    /\ r.type = "InstallSnapshot"
    /\ r.epoch = n.epoch
    /\ node' = [node EXCEPT ![i] =
                  IF r.resp.Term > n.currentTerm THEN becomeFollowerLocked(n, r.resp.Term)
                  ELSE IF contextLostLocked(n, Leader, r.req.Term) THEN n
                  ELSE [n EXCEPT !.matchIndex[r.from] = n.log.snapLastIdx,
                                 !.nextIndex[r.from] = n.log.snapLastIdx + 1]]
    /\ UNCHANGED <<requests, replies, lost>>

-----------------------------------------------------------------------------
(* The apply loop. *)

Idle(n) == n.commitIndex <= n.lastApplied /\ ~n.snapPending


\* The messages of a round: a pending snapshot, then the committed entries
\* behind it.
collect(n) ==
    LET from == IF n.snapPending THEN n.log.snapLastIdx ELSE n.lastApplied
        first == IF n.snapPending THEN <<<<"snapshot", n.log.snapshot>>>> ELSE <<>>
    IN  [n EXCEPT !.msgs = first \o [k \in 1..(n.commitIndex - from) |->
                                         <<"command", at(n.log, from + k)>>],
                  !.lastApplied = Max({from, n.commitIndex}), !.snapPending = FALSE]

\* The critical section of a round: sleep, or collect what is to be sent.  A
\* committed entry that is no longer in the log makes log.at panic, which
\* ends the process; only a restart is left then.
applicationTicker(i) ==
    /\ i \in Serving /\ ~lost     \* bound: not once entries are lost
    /\ ~node[i].waiting /\ node[i].msgs = <<>>
    /\ Idle(node[i]) \/ InRange(node[i].log, node[i].commitIndex)
    /\ node' = [node EXCEPT ![i] = IF Idle(@) THEN [@ EXCEPT !.waiting = TRUE] ELSE collect(@)]
    /\ UNCHANGED <<requests, replies, lost>>

\* The service applies a message; after a gap only a snapshot sets it right.
receive(service, msg) ==
    IF msg[1] = "snapshot" THEN msg[2]
    ELSE IF service = Nil THEN Nil ELSE Append(service, msg[2])

\* One send on applyCh, without the lock: a message the channel has no room
\* for is thrown away.
send(i, room) ==
    LET n == node[i] IN
    /\ n.msgs # <<>>
    /\ ~lost                     \* bound, as above
    /\ room \/ i \in Lagging
    /\ node' = [node EXCEPT ![i].msgs = Tail(@),
                            ![i].service = IF room THEN receive(@, Head(n.msgs)) ELSE Nil]
    /\ UNCHANGED <<requests, replies, lost>>

-----------------------------------------------------------------------------
(* Crashes. *)

Restarts == MapThenSumSet(LAMBDA p : node[p].epoch, Server)

Boot(i, storage) ==
    LET n == NewNode(storage, node[i].epoch + 1) IN
    /\ i \in Crashing /\ Restarts < MaxEpoch
    /\ node' = [node EXCEPT ![i] = n]
    /\ lost' = (lost \/ History(n.log) # History(node[i].log))
    /\ UNCHANGED <<requests, replies>>

Restart(i) == Boot(i, node[i].storage)

\* A crash between the two writes of a persistLocked that changes both.
Cutting(i) ==
    {takeSnapshot(n) : n \in {k \in {node[i]} : i \in Compacting /\ Snapshots(k)}}
    \cup {installed(node[i], m.req) :
             m \in {k \in requests : k.type = "InstallSnapshot" /\ k.to = i /\ Installs(node[i], k.req)}}

crashInPersist(i) == \E n \in Cutting(i) : Boot(i, SaveRaftState(n.storage, n))

Init ==
    /\ node = [i \in Server |-> NewNode(NewRaftStorage, 0)]
    /\ requests = {}
    /\ replies = {}
    /\ lost = FALSE

Next ==
    \/ \E i \in Server : electionTicker(i)
    \/ \E i \in Server : \E term \in node[i].electing : startElection(i, term)
    \/ \E m \in requests : HandleRequestVote(m)
    \/ \E r \in replies : voteReturned(r)
    \/ \E i \in Server : \E vote \in node[i].counting : countVote(i, vote)
    \/ \E i \in Server, command \in Command : Start(i, command)
    \/ \E i \in Server : startReplication(i)
    \/ \E m \in requests : HandleAppendEntries(m)
    \/ \E r \in replies : sendAppendEntries(r)
    \/ \E i \in Server : Snapshot(i)
    \/ \E m \in requests : HandleInstallSnapshot(m)
    \/ \E r \in replies : sendInstallSnapshot(r)
    \/ \E i \in Server : applicationTicker(i)
    \/ \E i \in Server, room \in BOOLEAN : send(i, room)
    \/ \E i \in Server : Restart(i)
    \/ \E i \in Server : crashInPersist(i)

Spec == Init /\ [][Next]_vars

-----------------------------------------------------------------------------
(* Properties. *)

IsLeader(i) == node[i].role = Leader

\* At most one node is leader in a term, although votes are counted without
\* n.mu and may be given twice, and a restart loses the log.
ElectionSafety ==
    \A i, j \in Server :
        IsLeader(i) /\ IsLeader(j) /\ node[i].currentTerm = node[j].currentTerm => i = j

\* A node's term never falls and its vote in a term never changes, whatever
\* is left in storage by a crash between the two writes of persistLocked.
VoteStable ==
    [][\A i \in Server :
          /\ node'[i].currentTerm >= node[i].currentTerm
          /\ node'[i].currentTerm = node[i].currentTerm /\ node[i].votedFor # Nil
                => node'[i].votedFor = node[i].votedFor]_vars

Committed(i) == Prefix(node[i].log, Min({node[i].commitIndex, lastIndex(node[i].log)}))

IsPrefixOf(s, t) == Len(s) <= Len(t) /\ SubSeq(t, 1, Len(s)) = s

\* As long as no restart has dropped entries, no two nodes commit different
\* entries at an index: of two committed histories one continues the other.
StateMachineSafety ==
    ~lost => \A i, j \in Server :
                 \/ IsPrefixOf(Committed(i), Committed(j))
                 \/ IsPrefixOf(Committed(j), Committed(i))

\* As long as no restart has dropped entries, a service that missed no
\* message has applied exactly the entries its node holds as committed, up
\* to some index, although it is sent snapshots older than its own state.
ServiceExact ==
    ~lost => \A i \in Server :
                 node[i].service # Nil => IsPrefixOf(node[i].service, Committed(i))

\* As long as no restart has dropped entries, what applicationTicker,
\* startReplication and updateCommitIndexLocked read from the log is in it.
ReadsWithinLog ==
    ~lost => \A i \in Server :
        LET n == node[i] IN
        /\ n.commitIndex <= lastIndex(n.log)
        /\ n.snapPending \/ n.lastApplied >= n.log.snapLastIdx
        /\ IsLeader(i) => /\ \A p \in Server : n.nextIndex[p] \in 1..size(n.log)
                          /\ majorityIdx(n) <= lastIndex(n.log)

\* The apply loop sleeps only when there is nothing to do: each change that
\* gives it work signals applyCond in the same critical section.
AsleepOnlyWhenIdle == \A i \in Server : node[i].waiting => Idle(node[i])

-----------------------------------------------------------------------------
(* The inductive invariant behind ElectionSafety, VoteStable and
   AsleepOnlyWhenIdle.  It types what they depend on; what a log, a snapshot
   or an index is does not matter to them. *)

Votes == SUBSET (Nat \X Server)

IsStorage(storage) ==
    LET state == LoadRaftState(storage)
    IN  Has(storage, "raft_state") => state.CurrentTerm \in Nat /\ state.VotedFor \in Server \cup {Nil}

IsNode(n) ==
    /\ n \in [role : {Follower, Candidate, Leader}, currentTerm : Nat, votedFor : Server \cup {Nil},
              log : {n.log}, nextIndex : {n.nextIndex}, matchIndex : {n.matchIndex},
              commitIndex : {n.commitIndex}, lastApplied : {n.lastApplied},
              snapPending : {n.snapPending}, electing : SUBSET Nat, counting : Votes, votes : Votes,
              waiting : BOOLEAN, msgs : {n.msgs}, service : {n.service}, epoch : {n.epoch},
              storage : {n.storage}]
    /\ IsStorage(n.storage)

IsRequest(m) == m.from \in Server /\ m.to \in Server /\ m.req.Term \in Nat

IsReply(r) == IsRequest(r) /\ r.resp.Term \in Nat

TypeOK ==
    /\ DOMAIN node = Server /\ \A i \in Server : IsNode(node[i])
    /\ \A m \in requests : IsRequest(m)
    /\ \A r \in replies : IsReply(r)

\* Term and vote are those a restart would read.
Stored(n) ==
    LET loaded == loadFromStorage(n.storage)
    IN  loaded.currentTerm = n.currentTerm /\ loaded.votedFor = n.votedFor

\* j's vote for i in term t was counted, or is on its way.
HoldsVote(j, i, t) ==
    \/ <<t, j>> \in node[i].votes \cup node[i].counting
    \/ \E r \in replies : /\ r.type = "RequestVote" /\ r.resp.VoteGranted
                          /\ r.from = j /\ r.to = i /\ r.req.Term = t

VotesFor(i, t) == {p \in Server : <<t, p>> \in node[i].votes}

\* Votes are unique, a voter remembers its vote until a later term, a
\* candidate voted for itself, and a leader has a majority.
VoteInv ==
    /\ \A j, i \in Server, t \in Nat :
          HoldsVote(j, i, t) =>
              \/ node[j].currentTerm > t
              \/ node[j].currentTerm = t /\ node[j].votedFor = i
    /\ \A j, i, k \in Server, t \in Nat : HoldsVote(j, i, t) /\ HoldsVote(j, k, t) => i = k
    /\ \A i \in Server :
          /\ node[i].role # Follower => node[i].votedFor = i
          /\ IsLeader(i) => IsMajority(VotesFor(i, node[i].currentTerm))

NodeInv == TypeOK /\ (\A i \in Server : Stored(node[i])) /\ AsleepOnlyWhenIdle /\ VoteInv
=============================================================================
