------------------------------- MODULE Raft -------------------------------
(***************************************************************************)
(* The Raft peers of src/raft/raft*.go, running over the lossy network of  *)
(* src/labrpc: elections, log replication, snapshots, persistence and      *)
(* restarts.  Every action is one critical section of a peer's mutex; a    *)
(* goroutine that waits for the mutex is a separate action.                *)
(*                                                                         *)
(* peer[i] is the struct Raft of peer i together with its stable storage   *)
(* (disk) and the local state of its election goroutines:                  *)
(*   electing  terms whose startElection goroutine has not run yet         *)
(*   votes     the peers counted by startElection of the current term      *)
(*   epoch     how often the peer was restarted                            *)
(* Timers are abstracted: a timeout may expire at any time.                *)
(***************************************************************************)
EXTENDS RaftLog, FiniteSets, FiniteSetsExt

CONSTANTS Server,
          Overtaking,   \* which of "requests" and "replies" may overtake an older one
          Impatient,    \* bound: the peers whose election timer may expire
          MaxTerm,      \* bound: no election timeout in this term
          MaxLog,       \* bound: largest log index a client command gets
          MaxEpoch      \* bound: restarts, of all peers together

ASSUME ServerAssumption == IsFiniteSet(Server) /\ Server # {} /\ Nil \notin Server
ASSUME BoundAssumption ==
    /\ Overtaking \subseteq {"requests", "replies"}
    /\ Impatient \subseteq Server
    /\ MaxTerm \in Nat /\ MaxLog \in Nat /\ MaxEpoch \in Nat

VARIABLES peer, requests, replies

vars == <<peer, requests, replies>>

Follower == "Follower"
Candidate == "Candidate"
Leader == "Leader"

-----------------------------------------------------------------------------
(* State changes inside one critical section, as functions on the struct. *)

persist(rf) ==
    [rf EXCEPT !.disk = [currentTerm |-> rf.currentTerm, votedFor |-> rf.votedFor, log |-> rf.log]]

becomeFollowerForgetsVote(rf, term) ==
    LET f == [rf EXCEPT !.role = Follower, !.currentTerm = term, !.votedFor = Nil]
    IN  IF term < rf.currentTerm THEN rf
        ELSE IF term # rf.currentTerm THEN persist(f) ELSE f

becomeFollower(rf, term) ==
    LET f == [rf EXCEPT !.role = Follower,
                        !.currentTerm = term,
                        !.votedFor = IF term > rf.currentTerm THEN Nil ELSE @]
    IN  IF term < rf.currentTerm THEN rf
        ELSE IF term # rf.currentTerm THEN persist(f) ELSE f

becomeCandidate(rf, me) ==
    persist([rf EXCEPT !.role = Candidate, !.currentTerm = @ + 1, !.votedFor = me])

becomeLeader(rf) ==
    [rf EXCEPT !.role = Leader,
               !.nextIndex = [p \in Server |-> size(rf.log)],
               !.matchIndex = [p \in Server |-> 0]]

contextLost(rf, role, term) == ~(rf.currentTerm = term /\ rf.role = role)

isLonger(rf, candidateIndex, candidateTerm) == lastIndex(rf.log) > candidateIndex

isMoreUpToDate(rf, candidateIndex, candidateTerm) ==
    IF lastTerm(rf.log) # candidateTerm
    THEN lastTerm(rf.log) > candidateTerm
    ELSE lastIndex(rf.log) > candidateIndex

\* More than half of the peers: votes > len(rf.peers) / 2 in integer division.
IsMajority(S) == 2 * Cardinality(S) > Cardinality(Server)

\* Entry (n - 1) / 2 of the sorted matchIndex: the largest index that
\* more than half of the peers have reached.
majorityIndex(rf) ==
    Max({n \in {rf.matchIndex[p] : p \in Server} :
            IsMajority({p \in Server : rf.matchIndex[p] >= n})})

-----------------------------------------------------------------------------
(* The network.  A message is lost by never being handled.  The replication
   ticker sends the same AppendEntries again and again, so these requests
   and their replies stay; RequestVote is sent and answered at most once.
   labrpc delays each message on its own, so any may overtake another; with
   a transport that keeps the order between two peers (Overtaking = {}), the
   older AppendEntries or InstallSnapshot is never handled after the newer. *)

Replicates(m) == m.type \in {"AppendEntries", "InstallSnapshot"}

Superseded(m, new) ==
    Replicates(m) /\ \E n \in new : Replicates(n) /\ n.from = m.from /\ n.to = m.to

Deliverable(kind, old, new) ==
    new \cup (IF kind \in Overtaking THEN old ELSE {m \in old : ~Superseded(m, new)})

Send(new) == requests' = Deliverable("requests", requests, new)

\* The reply to m; it reaches only the incarnation of m.from that asked.
Reply(m, body) ==
    replies' = Deliverable("replies", replies,
                   {[type |-> m.type, from |-> m.to, to |-> m.from, epoch |-> m.epoch,
                     args |-> m.args, body |-> body]})

Request(i, p, type, args) ==
    [type |-> type, from |-> i, to |-> p, epoch |-> peer[i].epoch, args |-> args]

-----------------------------------------------------------------------------
(* Elections: src/raft/raft_election.go. *)

electionTicker(i) ==
    LET rf == becomeCandidate(peer[i], i) IN
    /\ peer[i].role # Leader
    /\ i \in Impatient /\ peer[i].currentTerm < MaxTerm
    /\ peer' = [peer EXCEPT ![i] = [rf EXCEPT !.electing = @ \cup {rf.currentTerm}, !.votes = {}]]
    /\ UNCHANGED <<requests, replies>>

startElection(i, term) ==
    LET rf == [peer[i] EXCEPT !.electing = @ \ {term}]
        args == [Term |-> rf.currentTerm,
                 LastLogIndex |-> lastIndex(rf.log), LastLogTerm |-> lastTerm(rf.log)]
    IN
    /\ term \in peer[i].electing
    /\ IF contextLost(rf, Candidate, term)
       THEN peer' = [peer EXCEPT ![i] = rf] /\ UNCHANGED requests
       ELSE /\ peer' = [peer EXCEPT ![i] = [rf EXCEPT !.votes = {i}]]
            /\ Send({Request(i, p, "RequestVote", args) : p \in Server \ {i}})
    /\ UNCHANGED replies

grantUnsaved(rf, candidate) == [rf EXCEPT !.votedFor = candidate]

grant(rf, candidate) == persist([rf EXCEPT !.votedFor = candidate])

RequestVote(m) ==
    LET j == m.to
        old == peer[j].currentTerm
        rf == IF m.args.Term > old THEN becomeFollower(peer[j], m.args.Term) ELSE peer[j]
        granted == /\ m.args.Term >= old
                   /\ rf.votedFor = Nil
                   /\ ~isMoreUpToDate(rf, m.args.LastLogIndex, m.args.LastLogTerm)
    IN
    /\ m.type = "RequestVote"
    /\ peer' = [peer EXCEPT ![j] =
                  IF granted THEN grant(rf, m.from) ELSE rf]
    /\ requests' = requests \ {m}
    /\ Reply(m, [Term |-> old, VoteGranted |-> granted])

\* askVoteFromPeer once Call has returned.
RequestVoteReply(r) ==
    LET i == r.to
        rf == peer[i]
        counted == [rf EXCEPT !.votes = @ \cup {r.from}]
    IN
    /\ r.type = "RequestVote"
    /\ r.epoch = rf.epoch
    /\ peer' = [peer EXCEPT ![i] =
                  IF r.body.Term > rf.currentTerm THEN becomeFollower(rf, r.body.Term)
                  ELSE IF contextLost(rf, Candidate, r.args.Term) \/ ~r.body.VoteGranted THEN rf
                  ELSE IF IsMajority(counted.votes) THEN becomeLeader(counted)
                  ELSE counted]
    /\ replies' = replies \ {r}
    /\ UNCHANGED requests

-----------------------------------------------------------------------------
(* Replication: src/raft/raft_replication.go. *)

Start(i, command) ==
    LET rf == peer[i] IN
    /\ rf.role = Leader
    /\ size(rf.log) <= MaxLog
    /\ peer' = [peer EXCEPT ![i] =
                  persist([rf EXCEPT !.log = append(@, [Term |-> rf.currentTerm, Command |-> command])])]
    /\ UNCHANGED <<requests, replies>>

\* What startReplication sends to peer p.
replicateTo(i, p) ==
    LET rf == peer[i]
        prevIdx == rf.nextIndex[p] - 1
    IN  IF prevIdx < rf.log.snapLastIdx
        THEN Request(i, p, "InstallSnapshot",
                     [Term |-> rf.currentTerm,
                      LastIncludedIndex |-> rf.log.snapLastIdx,
                      LastIncludedTerm |-> rf.log.snapLastTerm,
                      Snapshot |-> rf.log.snapshot])
        ELSE Request(i, p, "AppendEntries",
                     [Term |-> rf.currentTerm,
                      PrevLogIndex |-> prevIdx,
                      PrevLogTerm |-> at(rf.log, prevIdx).Term,
                      Entries |-> tail(rf.log, prevIdx + 1),
                      LeaderCommit |-> rf.commitIndex])

\* One round of replicationTicker; it ends when the peer is no longer leader.
startReplication(i) ==
    /\ peer[i].role = Leader
    /\ peer' = [peer EXCEPT ![i].matchIndex[i] = size(peer[i].log) - 1,
                            ![i].nextIndex[i] = size(peer[i].log)]
    /\ Send({replicateTo(i, p) : p \in Server \ {i}})
    /\ UNCHANGED replies

matchesByLength(rl, args) == InRange(rl, args.PrevLogIndex)

\* The consistency check: the entry before the new ones is the leader's.
matches(rl, args) ==
    InRange(rl, args.PrevLogIndex) /\ at(rl, args.PrevLogIndex).Term = args.PrevLogTerm

conflictBeforeLast(rl, args) == <<InvalidTerm, lastIndex(rl) - 1>>

\* What a follower reports when it fails: <<ConfilictTerm, ConfilictIndex>>.
conflict(rl, args) ==
    IF args.PrevLogIndex >= size(rl) THEN <<InvalidTerm, size(rl)>>
    ELSE IF args.PrevLogIndex < rl.snapLastIdx THEN <<rl.snapLastTerm, rl.snapLastIdx>>
    ELSE LET term == at(rl, args.PrevLogIndex).Term IN <<term, firstFor(rl, term)>>

storeUnsaved(rf, args) ==
    [rf EXCEPT !.log = appendFrom(@, args.PrevLogIndex, args.Entries),
               !.commitIndex = Max({@, args.LeaderCommit})]

\* The follower takes the entries, saves them, and follows LeaderCommit.
store(rf, args) ==
    [persist([rf EXCEPT !.log = appendFrom(@, args.PrevLogIndex, args.Entries)])
        EXCEPT !.commitIndex = Max({@, args.LeaderCommit})]

AppendEntries(m) ==
    LET j == m.to
        old == peer[j].currentTerm
        rf == becomeFollower(peer[j], m.args.Term)
        accept == m.args.Term >= old /\ matches(rf.log, m.args)
    IN
    /\ m.type = "AppendEntries"
    /\ peer' = [peer EXCEPT ![j] = IF accept THEN store(rf, m.args) ELSE rf]
    /\ Reply(m, [Term |-> old, Success |-> accept,
                Conflict |-> IF m.args.Term < old \/ accept THEN <<InvalidTerm, InvalidIndex>>
                             ELSE conflict(rf.log, m.args)])
    /\ UNCHANGED requests

\* Where to probe next after a conflict; a late reply never moves it forward.
backOff(rf, p, clash) ==
    LET first == firstFor(rf.log, clash[1])
        probe == IF clash[1] = InvalidTerm \/ first = InvalidIndex THEN clash[2] ELSE first
    IN  [rf EXCEPT !.nextIndex[p] = Min({@, probe})]


acknowledgeSkips(rf, p, match) ==
    [rf EXCEPT !.matchIndex[p] = match, !.nextIndex[p] = match + 2]

acknowledgeWholeLog(rf, p, match) ==
    [rf EXCEPT !.matchIndex[p] = lastIndex(rf.log), !.nextIndex[p] = size(rf.log)]

\* An acknowledged append moves matchIndex to what that request carried,
\* and may advance commitIndex to an entry of the current term.
acknowledge(rf, p, match) ==
    LET f == [rf EXCEPT !.matchIndex[p] = match, !.nextIndex[p] = match + 1]
        n == majorityIndex(f)
    IN  IF n > f.commitIndex /\ at(f.log, n).Term = f.currentTerm
        THEN [f EXCEPT !.commitIndex = n]
        ELSE f

\* replicateToPeer once Call has returned.
AppendEntriesReply(r) ==
    LET i == r.to
        rf == peer[i]
    IN
    /\ r.type = "AppendEntries"
    /\ r.epoch = rf.epoch
    /\ peer' = [peer EXCEPT ![i] =
                  IF r.body.Term > rf.currentTerm THEN becomeFollower(rf, r.body.Term)
                  ELSE IF contextLost(rf, Leader, r.args.Term) THEN rf
                  ELSE IF r.body.Success
                       THEN acknowledge(rf, r.from, r.args.PrevLogIndex + Len(r.args.Entries))
                       ELSE backOff(rf, r.from, r.body.Conflict)]
    /\ UNCHANGED <<requests, replies>>

-----------------------------------------------------------------------------
(* Snapshots: src/raft/raft_compaction.go. *)

\* The service hands over its state after applying the entries 1..index.
\* It has applied them only if they are committed and in the log.
Snapshot(i, index) ==
    LET rf == peer[i] IN
    /\ index <= rf.commitIndex
    /\ index > rf.log.snapLastIdx
    /\ peer' = [peer EXCEPT ![i] =
                  persist([rf EXCEPT !.log = doSnapshot(@, index, Prefix(rf.log, index))])]
    /\ UNCHANGED <<requests, replies>>

InstallSnapshot(m) ==
    LET j == m.to
        old == peer[j].currentTerm
        rf == becomeFollower(peer[j], m.args.Term)
        install == m.args.Term >= old /\ rf.log.snapLastIdx < m.args.LastIncludedIndex
        log == installSnapshot(rf.log, m.args.LastIncludedIndex, m.args.LastIncludedTerm,
                               m.args.Snapshot)
    IN
    /\ m.type = "InstallSnapshot"
    /\ peer' = [peer EXCEPT ![j] =
                  IF install THEN [persist([rf EXCEPT !.log = log]) EXCEPT !.snapPending = TRUE]
                  ELSE rf]
    /\ Reply(m, [Term |-> old])
    /\ UNCHANGED requests

\* installToPeer once Call has returned.
InstallSnapshotReply(r) ==
    LET i == r.to
        rf == peer[i]
        index == r.args.LastIncludedIndex
    IN
    /\ r.type = "InstallSnapshot"
    /\ r.epoch = rf.epoch
    /\ peer' = [peer EXCEPT ![i] =
                  IF r.body.Term > rf.currentTerm THEN becomeFollower(rf, r.body.Term)
                  ELSE IF contextLost(rf, Leader, r.args.Term) \/ index <= rf.matchIndex[r.from]
                       THEN rf
                       ELSE [rf EXCEPT !.matchIndex[r.from] = index, !.nextIndex[r.from] = index + 1]]
    /\ UNCHANGED <<requests, replies>>

applySnapshotWholeLog(i) ==
    /\ peer[i].snapPending
    /\ peer' = [peer EXCEPT ![i].commitIndex = Max({@, lastIndex(peer[i].log)}),
                            ![i].snapPending = FALSE]
    /\ UNCHANGED <<requests, replies>>

\* The end of a round of applicationTicker that delivered a snapshot.  The
\* rest of that goroutine touches nothing but lastApplied: see module Apply.
applySnapshot(i) ==
    /\ peer[i].snapPending
    /\ peer' = [peer EXCEPT ![i].commitIndex = Max({@, peer[i].log.snapLastIdx}),
                            ![i].snapPending = FALSE]
    /\ UNCHANGED <<requests, replies>>

-----------------------------------------------------------------------------
(* Restart: Make and readPersist. *)

Boot(disk, epoch) ==
    [role |-> Follower, currentTerm |-> disk.currentTerm, votedFor |-> disk.votedFor, log |-> disk.log,
     nextIndex |-> [p \in Server |-> 0], matchIndex |-> [p \in Server |-> 0],
     commitIndex |-> disk.log.snapLastIdx, snapPending |-> FALSE,
     electing |-> {}, votes |-> {}, epoch |-> epoch, disk |-> disk]

Restarts == MapThenSumSet(LAMBDA p : peer[p].epoch, Server)

Restart(i) ==
    /\ Restarts < MaxEpoch
    /\ peer' = [peer EXCEPT ![i] = Boot(@.disk, @.epoch + 1)]
    /\ UNCHANGED <<requests, replies>>

Init ==
    /\ peer = [i \in Server |-> Boot([currentTerm |-> 1, votedFor |-> Nil, log |-> NewLog], 0)]
    /\ requests = {}
    /\ replies = {}

Next ==
    \/ \E i \in Server : electionTicker(i)
    \/ \E i \in Server : \E term \in peer[i].electing : startElection(i, term)
    \/ \E m \in requests : RequestVote(m)
    \/ \E r \in replies : RequestVoteReply(r)
    \/ \E i \in Server, command \in Command : Start(i, command)
    \/ \E i \in Server : startReplication(i)
    \/ \E m \in requests : AppendEntries(m)
    \/ \E r \in replies : AppendEntriesReply(r)
    \/ \E i \in Server : \E index \in 1..peer[i].commitIndex : Snapshot(i, index)
    \/ \E m \in requests : InstallSnapshot(m)
    \/ \E r \in replies : InstallSnapshotReply(r)
    \/ \E i \in Server : applySnapshot(i)
    \/ \E i \in Server : Restart(i)

Spec == Init /\ [][Next]_vars

-----------------------------------------------------------------------------
(* Properties. *)

Term == Nat

Disk == [currentTerm : Term, votedFor : Server \cup {Nil}, log : LogType]

Peer == [role : {Follower, Candidate, Leader}, currentTerm : Term, votedFor : Server \cup {Nil},
         log : LogType, nextIndex : [Server -> Nat], matchIndex : [Server -> Nat],
         commitIndex : Nat, snapPending : BOOLEAN, electing : SUBSET Term, votes : SUBSET Server,
         epoch : Nat, disk : Disk]

VoteArgs == [Term : Term, LastLogIndex : Nat, LastLogTerm : Term]

AppendArgs == [Term : Term, PrevLogIndex : Nat, PrevLogTerm : Term, Entries : Seq(Entry),
               LeaderCommit : Nat]

SnapshotArgs == {args \in [Term : Term, LastIncludedIndex : Nat, LastIncludedTerm : Term,
                           Snapshot : Seq(Entry)] :
                    Len(args.Snapshot) = args.LastIncludedIndex}

RequestType(type, args) == [type : {type}, from : Server, to : Server, epoch : Nat, args : args]

ReplyType(type, args, body) ==
    [type : {type}, from : Server, to : Server, epoch : Nat, args : args, body : body]

VoteBody == [Term : Term, VoteGranted : BOOLEAN]

AppendBody == [Term : Term, Success : BOOLEAN, Conflict : Term \X Nat]

\* The state of the peers and every message in flight has the type its Go
\* declaration gives it, and no index is ever negative.
TypeOK ==
    /\ peer \in [Server -> Peer]
    /\ requests \subseteq (RequestType("RequestVote", VoteArgs)
                           \cup RequestType("AppendEntries", AppendArgs)
                           \cup RequestType("InstallSnapshot", SnapshotArgs))
    /\ replies \subseteq (ReplyType("RequestVote", VoteArgs, VoteBody)
                          \cup ReplyType("AppendEntries", AppendArgs, AppendBody)
                          \cup ReplyType("InstallSnapshot", SnapshotArgs, [Term : Term]))

IsLeader(i) == peer[i].role = Leader

\* At most one peer is leader in a term, whatever is lost, reordered or
\* restarted: a vote is on disk before the reply of RequestVote leaves.
ElectionSafety ==
    \A i, j \in Server :
        IsLeader(i) /\ IsLeader(j) /\ peer[i].currentTerm = peer[j].currentTerm => i = j

\* A peer's term never falls and its vote in a term never changes, across
\* restarts too.
VoteStable ==
    [][\A i \in Server :
          /\ peer'[i].currentTerm >= peer[i].currentTerm
          /\ peer'[i].currentTerm = peer[i].currentTerm /\ peer[i].votedFor # Nil
                => peer'[i].votedFor = peer[i].votedFor]_vars

\* What peer i holds as committed.
Committed(i) == Prefix(peer[i].log, Min({peer[i].commitIndex, lastIndex(peer[i].log)}))

SamePrefix(s, t, n) == SubSeq(s, 1, n) = SubSeq(t, 1, n)

\* If a leader's log and the log of a peer of the same or an earlier term
\* have an entry with the same index and term, they are the same up to it:
\* the consistency check of AppendEntries.  Two peers that do not lead may
\* differ: InstallSnapshot keeps the entries behind the snapshot, also those
\* of an older leader that had something else where the snapshot now is.
LogMatching ==
    \A i, j \in Server :
        IsLeader(i) /\ peer[j].currentTerm <= peer[i].currentTerm =>
            LET s == History(peer[i].log)
                t == History(peer[j].log)
            IN  \A n \in 1..Min({Len(s), Len(t)}) : s[n].Term = t[n].Term => SamePrefix(s, t, n)

\* No two peers commit different entries at an index.
StateMachineSafety ==
    \A i, j \in Server :
        SamePrefix(Committed(i), Committed(j), Min({Len(Committed(i)), Len(Committed(j))}))

\* A leader's log has every entry that a peer of the same or an earlier
\* term holds as committed: the up-to-date check of RequestVote.
LeaderCompleteness ==
    \A i, j \in Server :
        IsLeader(i) /\ peer[j].currentTerm <= peer[i].currentTerm
            => StartsWith(peer[i].log, Committed(j))

\* A leader's matchIndex never claims more than a follower of its term has:
\* the commit rule counts on it.
MatchIndexSound ==
    \A i, p \in Server :
        IsLeader(i) /\ peer[p].currentTerm = peer[i].currentTerm
            => LET n == peer[i].matchIndex[p]
               IN  n <= lastIndex(peer[p].log) /\ Prefix(peer[p].log, n) = Prefix(peer[i].log, n)

\* The indices a leader passes to log.at are in its log, so idx never
\* panics: the last entry before nextIndex, unless a snapshot is sent
\* instead, and the majority index, when it may be committed or just was.
LeaderNeverPanics ==
    \A i \in Server :
        IsLeader(i) =>
            LET log == peer[i].log
                n == majorityIndex(peer[i])
            IN  /\ \A p \in Server :
                      peer[i].nextIndex[p] > log.snapLastIdx => InRange(log, peer[i].nextIndex[p] - 1)
                /\ n > 0 /\ n >= peer[i].commitIndex => InRange(log, n)

\* However often its appends are rejected, a leader has an index of its log
\* left to probe: the dummy entry at 0 agrees with every peer.
KeepsProbing ==
    \A i, p \in Server : IsLeader(i) => peer[i].nextIndex[p] > InvalidIndex

\* A commit index never points behind the end of the log, although
\* AppendEntries takes LeaderCommit as it comes.
CommitWithinLog ==
    \A i \in Server : peer[i].commitIndex <= lastIndex(peer[i].log)

\* While a peer stays leader of a term its log only grows.
LeaderAppendOnly ==
    [][\A i \in Server :
          IsLeader(i) /\ IsLeader(i)' /\ peer'[i].currentTerm = peer[i].currentTerm
              => StartsWith(peer'[i].log, History(peer[i].log))]_vars

\* An entry that a peer holds as committed is never removed from its log.
CommittedStays ==
    [][\A i \in Server : StartsWith(peer'[i].log, Committed(i))]_vars

-----------------------------------------------------------------------------
(* The inductive invariant behind TypeOK and ElectionSafety. *)

Saved(rf) == rf.disk = [currentTerm |-> rf.currentTerm, votedFor |-> rf.votedFor, log |-> rf.log]

\* Whenever a peer releases its mutex, its stable storage holds its term,
\* its vote and its log: no early return of a handler skips persistLocked.
Durable == \A i \in Server : Saved(peer[i])

\* A leader probes no peer behind the end of its own log.
ProbesInLog(rf) == rf.role = Leader => \A p \in Server : rf.nextIndex[p] <= size(rf.log)

\* The last index a follower has once it accepts m.
Carried(m) ==
    IF m.type = "AppendEntries" THEN m.args.PrevLogIndex + Len(m.args.Entries)
    ELSE m.args.LastIncludedIndex

\* What l, which sent m, keeps: m's term is over, or l is not a candidate in
\* it, and if l still leads, its log reaches what m carried.
SentBy(m, l) ==
    Replicates(m) =>
        /\ m.args.Term <= peer[l].currentTerm
        /\ m.args.Term = peer[l].currentTerm =>
              /\ peer[l].role # Candidate
              /\ peer[l].role = Leader => Carried(m) <= lastIndex(peer[l].log)

IndexInv ==
    /\ \A i \in Server : ProbesInLog(peer[i])
    /\ \A m \in requests : SentBy(m, m.from)
    /\ \A r \in replies : SentBy(r, r.to)

TypeInv == TypeOK /\ Durable /\ IndexInv

\* j's vote for i in term t was counted or is on its way.
HoldsVote(j, i, t) ==
    \/ peer[i].role # Follower /\ peer[i].currentTerm = t /\ j \in peer[i].votes
    \/ \E r \in replies : /\ r.type = "RequestVote" /\ r.body.VoteGranted
                          /\ r.from = j /\ r.to = i /\ r.args.Term = t

\* Votes are unique, a voter remembers its vote until a later term, a
\* candidate voted for itself, and a leader has a majority.
VoteInv ==
    /\ \A j, i \in Server, t \in Term :
          HoldsVote(j, i, t) =>
              \/ peer[j].currentTerm > t
              \/ peer[j].currentTerm = t /\ peer[j].votedFor = i
    /\ \A j, i, k \in Server, t \in Term : HoldsVote(j, i, t) /\ HoldsVote(j, k, t) => i = k
    /\ \A i \in Server :
          /\ peer[i].role # Follower => peer[i].votedFor = i
          /\ IsLeader(i) => IsMajority(peer[i].votes)
=============================================================================
