------------------------------ MODULE MCRaft ------------------------------
(* Instances of Raft for TLC: peers and commands are model values. *)
EXTENDS RaftImplements, TLC

\* The peers are alike but for their timers.
Symmetry == {f \in Permutations(Server) : {f[i] : i \in Impatient} = Impatient}

(***************************************************************************)
(* What the future of a state depends on.  A request from an old term is   *)
(* only good for telling its sender the new term; a reply with a higher    *)
(* term only for that term.  A reply whose caller has left the term or     *)
(* role it asked in changes nothing any more, and neither does a           *)
(* startElection goroutine of an abandoned candidacy.  nextIndex and       *)
(* matchIndex are reset when a peer becomes leader, votes with the next    *)
(* candidacy.                                                              *)
(***************************************************************************)
OldTerm(m) == m.args.Term < peer[m.to].currentTerm

HigherTerm(r) == r.epoch = peer[r.to].epoch /\ r.body.Term > peer[r.to].currentTerm

Counts(r) ==
    LET rf == peer[r.to] IN
    /\ r.epoch = rf.epoch
    /\ IF Replicates(r) THEN ~contextLost(rf, Leader, r.args.Term)
       ELSE ~contextLost(rf, Candidate, r.args.Term) /\ r.body.VoteGranted

PeerView(rf) ==
    [rf EXCEPT !.electing = {t \in @ : ~contextLost(rf, Candidate, t)},
               !.votes = IF rf.role = Candidate THEN @ ELSE {},
               !.nextIndex = IF rf.role = Leader THEN @ ELSE <<>>,
               !.matchIndex = IF rf.role = Leader THEN @ ELSE <<>>]

View ==
    <<[i \in Server |-> PeerView(peer[i])],
      {m \in requests : ~OldTerm(m)},
      {<<m.from, m.to, Replicates(m)>> :
          m \in {n \in requests : OldTerm(n) /\ n.epoch = peer[n.from].epoch}},
      {[r EXCEPT !.body.Term = 0] : r \in {q \in replies : ~HigherTerm(q) /\ Counts(q)}},
      {<<r.from, r.to, Replicates(r), r.body.Term>> : r \in {q \in replies : HigherTerm(q)}}>>

(***************************************************************************)
(* A later start: one peer was elected in term 2 by all, its RequestVote   *)
(* calls have returned and it has not replicated anything yet.             *)
(***************************************************************************)
ElectedInit ==
    \E l \in Server :
        LET voter == Boot([currentTerm |-> 2, votedFor |-> l, log |-> NewLog], 0) IN
        /\ peer = [[i \in Server |-> voter] EXCEPT ![l] = becomeLeader([voter EXCEPT !.votes = Server])]
        /\ requests = {}
        /\ replies = {}

ElectedSpec == ElectedInit /\ [][Next]_vars

(***************************************************************************)
(* A start with diverged logs.  a led term 2 and appended an entry nobody  *)
(* else got; b was elected in term 3 by itself and c and did the same; a   *)
(* was elected again in term 4 by itself and c, of which b knows nothing.  *)
(***************************************************************************)
Written(term) == append(NewLog, [Term |-> term, Command |-> CHOOSE c \in Command : TRUE])

Elected(i, term, voters, log) ==
    becomeLeader([Boot([currentTerm |-> term, votedFor |-> i, log |-> log], 0) EXCEPT !.votes = voters])

DivergedInit ==
    \E a, b, c \in Server :
        /\ Server = {a, b, c} /\ Cardinality(Server) = 3
        /\ peer = [i \in Server |->
                     CASE i = a -> Elected(a, 4, {a, c}, Written(2))
                       [] i = b -> Elected(b, 3, {b, c}, Written(3))
                       [] i = c -> Boot([currentTerm |-> 4, votedFor |-> a, log |-> NewLog], 0)]
        /\ requests = {}
        /\ replies = {}

DivergedSpec == DivergedInit /\ [][Next]_vars

(***************************************************************************)
(* A start with a deposed leader that does not know it: a led term 2 and   *)
(* appended two entries nobody else got; b was elected in term 3 by c.     *)
(***************************************************************************)
DeposedInit ==
    \E a, b, c \in Server :
        /\ Server = {a, b, c} /\ Cardinality(Server) = 3
        /\ peer = [i \in Server |->
                     CASE i = a -> Elected(a, 2, Server, append(Written(2), at(Written(2), 1)))
                       [] i = b -> Elected(b, 3, {b, c}, NewLog)
                       [] i = c -> Boot([currentTerm |-> 3, votedFor |-> b, log |-> NewLog], 0)]
        /\ requests = {}
        /\ replies = {}

DeposedSpec == DeposedInit /\ [][Next]_vars

(***************************************************************************)
(* The same, later: b's two entries are on c too and committed, and b has  *)
(* compacted the first.  a has been told nothing yet.                      *)
(***************************************************************************)
CompactedInit ==
    \E a, b, c \in Server :
        LET mine == append(Written(2), at(Written(2), 1))
            log == append(Written(3), at(Written(3), 1))
            leader == Elected(b, 3, {b, c}, doSnapshot(log, 1, Prefix(log, 1)))
        IN
        /\ Server = {a, b, c} /\ Cardinality(Server) = 3
        /\ peer = [i \in Server |->
                     CASE i = a -> Elected(a, 2, Server, mine)
                       [] i = b -> [leader EXCEPT !.commitIndex = 2,
                                                  !.matchIndex = [p \in Server |-> IF p = a THEN 0 ELSE 2],
                                                  !.nextIndex = [p \in Server |-> IF p = a THEN 1 ELSE 3]]
                       [] i = c -> Boot([currentTerm |-> 3, votedFor |-> b, log |-> log], 0)]
        /\ requests = {}
        /\ replies = {}

CompactedSpec == CompactedInit /\ [][Next]_vars
=============================================================================
