------------------------------- MODULE MCNode -------------------------------
(* Instance of Node for TLC: nodes and commands are model values. *)
EXTENDS Node

(***************************************************************************)
(* What the future of a state depends on: as in MCRaft, calls and answers  *)
(* of an old term are only good for telling a newer one, and what is reset *)
(* before it is read again does not count.  Once entries are lost the     *)
(* apply loops rest.                                                       *)
(***************************************************************************)
OldTerm(m) == m.req.Term < node[m.to].currentTerm

HigherTerm(r) == r.epoch = node[r.to].epoch /\ r.resp.Term > node[r.to].currentTerm

Counts(r) ==
    LET n == node[r.to] IN
    /\ r.epoch = n.epoch
    /\ IF Replicates(r) THEN ~contextLostLocked(n, Leader, r.req.Term)
       ELSE ~contextLostLocked(n, Candidate, r.req.Term) /\ r.resp.VoteGranted

NodeView(n) ==
    [n EXCEPT !.electing = {t \in @ : ~contextLostLocked(n, Candidate, t)},
              !.counting = {v \in @ : ~contextLostLocked(n, Candidate, v[1])},
              !.votes = {v \in @ : ~contextLostLocked(n, Candidate, v[1])},
              !.waiting = @ /\ ~lost,
              !.msgs = IF lost THEN <<>> ELSE @,
              !.lastApplied = IF lost THEN 0 ELSE @,
              !.snapPending = @ /\ ~lost,
              !.nextIndex = IF n.role = Leader THEN @ ELSE <<>>,
              !.matchIndex = IF n.role = Leader THEN @ ELSE <<>>]

View ==
    <<lost, [i \in Server |-> NodeView(node[i])],
      {m \in requests : ~OldTerm(m)},
      {<<m.from, m.to, Replicates(m)>> :
          m \in {k \in requests : OldTerm(k) /\ k.epoch = node[k.from].epoch}},
      {[r EXCEPT !.resp.Term = 0] : r \in {q \in replies : ~HigherTerm(q) /\ Counts(q)}},
      {<<r.from, r.to, Replicates(r), r.resp.Term>> : r \in {q \in replies : HigherTerm(q)}}>>

(***************************************************************************)
(* A later start: one node was elected in term 2 by all, its RequestVote   *)
(* calls have returned, it has not replicated anything yet and the apply   *)
(* loops have gone to sleep.                                               *)
(***************************************************************************)
Voted(l) ==
    LET n == becomeFollowerLocked(NewNode(NewRaftStorage, 0), 2) IN persistLocked([n EXCEPT !.votedFor = l, !.waiting = TRUE])

ElectedInit ==
    \E l \in Serving \ Impatient :
        /\ node = [[i \in Server |-> Voted(l)] EXCEPT
                      ![l] = becomeLeaderLocked([@ EXCEPT !.votes = {<<2, p>> : p \in Server}])]
        /\ requests = {}
        /\ replies = {}
        /\ lost = FALSE

ElectedSpec == ElectedInit /\ [][Next]_vars
=============================================================================
