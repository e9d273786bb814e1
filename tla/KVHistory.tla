----------------------------- MODULE KVHistory -----------------------------
(***************************************************************************)
(* The key-value service with its linearizability checker, as the tests of *)
(* src/kvraft compose them: the calls of all clerks are recorded with the  *)
(* times of their begin and end, and the checker of Porcupine is given the *)
(* history when no clerk has a call in progress.                           *)
(***************************************************************************)
EXTENDS KVServer, Porcupine

VARIABLE events    \* the begins and ends of calls so far

Event(c) ==
    IF client'[c].result = Nil
    THEN [kind |-> "call", client |-> c, op |-> client'[c].op]
    ELSE [kind |-> "return", client |-> c, op |-> client[c].op, result |-> client'[c].result]

\* A step in which a clerk begins or ends a call is recorded.
Record ==
    LET changed == {c \in Client : (client[c].result = Nil) # (client'[c].result = Nil)}
    IN  events' = events \o SetToSeq({Event(c) : c \in changed})

TestedNext == Next /\ Record

\* The operations that have returned; positions in events are their times.
Operations ==
    LET ends == {i \in DOMAIN events : events[i].kind = "return"}
        begin(i) == Max({j \in 1..i : events[j].kind = "call" /\ events[j].client = events[i].client})
        operation(i) ==
            LET e == events[i] IN
            [Input |-> [Op |-> e.op.OpType, Key |-> e.op.Key, Value |-> e.op.Value],
             Output |-> e.result, Call |-> begin(i), Return |-> i]
    IN  SetToSeq({operation(i) : i \in ends})

Quiet == \A c \in Client : client[c].result # Nil

\* The checker accepts what the clerks have seen: every history of completed
\* calls fits one order of a single store, over retries, timeouts, changes
\* of the leader, snapshots and restarts (kvraft/test_test.go:369).
HistoryAccepted == Quiet => CheckOperations(Operations)
=============================================================================
