--------------------------- MODULE ReplicatedLog ---------------------------
(***************************************************************************)
(* What Raft promises to the services built on it: every server has a log, *)
(* some servers believe to be leader, and there is one sequence of         *)
(* committed entries.  Entries a server has beyond the committed ones may  *)
(* be replaced by others at any time after it stepped down.                *)
(*                                                                         *)
(* Module RaftImplements shows Raft to implement these steps; KVServer is  *)
(* built on them.                                                          *)
(***************************************************************************)
EXTENDS Integers, Sequences, FiniteSetsExt

CONSTANT Server

VARIABLES log,        \* per server, the sequence of its entries
          leaders,    \* the servers whose GetState says isLeader
          committed   \* the entries that are committed

logVars == <<log, leaders, committed>>

Begins(t, s) == Len(t) <= Len(s) /\ \A i \in 1..Len(t) : t[i] = s[i]

Latest(s) == s[Len(s)]

\* l keeps the committed entries that l0 has.
Keeps(l0, l) ==
    LET c == committed IN
    \A n \in 1..Len(c) : Begins(SubSeq(c, 1, n), l0) => Begins(SubSeq(c, 1, n), l)

IsQuorum(Q) == 2 * Cardinality(Q) > Cardinality(Server)

LogInit ==
    /\ log = [s \in Server |-> <<>>]
    /\ leaders = {}
    /\ committed = <<>>

\* A server that wins an election has everything that is committed.
Lead(s) ==
    /\ s \notin leaders
    /\ leaders' = leaders \cup {s}
    /\ Begins(committed, log[s])
    /\ UNCHANGED <<log, committed>>

\* Start: a leader appends an entry.
AppendTo(s, entry) ==
    /\ s \in leaders
    /\ log' = [log EXCEPT ![s] = Append(@, entry)]
    /\ UNCHANGED <<leaders, committed>>

\* A server follows: it steps down if it led, and may get another log, but
\* keeps what is committed.
Follow(s, l) ==
    /\ leaders' = leaders \ {s}
    /\ log' = [log EXCEPT ![s] = l]
    /\ Keeps(log[s], l)
    /\ UNCHANGED committed

\* Entries of a leader are committed once a majority has them.
Commit(s, entries) ==
    /\ s \in leaders
    /\ Begins(committed, entries) /\ Begins(entries, log[s])
    /\ IsQuorum({p \in Server : Begins(entries, log[p])})
    /\ committed' = entries
    /\ UNCHANGED <<log, leaders>>

\* The entries may be any; Follow may replace a log by any other.
LogNext ==
    \E s \in Server :
        \/ Lead(s)
        \/ Follow(s, log'[s])
        \/ Len(log'[s]) > Len(log[s]) /\ AppendTo(s, Latest(log'[s]))
        \/ Commit(s, committed')

LogSteps == [][LogNext]_logVars
=============================================================================
