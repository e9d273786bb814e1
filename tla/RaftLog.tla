------------------------------ MODULE RaftLog ------------------------------
(***************************************************************************)
(* The log of one peer, src/raft/raft_log.go.                              *)
(*                                                                         *)
(* A log is a record with the fields of the Go struct RaftLog.  tailLog[1] *)
(* is the dummy entry that stands for index snapLastIdx; the entry with    *)
(* logical index i is tailLog[i - snapLastIdx + 1].  The bytes of a        *)
(* snapshot are abstracted to what they summarise: the sequence of the     *)
(* entries 1..snapLastIdx.                                                 *)
(***************************************************************************)
EXTENDS Integers, Sequences

CONSTANTS Command,   \* what clients submit
          Nil        \* the zero value of Command and of votedFor (-1 in the code)

InvalidIndex == 0
InvalidTerm == 0

Entry == [Term : Nat, Command : Command \cup {Nil}]

\* The dummy entry is always there, and a snapshot covers 1..snapLastIdx.
LogType == {rl \in [snapLastIdx : Nat, snapLastTerm : Nat,
                    snapshot : Seq(Entry), tailLog : Seq(Entry)] :
               rl.tailLog # <<>> /\ Len(rl.snapshot) = rl.snapLastIdx}

dummy(term) == [Term |-> term, Command |-> Nil]

NewLog == [snapLastIdx |-> InvalidIndex, snapLastTerm |-> InvalidTerm,
           snapshot |-> <<>>, tailLog |-> <<dummy(InvalidTerm)>>]

size(rl) == rl.snapLastIdx + Len(rl.tailLog)

\* The indices for which idx (and so at) does not panic.
InRange(rl, i) == rl.snapLastIdx <= i /\ i < size(rl)

\* Position of logical index i in tailLog; the code counts from 0.
idx(rl, i) == i - rl.snapLastIdx + 1

at(rl, i) == rl.tailLog[idx(rl, i)]

lastIndex(rl) == size(rl) - 1

lastTerm(rl) ==
    IF rl.tailLog = <<>> THEN rl.snapLastTerm ELSE rl.tailLog[Len(rl.tailLog)].Term

\* The scan stops at the first larger term, even when term occurs behind it.
firstFor(rl, term) ==
    LET hits == {p \in DOMAIN rl.tailLog :
                    /\ rl.tailLog[p].Term = term
                    /\ \A q \in 1..(p - 1) : rl.tailLog[q].Term < term}
    IN  IF hits = {} THEN InvalidIndex ELSE (CHOOSE p \in hits : TRUE) - 1 + rl.snapLastIdx

\* The entries from startIdx on, from the dummy entry on if startIdx is below it.
tail(rl, startIdx) ==
    SubSeq(rl.tailLog, IF startIdx < rl.snapLastIdx THEN 1 ELSE idx(rl, startIdx), Len(rl.tailLog))

append(rl, e) == [rl EXCEPT !.tailLog = Append(@, e)]

appendFromBefore(rl, prev, entries) ==
    [rl EXCEPT !.tailLog = SubSeq(@, 1, idx(rl, prev) - 1) \o entries]

\* Everything behind prev goes, also entries that already agree with `entries'.
appendFrom(rl, prev, entries) ==
    [rl EXCEPT !.tailLog = SubSeq(@, 1, idx(rl, prev)) \o entries]

cutBehind(rl, index, term, snapshot) ==
    [snapLastIdx  |-> index,
     snapLastTerm |-> term,
     snapshot     |-> snapshot,
     tailLog      |-> <<dummy(term)>> \o tail(rl, index + 2)]

\* The log with everything up to index replaced by a snapshot; the entries
\* behind index are kept, whatever their terms.
cutAt(rl, index, term, snapshot) ==
    [snapLastIdx  |-> index,
     snapLastTerm |-> term,
     snapshot     |-> snapshot,
     tailLog      |-> <<dummy(term)>> \o tail(rl, index + 1)]

doSnapshot(rl, index, snapshot) ==
    IF InRange(rl, index) /\ index > rl.snapLastIdx
    THEN cutAt(rl, index, at(rl, index).Term, snapshot)
    ELSE rl

installSnapshot(rl, index, term, snapshot) ==
    IF index > rl.snapLastIdx THEN cutAt(rl, index, term, snapshot) ELSE rl

(***************************************************************************)
(* Not in the code: the whole history a log stands for.                    *)
(***************************************************************************)
History(rl) == rl.snapshot \o Tail(rl.tailLog)

Prefix(rl, n) == SubSeq(History(rl), 1, n)

StartsWith(rl, s) == Len(s) <= Len(History(rl)) /\ Prefix(rl, Len(s)) = s
=============================================================================
