----------------------------- MODULE Porcupine -----------------------------
(***************************************************************************)
(* The linearizability checker of src/porcupine with the model of one key  *)
(* in src/models/kv.go.  The tests of the key-value services record every  *)
(* call of their clerks and have it decide whether the calls fit one order *)
(* of a single store.                                                      *)
(*                                                                         *)
(* A history is a sequence of operations with Input, Output, Call and      *)
(* Return time.  The linked list of checkSingle is the sorted sequence of  *)
(* entries without those of the operations in the bitset linearized, and   *)
(* is therefore not kept apart from it.  What only the pictures need       *)
(* (partial linearizations) is left out.                                   *)
(***************************************************************************)
EXTENDS Integers, SequencesExt

-----------------------------------------------------------------------------
(* src/models/kv.go; a string is the sequence of its pieces. *)

Partition(history) ==
    {SelectSeq(history, LAMBDA op : op.Input.Key = key) :
        key \in {history[i].Input.Key : i \in DOMAIN history}}

ModelInit == <<>>

ModelStep(state, input, output) ==
    CASE input.Op = "Get"    -> [ok |-> output = state, state |-> state]
      [] input.Op = "Put"    -> [ok |-> TRUE, state |-> <<input.Value>>]
      [] input.Op = "Append" -> [ok |-> TRUE, state |-> Append(state, input.Value)]

-----------------------------------------------------------------------------
(* src/porcupine/checker.go. *)

\* Calls come before returns of the same time.
Less(a, b) == a.time < b.time \/ (a.time = b.time /\ a.kind = "call" /\ b.kind = "return")

\* The sort is not stable; equal entries come by id.
makeEntries(history) ==
    SetToSortSeq({[kind |-> "call", id |-> i, time |-> history[i].Call] : i \in DOMAIN history} \cup
                 {[kind |-> "return", id |-> i, time |-> history[i].Return] : i \in DOMAIN history},
                 LAMBDA a, b : Less(a, b) \/ (~Less(b, a) /\ a.id < b.id))

\* entry.next, 0 at the end of the list; the head has position 0.
next(entries, pos, linearized) ==
    LET behind == {i \in DOMAIN entries : i > pos /\ entries[i].id \notin linearized}
    IN  IF behind = {} THEN 0 ELSE Min(behind)

\* The loop of checkSingle.  calls is the stack of operations that were
\* lifted, each with the state before it; the cache keeps what was tried.
RECURSIVE search(_, _, _, _, _, _)
search(history, entries, entry, calls, state, cache) ==
    LET linearized == {calls[i].id : i \in DOMAIN calls}
        id == entries[entry].id
        step == ModelStep(state, history[id].Input, history[id].Output)
        new == <<linearized \cup {id}, step.state>>
        top == Last(calls)
    IN
    IF next(entries, 0, linearized) = 0 THEN TRUE
    ELSE IF entries[entry].kind = "call"
    THEN IF step.ok /\ new \notin cache
         THEN search(history, entries, next(entries, 0, linearized \cup {id}),
                     Append(calls, [entry |-> entry, id |-> id, state |-> state]),
                     step.state, cache \cup {new})
         ELSE search(history, entries, next(entries, entry, linearized), calls, state, cache)
    ELSE IF calls = <<>> THEN FALSE
    ELSE search(history, entries, next(entries, top.entry, linearized \ {top.id}),
                Front(calls), top.state, cache)

checkSingle(history) ==
    LET entries == makeEntries(history)
    IN  search(history, entries, next(entries, 0, {}), <<>>, ModelInit, {})

\* The verdict once the checks of the parts in finished have returned and
\* the others were cut off by the timeout.
checkParallel(parts, finished) ==
    IF \E part \in finished : ~checkSingle(part) THEN "Illegal"
    ELSE IF finished # parts THEN "Unknown" ELSE "Ok"

checkOperations(history, finished) == checkParallel(Partition(history), finished)

\* Without a timeout.
CheckOperations(history) == checkOperations(history, Partition(history)) = "Ok"

-----------------------------------------------------------------------------
(* The reference: there is an order of all operations that keeps an operation
   before those called after its return, and in which every operation on its
   key does what the model says. *)

Orders(n) == {f \in [1..n -> 1..n] : \A i, j \in 1..n : f[i] = f[j] => i = j}

Linearizable(history) ==
    \E f \in Orders(Len(history)) :
        /\ \A i, j \in DOMAIN history : history[f[i]].Return < history[f[j]].Call => i < j
        /\ \A i \in DOMAIN history :
              LET op == history[f[i]]
                  before == SelectSeq([k \in 1..i - 1 |-> history[f[k]]],
                                      LAMBDA o : o.Input.Key = op.Input.Key)
                  value == FoldLeft(LAMBDA s, o : ModelStep(s, o.Input, o.Output).state, ModelInit, before)
              IN  ModelStep(value, op.Input, op.Output).ok
=============================================================================
