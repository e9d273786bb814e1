------------------------------ MODULE KVStore ------------------------------
(***************************************************************************)
(* What the key-value services promise to their clients: one store.  A     *)
(* client has one call in progress.  A Put or Append takes effect exactly  *)
(* once between its call and its return; a Get returns a value the key had *)
(* in that time.                                                           *)
(***************************************************************************)
EXTENDS Integers, Sequences

CONSTANTS Client, Nil

VARIABLES store,    \* the value of each key that was written, a sequence of pieces
          done,     \* per client, how many of its Puts and Appends took effect
          op,       \* per client, its last call
          result,   \* what that call returned, Nil while it is in progress
          seen      \* the values its key had since it began

storeVars == <<store, done, op, result, seen>>

ValueOf(kv, key) == IF key \in DOMAIN kv THEN kv[key] ELSE <<>>

Write(kv, key, value) == [k \in DOMAIN kv \cup {key} |-> IF k = key THEN value ELSE kv[k]]

\* The store after operation o.
Effect(kv, o) ==
    CASE o.OpType = "Put"    -> Write(kv, o.Key, <<o.Value>>)
      [] o.OpType = "Append" -> Write(kv, o.Key, Append(ValueOf(kv, o.Key), o.Value))

Writes(o) == o.OpType # "Get"

StoreInit ==
    /\ store = <<>>
    /\ done = [c \in Client |-> 0]
    /\ op = [c \in Client |-> Nil]
    /\ result = [c \in Client |-> <<>>]
    /\ seen = [c \in Client |-> {}]

Invoke(c, o) ==
    /\ result[c] # Nil /\ o # Nil
    /\ Writes(o) => o.SeqId = done[c]
    /\ op' = [op EXCEPT ![c] = o]
    /\ result' = [result EXCEPT ![c] = Nil]
    /\ seen' = [seen EXCEPT ![c] = {ValueOf(store, o.Key)}]
    /\ UNCHANGED <<store, done>>

\* The write of c takes effect, and every call in progress has seen it.
Execute(c) ==
    /\ result[c] = Nil /\ Writes(op[c])
    /\ done[c] = op[c].SeqId
    /\ done' = [done EXCEPT ![c] = @ + 1]
    /\ UNCHANGED <<op, result>>
    /\ store' = Effect(store, op[c])
    /\ seen' = [d \in Client |->
                  IF result[d] = Nil THEN seen[d] \cup {ValueOf(store', op[d].Key)} ELSE seen[d]]

Return(c, value) ==
    /\ result[c] = Nil /\ value # Nil
    /\ result' = [result EXCEPT ![c] = value]
    /\ IF Writes(op[c]) THEN done[c] = op[c].SeqId + 1 ELSE value \in seen[c]
    /\ seen' = [seen EXCEPT ![c] = {}]
    /\ UNCHANGED <<store, done, op>>

StoreNext ==
    \E c \in Client : Invoke(c, op'[c]) \/ Execute(c) \/ Return(c, result'[c])

StoreSpec == StoreInit /\ [][StoreNext]_storeVars
=============================================================================
