---------------------------- MODULE KVCallProofs ----------------------------
(***************************************************************************)
(* The calls of KVServer's clerks: CallInv is an invariant as long as no   *)
(* server leads again while requests of its earlier term still wait there. *)
(* A handler waits for the entry its clerk asked for, what it answers is   *)
(* what that entry did, and a write is done once.                          *)
(***************************************************************************)
EXTENDS KVServerProofs

-----------------------------------------------------------------------------
(* Steps that answer a call or send an RPC. *)

\* Handlers that are left: each is one of before, and if it waits it did so
\* before, for the same entry.
Leaves(hs) ==
    \A g \in hs : \E x \in handlers :
        /\ g.client = x.client /\ g.call = x.call /\ g.op = x.op
        /\ Waiting(g) => Waiting(x) /\ g.server = x.server /\ g.index = x.index

\* No reply comes to those that wait.
Quiet == \A x \in handlers : Waiting(x) /\ Replied(x)' => Replied(x)

LEMMA HandlersKept ==
    ASSUME HandlerInv, UNCHANGED <<logVars, others>>, Quiet,
           \A x \in handlers : x.call <= client'[x.client].attempts,
           \A x \in handlers : Current(x)' => Current(x) /\ client'[x.client] = client[x.client],
           NEW hs, Leaves(hs),
           \A g \in handlers' : g \in hs \/ (~Waiting(g) /\ Ours(g)')
    PROVE  HandlerInv'
<1>1. ASSUME NEW x \in handlers PROVE Ours(x)' /\ Placed(x)' /\ Answered(x)'
  <2>1. Ours(x) /\ Placed(x) /\ Answered(x)
    BY DEF HandlerInv
  <2>2. Ours(x)'
    BY <2>1 DEF Ours
  <2>3. Placed(x)'
    BY <2>1 DEF Placed, entry, Waiting, logVars, others
  <2>4. Answered(x)'
    BY <2>1 DEF Answered, Quiet, Waiting, logVars, others
  <2>5. QED
    BY <2>2, <2>3, <2>4
<1>2. ASSUME NEW g \in handlers' PROVE Ours(g)' /\ Placed(g)' /\ Answered(g)'
  <2>1. CASE g \in hs
    <3>1. PICK x \in handlers :
            /\ g.client = x.client /\ g.call = x.call /\ g.op = x.op
            /\ Waiting(g) => Waiting(x) /\ g.server = x.server /\ g.index = x.index
      BY <2>1 DEF Leaves
    <3>2. CASE Waiting(g)
      <4>1. Ours(g)'
        BY <1>1, <3>1 DEF Ours, Current
      <4>2. Placed(g)'
        BY SMTT(60), <1>1, <3>1, <3>2 DEF Placed, Current, entry, Waiting
      <4>3. Answered(g)'
        BY ZenonT(60), <1>1, <3>1, <3>2 DEF Answered, Current, Replied, Waiting
      <4>4. QED
        BY <4>1, <4>2, <4>3
    <3>3. CASE ~Waiting(g)
      <4>1. Ours(g)'
        BY <1>1, <3>1 DEF Ours, Current
      <4>2. QED
        BY Zenon, <3>3, <4>1 DEF Placed, Answered, Waiting
    <3>4. QED
      BY <3>1, <3>2, <3>3
  <2>2. CASE ~Waiting(g) /\ Ours(g)'
    BY <2>2 DEF Placed, Answered, Waiting
  <2>3. QED
    BY <2>1, <2>2
<1>3. QED
  BY <1>2 DEF HandlerInv

LEMMA OpsKept ==
    ASSUME KVInv, OpsInv, UNCHANGED <<logVars, others>>,
           \A o \in Op : OpFits(o) => OpFits(o)',
           \A g \in handlers' : (\E x \in handlers : x.op = g.op) \/ OpFits(g.op)'
    PROVE  OpsInv'
<1>1. \A g \in handlers' : OpFits(g.op)'
  <2>1. \A x \in handlers : x.op \in Op
    BY DEF KVInv, TypeOK, CallTypeOK, Handler
  <2>2. QED
    BY <2>1 DEF OpsInv
<1>2. \A i \in DOMAIN committed : OpFits(committed[i].Command)'
  <2>1. TAKE i \in DOMAIN committed
  <2>2. committed[i].Command \in Op
    BY EntryType DEF KVInv, TypeOK, LogTypeOK
  <2>3. OpFits(committed[i].Command)
    BY DEF OpsInv
  <2>4. committed' = committed
    BY DEF logVars
  <2>5. QED
    BY <2>2, <2>3, <2>4
<1>3. \A s \in Server : \A i \in DOMAIN log[s] : OpFits(log[s][i].Command)'
  <2>1. TAKE s \in Server
  <2>2. TAKE i \in DOMAIN log[s]
  <2>3. log[s][i].Command \in Op
    BY EntryType DEF KVInv, TypeOK, LogTypeOK
  <2>4. OpFits(log[s][i].Command)
    BY DEF OpsInv
  <2>5. log' = log
    BY DEF logVars
  <2>6. QED
    BY <2>3, <2>4, <2>5
<1>4. QED
  BY <1>1, <1>2, <1>3 DEF OpsInv, logVars

\* The clerks other than c stay as they are.
LEMMA OtherClerks ==
    ASSUME KVInv, CallInv, UNCHANGED <<logVars, others>>, NEW c \in Client, NEW ck \in Clerk,
           client' = [client EXCEPT ![c] = ck]
    PROVE  client'[c] = ck /\ \A d \in Client \ {c} : client'[d] = client[d] /\ ClerkOK(d)'
<1>1. client'[c] = ck /\ \A d \in Client \ {c} : client'[d] = client[d]
  BY DEF KVInv, TypeOK, CallTypeOK
<1>2. \A d \in Client \ {c} : ClerkOK(d)'
  BY <1>1 DEF CallInv, ClerkOK, doneAt, others
<1>3. QED
  BY <1>1, <1>2

\* A clerk sends an RPC with its operation: the ones it sent before are of no
\* interest to it any more.
LEMMA SendCall ==
    ASSUME KVInv, CallInv, UNCHANGED <<logVars, others>>, Quiet,
           NEW c \in Client, NEW ck \in Clerk, client' = [client EXCEPT ![c] = ck],
           ck.attempts = client[c].attempts + 1, ck.result = Nil, ck.op \in Op, ClerkOK(c)',
           ck.op.OpType # "Get" => OpFits(ck.op)', \A o \in Op : OpFits(o) => OpFits(o)',
           NEW hs, Leaves(hs), handlers' = hs \cup {RPC(c, ck)}
    PROVE  CallInv'
<1>1. client'[c] = ck /\ \A d \in Client \ {c} : client'[d] = client[d] /\ ClerkOK(d)'
  BY Zenon, OtherClerks
<1>2. \A x \in handlers : x.client \in Client /\ x.call \in Nat /\ x.call <= client[x.client].attempts
  BY DEF KVInv, TypeOK, CallTypeOK, Handler, CallInv, HandlerInv, Ours
<1>3. client[c].attempts \in Nat
  BY DEF KVInv, TypeOK, CallTypeOK, Clerk
<1>4. \A x \in handlers : x.call <= client'[x.client].attempts
  BY <1>1, <1>2, <1>3
<1>5. \A x \in handlers : Current(x)' => Current(x) /\ client'[x.client] = client[x.client]
  <2>1. TAKE x \in handlers
  <2>2. CASE x.client = c
    <3>1. client'[c].attempts # x.call
      BY <1>1, <1>2, <1>3, <2>2
    <3>2. QED
      BY <2>2, <3>1 DEF Current
  <2>3. CASE x.client # c
    BY <1>1, <1>2, <2>3 DEF Current
  <2>4. QED
    BY <2>2, <2>3
<1> DEFINE r == RPC(c, ck)
<1>6. r.client = c /\ r.call = ck.attempts /\ r.op = ck.op /\ r.pc = "arrived"
  BY DEF RPC
<1> HIDE DEF r
<1>7. ~Waiting(r) /\ Ours(r)'
  BY <1>1, <1>3, <1>6 DEF Waiting, Ours, Current
<1>8. handlers' = hs \cup {r}
  BY DEF r
<1>9. HandlerInv'
  BY <1>4, <1>5, <1>7, <1>8, HandlersKept DEF CallInv
<1>10. OpFits(r.op)'
  BY Zenon, <1>6 DEF OpFits
<1>11. OpsInv'
  <2>1. \A g \in handlers' : (\E x \in handlers : x.op = g.op) \/ OpFits(g.op)'
    BY <1>8, <1>10 DEF Leaves
  <2>2. QED
    BY <2>1, OpsKept DEF CallInv
<1>12. QED
  BY <1>1, <1>9, <1>11 DEF CallInv

LEMMA RetryCall ==
    ASSUME KVInv, CallInv, UNCHANGED <<logVars, others>>, Quiet, NEW c \in Client, client[c].result = Nil,
           NEW hs, Leaves(hs), Retry(c, hs)
    PROVE  /\ CallInv' /\ client' \in [Client -> Clerk]
           /\ \A d \in Client : client'[d].op = client[d].op /\ client'[d].result = client[d].result
                                /\ client'[d].since = client[d].since
<1>1. client[c] \in Clerk /\ client[c].op \in Op
  BY DEF KVInv, TypeOK, CallTypeOK
<1>0. PICK ck \in Clerk : ck = nextServer(client[c])
  <2> DEFINE next == (client[c].leaderId + 1) % Cardinality(Server)
             n == client[c].attempts + 1
  <2>1. nextServer(client[c]) = [client[c] EXCEPT !.leaderId = next, !.attempts = n]
    BY DEF nextServer
  <2>2. n \in Nat /\ next \in Server
    BY <1>1, NextServer DEF Clerk
  <2> HIDE DEF next, n
  <2>3. QED
    BY Zenon, <1>1, <2>1, <2>2 DEF Clerk
<1>2. client' = [client EXCEPT ![c] = ck] /\ handlers' = hs \cup {RPC(c, ck)}
  BY <1>0 DEF Retry
<1>3. ck.attempts = client[c].attempts + 1 /\ ck.op = client[c].op /\ ck.result = client[c].result
      /\ ck.seqId = client[c].seqId /\ ck.since = client[c].since
  BY <1>0, <1>1 DEF nextServer, Clerk
<1>4. client'[c] = ck /\ \A d \in Client \ {c} : client'[d] = client[d]
  BY Zenon, <1>2, OtherClerks
<1>5. \A d \in Client : client'[d].op = client[d].op /\ client'[d].result = client[d].result
                        /\ client'[d].since = client[d].since /\ client'[d].seqId = client[d].seqId
  BY <1>3, <1>4
<1>6. ClerkOK(c) /\ ClerkOK(c)'
  BY <1>5 DEF CallInv, ClerkOK, doneAt, others
<1>7. \A o \in Op : OpFits(o) => OpFits(o)'
  <2>1. \A o \in Op : o.OpType # "Get" => o.ClientId \in Client
    BY DEF Op
  <2>2. QED
    BY <1>5, <2>1 DEF OpFits
<1>8. ck.op.OpType # "Get" => OpFits(ck.op)'
  <2>1. ck.op.OpType # "Get" => ck.op.ClientId = c /\ ck.op.SeqId = ck.seqId /\ ck.seqId \in Nat
    BY Zenon, <1>1, <1>3, <1>6 DEF ClerkOK, Clerk
  <2>2. QED
    BY <1>3, <1>4, <2>1 DEF OpFits
<1>9. CallInv'
  BY Zenon, <1>1, <1>2, <1>3, <1>6, <1>7, <1>8, SendCall
<1>10. client' \in [Client -> Clerk]
  BY <1>2 DEF KVInv, TypeOK, CallTypeOK
<1>11. QED
  BY <1>5, <1>9, <1>10

LEMMA CallCallStep ==
    ASSUME KVInv, CallInv, NEW c \in Client, NEW key \in Key, NEW type \in Program[c], Call(c, type, key)
    PROVE  CallInv'
<1>1. client[c] \in Clerk /\ Len(states) \in Nat /\ Len(states) \in DOMAIN states /\ ClerkOK(c)
      /\ client[c].seqId \in Nat
  <2>1. client[c] \in Clerk /\ Len(states) \in Nat /\ ClerkOK(c)
    BY DEF KVInv, TypeOK, CallTypeOK, StatesTypeOK, CallInv
  <2>2. Len(committed) \in Nat /\ Len(states) = Len(committed) + 1 /\ DOMAIN states = 1..Len(states)
    BY DEF KVInv, TypeOK, LogTypeOK, StatesTypeOK, StatesInv
  <2>3. Len(states) \in 1..Len(states)
    BY <2>1, <2>2
  <2>4. QED
    BY <2>1, <2>2, <2>3 DEF Clerk
<1>2. PICK op \in Op :
        /\ op = IF type = "Get" THEN [OpType |-> "Get", Key |-> key, Value |-> Nil, ClientId |-> Nil, SeqId |-> 0]
                ELSE [OpType |-> type, Key |-> key, Value |-> <<c, client[c].seqId>>,
                      ClientId |-> c, SeqId |-> client[c].seqId]
        /\ op.OpType # "Get" => op.ClientId = c /\ op.SeqId = client[c].seqId
  <2>1. type \in {"Get", "Put", "Append"}
    BY Zenon, KVAssumption
  <2>2. CASE type = "Get"
    <3> DEFINE o == [OpType |-> "Get", Key |-> key, Value |-> Nil, ClientId |-> Nil, SeqId |-> 0]
    <3>1. o \in Op /\ o.OpType = "Get"
      BY DEF Op
    <3>2. QED
      BY <2>2, <3>1
  <2>3. CASE type # "Get"
    <3> DEFINE o == [OpType |-> type, Key |-> key, Value |-> <<c, client[c].seqId>>,
                     ClientId |-> c, SeqId |-> client[c].seqId]
    <3>1. o \in Op /\ o.ClientId = c /\ o.SeqId = client[c].seqId
      BY <1>1, <2>1, <2>3 DEF Op
    <3>2. QED
      BY <2>3, <3>1
  <2>4. QED
    BY <2>2, <2>3
<1>3. PICK ck \in Clerk : ck = [client[c] EXCEPT !.op = op, !.result = Nil, !.calls = @ + 1, !.attempts = @ + 1,
                                                 !.since = Len(states)]
  <2> DEFINE n == client[c].calls + 1
             m == client[c].attempts + 1
             since == Len(states)
  <2>1. n \in Nat /\ m \in Nat /\ since \in Nat
    BY <1>1 DEF Clerk
  <2> HIDE DEF n, m, since
  <2>2. [client[c] EXCEPT !.op = op, !.result = Nil, !.calls = n, !.attempts = m, !.since = since] \in Clerk
    BY Zenon, <1>1, <2>1 DEF Clerk
  <2>3. QED
    BY <2>2 DEF n, m, since
<1>4. /\ client[c].result # Nil /\ UNCHANGED <<logVars, server, others>>
      /\ client' = [client EXCEPT ![c] = ck] /\ handlers' = handlers \cup {RPC(c, ck)}
  BY <1>2, <1>3 DEF Call
<1>5. /\ ck.op = op /\ ck.result = Nil /\ ck.attempts = client[c].attempts + 1 /\ ck.since = Len(states)
      /\ ck.seqId = client[c].seqId
  BY <1>1, <1>3 DEF Clerk
<1>6. client'[c] = ck /\ \A d \in Client \ {c} : client'[d] = client[d]
  BY Zenon, <1>4, OtherClerks
<1>7. doneAt(Len(states), c) = client[c].seqId
  BY Zenon, <1>1, <1>4 DEF ClerkOK
<1>8. ClerkOK(c)'
  <2>1. doneAt(Len(states), c)' = doneAt(Len(states), c) /\ states' = states
    BY <1>4 DEF doneAt, others
  <2>2. QED
    BY Zenon, <1>1, <1>2, <1>5, <1>6, <1>7, <2>1 DEF ClerkOK
<1>9. \A o \in Op : OpFits(o) => OpFits(o)'
  <2>1. TAKE o \in Op
  <2>2. o.OpType # "Get" => o.ClientId \in Client /\ o.SeqId \in Nat
    BY DEF Op
  <2>3. CASE o.ClientId = c
    BY <1>1, <1>4, <1>5, <1>6, <2>2, <2>3 DEF OpFits
  <2>4. CASE o.ClientId # c
    BY <1>6, <2>2, <2>4 DEF OpFits
  <2>5. QED
    BY <2>3, <2>4
<1>10. ck.op.OpType # "Get" => OpFits(ck.op)'
  BY <1>1, <1>2, <1>5, <1>6 DEF OpFits
<1>11. Leaves(handlers)
  BY DEF Leaves
<1>12. Quiet
  BY Zenon, <1>4 DEF Quiet, Replied
<1>13. QED
  BY Zenon, <1>4, <1>5, <1>8, <1>9, <1>10, <1>11, <1>12, SendCall

\* A reply other than ErrWrongLeader or ErrTimeout reaches the clerk that
\* waits for it; if it is to a write, that took effect.
LEMMA ReturnCall ==
    ASSUME KVInv, CallInv, UNCHANGED <<logVars, others>>, Quiet,
           NEW h \in handlers, Current(h), NEW value \in Values, NEW hs, Leaves(hs), handlers' = hs,
           client' = [client EXCEPT ![h.client].result = value,
                                    ![h.client].seqId = IF h.op.OpType = "Get" THEN @ ELSE @ + 1],
           h.op.OpType # "Get" => doneAt(Len(states), h.client) > h.op.SeqId
    PROVE  CallInv'
<1> DEFINE c == h.client
<1>1. c \in Client /\ h.op \in Op /\ client[c] \in Clerk /\ client[c].seqId \in Nat
  BY Zenon DEF KVInv, TypeOK, CallTypeOK, Handler, Clerk
<1>2. client[c].result = Nil /\ client[c].op = h.op /\ ClerkOK(c)
  BY Zenon, <1>1 DEF Current, CallInv, HandlerInv, Ours
<1>3. PICK ck \in Clerk : /\ client' = [client EXCEPT ![c] = ck] /\ ck.result = value
                          /\ ck.seqId = IF h.op.OpType = "Get" THEN client[c].seqId ELSE client[c].seqId + 1
                          /\ ck.attempts = client[c].attempts /\ ck.op = client[c].op
  <2> DEFINE n == IF h.op.OpType = "Get" THEN client[c].seqId ELSE client[c].seqId + 1
             new == [client[c] EXCEPT !.result = value, !.seqId = n]
  <2>1. client' = [client EXCEPT ![c] = new]
    BY Zenon, <1>1 DEF KVInv, TypeOK, CallTypeOK
  <2>2. n \in Nat
    BY <1>1
  <2> HIDE DEF n
  <2>3. new \in Clerk /\ new.result = value /\ new.seqId = n /\ new.attempts = client[c].attempts
        /\ new.op = client[c].op
    BY Zenon, <1>1, <2>2 DEF Clerk
  <2> HIDE DEF new
  <2>4. QED
    BY Zenon, <2>1, <2>3 DEF n
<1>4. value # Nil
  BY NilAssumption
<1>5. PICK d \in Client : d = c
  BY <1>1
<1>6. client'[d] = ck /\ \A e \in Client \ {d} : client'[e] = client[e] /\ ClerkOK(e)'
  BY ZenonT(60), <1>3, <1>5, OtherClerks
<1> HIDE DEF c
<1>7. ClerkOK(d)'
  <2>1. doneAt(Len(states), d)' = doneAt(Len(states), d) /\ doneAt(Len(states), d) \in Nat
    <3>1. IsTable(states[Len(states)].dup)
      <4>1. Len(committed) \in Nat /\ Len(states) = Len(committed) + 1 /\ DOMAIN states = 1..Len(states)
        BY DEF KVInv, TypeOK, LogTypeOK, StatesTypeOK, StatesInv
      <4>2. Len(states) \in DOMAIN states
        BY <4>1
      <4>3. QED
        BY Zenon, <4>2 DEF KVInv, TypeOK, StatesTypeOK, IsState
    <3>2. QED
      BY <3>1 DEF doneAt, others, IsTable
  <2>2. doneAt(Len(states), d) = ck.seqId
    <3>1. CASE h.op.OpType = "Get"
      BY <1>2, <1>3, <1>5, <3>1 DEF ClerkOK
    <3>2. CASE h.op.OpType # "Get"
      <4>1. h.op.SeqId = client[d].seqId
        BY Zenon, <1>2, <1>5, <3>2 DEF ClerkOK
      <4>2. doneAt(Len(states), d) > client[d].seqId
        BY <1>5, <3>2, <4>1 DEF c
      <4>3. QED
        BY <1>1, <1>2, <1>3, <1>5, <2>1, <3>2, <4>2 DEF ClerkOK
    <3>3. QED
      BY <3>1, <3>2
  <2>3. QED
    BY Zenon, <1>3, <1>4, <1>6, <2>1, <2>2 DEF ClerkOK
<1>8. \A x \in handlers : x.client \in Client /\ x.call \in Nat /\ x.call <= client[x.client].attempts
  BY Zenon DEF KVInv, TypeOK, CallTypeOK, Handler, CallInv, HandlerInv, Ours
<1>9. \A x \in handlers : x.call <= client'[x.client].attempts
  BY Zenon, <1>3, <1>5, <1>6, <1>8
<1>10. \A x \in handlers : Current(x)' => Current(x) /\ client'[x.client] = client[x.client]
  BY Zenon, <1>3, <1>4, <1>5, <1>6, <1>8 DEF Current
<1>11. HandlerInv'
  BY Zenon, <1>9, <1>10, HandlersKept DEF CallInv
<1>12. \A o \in Op : OpFits(o) => OpFits(o)'
  <2>1. TAKE o \in Op
  <2>2. o.OpType # "Get" => o.ClientId \in Client /\ o.SeqId \in Nat
    BY DEF Op
  <2>3. CASE o.ClientId = d
    <3>1. CASE h.op.OpType = "Get"
      BY SMTT(60), <1>1, <1>2, <1>3, <1>5, <1>6, <2>2, <2>3, <3>1 DEF OpFits
    <3>2. CASE h.op.OpType # "Get"
      BY SMTT(60), <1>1, <1>2, <1>3, <1>5, <1>6, <2>2, <2>3, <3>2 DEF OpFits
    <3>3. QED
      BY <3>1, <3>2
  <2>4. CASE o.ClientId # d
    BY Zenon, <1>6, <2>2, <2>4 DEF OpFits
  <2>5. QED
    BY <2>3, <2>4
<1>13. OpsInv'
  <2>1. \A g \in handlers' : (\E x \in handlers : x.op = g.op) \/ OpFits(g.op)'
    BY Zenon DEF Leaves
  <2>2. QED
    BY Zenon, <1>12, <2>1, OpsKept DEF CallInv
<1>14. QED
  BY Zenon, <1>6, <1>7, <1>11, <1>13 DEF CallInv

LEMMA DoneType ==
    ASSUME KVInv, NEW k \in DOMAIN states, NEW c
    PROVE  doneAt(k, c) \in Nat
<1>1. IsTable(states[k].dup)
  BY DEF KVInv, TypeOK, StatesTypeOK, IsState
<1>2. QED
  BY <1>1 DEF doneAt, IsTable

LEMMA HistoryLen ==
    ASSUME KVInv
    PROVE  /\ Len(committed) \in Nat /\ Len(states) = Len(committed) + 1 /\ DOMAIN states = 1..Len(states)
           /\ DOMAIN committed = 1..Len(committed) /\ Len(states) \in DOMAIN states /\ Len(states) \in Nat
<1>1. /\ Len(committed) \in Nat /\ Len(states) = Len(committed) + 1 /\ DOMAIN states = 1..Len(states)
      /\ DOMAIN committed = 1..Len(committed)
  BY DEF KVInv, TypeOK, LogTypeOK, StatesTypeOK, StatesInv
<1>2. QED
  BY <1>1

\* What took effect stays so.
LEMMA DoneStays ==
    ASSUME KVInv, NEW k \in DOMAIN states, NEW c \in Client, NEW n \in Nat, doneAt(k, c) > n
    PROVE  doneAt(Len(states), c) > n
<1>1. k <= Len(states) /\ Len(states) \in DOMAIN states
  BY HistoryLen
<1>2. doneAt(k, c) <= doneAt(Len(states), c)
  BY <1>1 DEF KVInv, StatesInv
<1>3. QED
  BY <1>1, <1>2, DoneType

\* applyTask leaves the table at or beyond the write it applied.
LEMMA ApplyDone ==
    ASSUME NEW kv, NEW dup, IsTable(dup), NEW o \in Op, o.OpType # "Get"
    PROVE  LET new == apply(kv, dup, o).dup
           IN  o.ClientId \in DOMAIN new /\ o.SeqId <= new[o.ClientId]
<1>1. o.SeqId \in Nat
  BY DEF Op
<1>2. CASE requestDuplicated(dup, o.ClientId, o.SeqId)
  <2>1. apply(kv, dup, o).dup = dup
    BY <1>2 DEF apply
  <2>2. QED
    BY <1>2, <2>1 DEF requestDuplicated
<1>3. CASE ~requestDuplicated(dup, o.ClientId, o.SeqId)
  <2>1. apply(kv, dup, o).dup = assign(dup, o.ClientId, o.SeqId)
    BY <1>3 DEF apply
  <2>2. QED
    BY <1>1, <2>1 DEF assign
<1>4. QED
  BY <1>2, <1>3

LEMMA CommittedDone ==
    ASSUME KVInv, NEW i \in DOMAIN committed, committed[i].Command.OpType # "Get"
    PROVE  doneAt(Len(states), committed[i].Command.ClientId) > committed[i].Command.SeqId
<1> DEFINE o == committed[i].Command
           c == o.ClientId
<1>1. o \in Op /\ c \in Client /\ o.SeqId \in Nat
  <2>1. o \in Op
    BY EntryType DEF KVInv, TypeOK, LogTypeOK
  <2>2. QED
    BY <2>1 DEF Op
<1>2. i \in DOMAIN states /\ i + 1 \in DOMAIN states
  BY HistoryLen
<1>3. states[i + 1].dup = apply(states[i].KV, states[i].dup, o).dup
  <2>1. states[i + 1] = stateAfter(states[i], o)
    BY DEF KVInv, StatesInv
  <2>2. QED
    BY <2>1 DEF stateAfter
<1>4. IsTable(states[i].dup) /\ IsTable(states[i + 1].dup)
  BY <1>2 DEF KVInv, TypeOK, StatesTypeOK, IsState
<1>5. c \in DOMAIN states[i + 1].dup /\ o.SeqId <= states[i + 1].dup[c]
  BY Zenon, <1>1, <1>3, <1>4, ApplyDone
<1>6. states[i + 1].dup[c] \in Nat
  BY Zenon, <1>4, <1>5 DEF IsTable
<1> HIDE DEF o, c
<1>7. doneAt(i + 1, c) > o.SeqId
  BY <1>1, <1>5, <1>6 DEF doneAt
<1>8. QED
  BY <1>1, <1>2, <1>7, DoneStays DEF o, c

LEMMA AnswerCall ==
    ASSUME KVInv, CallInv, UNCHANGED <<logVars, others>>, Quiet,
           NEW h \in handlers, NEW reply \in Reply, NEW hs, Leaves(hs), Answer(h, reply, hs),
           reply.Err \notin {ErrWrongLeader, ErrTimeout} /\ h.op.OpType # "Get" =>
              doneAt(Len(states), h.op.ClientId) > h.op.SeqId
    PROVE  CallInv'
<1> DEFINE c == h.client
<1>1. c \in Client /\ reply.Value \in Values
  BY DEF KVInv, TypeOK, CallTypeOK, Handler, Reply
<1>2. CASE ~Current(h)
  <2>1. handlers' = hs /\ client' = client
    BY <1>2 DEF Answer, Current
  <2>2. \A x \in handlers : Current(x)' => Current(x) /\ client'[x.client] = client[x.client]
    BY <2>1 DEF Current
  <2>3. \A x \in handlers : x.call <= client'[x.client].attempts
    BY <2>1 DEF CallInv, HandlerInv, Ours
  <2>4. HandlerInv'
    BY <2>1, <2>2, <2>3, HandlersKept DEF CallInv
  <2>5. \A o \in Op : OpFits(o) => OpFits(o)'
    BY <2>1 DEF OpFits
  <2>6. OpsInv'
    <3>1. \A g \in handlers' : (\E x \in handlers : x.op = g.op) \/ OpFits(g.op)'
      BY <2>1 DEF Leaves
    <3>2. QED
      BY <2>5, <3>1, OpsKept DEF CallInv
  <2>7. \A d \in Client : ClerkOK(d)'
    BY Zenon, <2>1 DEF CallInv, ClerkOK, doneAt, others
  <2>8. QED
    BY <2>4, <2>6, <2>7 DEF CallInv
<1>3. CASE Current(h) /\ reply.Err \in {ErrWrongLeader, ErrTimeout}
  <2>1. client[c].result = Nil /\ Retry(c, hs)
    BY <1>3 DEF Answer, Current
  <2>2. PICK d \in Client : d = c
    BY <1>1
  <2>3. QED
    BY <2>1, <2>2, RetryCall
<1>4. CASE Current(h) /\ reply.Err \notin {ErrWrongLeader, ErrTimeout}
  <2>1. /\ client' = [client EXCEPT ![c].result = reply.Value,
                                   ![c].seqId = IF h.op.OpType = "Get" THEN @ ELSE @ + 1]
        /\ handlers' = hs
    BY <1>4 DEF Answer, Current
  <2>2. h.op.OpType # "Get" => h.op.ClientId = c
    <3>1. client[c].result = Nil /\ client[c].op = h.op /\ ClerkOK(c)
      BY Zenon, <1>1, <1>4 DEF Current, CallInv, HandlerInv, Ours
    <3>2. QED
      BY <3>1 DEF ClerkOK
  <2>3. h.op.OpType # "Get" => doneAt(Len(states), h.client) > h.op.SeqId
    BY <1>4, <2>2
  <2>4. QED
    BY Zenon, <1>1, <1>4, <2>1, <2>3, ReturnCall
<1>5. QED
  BY <1>2, <1>3, <1>4

-----------------------------------------------------------------------------
(* The invariant of the calls. *)

LEMMA CallFailsCallStep ==
    ASSUME KVInv, CallInv, NEW c \in Client, CallFails(c)
    PROVE  CallInv'
<1>1. UNCHANGED <<logVars, server, others>> /\ client[c].result = Nil /\ Retry(c, handlers)
  BY DEF CallFails
<1>2. Leaves(handlers) /\ Quiet
  BY Zenon, <1>1 DEF Leaves, Quiet, Replied
<1>3. QED
  BY <1>1, <1>2, RetryCall

\* A handler moves on, with no effect on calls or replies.
LEMMA MoveCall ==
    ASSUME KVInv, CallInv, UNCHANGED <<logVars, others, client>>, Quiet, Leaves(handlers')
    PROVE  CallInv'
<1>1. \A x \in handlers : Current(x)' => Current(x) /\ client'[x.client] = client[x.client]
  BY DEF Current
<1>2. \A x \in handlers : x.call <= client'[x.client].attempts
  BY DEF CallInv, HandlerInv, Ours
<1>3. HandlerInv'
  <2>1. PICK hs : hs = handlers' /\ Leaves(hs)
    OBVIOUS
  <2>2. QED
    BY <1>1, <1>2, <2>1, HandlersKept DEF CallInv
<1>4. \A o \in Op : OpFits(o) => OpFits(o)'
  BY Zenon DEF OpFits
<1>5. OpsInv'
  <2>1. \A g \in handlers' : (\E x \in handlers : x.op = g.op) \/ OpFits(g.op)'
    BY DEF Leaves
  <2>2. QED
    BY <1>4, <2>1, OpsKept DEF CallInv
<1>6. \A d \in Client : ClerkOK(d)'
  BY Zenon DEF CallInv, ClerkOK, doneAt, others
<1>7. QED
  BY <1>3, <1>5, <1>6 DEF CallInv

\* What the table of a server says took effect did so.
LEMMA DuplicateDone ==
    ASSUME KVInv, NEW s \in Server, NEW o \in Op, o.OpType # "Get",
           requestDuplicated(server[s].dup, o.ClientId, o.SeqId)
    PROVE  doneAt(Len(states), o.ClientId) > o.SeqId
<1> DEFINE k == server[s].delivered + 1
<1>1. k \in DOMAIN states /\ server[s].dup = states[k].dup
  <2>1. server[s].delivered \in Nat /\ server[s].delivered <= Len(committed)
        /\ [KV |-> server[s].KV, dup |-> server[s].dup] = states[k]
    BY Zenon, ServerType DEF KVInv, TypeOK, ServerInv, Deliverable
  <2>2. QED
    BY <2>1, HistoryLen
<1>2. o.ClientId \in Client /\ o.SeqId \in Nat
  BY DEF Op
<1> HIDE DEF k
<1>3. o.ClientId \in DOMAIN states[k].dup /\ o.SeqId <= states[k].dup[o.ClientId]
  BY <1>1 DEF requestDuplicated
<1>4. states[k].dup[o.ClientId] \in Nat
  BY Zenon, <1>1, <1>3 DEF KVInv, TypeOK, StatesTypeOK, IsState, IsTable
<1>5. doneAt(k, o.ClientId) > o.SeqId
  BY <1>2, <1>3, <1>4 DEF doneAt
<1>6. QED
  BY <1>1, <1>2, <1>5, DoneStays

LEMMA CheckDuplicateCallStep ==
    ASSUME KVInv, CallInv, NEW h \in handlers, CheckDuplicate(h)
    PROVE  CallInv'
<1>1. UNCHANGED <<logVars, server, others>> /\ h \in Handler /\ h.op \in Op /\ h.server \in Server
  BY DEF CheckDuplicate, KVInv, TypeOK, CallTypeOK, Handler
<1>2. Quiet
  BY Zenon, <1>1 DEF Quiet, Replied
<1>3. CASE h.op.OpType # "Get" /\ requestDuplicated(server[h.server].dup, h.op.ClientId, h.op.SeqId)
  <2>1. Answer(h, [Value |-> <<>>, Err |-> OK], handlers \ {h})
    BY <1>3 DEF CheckDuplicate
  <2>2. [Value |-> <<>>, Err |-> OK] \in Reply
    BY DEF Reply, Values
  <2>3. PICK hs : hs = handlers \ {h} /\ Leaves(hs)
    BY Zenon DEF Leaves
  <2>4. doneAt(Len(states), h.op.ClientId) > h.op.SeqId
    BY <1>1, <1>3, DuplicateDone
  <2>5. QED
    BY <1>1, <1>2, <2>1, <2>2, <2>3, <2>4, AnswerCall
<1>4. CASE ~(h.op.OpType # "Get" /\ requestDuplicated(server[h.server].dup, h.op.ClientId, h.op.SeqId))
  <2>1. handlers' = (handlers \ {h}) \cup {[h EXCEPT !.pc = "start"]} /\ UNCHANGED client
    BY <1>4 DEF CheckDuplicate
  <2> DEFINE g == [h EXCEPT !.pc = "start"]
  <2>2. g.client = h.client /\ g.call = h.call /\ g.op = h.op /\ ~Waiting(g)
    BY <1>1 DEF Handler, Waiting
  <2> HIDE DEF g
  <2>3. Leaves(handlers')
    BY Zenon, <2>1, <2>2 DEF Leaves, g
  <2>4. QED
    BY <1>1, <1>2, <2>1, <2>3, MoveCall
<1>5. QED
  BY <1>3, <1>4

LEMMA FinishedLeaves ==
    ASSUME KVInv, NEW h \in handlers
    PROVE  Leaves(Finished(h))
<1> DEFINE g == [h EXCEPT !.pc = "remove"]
<1>1. g.client = h.client /\ g.call = h.call /\ g.op = h.op /\ ~Waiting(g)
  BY DEF KVInv, TypeOK, CallTypeOK, Handler, Waiting
<1>2. Finished(h) = (handlers \ {h}) \cup {g}
  BY DEF Finished
<1> HIDE DEF g
<1>3. QED
  BY <1>1, <1>2 DEF Leaves

LEMMA TimeoutCallStep ==
    ASSUME KVInv, CallInv, NEW h \in handlers, Timeout(h)
    PROVE  CallInv'
<1>1. UNCHANGED <<logVars, server, others>>
  BY DEF Timeout
<1>2. Quiet
  BY Zenon, <1>1 DEF Quiet, Replied
<1>3. PICK reply \in Reply : reply = [Value |-> <<>>, Err |-> ErrTimeout] /\ reply.Err = ErrTimeout
  <2>1. [Value |-> <<>>, Err |-> ErrTimeout] \in Reply
    BY DEF Reply, Values
  <2>2. QED
    BY <2>1
<1>4. PICK hs : hs = Finished(h) /\ Leaves(hs)
  BY FinishedLeaves
<1>5. QED
  BY <1>1, <1>2, <1>3, <1>4, AnswerCall DEF Timeout

\* The channels of a server change, but no reply comes.
LEMMA QuietChannels ==
    ASSUME KVInv, NEW s \in Server, NEW chans \in Channels,
           server' = [server EXCEPT ![s].notifyChans = chans],
           \A i \in 1..MaxLog : \A n \in DOMAIN chans[i].bufs :
              chans[i].bufs[n] # <<>> => /\ n \in DOMAIN server[s].notifyChans[i].bufs
                                         /\ server[s].notifyChans[i].bufs[n] # <<>>
    PROVE  Quiet
<1>1. server'[s].notifyChans = chans /\ \A p \in Server \ {s} : server'[p].notifyChans = server[p].notifyChans
  BY DEF KVInv, TypeOK, ServerTypeOK, IsServer
<1>2. \A x \in handlers : x.server \in Server /\ (Waiting(x) => x.index \in 1..MaxLog)
  BY Zenon DEF KVInv, TypeOK, CallTypeOK, Handler, WaitInv, Waiting
<1>3. ASSUME NEW x \in handlers, Waiting(x), Replied(x)' PROVE Replied(x)
  <2>1. CASE x.server = s
    <3>1. PICK n \in DOMAIN chans[x.index].bufs : chans[x.index].bufs[n] # <<>>
      BY Zenon, <1>1, <1>3, <2>1 DEF Replied
    <3>2. QED
      BY Zenon, <1>2, <1>3, <2>1, <3>1 DEF Replied
  <2>2. CASE x.server # s
    BY Zenon, <1>1, <1>2, <1>3, <2>2 DEF Replied
  <2>3. QED
    BY <2>1, <2>2
<1>4. QED
  BY <1>3 DEF Quiet

LEMMA UnsubscribeCallStep ==
    ASSUME KVInv, CallInv, NEW h \in handlers, Unsubscribe(h)
    PROVE  CallInv'
<1> DEFINE s == h.server
           i == h.index
           old == server[s].notifyChans
           chans == removeNotifyChannel(old, i)
<1>1. s \in Server /\ i \in 1..MaxLog
  BY Zenon DEF Unsubscribe, KVInv, TypeOK, CallTypeOK, WaitInv, Handler
<1>2. old \in Channels
  BY <1>1, ServerType DEF KVInv, TypeOK
<1>3. /\ server' = [server EXCEPT ![s].notifyChans = chans]
      /\ handlers' = handlers \ {h}
      /\ UNCHANGED <<logVars, client, others>>
  BY DEF Unsubscribe
<1> HIDE DEF s, i, old
<1>4. /\ chans \in Channels /\ chans[i].bufs = old[i].bufs
      /\ \A j \in 1..MaxLog \ {i} : chans[j] = old[j]
  BY <1>1, <1>2, RemoveChannel
<1> HIDE DEF chans
<1>5. \A j \in 1..MaxLog : chans[j].bufs = old[j].bufs
  BY <1>4
<1>6. Quiet
  BY Zenon, <1>1, <1>3, <1>4, <1>5, QuietChannels DEF old
<1>7. Leaves(handlers')
  BY <1>3 DEF Leaves
<1>8. QED
  BY <1>3, <1>6, <1>7, MoveCall

LEMMA SubscribeCallStep ==
    ASSUME KVInv, CallInv, NEW h \in handlers, Subscribe(h)
    PROVE  CallInv'
<1> DEFINE s == h.server
           i == h.index
           old == server[s].notifyChans
           chans == getNotifyChannel(old, i)
           g == [h EXCEPT !.pc = "wait", !.chan = Len(chans[i].bufs)]
<1>1. s \in Server /\ i \in 1..MaxLog /\ h \in Handler /\ h.pc = "channel"
  BY Zenon DEF Subscribe, KVInv, TypeOK, CallTypeOK, WaitInv, Handler
<1>2. old \in Channels /\ (old[i].open => old[i].bufs # <<>>)
  BY ZenonT(60), <1>1, ServerType DEF KVInv, TypeOK, ChannelInv
<1>3. /\ server' = [server EXCEPT ![s].notifyChans = chans]
      /\ handlers' = (handlers \ {h}) \cup {g}
      /\ UNCHANGED <<logVars, client, others>>
  BY DEF Subscribe
<1>4. g.client = h.client /\ g.call = h.call /\ g.op = h.op /\ g.server = h.server /\ g.index = h.index
  BY <1>1 DEF Handler
<1> HIDE DEF s, i, old, g
<1>5. /\ chans \in Channels
      /\ \A n \in DOMAIN chans[i].bufs :
            \/ chans[i].bufs[n] = <<>>
            \/ n \in DOMAIN old[i].bufs /\ chans[i].bufs[n] = old[i].bufs[n]
      /\ \A j \in 1..MaxLog \ {i} : chans[j] = old[j]
  BY Zenon, <1>1, <1>2, GetNotifyChannel
<1> HIDE DEF chans
<1>6. \A j \in 1..MaxLog : \A n \in DOMAIN chans[j].bufs :
        chans[j].bufs[n] # <<>> => n \in DOMAIN old[j].bufs /\ old[j].bufs[n] # <<>>
  BY <1>5
<1>7. Quiet
  BY ZenonT(60), <1>1, <1>3, <1>5, <1>6, QuietChannels DEF old
<1>8. Leaves(handlers')
  BY <1>1, <1>3, <1>4 DEF Leaves, Waiting
<1>9. QED
  BY <1>3, <1>7, <1>8, MoveCall

LEMMA ReceiveCallStep ==
    ASSUME KVInv, CallInv, NEW h \in handlers, Receive(h)
    PROVE  CallInv'
<1> DEFINE s == h.server
           i == h.index
           k == h.chan
           old == server[s].notifyChans
           chans == [old EXCEPT ![i].bufs[k] = <<>>]
<1>1. /\ s \in Server /\ i \in 1..MaxLog /\ h \in Handler /\ Waiting(h) /\ k \in DOMAIN old[i].bufs
      /\ old[i].bufs[k] # <<>> /\ Replied(h)
  BY ZenonT(60) DEF Receive, KVInv, TypeOK, CallTypeOK, WaitInv, Handler, Waiting, Replied
<1>2. old \in Channels
  BY SMTT(60), <1>1, ServerType DEF KVInv, TypeOK
<1>3. /\ server' = [server EXCEPT ![s].notifyChans = chans]
      /\ Answer(h, Head(old[i].bufs[k]), Finished(h))
      /\ UNCHANGED <<logVars, others>>
  BY ZenonT(60) DEF Receive
<1>4. PICK reply \in Reply : reply = Head(old[i].bufs[k])
  <2> DEFINE buf == old[i].bufs[k]
  <2> HIDE DEF s, i, old, k
  <2>1. buf \in Seq(Reply) /\ buf # <<>>
    BY <1>1, <1>2, ChannelType
  <2> HIDE DEF buf
  <2>2. Head(buf) \in Reply
    BY <2>1
  <2>3. QED
    BY <2>2 DEF buf
<1>5. i \in DOMAIN committed
  <2>1. i <= server[s].delivered
    BY ZenonT(60), <1>1 DEF KVInv, ChannelInv
  <2>2. server[s].delivered <= Len(committed) /\ server[s].delivered \in Nat
    BY ZenonT(60), <1>1, ServerType DEF KVInv, TypeOK, ServerInv, Deliverable
  <2>3. QED
    BY SMTT(60), <1>1, <2>1, <2>2, HistoryLen
<1>6. committed[i].Command = h.op
  BY SMTT(60), <1>1 DEF CallInv, HandlerInv, Answered
<1> HIDE DEF s, i, old, k
<1>7. /\ chans \in Channels /\ Len(chans[i].bufs) = Len(old[i].bufs)
      /\ \A n \in DOMAIN chans[i].bufs : chans[i].bufs[n] = <<>> \/ chans[i].bufs[n] = old[i].bufs[n]
      /\ \A j \in 1..MaxLog \ {i} : chans[j] = old[j]
  BY <1>1, <1>2, TakeReply
<1> HIDE DEF chans
<1>8. DOMAIN chans[i].bufs = DOMAIN old[i].bufs
  BY SMTT(60), <1>1, <1>2, <1>7, ChannelType
<1>9. \A j \in 1..MaxLog : \A n \in DOMAIN chans[j].bufs :
        chans[j].bufs[n] # <<>> => n \in DOMAIN old[j].bufs /\ old[j].bufs[n] # <<>>
  BY SMTT(60), <1>7, <1>8
<1>10. Quiet
  BY ZenonT(60), <1>1, <1>3, <1>7, <1>9, QuietChannels DEF old
<1>11. h.op.OpType # "Get" => doneAt(Len(states), h.op.ClientId) > h.op.SeqId
  BY <1>5, <1>6, CommittedDone
<1>12. PICK hs : hs = Finished(h) /\ Leaves(hs)
  BY FinishedLeaves
<1>13. QED
  BY <1>3, <1>4, <1>10, <1>11, <1>12, AnswerCall

\* The logs change, with operations known before.
LEMMA OpsLogs ==
    ASSUME OpsInv, UNCHANGED client,
           \A g \in handlers' : \E x \in handlers : x.op = g.op,
           \A i \in DOMAIN committed' : OpFits(committed'[i].Command),
           \A s \in Server : \A i \in DOMAIN log'[s] : OpFits(log'[s][i].Command)
    PROVE  OpsInv'
<1>1. \A o : OpFits(o)' <=> OpFits(o)
  BY Zenon DEF OpFits
<1>2. QED
  BY <1>1 DEF OpsInv

\* Raft delivered what it committed, and that is in the log.
LEMMA DeliveredInLog ==
    ASSUME KVInv, NEW s \in Server
    PROVE  /\ server[s].delivered \in Nat /\ Len(log[s]) \in Nat
           /\ server[s].delivered <= Len(committed) /\ server[s].delivered <= Len(log[s])
           /\ \A i \in 1..server[s].delivered : log[s][i] = committed[i]
<1> DEFINE d == server[s].delivered
<1>1. d \in Nat /\ Deliverable(s, d) /\ log[s] \in Seq(Entry) /\ committed \in Seq(Entry)
  BY Zenon, ServerType DEF KVInv, TypeOK, ServerInv, LogTypeOK
<1> HIDE DEF d
<1>2. d <= Len(committed) /\ d <= Len(log[s]) /\ \A i \in 1..d : log[s][i] = committed[i]
  BY <1>1, DeliverableDef DEF KVInv, TypeOK, LogTypeOK
<1>3. QED
  BY <1>1, <1>2 DEF d

\* A reply comes only after the entry was delivered.
LEMMA RepliedDelivered ==
    ASSUME KVInv, NEW x \in handlers, Waiting(x), Replied(x)
    PROVE  x.server \in Server /\ x.index \in 1..MaxLog /\ x.index <= server[x.server].delivered
<1>1. x.server \in Server /\ x.index \in 1..MaxLog
  BY Zenon DEF KVInv, TypeOK, CallTypeOK, Handler, WaitInv, Waiting
<1>2. QED
  BY Zenon, <1>1 DEF KVInv, ChannelInv, Replied

LEMMA StartCallStep ==
    ASSUME KVInv, CallInv, NEW h \in handlers, Start(h)
    PROVE  CallInv'
<1> DEFINE s == h.server
           e == entry(h)
           new == [h EXCEPT !.pc = "channel", !.index = Len(log[s]) + 1]
<1>1. h \in Handler /\ s \in Server
  BY DEF KVInv, TypeOK, CallTypeOK, Handler
<1>2. CASE s \notin leaders
  <2>1. /\ UNCHANGED <<logVars, server, others>>
        /\ Answer(h, [Value |-> <<>>, Err |-> ErrWrongLeader], handlers \ {h})
    BY <1>2 DEF Start
  <2>2. Quiet
    BY Zenon, <2>1 DEF Quiet, Replied
  <2>3. PICK reply \in Reply : reply = [Value |-> <<>>, Err |-> ErrWrongLeader] /\ reply.Err = ErrWrongLeader
    <3>1. [Value |-> <<>>, Err |-> ErrWrongLeader] \in Reply
      BY DEF Reply, Values
    <3>2. QED
      BY <3>1
  <2>4. PICK hs : hs = handlers \ {h} /\ Leaves(hs)
    BY Zenon DEF Leaves
  <2>5. QED
    BY <2>1, <2>2, <2>3, <2>4, AnswerCall
<1>3. CASE s \in leaders
  <2>0. PICK g : g = new
    OBVIOUS
  <2>1. /\ log' = [log EXCEPT ![s] = Append(@, e)]
        /\ handlers' = (handlers \ {h}) \cup {g}
        /\ UNCHANGED <<leaders, committed, client, server, currentTerm, restarts, states>>
    BY <1>3, <2>0 DEF Start, AppendTo, others
  <2>2. log[s] \in Seq(Entry) /\ Len(log[s]) \in Nat /\ log \in [Server -> Seq(Entry)]
    BY <1>1 DEF KVInv, TypeOK, LogTypeOK
  <2>3. e \in Entry /\ e.Term = currentTerm[s] /\ e.Command = h.op
    BY <1>1 DEF entry, Entry, KVInv, TypeOK, LogTypeOK, Handler
  <2>4. /\ g.client = h.client /\ g.call = h.call /\ g.op = h.op /\ g.server = s
        /\ g.index = Len(log[s]) + 1 /\ g.pc = "channel"
    <3> DEFINE n == Len(log[s]) + 1
    <3>1. g = [h EXCEPT !.pc = "channel", !.index = n]
      BY <2>0
    <3> HIDE DEF n
    <3>2. g.client = h.client /\ g.call = h.call /\ g.op = h.op /\ g.server = s /\ g.index = n /\ g.pc = "channel"
      BY <1>1, <3>1 DEF Handler
    <3>3. QED
      BY <3>2 DEF n
  <2> HIDE DEF e, s, new
  <2>5. /\ Len(log'[s]) = Len(log[s]) + 1
        /\ DOMAIN log'[s] = 1..(Len(log[s]) + 1) /\ DOMAIN log[s] = 1..Len(log[s])
        /\ log'[s][Len(log[s]) + 1] = e /\ \A i \in 1..Len(log[s]) : log'[s][i] = log[s][i]
    BY <1>1, <2>1, <2>2, <2>3
  <2>6. \A p \in Server \ {s} : log'[p] = log[p]
    BY <1>1, <2>1, <2>2
  <2>7. \A x \in handlers : Ours(x)' /\ Answered(x)'
    BY Zenon, <2>1 DEF CallInv, HandlerInv, Ours, Current, Answered, Replied
  <2>8. \A x \in handlers : Placed(x)'
    <3>1. TAKE x \in handlers
    <3>2. CASE ~(Waiting(x) /\ x.server \in leaders)
      BY Zenon, <2>1, <3>2 DEF Placed
    <3>3. CASE Waiting(x) /\ x.server \in leaders
      <4>1. /\ x.index <= Len(log[x.server]) /\ log[x.server][x.index] = entry(x)
            /\ Current(x) /\ x.index < client[x.client].since => committed[x.index] # entry(x)
        BY Zenon, <3>3 DEF CallInv, HandlerInv, Placed
      <4>2. x.index \in 1..MaxLog /\ x.server \in Server
        BY Zenon, <3>3 DEF KVInv, TypeOK, CallTypeOK, Handler, WaitInv, Waiting
      <4>3. x.index <= Len(log'[x.server]) /\ log'[x.server][x.index] = log[x.server][x.index]
        BY SMTT(60), <2>2, <2>5, <2>6, <4>1, <4>2
      <4>4. entry(x)' = entry(x) /\ (Current(x)' <=> Current(x))
        BY Zenon, <2>1 DEF entry, Current
      <4>5. QED
        BY Zenon, <2>1, <4>1, <4>3, <4>4 DEF Placed
    <3>4. QED
      BY <3>2, <3>3
  <2>9. Ours(g)'
    BY Zenon, <2>1, <2>4, <2>7 DEF Ours, Current
  <2>10. Placed(g)'
    <3>1. entry(g)' = e
      BY Zenon, <2>1, <2>4 DEF entry, e, s
    <3>2. ASSUME Current(g)', g.index < client[g.client].since PROVE committed[g.index] # e
      <4>1. g.client \in Client /\ client[g.client].result = Nil
        BY Zenon, <1>1, <2>1, <2>4, <3>2 DEF Current, Handler
      <4>2. client[g.client].since \in DOMAIN states
        BY Zenon, <4>1 DEF CallInv, ClerkOK
      <4>3. g.index \in DOMAIN committed /\ g.index \notin DOMAIN log[s]
        BY SMTT(60), <2>2, <2>4, <2>5, <3>2, <4>2, HistoryLen
      <4>4. Owns(s, committed)
        BY Zenon, <1>3 DEF KVInv, TermInv
      <4>5. QED
        BY Zenon, <2>3, <4>3, <4>4 DEF Owns
    <3>3. QED
      BY <2>1, <2>4, <2>5, <3>1, <3>2, <2>2 DEF Placed
  <2>11. Answered(g)'
    <3>1. ~Replied(g)
      <4>1. SUFFICES ASSUME Replied(g) PROVE FALSE
        OBVIOUS
      <4>2. g.index \in 1..MaxLog
        BY SMTT(60), <1>3, <2>2, <2>4, KVAssumption DEF Start, s
      <4>3. g.index <= server[s].delivered
        BY Zenon, <1>1, <2>4, <4>1, <4>2 DEF Replied, KVInv, ChannelInv
      <4>4. QED
        BY <1>1, <2>4, <4>3, DeliveredInLog
    <3>2. QED
      BY Zenon, <2>1, <3>1 DEF Answered, Replied
  <2>12. HandlerInv'
    BY Zenon, <2>1, <2>7, <2>8, <2>9, <2>10, <2>11 DEF HandlerInv
  <2>13. OpsInv'
    <3>1. \A q \in handlers' : \E x \in handlers : x.op = q.op
      BY Zenon, <2>1, <2>4
    <3>2. \A p \in Server : \A i \in DOMAIN log'[p] : OpFits(log'[p][i].Command)
      <4>1. TAKE p \in Server
      <4>2. CASE p = s
        <5>1. \A i \in DOMAIN log'[s] : i = Len(log[s]) + 1 \/ i \in 1..Len(log[s])
          BY <2>2, <2>5
        <5>2. \A i \in DOMAIN log'[s] : log'[s][i] = e \/ (i \in DOMAIN log[s] /\ log'[s][i] = log[s][i])
          BY Zenon, <2>5, <5>1
        <5>3. QED
          BY Zenon, <1>1, <2>3, <4>2, <5>2 DEF CallInv, OpsInv
      <4>3. CASE p # s
        BY Zenon, <2>6, <4>3 DEF CallInv, OpsInv
      <4>4. QED
        BY <4>2, <4>3
    <3>3. QED
      BY Zenon, <2>1, <3>1, <3>2, OpsLogs DEF CallInv, OpsInv
  <2>14. \A c \in Client : ClerkOK(c)'
    BY Zenon, <2>1 DEF CallInv, ClerkOK, doneAt
  <2>15. QED
    BY <2>12, <2>13, <2>14 DEF CallInv
<1>4. QED
  BY <1>2, <1>3

\* What a leader delivers at the index where Start put an operation is that
\* operation, and it was committed after the call began.
LEMMA LeaderAnswers ==
    ASSUME KVInv, CallInv, NEW x \in handlers, Waiting(x), x.server \in leaders,
           NEW n \in Nat, Deliverable(x.server, n), x.index <= n
    PROVE  committed[x.index].Command = x.op /\ (Current(x) => client[x.client].since <= x.index)
<1>1. /\ x.server \in Server /\ x.index \in 1..MaxLog /\ x.client \in Client /\ LogTypeOK
      /\ client[x.client].since \in Nat
  BY Zenon DEF KVInv, TypeOK, CallTypeOK, Handler, WaitInv, Waiting, Clerk
<1>2. /\ log[x.server][x.index] = entry(x)
      /\ Current(x) /\ x.index < client[x.client].since => committed[x.index] # entry(x)
  BY Zenon DEF CallInv, HandlerInv, Placed
<1>3. committed[x.index] = log[x.server][x.index]
  BY <1>1, DeliverableDef
<1>4. entry(x).Command = x.op
  BY DEF entry
<1>5. QED
  BY <1>1, <1>2, <1>3, <1>4

LEMMA ApplyTaskCallStep ==
    ASSUME KVInv, CallInv, KVInv', NEW s \in Server, applyTask(s)
    PROVE  CallInv'
<1> DEFINE old == server[s]
           index == old.delivered + 1
<1>1. UNCHANGED <<logVars, handlers, client, others>> /\ Deliverable(s, index)
  BY Zenon DEF applyTask
<1>2. old.delivered \in Nat /\ IsServer(old)
  BY Zenon DEF KVInv, TypeOK, ServerTypeOK, IsServer
<1>3. /\ server'[s].delivered = index
      /\ s \notin leaders => server'[s].notifyChans = old.notifyChans
      /\ \A p \in Server \ {s} : server'[p] = server[p]
  <2> DEFINE new == apply(old.KV, old.dup, log[s][index].Command)
             chans == IF s \in leaders THEN send(old.notifyChans, index, new.reply) ELSE old.notifyChans
             applied == [old EXCEPT !.delivered = index, !.lastApplied = index, !.KV = new.KV, !.dup = new.dup,
                                    !.notifyChans = chans]
             sv == IF index <= old.lastApplied THEN [old EXCEPT !.delivered = index]
                   ELSE IF Len(log[s]) - old.snapshot.index >= maxraftstate THEN makeSnapshot(applied) ELSE applied
  <2>1. server' = [server EXCEPT ![s] = sv]
    BY Zenon DEF applyTask
  <2>2. s \notin leaders => chans = old.notifyChans
    OBVIOUS
  <2> HIDE DEF new, chans, index
  <2>3. applied.delivered = index /\ applied.notifyChans = chans
    BY Zenon, <1>2 DEF IsServer
  <2>4. makeSnapshot(applied).delivered = index /\ makeSnapshot(applied).notifyChans = chans
    BY Zenon, <1>2 DEF IsServer, makeSnapshot
  <2>5. [old EXCEPT !.delivered = index].delivered = index
        /\ [old EXCEPT !.delivered = index].notifyChans = old.notifyChans
    BY Zenon, <1>2 DEF IsServer
  <2> HIDE DEF applied, old
  <2>6. sv.delivered = index /\ (s \notin leaders => sv.notifyChans = old.notifyChans)
    BY <2>2, <2>3, <2>4, <2>5
  <2> HIDE DEF sv
  <2>7. QED
    BY Zenon, <2>1, <2>6 DEF KVInv, TypeOK, ServerTypeOK
<1> HIDE DEF old
<1>4. ASSUME NEW x \in handlers PROVE Ours(x)' /\ Placed(x)'
  BY Zenon, <1>1 DEF CallInv, HandlerInv, Ours, Placed, Current, entry, logVars, others
<1>5. ASSUME NEW x \in handlers, Waiting(x), Replied(x)'
      PROVE  committed[x.index].Command = x.op /\ (Current(x) => client[x.client].since <= x.index)
  <2>1. x.server \in Server /\ x.index \in 1..MaxLog
    BY Zenon, <1>5 DEF KVInv, TypeOK, CallTypeOK, Handler, WaitInv, Waiting
  <2>2. CASE Replied(x)
    BY Zenon, <1>5, <2>2 DEF CallInv, HandlerInv, Answered
  <2>3. CASE ~Replied(x)
    <3>1. x.server = s /\ s \in leaders
      BY Zenon, <1>3, <1>5, <2>1, <2>3 DEF Replied, old
    <3>2. x.index <= server'[s].delivered
      BY ZenonT(60), <1>5, <2>1, <3>1 DEF KVInv, ChannelInv, Replied
    <3>3. QED
      BY <1>1, <1>2, <1>3, <1>5, <3>1, <3>2, LeaderAnswers
  <2>4. QED
    BY Zenon, <2>2, <2>3
<1>6. \A x \in handlers : Answered(x)'
  BY Zenon, <1>1, <1>5 DEF Answered, Current, logVars
<1>7. HandlerInv'
  BY Zenon, <1>1, <1>4, <1>6 DEF HandlerInv
<1>8. OpsInv'
  BY Zenon, <1>1, OpsLogs DEF CallInv, OpsInv, logVars
<1>9. \A c \in Client : ClerkOK(c)'
  BY Zenon, <1>1 DEF CallInv, ClerkOK, doneAt, others
<1>10. QED
  BY Zenon, <1>7, <1>8, <1>9 DEF CallInv

\* A server follows: its handlers that wait may get the reply that is there.
LEMMA FollowCall ==
    ASSUME KVInv, CallInv, NEW s \in Server, leaders' = leaders \ {s}, handlers' \subseteq handlers,
           UNCHANGED <<committed, client, states>>,
           \A p \in Server \ {s} : log'[p] = log[p] /\ currentTerm'[p] = currentTerm[p],
           \A x \in handlers' : server'[x.server].notifyChans = server[x.server].notifyChans,
           \A i \in DOMAIN log'[s] : OpFits(log'[s][i].Command)
    PROVE  CallInv'
<1>1. ASSUME NEW x \in handlers' PROVE Ours(x)' /\ Placed(x)' /\ Answered(x)'
  <2>1. x \in handlers /\ x.server \in Server /\ Ours(x) /\ Placed(x) /\ Answered(x)
    BY Zenon DEF KVInv, TypeOK, CallTypeOK, Handler, CallInv, HandlerInv
  <2>2. Ours(x)' /\ (Current(x)' <=> Current(x))
    BY Zenon, <2>1 DEF Ours, Current
  <2>3. Placed(x)'
    BY Zenon, <2>1, <2>2 DEF Placed, entry
  <2>4. Answered(x)'
    BY Zenon, <2>1, <2>2 DEF Answered, Replied
  <2>5. QED
    BY Zenon, <2>2, <2>3, <2>4
<1>2. HandlerInv'
  BY Zenon, <1>1 DEF HandlerInv
<1>3. OpsInv'
  <2>1. \A p \in Server : \A i \in DOMAIN log'[p] : OpFits(log'[p][i].Command)
    BY Zenon DEF CallInv, OpsInv
  <2>2. QED
    BY Zenon, <2>1, OpsLogs DEF CallInv, OpsInv
<1>4. \A c \in Client : ClerkOK(c)'
  BY Zenon DEF CallInv, ClerkOK, doneAt
<1>5. QED
  BY Zenon, <1>2, <1>3, <1>4 DEF CallInv

LEMMA RestartCallStep ==
    ASSUME KVInv, CallInv, NEW s \in Server, Restart(s)
    PROVE  CallInv'
<1>1. /\ leaders' = leaders \ {s} /\ log' = [log EXCEPT ![s] = log[s]]
      /\ handlers' = {h \in handlers : h.server # s}
      /\ server' = [server EXCEPT ![s] = StartKVServer(@.snapshot)]
      /\ UNCHANGED <<committed, client, currentTerm, states>>
  BY Zenon DEF Restart, Follow
<1>2. log' = log
  BY Zenon, <1>1 DEF KVInv, TypeOK, LogTypeOK
<1>3. \A x \in handlers' : server'[x.server].notifyChans = server[x.server].notifyChans
  BY Zenon, <1>1 DEF KVInv, TypeOK, ServerTypeOK, CallTypeOK, Handler
<1>4. \A i \in DOMAIN log'[s] : OpFits(log'[s][i].Command)
  BY Zenon, <1>2 DEF CallInv, OpsInv
<1>5. QED
  BY Zenon, <1>1, <1>2, <1>3, <1>4, FollowCall

LEMMA ReplicateCallStep ==
    ASSUME KVInv, CallInv, NEW s \in Server, NEW p \in Server, Replicate(s, p)
    PROVE  CallInv'
<1>1. /\ leaders' = leaders \ {s} /\ log' = [log EXCEPT ![s] = log[p]]
      /\ currentTerm' = [currentTerm EXCEPT ![s] = currentTerm[p]]
      /\ UNCHANGED <<committed, server, handlers, client, states>>
  BY DEF Replicate, Follow
<1>2. /\ log'[s] = log[p]
      /\ \A q \in Server \ {s} : log'[q] = log[q] /\ currentTerm'[q] = currentTerm[q]
  BY Zenon, <1>1 DEF KVInv, TypeOK, LogTypeOK
<1>3. \A i \in DOMAIN log'[s] : OpFits(log'[s][i].Command)
  BY Zenon, <1>2 DEF CallInv, OpsInv
<1>4. QED
  BY Zenon, <1>1, <1>2, <1>3, FollowCall

LEMMA ApplySnapshotCallStep ==
    ASSUME KVInv, CallInv, NEW s \in Server, NEW p \in Server, applySnapshot(s, p)
    PROVE  CallInv'
<1> DEFINE snapshot == server[p].snapshot
           k == snapshot.index
           prefix == SubSeq(committed, 1, k)
           l == IF Begins(prefix, log[s]) THEN log[s] ELSE prefix
           sv == [restoreFromSnapshot(server[s], snapshot) EXCEPT
                    !.lastApplied = k, !.delivered = k, !.snapshot = snapshot]
<1>1. IsServer(server[s]) /\ IsServer(server[p]) /\ DOMAIN server = Server
  BY DEF KVInv, TypeOK, ServerTypeOK
<1>2. /\ leaders' = leaders \ {s} /\ log' = [log EXCEPT ![s] = l] /\ committed' = committed
      /\ server' = [server EXCEPT ![s] = sv]
      /\ UNCHANGED <<handlers, client, currentTerm, states>>
  BY DEF applySnapshot, Follow, others
<1>3. k \in Nat /\ k <= Len(committed) /\ committed \in Seq(Entry)
  <2>1. k \in Nat /\ k <= server[p].delivered
    BY Zenon, <1>1 DEF IsServer, KVInv, ServerInv
  <2>2. QED
    BY SMTT(60), <2>1, DeliveredInLog, HistoryLen DEF KVInv, TypeOK, LogTypeOK
<1> HIDE DEF k
<1>4. sv.notifyChans = server[s].notifyChans
  BY <1>1 DEF IsServer, restoreFromSnapshot
<1> HIDE DEF sv
<1>5. \A x \in handlers' : server'[x.server].notifyChans = server[x.server].notifyChans
  BY Zenon, <1>1, <1>2, <1>4 DEF KVInv, TypeOK, CallTypeOK, Handler
<1>6. prefix \in Seq(Entry) /\ Len(prefix) = k /\ \A i \in 1..k : prefix[i] = committed[i]
  BY <1>3, SubSeqFirst
<1>7. \A i \in DOMAIN prefix : i \in DOMAIN committed /\ prefix[i] = committed[i]
  BY <1>3, <1>6
<1> HIDE DEF prefix
<1>8. \A i \in DOMAIN l : OpFits(l[i].Command)
  <2>1. CASE l = log[s]
    BY Zenon, <2>1 DEF CallInv, OpsInv
  <2>2. CASE l = prefix
    BY Zenon, <1>7, <2>2 DEF CallInv, OpsInv
  <2>3. QED
    BY Zenon, <2>1, <2>2
<1> HIDE DEF l
<1>9. log'[s] = l /\ \A q \in Server \ {s} : log'[q] = log[q]
  BY Zenon, <1>2 DEF KVInv, TypeOK, LogTypeOK
<1>10. QED
  BY <1>2, <1>5, <1>8, <1>9, FollowCall

\* A server that wins an election has no handlers that wait for entries of an
\* earlier term.
LEMMA BecomeLeaderCallStep ==
    ASSUME Handover = {}, KVInv, CallInv, NEW s \in Server, BecomeLeader(s)
    PROVE  CallInv'
<1>1. /\ \A h \in handlers : h.server = s => ~Waiting(h)
      /\ leaders' = leaders \cup {s}
      /\ \A p \in Server \ {s} : currentTerm'[p] = currentTerm[p]
      /\ UNCHANGED <<log, committed, server, handlers, client, states>>
  BY DEF BecomeLeader, Lead, Waiting, KVInv, TypeOK, LogTypeOK
<1>2. ASSUME NEW x \in handlers PROVE Ours(x)' /\ Placed(x)' /\ Answered(x)'
  <2>1. x.server \in Server /\ Ours(x) /\ Placed(x) /\ Answered(x)
    BY Zenon DEF KVInv, TypeOK, CallTypeOK, Handler, CallInv, HandlerInv
  <2>2. Ours(x)' /\ (Current(x)' <=> Current(x))
    BY Zenon, <1>1, <2>1 DEF Ours, Current
  <2>3. Placed(x)'
    BY Zenon, <1>1, <2>1, <2>2 DEF Placed, entry
  <2>4. Answered(x)'
    BY Zenon, <1>1, <2>1, <2>2 DEF Answered, Replied
  <2>5. QED
    BY <2>2, <2>3, <2>4
<1>3. HandlerInv'
  BY <1>1, <1>2 DEF HandlerInv
<1>4. OpsInv'
  BY Zenon, <1>1, OpsLogs DEF CallInv, OpsInv
<1>5. \A c \in Client : ClerkOK(c)'
  BY Zenon, <1>1 DEF CallInv, ClerkOK, doneAt
<1>6. QED
  BY <1>3, <1>4, <1>5 DEF CallInv

\* The entry that is committed next.
LEMMA CommitFacts ==
    ASSUME KVInv, CallInv, NEW s \in Server, CommitNext(s)
    PROVE  \E o \in Op :
              /\ OpFits(o)
              /\ UNCHANGED <<log, leaders, server, handlers, client, currentTerm>>
              /\ Len(states') = Len(states) + 1 /\ DOMAIN states' = 1..(Len(states) + 1)
              /\ states'[Len(states) + 1] = stateAfter(states[Len(states)], o)
              /\ \A i \in 1..Len(states) : states'[i] = states[i]
              /\ DOMAIN committed' = 1..Len(states) /\ committed'[Len(states)].Command = o
              /\ \A i \in 1..Len(committed) : committed'[i] = committed[i]
<1> DEFINE n == Len(committed)
           e == log[s][n + 1]
           o == e.Command
           st == stateAfter(states[n + 1], o)
<1>1. committed \in Seq(Entry) /\ log[s] \in Seq(Entry) /\ n \in Nat /\ n + 1 \in DOMAIN log[s]
  BY DEF KVInv, TypeOK, LogTypeOK, CommitNext
<1>2. /\ committed' = Append(committed, e)
      /\ UNCHANGED <<log, leaders, server, handlers, client, currentTerm>>
  BY Zenon DEF CommitNext, Commit
<1>3. e \in Entry /\ o \in Op
  BY <1>1, EntryType
<1>4. OpFits(o)
  BY Zenon, <1>1 DEF CallInv, OpsInv
<1>5. Len(states) = n + 1 /\ DOMAIN states = 1..(n + 1) /\ states \in Seq({states[k] : k \in DOMAIN states})
  BY HistoryLen DEF KVInv, TypeOK, StatesTypeOK
<1>6. states' = Append(states, st)
  <2>1. Latest(committed') = e
    BY <1>1, <1>2 DEF Latest
  <2>2. Latest(states) = states[n + 1]
    BY <1>5 DEF Latest
  <2>3. QED
    BY Zenon, <2>1, <2>2 DEF CommitNext
<1> HIDE DEF e, st
<1>7. /\ DOMAIN committed' = 1..(n + 1) /\ committed'[n + 1] = e
      /\ \A i \in 1..n : committed'[i] = committed[i]
  BY <1>1, <1>2, <1>3
<1>8. /\ Len(states') = n + 2 /\ DOMAIN states' = 1..(n + 2) /\ states'[n + 2] = st
      /\ \A i \in 1..(n + 1) : states'[i] = states[i]
  BY <1>1, <1>5, <1>6
<1>9. Len(states) + 1 = n + 2
  BY <1>1, <1>5
<1>10. st = stateAfter(states[Len(states)], o)
  BY <1>5 DEF st
<1> HIDE DEF n, o
<1>11. QED
  BY <1>2, <1>3, <1>4, <1>5, <1>7, <1>8, <1>9, <1>10 DEF o

\* A write that is not a duplicate is the one its clerk waits for.
LEMMA WriteCommits ==
    ASSUME KVInv, CallInv, NEW o \in Op, OpFits(o), o.OpType # "Get",
           ~requestDuplicated(states[Len(states)].dup, o.ClientId, o.SeqId)
    PROVE  LET ck == client[o.ClientId]
           IN  /\ o.ClientId \in Client /\ ck.result = Nil /\ ck.op = o /\ ck.seqId = o.SeqId
               /\ doneAt(Len(states), o.ClientId) = o.SeqId
<1> DEFINE c == o.ClientId
           m == Len(states)
           n == doneAt(m, c)
<1>1. c \in Client /\ o.SeqId \in Nat
  BY DEF Op
<1>2. client[c].seqId \in Nat
  BY Zenon, <1>1 DEF KVInv, TypeOK, CallTypeOK, Clerk
<1>3. m \in DOMAIN states
  BY HistoryLen
<1>4. n \in Nat
  BY Zenon, <1>3, DoneType
<1>5. o.SeqId >= n
  <2>1. c \in DOMAIN states[m].dup => states[m].dup[c] \in Nat
    BY Zenon, <1>3 DEF KVInv, TypeOK, StatesTypeOK, IsState, IsTable
  <2>2. QED
    BY <1>1, <2>1 DEF doneAt, requestDuplicated
<1>6. /\ o.SeqId <= client[c].seqId
      /\ o.SeqId = client[c].seqId => client[c].result = Nil /\ client[c].op = o
  BY Zenon DEF OpFits
<1>7. n = client[c].seqId \/ n = client[c].seqId + 1
  BY Zenon, <1>1 DEF CallInv, ClerkOK
<1> HIDE DEF c, n, m
<1>8. o.SeqId = client[c].seqId /\ n = o.SeqId
  BY <1>1, <1>2, <1>4, <1>5, <1>6, <1>7
<1>9. QED
  BY Zenon, <1>1, <1>6, <1>8 DEF c, n, m

\* A read, or a write applied before, leaves the table alone.
LEMMA CommitSame ==
    ASSUME NEW kv, NEW dup, NEW o,
           o.OpType = "Get" \/ requestDuplicated(dup, o.ClientId, o.SeqId)
    PROVE  apply(kv, dup, o).dup = dup
  BY Zenon DEF apply

\* The table new is the table dup with the number of operation o recorded,
\* and no other client's changed.
Recorded(new, dup, o) ==
    /\ o.ClientId \in DOMAIN new /\ new[o.ClientId] = o.SeqId
    /\ \A c : c # o.ClientId =>
          (c \in DOMAIN new <=> c \in DOMAIN dup) /\ (c \in DOMAIN dup => new[c] = dup[c])

\* Committing a new write records its number.
LEMMA CommitDone ==
    ASSUME NEW kv, NEW dup, NEW o,
           ~(o.OpType = "Get" \/ requestDuplicated(dup, o.ClientId, o.SeqId))
    PROVE  Recorded(apply(kv, dup, o).dup, dup, o)
<1> DEFINE new == apply(kv, dup, o).dup
<1>1. new = assign(dup, o.ClientId, o.SeqId)
  BY Zenon DEF apply
<1>2. QED
  BY Zenon, <1>1 DEF assign, Recorded

LEMMA CommitNextCallStep ==
    ASSUME KVInv, CallInv, NEW s \in Server, CommitNext(s)
    PROVE  CallInv'
<1> DEFINE m == Len(states)
           n == Len(committed)
<1>1. PICK o \in Op :
         /\ OpFits(o)
         /\ UNCHANGED <<log, leaders, server, handlers, client, currentTerm>>
         /\ Len(states') = m + 1 /\ DOMAIN states' = 1..(m + 1)
         /\ states'[m + 1] = stateAfter(states[m], o)
         /\ \A i \in 1..m : states'[i] = states[i]
         /\ DOMAIN committed' = 1..m /\ committed'[m].Command = o
         /\ \A i \in 1..n : committed'[i] = committed[i]
  BY CommitFacts
<1>2. m = n + 1 /\ n \in Nat /\ DOMAIN states = 1..m /\ DOMAIN committed = 1..n /\ m \in DOMAIN states
  BY HistoryLen
<1> HIDE DEF m, n
<1>3. ASSUME NEW x \in handlers PROVE Ours(x)' /\ Placed(x)' /\ Answered(x)'
  <2>1. x.server \in Server /\ x.client \in Client /\ (Waiting(x) => x.index \in 1..MaxLog)
    BY Zenon DEF KVInv, TypeOK, CallTypeOK, Handler, WaitInv, Waiting
  <2>2. Ours(x) /\ Placed(x) /\ Answered(x)
    BY Zenon DEF CallInv, HandlerInv
  <2>3. Ours(x)' /\ (Current(x)' <=> Current(x)) /\ entry(x)' = entry(x) /\ (Replied(x)' <=> Replied(x))
    BY Zenon, <1>1, <2>2 DEF Ours, Current, entry, Replied
  <2>4. Waiting(x) /\ Current(x) /\ x.index < client[x.client].since => committed'[x.index] = committed[x.index]
    <3>1. Current(x) => client[x.client].since \in DOMAIN states
      BY Zenon, <2>1 DEF Current, CallInv, ClerkOK
    <3>2. QED
      BY SMTT(30), <1>1, <1>2, <2>1, <3>1
  <2>5. Placed(x)'
    BY Zenon, <1>1, <2>2, <2>3, <2>4 DEF Placed
  <2>6. Waiting(x) /\ Replied(x) => committed'[x.index] = committed[x.index]
    <3>1. SUFFICES ASSUME Waiting(x), Replied(x) PROVE committed'[x.index] = committed[x.index]
      BY Zenon
    <3>2. x.index <= server[x.server].delivered /\ x.index \in 1..MaxLog
      BY <3>1, RepliedDelivered
    <3>3. server[x.server].delivered <= n /\ server[x.server].delivered \in Nat
      BY Zenon, <2>1, DeliveredInLog DEF n
    <3>4. QED
      BY SMTT(30), <1>1, <1>2, <3>2, <3>3
  <2>7. Answered(x)'
    BY Zenon, <1>1, <2>2, <2>3, <2>6 DEF Answered
  <2>8. QED
    BY <2>3, <2>5, <2>7
<1>4. HandlerInv'
  BY Zenon, <1>1, <1>3 DEF HandlerInv
<1>5. OpsInv'
  <2>1. \A i \in DOMAIN committed' : i = m \/ (i \in DOMAIN committed /\ committed'[i] = committed[i])
    BY <1>1, <1>2
  <2>2. \A i \in DOMAIN committed' : OpFits(committed'[i].Command)
    BY Zenon, <1>1, <2>1 DEF CallInv, OpsInv
  <2>3. QED
    BY Zenon, <1>1, <2>2, OpsLogs DEF CallInv, OpsInv
<1>6. ASSUME NEW c \in Client PROVE ClerkOK(c)'
  <2> DEFINE old == states[m].dup
             new == apply(states[m].KV, old, o).dup
  <2>1. states'[m + 1].dup = new
    BY <1>1 DEF stateAfter
  <2>2. /\ client[c].result = Nil =>
              /\ client[c].since \in DOMAIN states
              /\ client[c].op.OpType # "Get" => client[c].op.ClientId = c /\ client[c].op.SeqId = client[c].seqId
        /\ \/ doneAt(m, c) = client[c].seqId
           \/ doneAt(m, c) = client[c].seqId + 1 /\ client[c].result = Nil /\ client[c].op.OpType # "Get"
    BY Zenon DEF CallInv, ClerkOK, m
  <2>3. client[c].result = Nil => client[c].since \in DOMAIN states'
    BY <1>1, <1>2, <2>2
  <2>4. IF c \in DOMAIN new THEN doneAt(Len(states), c)' = new[c] + 1 ELSE doneAt(Len(states), c)' = 0
    BY Zenon, <1>1, <2>1 DEF doneAt
  <2>5. IF c \in DOMAIN old THEN doneAt(m, c) = old[c] + 1 ELSE doneAt(m, c) = 0
    BY Zenon DEF doneAt
  <2>6. CASE o.OpType = "Get" \/ requestDuplicated(old, o.ClientId, o.SeqId)
    <3>1. new = old
      BY Zenon, <2>6, CommitSame
    <3>2. doneAt(Len(states), c)' = doneAt(m, c)
      <4>1. CASE c \in DOMAIN old
        BY Zenon, <2>4, <2>5, <3>1, <4>1
      <4>2. CASE c \notin DOMAIN old
        BY Zenon, <2>4, <2>5, <3>1, <4>2
      <4>3. QED
        BY Zenon, <4>1, <4>2
    <3>3. QED
      BY Zenon, <1>1, <2>2, <2>3, <3>2 DEF ClerkOK
  <2>7. CASE ~(o.OpType = "Get" \/ requestDuplicated(old, o.ClientId, o.SeqId))
    <3>1. Recorded(new, old, o)
      BY Zenon, <2>7, CommitDone
    <3> HIDE DEF new
    <3>2. CASE c # o.ClientId
      <4>1. doneAt(Len(states), c)' = doneAt(m, c)
        <5>1. CASE c \in DOMAIN old
          BY Zenon, <2>4, <2>5, <3>1, <3>2, <5>1 DEF Recorded
        <5>2. CASE c \notin DOMAIN old
          BY Zenon, <2>4, <2>5, <3>1, <3>2, <5>2 DEF Recorded
        <5>3. QED
          BY Zenon, <5>1, <5>2
      <4>2. QED
        BY SMTT(60), <1>1, <2>2, <2>3, <4>1 DEF ClerkOK
    <3>3. CASE c = o.ClientId
      <4>1. doneAt(Len(states), c)' = o.SeqId + 1
        BY Zenon, <2>4, <3>1, <3>3 DEF Recorded
      <4>2. client[c].result = Nil /\ client[c].op = o /\ client[c].seqId = o.SeqId
        BY Zenon, <1>1, <2>7, <3>3, WriteCommits DEF m
      <4>3. QED
        BY Zenon, <1>1, <2>2, <2>3, <2>7, <4>1, <4>2 DEF ClerkOK
    <3>4. QED
      BY <3>2, <3>3
  <2>8. QED
    BY Zenon, <2>6, <2>7
<1>7. QED
  BY <1>4, <1>5, <1>6 DEF CallInv

LEMMA CallInvInit == Init => CallInv
<1>1. SUFFICES ASSUME Init PROVE CallInv
  OBVIOUS
<1>2. /\ handlers = {} /\ committed = <<>> /\ states = <<[KV |-> <<>>, dup |-> <<>>]>>
      /\ \A c \in Client : client[c] = MakeClerk
      /\ \A s \in Server : log[s] = <<>>
  BY <1>1 DEF Init, LogInit
<1>3. HandlerInv /\ OpsInv
  BY <1>2 DEF HandlerInv, OpsInv
<1>4. ASSUME NEW c \in Client PROVE ClerkOK(c)
  <2>1. client[c].result = <<>> /\ client[c].seqId = 0
    BY <1>2 DEF MakeClerk
  <2>2. client[c].result # Nil
    <3>1. <<>> \in Values
      BY DEF Values
    <3>2. QED
      BY <2>1, <3>1, NilAssumption
  <2>3. doneAt(Len(states), c) = 0
    <3>1. Len(states) = 1 /\ states[1].dup = <<>>
      BY <1>2
    <3>2. c \notin DOMAIN <<>>
      OBVIOUS
    <3>3. QED
      BY <3>1, <3>2 DEF doneAt
  <2>4. QED
    BY Zenon, <2>1, <2>2, <2>3 DEF ClerkOK
<1>5. QED
  BY <1>3, <1>4 DEF CallInv

LEMMA CallInvNext ==
    ASSUME Handover = {}, KVInv, CallInv, KVInv', [Next]_vars
    PROVE  CallInv'
<1>1. CASE UNCHANGED vars
  <2>1. /\ UNCHANGED <<log, leaders, committed, server, handlers, client>>
        /\ UNCHANGED <<currentTerm, restarts, states>>
    BY <1>1 DEF vars, kvVars, logVars, others
  <2>2. HandlerInv'
    BY ZenonT(60), <2>1 DEF CallInv, HandlerInv, Ours, Placed, Answered, Current, Waiting, Replied, entry
  <2>3. OpsInv'
    BY Zenon, <2>1, OpsLogs DEF CallInv, OpsInv
  <2>4. \A c \in Client : ClerkOK(c)'
    BY Zenon, <2>1 DEF CallInv, ClerkOK, doneAt
  <2>5. QED
    BY <2>2, <2>3, <2>4 DEF CallInv
<1>2. ASSUME NEW c \in Client, NEW key \in Key, NEW type \in Program[c], Call(c, type, key) PROVE CallInv'
  BY <1>2, CallCallStep
<1>3. ASSUME NEW c \in Client, CallFails(c) PROVE CallInv'
  BY Zenon, <1>3, CallFailsCallStep
<1>4. ASSUME NEW h \in handlers, CheckDuplicate(h) PROVE CallInv'
  BY <1>4, CheckDuplicateCallStep
<1>5. ASSUME NEW h \in handlers, Start(h) PROVE CallInv'
  BY <1>5, StartCallStep
<1>6. ASSUME NEW h \in handlers, Subscribe(h) PROVE CallInv'
  BY <1>6, SubscribeCallStep
<1>7. ASSUME NEW h \in handlers, Receive(h) PROVE CallInv'
  BY <1>7, ReceiveCallStep
<1>8. ASSUME NEW h \in handlers, Timeout(h) PROVE CallInv'
  BY <1>8, TimeoutCallStep
<1>9. ASSUME NEW h \in handlers, Unsubscribe(h) PROVE CallInv'
  BY <1>9, UnsubscribeCallStep
<1>10. ASSUME NEW s \in Server, applyTask(s) PROVE CallInv'
  BY <1>10, ApplyTaskCallStep
<1>11. ASSUME NEW s \in Server, NEW p \in Server, applySnapshot(s, p) PROVE CallInv'
  BY <1>11, ApplySnapshotCallStep
<1>12. ASSUME NEW s \in Server, Restart(s) PROVE CallInv'
  BY <1>12, RestartCallStep
<1>13. ASSUME NEW s \in Server, BecomeLeader(s) PROVE CallInv'
  BY <1>13, BecomeLeaderCallStep
<1>14. ASSUME NEW s \in Server, NEW p \in Server, Replicate(s, p) PROVE CallInv'
  BY <1>14, ReplicateCallStep
<1>15. ASSUME NEW s \in Server, CommitNext(s) PROVE CallInv'
  BY <1>15, CommitNextCallStep
<1>16. QED
  BY Zenon, <1>1, <1>2, <1>3, <1>4, <1>5, <1>6, <1>7, <1>8, <1>9, <1>10, <1>11, <1>12, <1>13, <1>14, <1>15
     DEF Next

LEMMA CallInvariant ==
    ASSUME Handover = {}
    PROVE  Spec => []CallInv
<1>1. KVInv /\ CallInv /\ KVInv' /\ [Next]_vars => CallInv'
  BY CallInvNext
<1>2. QED
  BY <1>1, CallInvInit, KVInvariant, PTL DEF Spec
=============================================================================
