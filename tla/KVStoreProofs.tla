--------------------------- MODULE KVStoreProofs ---------------------------
(***************************************************************************)
(* To its clients the key-value service is one store: KVServer implements  *)
(* KVStore, as long as no server leads again while requests of its earlier *)
(* term still wait there.                                                  *)
(***************************************************************************)
EXTENDS KVCallProofs

-----------------------------------------------------------------------------
(* The refinement. *)

\* The values the key of a clerk's call had since the call began.
seenBy(ck) ==
    IF ck.result # Nil THEN {}
    ELSE {Get(states[n].KV, ck.op.Key).Value : n \in ck.since..Len(states)}

LEMMA InvokeMaps ==
    ASSUME NEW c \in Client, NEW o, o # Nil, client[c].result # Nil,
           o.OpType # "Get" => o.SeqId = doneAt(Len(states), c),
           client'[c].op = o, client'[c].result = Nil,
           seenBy(client[c])' = {Store!ValueOf(Latest(states).KV, o.Key)},
           \A d \in Client \ {c} : client'[d] = client[d], states' = states
    PROVE  Store!StoreNext
<1> DEFINE op == [d \in Client |-> client[d].op]
           result == [d \in Client |-> client[d].result]
           seen == [d \in Client |-> seenBy(client[d])]
           store == Latest(states).KV
           done == [d \in Client |->
                      IF d \in DOMAIN Latest(states).dup THEN Latest(states).dup[d] + 1 ELSE 0]
<1>1. result[c] # Nil /\ (Store!Writes(o) => o.SeqId = done[c])
  BY DEF Store!Writes, doneAt, Latest
<1>2. op' = [op EXCEPT ![c] = o] /\ result' = [result EXCEPT ![c] = Nil]
  BY Zenon
<1>3. seen' = [seen EXCEPT ![c] = {Store!ValueOf(store, o.Key)}]
  <2>1. \A d \in Client \ {c} : seenBy(client[d])' = seenBy(client[d])
    <3>1. TAKE d \in Client \ {c}
    <3>2. client'[d] = client[d] /\ states' = states
      OBVIOUS
    <3>3. QED
      BY ONLY <3>2, Zenon DEF seenBy
  <2>2. QED
    BY Zenon, <2>1
<1>4. UNCHANGED <<store, done>>
  BY DEF Latest
<1>5. op'[c] = o
  OBVIOUS
<1>6. Store!Invoke(c, op'[c])
  BY Zenon, <1>1, <1>2, <1>3, <1>4, <1>5 DEF Store!Invoke, seenBy
<1>7. QED
  BY Zenon, <1>6 DEF Store!StoreNext, Store!Invoke

LEMMA StutterMaps ==
    ASSUME Latest(states)' = Latest(states),
           \A c \in Client : /\ client'[c].op = client[c].op /\ client'[c].result = client[c].result
                             /\ seenBy(client[c])' = seenBy(client[c])
    PROVE  UNCHANGED Store!storeVars
<1> DEFINE op == [d \in Client |-> client[d].op]
           result == [d \in Client |-> client[d].result]
           seen == [d \in Client |-> seenBy(client[d])]
           store == Latest(states).KV
           done == [d \in Client |->
                      IF d \in DOMAIN Latest(states).dup THEN Latest(states).dup[d] + 1 ELSE 0]
<1>1. op' = op /\ result' = result
  OBVIOUS
<1>2. seen' = seen
  OBVIOUS
<1>3. store' = store /\ done' = done
  OBVIOUS
<1>4. QED
  BY Zenon, <1>1, <1>2, <1>3 DEF Store!storeVars, seenBy

LEMMA ReturnMaps ==
    ASSUME NEW c \in Client, NEW value, value # Nil, client[c].result = Nil,
           client'[c].op = client[c].op, client'[c].result = value,
           IF client[c].op.OpType # "Get" THEN doneAt(Len(states), c) = client[c].op.SeqId + 1
           ELSE value \in seenBy(client[c]),
           \A d \in Client \ {c} : client'[d] = client[d], states' = states
    PROVE  Store!StoreNext
<1> DEFINE op == [d \in Client |-> client[d].op]
           result == [d \in Client |-> client[d].result]
           seen == [d \in Client |-> seenBy(client[d])]
           store == Latest(states).KV
           done == [d \in Client |->
                      IF d \in DOMAIN Latest(states).dup THEN Latest(states).dup[d] + 1 ELSE 0]
<1>1. result[c] = Nil /\ result' = [result EXCEPT ![c] = value]
  BY Zenon
<1>2. IF Store!Writes(op[c]) THEN done[c] = op[c].SeqId + 1 ELSE value \in seen[c]
  BY DEF Store!Writes, doneAt, Latest
<1>3. seen' = [seen EXCEPT ![c] = {}]
  <2>1. \A d \in Client \ {c} : seenBy(client[d])' = seenBy(client[d])
    <3>1. TAKE d \in Client \ {c}
    <3>2. client'[d] = client[d] /\ states' = states
      OBVIOUS
    <3>3. QED
      BY ONLY <3>2, Zenon DEF seenBy
  <2>2. seenBy(client[c])' = {}
    BY Zenon DEF seenBy
  <2>3. QED
    BY Zenon, <2>1, <2>2
<1>4. op' = op
  OBVIOUS
<1>5. UNCHANGED <<store, done>>
  BY DEF Latest
<1>6. result'[c] = value
  OBVIOUS
<1>7. Store!Return(c, result'[c])
  BY Zenon, <1>1, <1>2, <1>3, <1>4, <1>5, <1>6 DEF Store!Return, seenBy
<1>8. QED
  BY Zenon, <1>7 DEF Store!StoreNext, Store!Return

LEMMA ExecuteMaps ==
    ASSUME NEW c \in Client, UNCHANGED client, client[c].result = Nil, client[c].op.OpType # "Get",
           doneAt(Len(states), c) = client[c].op.SeqId,
           doneAt(Len(states), c)' = client[c].op.SeqId + 1,
           \A d \in Client \ {c} : doneAt(Len(states), d)' = doneAt(Len(states), d),
           Latest(states').KV = Store!Effect(Latest(states).KV, client[c].op),
           \A d \in Client :
              seenBy(client[d])' =
                 IF client[d].result = Nil
                 THEN seenBy(client[d]) \cup {Store!ValueOf(Latest(states').KV, client[d].op.Key)}
                 ELSE seenBy(client[d])
    PROVE  Store!StoreNext
<1> DEFINE op == [d \in Client |-> client[d].op]
           result == [d \in Client |-> client[d].result]
           seen == [d \in Client |-> seenBy(client[d])]
           store == Latest(states).KV
           done == [d \in Client |->
                      IF d \in DOMAIN Latest(states).dup THEN Latest(states).dup[d] + 1 ELSE 0]
<1>1. result[c] = Nil /\ Store!Writes(op[c]) /\ UNCHANGED <<op, result>>
  BY DEF Store!Writes
<1>2. done = [d \in Client |-> doneAt(Len(states), d)] /\ done' = [d \in Client |-> doneAt(Len(states), d)']
  BY Zenon DEF doneAt, Latest
<1>3. done[c] = op[c].SeqId /\ done' = [done EXCEPT ![c] = @ + 1]
  <2> HIDE DEF done
  <2>1. done[c] = op[c].SeqId
    BY <1>2
  <2>2. done' = [done EXCEPT ![c] = @ + 1]
    BY <1>2
  <2>3. QED
    BY <2>1, <2>2
<1>4. store' = Store!Effect(store, op[c])
  OBVIOUS
<1>5. seen' = [d \in Client |->
                 IF result[d] = Nil THEN seen[d] \cup {Store!ValueOf(store', op[d].Key)} ELSE seen[d]]
  BY Zenon
<1>6. Store!Execute(c)
  BY Zenon, <1>1, <1>3, <1>4, <1>5 DEF Store!Execute, seenBy
<1>7. QED
  BY <1>6 DEF Store!StoreNext

\* A step of the service is a step of the store, or none.
Refined == Store!StoreNext \/ UNCHANGED Store!storeVars

\* Steps that neither commit nor return anything.
LEMMA HiddenStep ==
    ASSUME states' = states,
           \A d \in Client : client'[d].op = client[d].op /\ client'[d].result = client[d].result
                             /\ client'[d].since = client[d].since
    PROVE  Refined
<1>1. \A d \in Client : seenBy(client[d])' = seenBy(client[d])
  <2>1. TAKE d \in Client
  <2>2. /\ client'[d].op = client[d].op /\ client'[d].result = client[d].result
        /\ client'[d].since = client[d].since /\ states' = states
    OBVIOUS
  <2>3. QED
    BY ONLY <2>2, ZenonT(60) DEF seenBy
<1>2. Latest(states)' = Latest(states)
  BY DEF Latest
<1>3. QED
  BY <1>1, <1>2, StutterMaps DEF Refined

LEMMA RetryRefines ==
    ASSUME KVInv, states' = states, NEW c \in Client, NEW hs, Retry(c, hs)
    PROVE  Refined
<1>1. client[c] \in Clerk /\ client' = [client EXCEPT ![c] = nextServer(client[c])]
  BY DEF KVInv, TypeOK, CallTypeOK, Retry
<1>2. /\ nextServer(client[c]).op = client[c].op /\ nextServer(client[c]).result = client[c].result
      /\ nextServer(client[c]).since = client[c].since
  BY <1>1 DEF nextServer, Clerk
<1>3. \A d \in Client : client'[d].op = client[d].op /\ client'[d].result = client[d].result
                        /\ client'[d].since = client[d].since
  BY <1>1, <1>2 DEF KVInv, TypeOK, CallTypeOK
<1>4. QED
  BY <1>3, HiddenStep

LEMMA CallRefines ==
    ASSUME KVInv, CallInv, NEW c \in Client, NEW key \in Key, NEW type \in Program[c], Call(c, type, key)
    PROVE  Refined
<1> DEFINE o == IF type = "Get" THEN [OpType |-> "Get", Key |-> key, Value |-> Nil, ClientId |-> Nil, SeqId |-> 0]
                ELSE [OpType |-> type, Key |-> key, Value |-> <<c, client[c].seqId>>,
                      ClientId |-> c, SeqId |-> client[c].seqId]
           m == Len(states)
           ck == [client[c] EXCEPT !.op = o, !.result = Nil, !.calls = @ + 1, !.attempts = @ + 1, !.since = m]
<1>1. client[c] \in Clerk /\ client[c].seqId \in Nat /\ m \in DOMAIN states /\ m \in Nat
  BY Zenon, HistoryLen DEF KVInv, TypeOK, CallTypeOK, Clerk
<1>2. client[c].result # Nil /\ client' = [client EXCEPT ![c] = ck] /\ states' = states
  BY DEF Call, others
<1>3. o \in Op /\ o # Nil /\ o.Key = key /\ (o.OpType # "Get" => o.SeqId = client[c].seqId)
  <2>1. type \in {"Get", "Put", "Append"}
    BY KVAssumption
  <2>2. CASE type = "Get"
    BY <2>2, NilAssumption DEF Op
  <2>3. CASE type # "Get"
    <3> DEFINE n == client[c].seqId
               v == <<c, n>>
    <3>1. v \in Client \X Nat /\ n \in Nat
      BY <1>1
    <3>2. o = [OpType |-> type, Key |-> key, Value |-> v, ClientId |-> c, SeqId |-> n]
      BY <2>3
    <3> HIDE DEF n, v, o
    <3>3. o \in Op /\ o.Key = key /\ o.SeqId = n
      BY <2>1, <2>3, <3>1, <3>2 DEF Op
    <3>4. QED
      BY <3>3, NilAssumption DEF n
  <2>4. QED
    BY Zenon, <2>2, <2>3
<1> HIDE DEF o, m
<1>4. ck.op = o /\ ck.result = Nil /\ ck.since = m
  BY <1>1 DEF Clerk
<1> HIDE DEF ck
<1>5. client'[c] = ck /\ \A d \in Client \ {c} : client'[d] = client[d]
  BY <1>2 DEF KVInv, TypeOK, CallTypeOK
<1>6. o.OpType # "Get" => o.SeqId = doneAt(Len(states), c)
  BY Zenon, <1>2, <1>3 DEF CallInv, ClerkOK
<1>7. seenBy(client[c])' = {Store!ValueOf(Latest(states).KV, o.Key)}
  <2>1. m..m = {m}
    BY <1>1
  <2>2. seenBy(client[c])' = {Get(states[n].KV, o.Key).Value : n \in m..m}
    BY <1>2, <1>4, <1>5 DEF seenBy, m
  <2>3. seenBy(client[c])' = {Get(states[m].KV, o.Key).Value}
    BY <2>1, <2>2
  <2>4. Get(states[m].KV, o.Key).Value = Store!ValueOf(Latest(states).KV, o.Key)
    BY DEF Get, Store!ValueOf, Latest, m
  <2>5. QED
    BY <2>3, <2>4
<1>8. PICK p : p = o
  OBVIOUS
<1>9. Store!StoreNext
  BY <1>2, <1>3, <1>4, <1>5, <1>6, <1>7, <1>8, InvokeMaps
<1>10. QED
  BY <1>9 DEF Refined

LEMMA AnswerRefines ==
    ASSUME KVInv, CallInv, states' = states, NEW h \in handlers, NEW reply \in Reply, NEW hs,
           Answer(h, reply, hs),
           Current(h) /\ reply.Err \notin {ErrWrongLeader, ErrTimeout} =>
              IF h.op.OpType # "Get" THEN doneAt(Len(states), h.op.ClientId) > h.op.SeqId
              ELSE reply.Value \in seenBy(client[h.client])
    PROVE  Refined
<1> DEFINE c == h.client
<1>1. c \in Client /\ client[c] \in Clerk /\ reply.Value \in Values /\ client \in [Client -> Clerk]
  BY Zenon DEF KVInv, TypeOK, CallTypeOK, Handler, Reply
<1>2. CASE ~Current(h)
  <2>1. client' = client
    BY Zenon, <1>2 DEF Answer, Current
  <2>2. QED
    BY <2>1, HiddenStep
<1>3. CASE Current(h) /\ reply.Err \in {ErrWrongLeader, ErrTimeout}
  <2>1. Retry(c, hs)
    BY <1>3 DEF Answer, Current
  <2>2. QED
    BY <1>1, <2>1, RetryRefines
<1>4. CASE Current(h) /\ reply.Err \notin {ErrWrongLeader, ErrTimeout}
  <2> DEFINE n == IF h.op.OpType = "Get" THEN client[c].seqId ELSE client[c].seqId + 1
             ck == [client[c] EXCEPT !.result = reply.Value, !.seqId = n]
  <2>1. client' = [client EXCEPT ![c] = ck]
    BY Zenon, <1>4 DEF Answer, Current
  <2> HIDE DEF n
  <2>2. ck.result = reply.Value /\ ck.op = client[c].op
    BY <1>1 DEF Clerk
  <2> HIDE DEF ck
  <2>3. client'[c] = ck /\ \A d \in Client \ {c} : client'[d] = client[d]
    BY <1>1, <2>1
  <2>4. client[c].result = Nil /\ client[c].op = h.op /\ reply.Value # Nil
    BY Zenon, <1>1, <1>4, NilAssumption DEF CallInv, HandlerInv, Ours, Current
  <2>5. IF client[c].op.OpType # "Get" THEN doneAt(Len(states), c) = client[c].op.SeqId + 1
        ELSE reply.Value \in seenBy(client[c])
    <3>1. CASE h.op.OpType # "Get"
      <4>1. /\ h.op.ClientId = c /\ h.op.SeqId = client[c].seqId
            /\ doneAt(Len(states), c) \in {client[c].seqId, client[c].seqId + 1}
        BY <1>1, <2>4, <3>1 DEF CallInv, ClerkOK
      <4>2. doneAt(Len(states), c) > h.op.SeqId /\ client[c].seqId \in Nat
        BY Zenon, <1>1, <1>4, <3>1, <4>1 DEF Clerk
      <4>3. QED
        BY <2>4, <3>1, <4>1, <4>2
    <3>2. CASE h.op.OpType = "Get"
      BY <1>4, <2>4, <3>2
    <3>3. QED
      BY Zenon, <3>1, <3>2
  <2>6. PICK d \in Client : d = c
    BY <1>1
  <2>7. Store!StoreNext
    BY Zenon, <2>2, <2>3, <2>4, <2>5, <2>6, ReturnMaps
  <2>8. QED
    BY <2>7 DEF Refined
<1>5. QED
  BY <1>2, <1>3, <1>4

LEMMA CheckDuplicateRefines ==
    ASSUME KVInv, CallInv, NEW h \in handlers, CheckDuplicate(h)
    PROVE  Refined
<1>1. states' = states /\ h.op \in Op /\ h.server \in Server
  BY Zenon DEF CheckDuplicate, others, KVInv, TypeOK, CallTypeOK, Handler
<1>2. CASE h.op.OpType # "Get" /\ requestDuplicated(server[h.server].dup, h.op.ClientId, h.op.SeqId)
  <2>1. Answer(h, [Value |-> <<>>, Err |-> OK], handlers \ {h})
    BY <1>2 DEF CheckDuplicate
  <2>2. PICK reply \in Reply : reply = [Value |-> <<>>, Err |-> OK]
    <3>1. [Value |-> <<>>, Err |-> OK] \in Reply
      BY DEF Reply, Values
    <3>2. QED
      BY <3>1
  <2>3. doneAt(Len(states), h.op.ClientId) > h.op.SeqId
    BY <1>1, <1>2, DuplicateDone
  <2>4. PICK hs : hs = handlers \ {h}
    BY Zenon
  <2>5. QED
    BY Zenon, <1>1, <1>2, <2>1, <2>2, <2>3, <2>4, AnswerRefines
<1>3. CASE ~(h.op.OpType # "Get" /\ requestDuplicated(server[h.server].dup, h.op.ClientId, h.op.SeqId))
  BY <1>1, <1>3, HiddenStep DEF CheckDuplicate
<1>4. QED
  BY <1>2, <1>3

LEMMA StartRefines ==
    ASSUME KVInv, CallInv, NEW h \in handlers, Start(h)
    PROVE  Refined
<1>1. states' = states
  BY DEF Start, others
<1>2. CASE h.server \in leaders
  BY <1>1, <1>2, HiddenStep DEF Start
<1>3. CASE h.server \notin leaders
  <2>1. PICK reply \in Reply : reply = [Value |-> <<>>, Err |-> ErrWrongLeader] /\ reply.Err = ErrWrongLeader
    <3>1. [Value |-> <<>>, Err |-> ErrWrongLeader] \in Reply
      BY DEF Reply, Values
    <3>2. QED
      BY <3>1
  <2>2. PICK hs : hs = handlers \ {h}
    BY Zenon
  <2>3. QED
    BY <1>1, <1>3, <2>1, <2>2, AnswerRefines DEF Start
<1>4. QED
  BY <1>2, <1>3

LEMMA TimeoutRefines ==
    ASSUME KVInv, CallInv, NEW h \in handlers, Timeout(h)
    PROVE  Refined
<1>1. states' = states
  BY DEF Timeout, others
<1>2. PICK reply \in Reply : reply = [Value |-> <<>>, Err |-> ErrTimeout] /\ reply.Err = ErrTimeout
  <2>1. [Value |-> <<>>, Err |-> ErrTimeout] \in Reply
    BY DEF Reply, Values
  <2>2. QED
    BY <2>1
<1>3. PICK hs : hs = Finished(h)
  OBVIOUS
<1>4. QED
  BY <1>1, <1>2, <1>3, AnswerRefines DEF Timeout

\* A Get returns what its key had when its entry was committed.
LEMMA ReceiveRefines ==
    ASSUME KVInv, CallInv, NEW h \in handlers, Receive(h)
    PROVE  Refined
<1> DEFINE s == h.server
           i == h.index
           buf == server[s].notifyChans[i].bufs[h.chan]
<1>1. /\ s \in Server /\ i \in 1..MaxLog /\ h \in Handler /\ Waiting(h) /\ Replied(h)
      /\ h.chan \in DOMAIN server[s].notifyChans[i].bufs /\ buf # <<>>
  BY Zenon DEF Receive, KVInv, TypeOK, CallTypeOK, WaitInv, Handler, Waiting, Replied
<1>2. Answer(h, Head(buf), Finished(h)) /\ states' = states
  BY Zenon DEF Receive, others
<1>3. i <= server[s].delivered /\ buf = <<replyAt(i)>>
  BY Zenon, <1>1 DEF KVInv, ChannelInv
<1> HIDE DEF buf
<1>4. Head(buf) = replyAt(i)
  BY <1>3
<1>5. i \in DOMAIN committed /\ i \in DOMAIN states /\ i <= Len(states)
  <2>1. server[s].delivered <= Len(committed) /\ server[s].delivered \in Nat
    BY Zenon, <1>1, DeliveredInLog
  <2>2. QED
    BY SMTT(60), <1>1, <1>3, <2>1, HistoryLen
<1>6. committed[i].Command = h.op /\ (Current(h) => client[h.client].since <= i) /\ h.op \in Op
      /\ (Current(h) => h.op = client[h.client].op)
  BY Zenon, <1>1 DEF CallInv, HandlerInv, Answered, Ours, Handler
<1>7. PICK reply \in Reply : reply = replyAt(i)
  <2>1. IsStore(states[i].KV) /\ IsTable(states[i].dup)
    BY Zenon, <1>5 DEF KVInv, TypeOK, StatesTypeOK, IsState
  <2>2. QED
    BY Zenon, <1>6, <2>1, ApplyType DEF replyAt
<1>8. Current(h) =>
        IF h.op.OpType # "Get" THEN doneAt(Len(states), h.op.ClientId) > h.op.SeqId
        ELSE reply.Value \in seenBy(client[h.client])
  <2>1. SUFFICES ASSUME Current(h)
                 PROVE  IF h.op.OpType # "Get" THEN doneAt(Len(states), h.op.ClientId) > h.op.SeqId
                        ELSE reply.Value \in seenBy(client[h.client])
    OBVIOUS
  <2>2. CASE h.op.OpType # "Get"
    BY Zenon, <1>5, <1>6, <2>2, CommittedDone
  <2>3. CASE h.op.OpType = "Get"
    <3>1. reply = Get(states[i].KV, h.op.Key)
      BY Zenon, <1>6, <1>7, <2>3 DEF replyAt, apply, applyToStateMachine
    <3>2. client[h.client].since \in Nat
      BY Zenon, <1>1 DEF KVInv, TypeOK, CallTypeOK, Handler, Clerk
    <3>3. i \in client[h.client].since..Len(states)
      BY SMTT(60), <1>1, <1>5, <1>6, <2>1, <3>2, HistoryLen
    <3>4. client[h.client].result = Nil
      BY <2>1 DEF Current
    <3>5. QED
      BY Zenon, <1>6, <2>1, <2>3, <3>1, <3>3, <3>4 DEF seenBy
  <2>4. QED
    BY <2>2, <2>3
<1>9. PICK hs : hs = Finished(h)
  OBVIOUS
<1>10. QED
  BY <1>2, <1>4, <1>7, <1>8, <1>9, AnswerRefines

\* Committing an entry adds one value to what the calls in progress have seen.
LEMMA SeenStep ==
    ASSUME NEW ck, NEW m \in Nat, Len(states) = m, Len(states') = m + 1, ck.since \in 1..m,
           \A k \in 1..m : states'[k] = states[k], ck.result = Nil, NEW kv, states'[m + 1].KV = kv
    PROVE  seenBy(ck)' = seenBy(ck) \cup {Get(kv, ck.op.Key).Value}
<1> DEFINE key == ck.op.Key
<1>1. ck.since..(m + 1) = ck.since..m \cup {m + 1} /\ ck.since..m \subseteq 1..m
  OBVIOUS
<1>2. seenBy(ck)' = {Get(states'[k].KV, key).Value : k \in ck.since..(m + 1)}
  BY DEF seenBy
<1>3. seenBy(ck) = {Get(states[k].KV, key).Value : k \in ck.since..m}
  BY DEF seenBy
<1>4. \A k \in ck.since..m : states'[k] = states[k]
  BY <1>1
<1> HIDE DEF key
<1>5. {Get(states'[k].KV, key).Value : k \in ck.since..(m + 1)}
        = {Get(states[k].KV, key).Value : k \in ck.since..m} \cup {Get(kv, key).Value}
  BY <1>1, <1>4
<1>6. QED
  BY Zenon, <1>2, <1>3, <1>5 DEF key

\* What a write does to the store, in the terms of KVStore.
LEMMA WriteEffect ==
    ASSUME NEW kv, NEW dup, NEW o \in Op, o.OpType # "Get", ~requestDuplicated(dup, o.ClientId, o.SeqId)
    PROVE  apply(kv, dup, o).KV = Store!Effect(kv, o)
<1>1. apply(kv, dup, o).KV = applyToStateMachine(kv, o).KV
  BY DEF apply
<1>2. o.OpType \in {"Put", "Append"}
  BY DEF Op
<1>3. CASE o.OpType = "Put"
  BY <1>1, <1>3 DEF applyToStateMachine, PutTo, assign, Store!Effect, Store!Write
<1>4. CASE o.OpType = "Append"
  <2>1. Get(kv, o.Key).Value = Store!ValueOf(kv, o.Key)
    BY DEF Get, Store!ValueOf
  <2>2. applyToStateMachine(kv, o).KV = assign(kv, o.Key, Append(Get(kv, o.Key).Value, o.Value))
    BY <1>4 DEF applyToStateMachine, AppendValue
  <2>3. Store!Effect(kv, o) = Store!Write(kv, o.Key, Append(Store!ValueOf(kv, o.Key), o.Value))
    BY <1>4 DEF Store!Effect
  <2>4. QED
    BY <1>1, <2>1, <2>2, <2>3 DEF assign, Store!Write
<1>5. QED
  BY <1>2, <1>3, <1>4

LEMMA CommitNextRefines ==
    ASSUME KVInv, CallInv, NEW s \in Server, CommitNext(s)
    PROVE  Refined
<1> DEFINE m == Len(states)
           old == states[m]
<1>1. PICK o \in Op :
         /\ OpFits(o) /\ client' = client
         /\ Len(states') = m + 1 /\ DOMAIN states' = 1..(m + 1)
         /\ states'[m + 1] = stateAfter(old, o)
         /\ \A i \in 1..m : states'[i] = states[i]
  BY CommitFacts
<1> DEFINE kv == apply(old.KV, old.dup, o).KV
           dup == apply(old.KV, old.dup, o).dup
<1>2. m \in Nat /\ m \in DOMAIN states /\ DOMAIN states = 1..m
  BY HistoryLen
<1>3. old = [KV |-> old.KV, dup |-> old.dup]
  <2>1. old \in [KV : {old.KV}, dup : {old.dup}]
    BY <1>2 DEF KVInv, TypeOK, StatesTypeOK, IsState
  <2> HIDE DEF old
  <2>2. QED
    BY <2>1
<1>4. states'[m + 1] = [KV |-> kv, dup |-> dup]
  BY <1>1 DEF stateAfter
<1>5. Latest(states) = old /\ Latest(states') = [KV |-> kv, dup |-> dup] /\ Latest(states)' = Latest(states')
  BY <1>1, <1>4 DEF Latest
<1>6. ASSUME NEW d \in Client
      PROVE  seenBy(client[d])' = IF client[d].result = Nil
                                  THEN seenBy(client[d]) \cup {Get(kv, client[d].op.Key).Value}
                                  ELSE seenBy(client[d])
  <2>1. PICK ck : ck = client[d] /\ ck = client'[d]
    BY <1>1
  <2>2. seenBy(client[d]) = seenBy(ck)
    BY <2>1
  <2>3. seenBy(client[d])' = seenBy(ck)'
    BY <2>1, Zenon DEF seenBy
  <2>4. CASE ck.result = Nil
    <3>1. ck.since \in 1..m
      BY Zenon, <1>2, <2>1, <2>4 DEF CallInv, ClerkOK
    <3>2. PICK v : v = kv
      OBVIOUS
    <3>3. states'[m + 1].KV = v
      BY <1>4, <3>2
    <3>4. PICK k \in Nat : k = m
      BY Zenon, <1>2
    <3> HIDE DEF kv, old
    <3>5. seenBy(ck)' = seenBy(ck) \cup {Get(v, ck.op.Key).Value}
      BY Zenon, <1>1, <2>4, <3>1, <3>3, <3>4, SeenStep
    <3>6. QED
      BY <2>1, <2>2, <2>3, <2>4, <3>2, <3>5
  <2>5. CASE ck.result # Nil
    <3>1. seenBy(ck)' = {} /\ seenBy(ck) = {}
      BY <2>5 DEF seenBy
    <3>2. QED
      BY <2>1, <2>2, <2>3, <2>5, <3>1
  <2>6. QED
    BY Zenon, <2>4, <2>5
<1>7. CASE o.OpType = "Get" \/ requestDuplicated(old.dup, o.ClientId, o.SeqId)
  <2>1. kv = old.KV /\ dup = old.dup
    BY <1>7 DEF apply, applyToStateMachine
  <2>2. Latest(states)' = Latest(states)
    BY <1>3, <1>5, <2>1
  <2>3. ASSUME NEW d \in Client PROVE seenBy(client[d])' = seenBy(client[d])
    <3>1. CASE client[d].result = Nil
      <4>1. client[d].since \in DOMAIN states
        BY Zenon, <3>1 DEF CallInv, ClerkOK
      <4>2. m \in client[d].since..Len(states)
        BY <1>2, <4>1
      <4>3. Get(states[m].KV, client[d].op.Key).Value \in seenBy(client[d])
        BY Zenon, <3>1, <4>2 DEF seenBy
      <4>4. QED
        BY Zenon, <1>6, <2>1, <3>1, <4>3
    <3>2. CASE client[d].result # Nil
      BY Zenon, <1>6, <3>2
    <3>3. QED
      BY <3>1, <3>2
  <2>4. QED
    BY <1>1, <2>2, <2>3, StutterMaps DEF Refined
<1>8. CASE ~(o.OpType = "Get" \/ requestDuplicated(old.dup, o.ClientId, o.SeqId))
  <2> DEFINE c == o.ClientId
  <2>1. /\ c \in Client /\ client[c].result = Nil /\ client[c].op = o
        /\ doneAt(Len(states), c) = o.SeqId
    BY <1>1, <1>8, WriteCommits
  <2>2. /\ c \in DOMAIN dup /\ dup[c] = o.SeqId
        /\ \A d : d # c => /\ d \in DOMAIN dup <=> d \in DOMAIN old.dup
                           /\ d \in DOMAIN old.dup => dup[d] = old.dup[d]
    <3>1. Recorded(dup, old.dup, o)
      BY Zenon, <1>8, CommitDone
    <3>2. QED
      BY Zenon, <3>1 DEF Recorded
  <2>3. kv = Store!Effect(old.KV, o)
    BY <1>8, WriteEffect
  <2> HIDE DEF kv, dup
  <2>4. \A d \in Client : doneAt(Len(states), d)' = IF d \in DOMAIN dup THEN dup[d] + 1 ELSE 0
    BY <1>1, <1>4 DEF doneAt
  <2>5. doneAt(Len(states), c)' = o.SeqId + 1
        /\ \A d \in Client \ {c} : doneAt(Len(states), d)' = doneAt(Len(states), d)
    BY <2>1, <2>2, <2>4 DEF doneAt
  <2>6. \A d \in Client : Get(kv, client[d].op.Key).Value = Store!ValueOf(Latest(states').KV, client[d].op.Key)
    BY <1>5 DEF Get, Store!ValueOf
  <2>7. Latest(states').KV = Store!Effect(Latest(states).KV, client[c].op)
    BY <1>5, <2>1, <2>3
  <2> HIDE DEF c
  <2>8. Store!StoreNext
    BY Zenon, <1>1, <1>6, <1>8, <2>1, <2>5, <2>6, <2>7, ExecuteMaps
  <2>9. QED
    BY <2>8 DEF Refined
<1>9. QED
  BY <1>7, <1>8

LEMMA StoreInits == Init => Store!StoreInit
<1>1. SUFFICES ASSUME Init PROVE Store!StoreInit
  OBVIOUS
<1>2. Latest(states) = [KV |-> <<>>, dup |-> <<>>] /\ client = [c \in Client |-> MakeClerk]
  BY <1>1 DEF Init, Latest
<1>3. \A c \in Client : client[c].op = Nil /\ client[c].result = <<>>
  BY <1>2 DEF MakeClerk
<1>4. <<>> # Nil
  <2>1. <<>> \in Values
    BY DEF Values
  <2>2. QED
    BY <2>1, NilAssumption
<1>5. Latest(states).KV = <<>> /\ Latest(states).dup = <<>> /\ \A c : c \notin DOMAIN <<>>
  BY <1>2
<1>6. QED
  BY <1>3, <1>4, <1>5 DEF Store!StoreInit

LEMMA StoreSteps ==
    ASSUME KVInv, CallInv, [Next]_vars
    PROVE  Refined
<1>1. CASE UNCHANGED vars
  BY <1>1, HiddenStep DEF vars, kvVars, others
<1>2. ASSUME NEW c \in Client, NEW key \in Key, NEW type \in Program[c], Call(c, type, key) PROVE Refined
  BY <1>2, CallRefines
<1>3. ASSUME NEW c \in Client, CallFails(c) PROVE Refined
  <2>1. PICK hs : hs = handlers
    OBVIOUS
  <2>2. states' = states /\ Retry(c, hs)
    BY <1>3, <2>1 DEF CallFails, others
  <2>3. QED
    BY <2>2, RetryRefines
<1>4. ASSUME NEW h \in handlers, CheckDuplicate(h) PROVE Refined
  BY <1>4, CheckDuplicateRefines
<1>5. ASSUME NEW h \in handlers, Start(h) PROVE Refined
  BY <1>5, StartRefines
<1>6. ASSUME NEW h \in handlers, Receive(h) PROVE Refined
  BY <1>6, ReceiveRefines
<1>7. ASSUME NEW h \in handlers, Timeout(h) PROVE Refined
  BY <1>7, TimeoutRefines
<1>8. ASSUME NEW h \in handlers, Subscribe(h) \/ Unsubscribe(h) PROVE Refined
  <2>1. UNCHANGED <<client, states>>
    BY <1>8 DEF Subscribe, Unsubscribe, others
  <2>2. QED
    BY <2>1, HiddenStep
<1>9. ASSUME NEW s \in Server, applyTask(s) \/ Restart(s) \/ BecomeLeader(s) PROVE Refined
  <2>1. UNCHANGED <<client, states>>
    BY Zenon, <1>9 DEF applyTask, Restart, BecomeLeader, others
  <2>2. QED
    BY <2>1, HiddenStep
<1>10. ASSUME NEW s \in Server, NEW p \in Server, applySnapshot(s, p) \/ Replicate(s, p) PROVE Refined
  <2>1. UNCHANGED <<client, states>>
    BY <1>10 DEF applySnapshot, Replicate, others
  <2>2. QED
    BY <2>1, HiddenStep
<1>11. ASSUME NEW s \in Server, CommitNext(s) PROVE Refined
  BY <1>11, CommitNextRefines
<1>12. QED
  BY <1>1, <1>2, <1>3, <1>4, <1>5, <1>6, <1>7, <1>8, <1>9, <1>10, <1>11 DEF Next

\* To its clients the service is one store, for any number of servers, clerks
\* and keys and over any retries, timeouts, elections, snapshots and restarts:
\* every Put and Append takes effect exactly once between its call and its
\* return, and every Get returns a value its key had during the call.  The
\* replies go out by log index alone (server.go:204), so this needs that no
\* server leads again while requests of its earlier term wait there.
THEOREM ServiceIsOneStore ==
    ASSUME Handover = {}
    PROVE  Spec => OneStore
<1>1. KVInv /\ CallInv /\ [Next]_vars => [Store!StoreNext]_(Store!storeVars)
  BY StoreSteps DEF Refined
<1>2. QED
  BY <1>1, StoreInits, KVInvariant, CallInvariant, PTL DEF Spec, OneStore, Store!StoreSpec
=============================================================================
