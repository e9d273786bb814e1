--------------------------- MODULE KVServerProofs ---------------------------
(***************************************************************************)
(* The replicas of the key-value service agree, applyTask never blocks on  *)
(* a notification channel, and to its clients the service is one store,    *)
(* for any servers, clerks, keys and programs.                             *)
(***************************************************************************)
EXTENDS KVServer, TLAPS

-----------------------------------------------------------------------------
(* Sequences. *)

LEMMA SubSeqFirst ==
    ASSUME NEW S, NEW t \in Seq(S), NEW n \in Nat, n <= Len(t)
    PROVE  /\ SubSeq(t, 1, n) \in Seq(S) /\ Len(SubSeq(t, 1, n)) = n
           /\ \A k \in 1..n : SubSeq(t, 1, n)[k] = t[k]
  OBVIOUS

\* The first i entries are the same.
LEMMA SharedPrefix ==
    ASSUME NEW S, NEW t \in Seq(S), NEW l \in Seq(S), NEW i \in Nat
    PROVE  (i <= Len(t) /\ Begins(SubSeq(t, 1, i), l)) <=>
                /\ i <= Len(t) /\ i <= Len(l)
                /\ \A k \in 1..i : t[k] = l[k]
<1>2. CASE i <= Len(t)
  <2> DEFINE c == SubSeq(t, 1, i)
  <2>1. c \in Seq(S) /\ Len(c) = i /\ \A k \in 1..i : c[k] = t[k]
    BY <1>2, SubSeqFirst
  <2> HIDE DEF c
  <2>3. Begins(c, l) <=> Len(c) <= Len(l) /\ \A k \in 1..Len(c) : c[k] = l[k]
    BY <2>1 DEF Begins
  <2>4. QED
    BY <1>2, <2>1, <2>3 DEF c
<1>3. CASE ~(i <= Len(t))
  BY <1>3
<1>4. QED
  BY <1>2, <1>3

\* What it takes for an index to be delivered, entry by entry.
LEMMA DeliverableDef ==
    ASSUME LogTypeOK
    PROVE  \A s \in Server, i \in Nat :
              Deliverable(s, i) <=> /\ i <= Len(committed) /\ i <= Len(log[s])
                                    /\ \A k \in 1..i : committed[k] = log[s][k]
<1>1. TAKE s \in Server, i \in Nat
<1>2. committed \in Seq(Entry) /\ log[s] \in Seq(Entry)
  BY DEF LogTypeOK
<1>3. QED
  BY <1>2, SharedPrefix DEF Deliverable

LEMMA DeliverableNext ==
    ASSUME LogTypeOK'
    PROVE  \A s \in Server, i \in Nat :
              Deliverable(s, i)' <=> /\ i <= Len(committed') /\ i <= Len(log'[s])
                                     /\ \A k \in 1..i : committed'[k] = log'[s][k]
<1>1. TAKE s \in Server, i \in Nat
<1>2. committed' \in Seq(Entry) /\ log'[s] \in Seq(Entry)
  BY DEF LogTypeOK
<1>3. QED
  BY <1>2, SharedPrefix DEF Deliverable

LEMMA EntryType ==
    ASSUME NEW l \in Seq(Entry), NEW i \in DOMAIN l
    PROVE  l[i] \in Entry /\ l[i].Term \in Nat /\ l[i].Command \in Op
<1>1. l[i] \in Entry
  OBVIOUS
<1>2. QED
  BY <1>1 DEF Entry

\* Follow keeps what was deliverable.
LEMMA FollowKeeps ==
    ASSUME LogTypeOK, NEW s \in Server, NEW l \in Seq(Entry), Keeps(log[s], l),
           NEW i \in Nat, Deliverable(s, i)
    PROVE  i <= Len(l) /\ \A k \in 1..i : l[k] = committed[k]
<1>1. committed \in Seq(Entry) /\ log[s] \in Seq(Entry) /\ i <= Len(committed)
  BY DEF LogTypeOK, Deliverable
<1>2. CASE i = 0
  BY <1>2
<1>3. CASE i # 0
  <2>1. i \in 1..Len(committed)
    BY <1>1, <1>3
  <2> DEFINE c == SubSeq(committed, 1, i)
  <2>2. Begins(c, l)
    BY <2>1 DEF Keeps, Deliverable
  <2>3. c \in Seq(Entry) /\ Len(c) = i /\ \A k \in 1..i : c[k] = committed[k]
    BY <1>1, SubSeqFirst
  <2> HIDE DEF c
  <2>4. Len(c) <= Len(l) /\ \A k \in 1..Len(c) : c[k] = l[k]
    BY <2>2, <2>3 DEF Begins
  <2>5. QED
    BY <2>3, <2>4
<1>4. QED
  BY <1>2, <1>3

-----------------------------------------------------------------------------
(* The state machine. *)

LEMMA GetType ==
    ASSUME NEW kv, IsStore(kv), NEW key
    PROVE  Get(kv, key) \in Reply
  BY DEF IsStore, Get, Reply, Values, OK, ErrNoKey

LEMMA AssignType ==
    ASSUME NEW S, NEW T, NEW f, DOMAIN f \subseteq S, f \in [DOMAIN f -> T], NEW a \in S, NEW b \in T
    PROVE  /\ DOMAIN assign(f, a, b) \subseteq S /\ assign(f, a, b) \in [DOMAIN assign(f, a, b) -> T]
           /\ DOMAIN assign(f, a, b) = DOMAIN f \cup {a} /\ assign(f, a, b)[a] = b
           /\ \A x \in DOMAIN f \ {a} : assign(f, a, b)[x] = f[x]
  BY DEF assign

\* The reply is one, and store and table stay maps.
LEMMA ApplyType ==
    ASSUME NEW kv, NEW dup, IsStore(kv), IsTable(dup), NEW o \in Op
    PROVE  /\ IsStore(apply(kv, dup, o).KV) /\ IsTable(apply(kv, dup, o).dup)
           /\ apply(kv, dup, o).reply \in Reply
<1>1. CASE o.OpType = "Get"
  <2>1. apply(kv, dup, o) = [KV |-> kv, dup |-> dup, reply |-> Get(kv, o.Key)]
    BY <1>1 DEF apply, applyToStateMachine
  <2>2. QED
    BY <2>1, GetType
<1>2. CASE o.OpType # "Get" /\ requestDuplicated(dup, o.ClientId, o.SeqId)
  <2>1. apply(kv, dup, o) = [KV |-> kv, dup |-> dup, reply |-> [Value |-> <<>>, Err |-> OK]]
    BY <1>2 DEF apply
  <2>2. QED
    BY <2>1 DEF Reply, Values
<1>3. CASE o.OpType # "Get" /\ ~requestDuplicated(dup, o.ClientId, o.SeqId)
  <2>0. /\ o.OpType \in {"Put", "Append"} /\ o.Key \in Key /\ o.Value \in Client \X Nat
        /\ o.ClientId \in Client /\ o.SeqId \in Nat
    BY <1>3 DEF Op
  <2>1. PICK v \in Values : apply(kv, dup, o) = [KV |-> assign(kv, o.Key, v),
                dup |-> assign(dup, o.ClientId, o.SeqId), reply |-> [Value |-> <<>>, Err |-> OK]]
    <3>1. CASE o.OpType = "Put"
      <4>1. <<o.Value>> \in Values
        BY <2>0 DEF Values
      <4>2. QED
        BY <1>3, <3>1, <4>1 DEF apply, applyToStateMachine, PutTo
    <3>2. CASE o.OpType = "Append"
      <4>1. Append(Get(kv, o.Key).Value, o.Value) \in Values
        BY <2>0, GetType DEF Values, Reply
      <4>2. QED
        BY <1>3, <3>2, <4>1 DEF apply, applyToStateMachine, AppendValue
    <3>3. QED
      BY <2>0, <3>1, <3>2
  <2>2. IsStore(assign(kv, o.Key, v))
    BY ZenonT(60), <2>0, AssignType DEF IsStore
  <2>3. IsTable(assign(dup, o.ClientId, o.SeqId))
    <3>1. DOMAIN dup \subseteq Client /\ dup \in [DOMAIN dup -> Nat]
      BY DEF IsTable
    <3> DEFINE n == o.SeqId
               a == o.ClientId
    <3>2. n \in Nat /\ a \in Client
      BY <2>0
    <3> HIDE DEF n, a
    <3>3. /\ DOMAIN assign(dup, a, n) \subseteq Client
          /\ assign(dup, a, n) \in [DOMAIN assign(dup, a, n) -> Nat]
      BY Zenon, <3>1, <3>2, AssignType
    <3>4. QED
      BY <3>3 DEF IsTable, n, a
  <2>4. QED
    BY <2>1, <2>2, <2>3 DEF Reply, Values
<1>4. QED
  BY <1>1, <1>2, <1>3

\* The table never falls: a request that is not newer is not executed.
LEMMA ApplyTable ==
    ASSUME NEW kv, NEW dup, IsTable(dup), NEW o \in Op, NEW c \in DOMAIN dup
    PROVE  c \in DOMAIN apply(kv, dup, o).dup /\ dup[c] <= apply(kv, dup, o).dup[c]
<1>1. dup[c] \in Nat
  BY DEF IsTable
<1>2. CASE apply(kv, dup, o).dup = dup
  BY <1>1, <1>2
<1>3. CASE apply(kv, dup, o).dup # dup
  <2>1. o.OpType # "Get" /\ ~requestDuplicated(dup, o.ClientId, o.SeqId)
    BY <1>3 DEF apply
  <2>2. apply(kv, dup, o).dup = assign(dup, o.ClientId, o.SeqId)
    BY <2>1 DEF apply
  <2>3. o.SeqId \in Nat
    BY DEF Op
  <2>4. CASE c = o.ClientId
    BY <1>1, <2>1, <2>2, <2>3, <2>4 DEF assign, requestDuplicated
  <2>5. CASE c # o.ClientId
    BY <1>1, <2>2, <2>5 DEF assign
  <2>6. QED
    BY <2>4, <2>5
<1>4. QED
  BY <1>2, <1>3

-----------------------------------------------------------------------------
(* Notification channels. *)

LEMMA ChannelType ==
    ASSUME NEW chans \in Channels, NEW i \in 1..MaxLog
    PROVE  /\ chans[i] \in [open : BOOLEAN, bufs : Seq(Seq(Reply))]
           /\ chans[i].bufs \in Seq(Seq(Reply)) /\ Len(chans[i].bufs) \in Nat
           /\ chans[i].open \in BOOLEAN
  BY DEF Channels

LEMMA GetNotifyChannel ==
    ASSUME NEW chans \in Channels, NEW i \in 1..MaxLog, chans[i].open => chans[i].bufs # <<>>
    PROVE  LET new == getNotifyChannel(chans, i)
           IN  /\ new \in Channels /\ new[i].open /\ Len(new[i].bufs) > 0
               /\ Len(chans[i].bufs) <= Len(new[i].bufs)
               /\ \A n \in DOMAIN new[i].bufs :
                     \/ new[i].bufs[n] = <<>>
                     \/ n \in DOMAIN chans[i].bufs /\ new[i].bufs[n] = chans[i].bufs[n]
               /\ ~chans[i].open => new[i].bufs[Len(new[i].bufs)] = <<>>
               /\ \A j \in 1..MaxLog \ {i} : new[j] = chans[j]
<1> DEFINE b == chans[i].bufs
<1>0. b \in Seq(Seq(Reply)) /\ Len(b) \in Nat /\ chans[i].open \in BOOLEAN
  BY ChannelType
<1>1. CASE chans[i].open
  BY <1>0, <1>1 DEF getNotifyChannel
<1>2. CASE ~chans[i].open
  <2> DEFINE new == getNotifyChannel(chans, i)
             nb == Append(b, <<>>)
  <2>1. nb \in Seq(Seq(Reply)) /\ Len(nb) = Len(b) + 1 /\ nb[Len(nb)] = <<>>
        /\ DOMAIN nb = 1..Len(nb) /\ \A n \in 1..Len(b) : nb[n] = b[n]
    <3>1. <<>> \in Seq(Reply)
      OBVIOUS
    <3>2. QED
      BY <1>0, <3>1
  <2> HIDE DEF nb
  <2>2. [open |-> TRUE, bufs |-> nb] \in [open : BOOLEAN, bufs : Seq(Seq(Reply))]
    BY <2>1
  <2>3. new = [chans EXCEPT ![i] = [open |-> TRUE, bufs |-> nb]]
    BY <1>2 DEF getNotifyChannel, nb
  <2>4. new \in Channels
    BY <2>2, <2>3 DEF Channels
  <2>5. new[i] = [open |-> TRUE, bufs |-> nb] /\ \A j \in 1..MaxLog \ {i} : new[j] = chans[j]
    BY <2>3 DEF Channels
  <2> HIDE DEF new, b
  <2>6. new[i].open /\ new[i].bufs = nb
    BY <2>5
  <2>7. \A n \in DOMAIN nb : nb[n] = <<>> \/ (n \in DOMAIN b /\ nb[n] = b[n])
    <3>1. DOMAIN b = 1..Len(b)
      BY <1>0
    <3>2. TAKE n \in DOMAIN nb
    <3>3. n = Len(nb) \/ n \in 1..Len(b)
      BY <1>0, <2>1
    <3>4. QED
      BY <2>1, <3>1, <3>3
  <2>8. Len(nb) > 0 /\ Len(b) <= Len(nb)
    BY <1>0, <2>1
  <2>9. QED
    BY Zenon, <2>1, <2>4, <2>5, <2>6, <2>7, <2>8 DEF new, b
<1>3. QED
  BY Zenon, <1>1, <1>2

\* A reply is the only thing applyTask adds.
LEMMA SendReply ==
    ASSUME NEW chans \in Channels, NEW i \in 1..MaxLog, chans[i].open => chans[i].bufs # <<>>,
           NEW reply \in Reply
    PROVE  LET new == send(chans, i, reply)
           IN  /\ new \in Channels /\ new[i].open /\ Len(new[i].bufs) > 0
               /\ Len(chans[i].bufs) <= Len(new[i].bufs)
               /\ \A n \in DOMAIN new[i].bufs :
                     \/ new[i].bufs[n] = <<>> \/ new[i].bufs[n] = <<reply>>
                     \/ n \in DOMAIN chans[i].bufs /\ new[i].bufs[n] = chans[i].bufs[n]
               /\ \A j \in 1..MaxLog \ {i} : new[j] = chans[j]
<1> DEFINE with == getNotifyChannel(chans, i)
           new == send(chans, i, reply)
           b == with[i].bufs
           nb == [b EXCEPT ![Len(b)] = <<reply>>]
<1>1. with \in Channels /\ with[i].open /\ Len(b) > 0 /\ Len(chans[i].bufs) <= Len(b)
      /\ \A j \in 1..MaxLog \ {i} : with[j] = chans[j]
  BY GetNotifyChannel
<1>2. \A n \in DOMAIN b : b[n] = <<>> \/ (n \in DOMAIN chans[i].bufs /\ b[n] = chans[i].bufs[n])
  BY GetNotifyChannel
<1>3. new = [with EXCEPT ![i].bufs = nb]
  BY DEF send
<1> HIDE DEF with
<1>4. b \in Seq(Seq(Reply)) /\ Len(b) \in Nat
  BY <1>1, ChannelType
<1> HIDE DEF b
<1>5. nb \in Seq(Seq(Reply)) /\ Len(nb) = Len(b) /\ DOMAIN nb = DOMAIN b
      /\ nb[Len(b)] = <<reply>> /\ \A n \in DOMAIN b \ {Len(b)} : nb[n] = b[n]
  <2>1. <<reply>> \in Seq(Reply)
    OBVIOUS
  <2>2. QED
    BY <1>1, <1>4, <2>1
<1> HIDE DEF nb
<1>6. new[i].bufs = nb /\ new[i].open /\ \A j \in 1..MaxLog \ {i} : new[j] = with[j]
  BY <1>1, <1>3 DEF Channels
<1>7. new \in Channels
  BY ZenonT(60), <1>1, <1>3, <1>5 DEF Channels
<1>8. \A n \in DOMAIN nb :
        \/ nb[n] = <<>> \/ nb[n] = <<reply>>
        \/ n \in DOMAIN chans[i].bufs /\ nb[n] = chans[i].bufs[n]
  <2>1. TAKE n \in DOMAIN nb
  <2>2. CASE n = Len(b)
    BY <1>5, <2>2
  <2>3. CASE n # Len(b)
    BY <1>2, <1>5, <2>3
  <2>4. QED
    BY <2>2, <2>3
<1> HIDE DEF new
<1>9. QED
  BY Zenon, <1>1, <1>5, <1>6, <1>7, <1>8 DEF new

\* A handler takes a reply out of its channel.
LEMMA TakeReply ==
    ASSUME NEW chans \in Channels, NEW i \in 1..MaxLog, NEW k \in DOMAIN chans[i].bufs
    PROVE  LET new == [chans EXCEPT ![i].bufs[k] = <<>>]
           IN  /\ new \in Channels /\ new[i].open = chans[i].open
               /\ Len(new[i].bufs) = Len(chans[i].bufs)
               /\ \A n \in DOMAIN new[i].bufs : new[i].bufs[n] = <<>> \/ new[i].bufs[n] = chans[i].bufs[n]
               /\ \A j \in 1..MaxLog \ {i} : new[j] = chans[j]
<1> DEFINE new == [chans EXCEPT ![i].bufs[k] = <<>>]
           b == chans[i].bufs
           nb == [b EXCEPT ![k] = <<>>]
<1>1. b \in Seq(Seq(Reply)) /\ Len(b) \in Nat /\ chans[i].open \in BOOLEAN /\ k \in DOMAIN b
  BY ChannelType
<1>2. new = [chans EXCEPT ![i].bufs = nb]
  OBVIOUS
<1> HIDE DEF b
<1>3. nb \in Seq(Seq(Reply)) /\ Len(nb) = Len(b) /\ DOMAIN nb = DOMAIN b
      /\ \A n \in DOMAIN b : nb[n] = <<>> \/ nb[n] = b[n]
  <2>1. <<>> \in Seq(Reply)
    OBVIOUS
  <2>2. QED
    BY <1>1, <2>1
<1> HIDE DEF nb
<1>4. new[i].bufs = nb /\ new[i].open = chans[i].open /\ \A j \in 1..MaxLog \ {i} : new[j] = chans[j]
  BY <1>2 DEF Channels
<1>5. new \in Channels
  BY ZenonT(60), <1>2, <1>3 DEF Channels
<1> HIDE DEF new
<1>6. QED
  BY <1>3, <1>4, <1>5 DEF new, b

LEMMA RemoveChannel ==
    ASSUME NEW chans \in Channels, NEW i \in 1..MaxLog
    PROVE  LET new == removeNotifyChannel(chans, i)
           IN  /\ new \in Channels /\ ~new[i].open /\ new[i].bufs = chans[i].bufs
               /\ \A j \in 1..MaxLog \ {i} : new[j] = chans[j]
<1> DEFINE new == removeNotifyChannel(chans, i)
<1>1. new[i] = [chans[i] EXCEPT !.open = FALSE] /\ \A j \in 1..MaxLog \ {i} : new[j] = chans[j]
  BY DEF removeNotifyChannel, Channels
<1>2. new[i].open = FALSE /\ new[i].bufs = chans[i].bufs
  BY <1>1, ChannelType
<1>3. new \in Channels
  <2>1. [chans[i] EXCEPT !.open = FALSE] \in [open : BOOLEAN, bufs : Seq(Seq(Reply))]
    BY Zenon, ChannelType
  <2>2. new = [chans EXCEPT ![i] = [chans[i] EXCEPT !.open = FALSE]]
    BY DEF removeNotifyChannel
  <2>3. QED
    BY <2>1, <2>2 DEF Channels
<1>4. QED
  BY <1>1, <1>2, <1>3

-----------------------------------------------------------------------------
(* Types of clerks, handlers and servers. *)

LEMMA NextServer ==
    ASSUME NEW n \in Server
    PROVE  (n + 1) % Cardinality(Server) \in Server
<1> DEFINE size == Cardinality(Server)
<1>1. size \in Nat /\ Server = 0..(size - 1)
  BY KVAssumption
<1> HIDE DEF size
<1>2. n \in Nat /\ size > 0
  BY <1>1
<1>3. (n + 1) % size \in 0..(size - 1)
  BY <1>1, <1>2
<1>4. QED
  BY <1>1, <1>3 DEF size

LEMMA ClerkType ==
    ASSUME CallTypeOK, NEW c \in Client, NEW ck \in Clerk, NEW hs, hs \subseteq Handler,
           ck.result = Nil => ck.op \in Op,
           client' = [client EXCEPT ![c] = ck],
           handlers' = hs \/ (ck.op \in Op /\ handlers' = hs \cup {RPC(c, ck)})
    PROVE  CallTypeOK' /\ \A g \in handlers' : g \in hs \/ g.pc = "arrived"
<1>1. client' \in [Client -> Clerk] /\ client'[c] = ck /\ \A d \in Client \ {c} : client'[d] = client[d]
  BY DEF CallTypeOK
<1>2. ck.op \in Op => RPC(c, ck) \in Handler
  BY DEF RPC, Handler, Clerk
<1>3. handlers' \subseteq Handler
  BY <1>2
<1>4. \A d \in Client : client'[d].result = Nil => client'[d].op \in Op
  BY <1>1 DEF CallTypeOK
<1>5. QED
  BY <1>1, <1>3, <1>4 DEF CallTypeOK, RPC

LEMMA RetryType ==
    ASSUME CallTypeOK, NEW c \in Client, client[c].result = Nil, NEW hs, hs \subseteq Handler, Retry(c, hs)
    PROVE  CallTypeOK' /\ \A g \in handlers' : g \in hs \/ g.pc = "arrived"
<1> DEFINE ck == nextServer(client[c])
<1>1. client[c] \in Clerk /\ client[c].op \in Op
  BY DEF CallTypeOK
<1>2. (client[c].leaderId + 1) % Cardinality(Server) \in Server
  BY <1>1, NextServer DEF Clerk
<1>3. ck \in Clerk
  <2> DEFINE next == (client[c].leaderId + 1) % Cardinality(Server)
             n == client[c].attempts + 1
  <2>1. ck = [client[c] EXCEPT !.leaderId = next, !.attempts = n]
    BY DEF nextServer
  <2>2. n \in Nat
    BY <1>1 DEF Clerk
  <2> HIDE DEF next, n, ck
  <2>3. QED
    BY Zenon, <1>1, <1>2, <2>1, <2>2 DEF Clerk, next
<1>6. ck.op \in Op
  BY <1>1 DEF nextServer, Clerk
<1>4. client' = [client EXCEPT ![c] = ck] /\ handlers' = hs \cup {RPC(c, ck)}
  BY DEF Retry
<1> HIDE DEF ck
<1>5. QED
  BY Zenon, <1>3, <1>4, <1>6, ClerkType

LEMMA AnswerType ==
    ASSUME CallTypeOK, NEW h \in Handler, NEW reply \in Reply, NEW hs, hs \subseteq Handler,
           Answer(h, reply, hs)
    PROVE  CallTypeOK' /\ \A g \in handlers' : g \in hs \/ g.pc = "arrived"
<1> DEFINE c == h.client
<1>1. c \in Client
  BY DEF Handler
<1>2. CASE client[c].result # Nil \/ client[c].attempts # h.call
  BY <1>2 DEF Answer, CallTypeOK
<1>3. CASE ~(client[c].result # Nil \/ client[c].attempts # h.call)
  <2>1. CASE reply.Err \in {ErrWrongLeader, ErrTimeout}
    BY <1>1, <1>3, <2>1, RetryType DEF Answer
  <2>2. CASE reply.Err \notin {ErrWrongLeader, ErrTimeout}
    <3> DEFINE ck == [client[c] EXCEPT !.result = reply.Value,
                                       !.seqId = IF h.op.OpType = "Get" THEN @ ELSE @ + 1]
    <3>1. client' = [client EXCEPT ![c] = ck] /\ handlers' = hs
      BY Zenon, <1>1, <1>3, <2>2 DEF Answer, CallTypeOK
    <3>2. client[c] \in Clerk /\ client[c].op \in Op
      BY <1>1, <1>3 DEF CallTypeOK
    <3>3. ck \in Clerk
      <4> DEFINE n == IF h.op.OpType = "Get" THEN client[c].seqId ELSE client[c].seqId + 1
      <4>1. ck = [client[c] EXCEPT !.result = reply.Value, !.seqId = n]
        OBVIOUS
      <4>2. n \in Nat /\ reply.Value \in Values
        BY <3>2 DEF Clerk, Reply
      <4> HIDE DEF n, ck
      <4>3. QED
        BY Zenon, <3>2, <4>1, <4>2 DEF Clerk
    <3>5. ck.op \in Op
      BY <3>2 DEF Clerk
    <3> HIDE DEF ck, c
    <3>4. QED
      BY Zenon, <1>1, <3>1, <3>3, <3>5, ClerkType
  <2>3. QED
    BY <2>1, <2>2
<1>4. QED
  BY <1>2, <1>3

LEMMA MaxLogNat == MaxLog \in Nat
BY KVAssumption

LEMMA ServerType ==
    ASSUME ServerTypeOK, NEW s \in Server
    PROVE  /\ server[s].lastApplied \in Nat /\ server[s].delivered \in Nat
           /\ server[s].notifyChans \in Channels /\ server[s].snapshot.index \in Nat
  BY DEF ServerTypeOK, IsServer

LEMMA ServerUpdate ==
    ASSUME ServerTypeOK, NEW s \in Server, NEW sv, IsServer(sv), server' = [server EXCEPT ![s] = sv]
    PROVE  ServerTypeOK' /\ server'[s] = sv /\ \A p \in Server \ {s} : server'[p] = server[p]
  BY DEF ServerTypeOK

-----------------------------------------------------------------------------
(* Steps of clerks and handlers: nothing below the channels changes. *)

LEMMA LogSame ==
    ASSUME KVInv, UNCHANGED <<logVars, others>>
    PROVE  LogTypeOK' /\ StatesTypeOK' /\ TermInv' /\ StatesInv'
<1> USE DEF logVars, others
<1>1. LogTypeOK'
  BY DEF KVInv, TypeOK, LogTypeOK
<1>2. StatesTypeOK'
  BY DEF KVInv, TypeOK, StatesTypeOK
<1>3. TermInv'
  BY DEF KVInv, TermInv, Owns, Known
<1>4. StatesInv'
  BY DEF KVInv, StatesInv, doneAt
<1>5. QED
  BY <1>1, <1>2, <1>3, <1>4

LEMMA CallStep ==
    ASSUME KVInv, UNCHANGED <<logVars, server, others>>, CallTypeOK', WaitInv'
    PROVE  KVInv'
<1>1. LogTypeOK' /\ StatesTypeOK' /\ TermInv' /\ StatesInv'
  BY LogSame
<1>2. ServerTypeOK'
  BY DEF KVInv, TypeOK, ServerTypeOK
<1>3. ServerInv'
  BY Zenon DEF KVInv, ServerInv, Deliverable, logVars, others
<1>4. ChannelInv'
  BY ZenonT(60) DEF KVInv, ChannelInv, replyAt, logVars, others
<1>5. QED
  BY <1>1, <1>2, <1>3, <1>4 DEF KVInv, TypeOK

\* The channels of one server change, but no reply comes.
LEMMA ChannelStep ==
    ASSUME KVInv, UNCHANGED <<logVars, others>>, CallTypeOK', WaitInv',
           NEW s \in Server, NEW chans \in Channels, server' = [server EXCEPT ![s].notifyChans = chans],
           NEW i \in 1..MaxLog, chans[i].open => chans[i].bufs # <<>>,
           \A j \in 1..MaxLog \ {i} : chans[j] = server[s].notifyChans[j],
           \A n \in DOMAIN chans[i].bufs :
              \/ chans[i].bufs[n] = <<>>
              \/ /\ n \in DOMAIN server[s].notifyChans[i].bufs
                 /\ chans[i].bufs[n] = server[s].notifyChans[i].bufs[n]
    PROVE  KVInv'
<1>1. LogTypeOK' /\ StatesTypeOK' /\ TermInv' /\ StatesInv'
  BY LogSame
<1> DEFINE sv == [server[s] EXCEPT !.notifyChans = chans]
<1>2. IsServer(sv)
  BY ZenonT(60) DEF KVInv, TypeOK, ServerTypeOK, IsServer
<1>3. server' = [server EXCEPT ![s] = sv]
  OBVIOUS
<1>4. /\ sv.notifyChans = chans /\ sv.delivered = server[s].delivered
      /\ sv.lastApplied = server[s].lastApplied /\ sv.snapshot = server[s].snapshot
      /\ sv.KV = server[s].KV /\ sv.dup = server[s].dup
  BY DEF KVInv, TypeOK, ServerTypeOK, IsServer
<1> HIDE DEF sv
<1>5. ServerTypeOK' /\ server'[s] = sv /\ \A p \in Server \ {s} : server'[p] = server[p]
  BY Zenon, <1>2, <1>3, ServerUpdate DEF KVInv, TypeOK
<1>6. \A p \in Server : /\ server'[p].delivered = server[p].delivered
                        /\ server'[p].lastApplied = server[p].lastApplied
                        /\ server'[p].snapshot = server[p].snapshot
                        /\ server'[p].KV = server[p].KV /\ server'[p].dup = server[p].dup
  BY <1>4, <1>5
<1>7. ServerInv'
  BY SMTT(60), <1>6 DEF KVInv, ServerInv, Deliverable, logVars, others
<1>8. ChannelInv'
  <2>1. \A j \in Nat : replyAt(j)' = replyAt(j)
    BY DEF replyAt, logVars, others
  <2>2. SUFFICES ASSUME NEW p \in Server, NEW j \in 1..MaxLog
                 PROVE  LET ch == server'[p].notifyChans[j]
                        IN  /\ ch.open => ch.bufs # <<>>
                            /\ \A n \in DOMAIN ch.bufs :
                                  ch.bufs[n] # <<>> => /\ j <= server[p].delivered
                                                       /\ ch.bufs[n] = <<replyAt(j)>>
    BY SMTT(60), <1>6, <2>1 DEF ChannelInv
  <2>3. CASE p = s /\ j = i
    BY SMTT(60), <1>4, <1>5, <2>3 DEF KVInv, ChannelInv
  <2>4. CASE ~(p = s /\ j = i)
    <3>1. server'[p].notifyChans[j] = server[p].notifyChans[j]
      BY <1>4, <1>5, <2>4
    <3>2. QED
      BY SMTT(60), <3>1 DEF KVInv, ChannelInv
  <2>5. QED
    BY Zenon, <2>3, <2>4
<1>9. QED
  BY <1>1, <1>5, <1>7, <1>8 DEF KVInv, TypeOK

LEMMA WaitSame ==
    ASSUME WaitInv, UNCHANGED server,
           \A g \in handlers' : \/ g \in handlers \/ g.pc \in {"arrived", "start"}
                                \/ g.pc # "wait" /\ g.index \in 1..MaxLog
    PROVE  WaitInv'
  BY DEF WaitInv

LEMMA CallInvStep ==
    ASSUME KVInv, NEW c \in Client, NEW key \in Key, NEW type \in Program[c], Call(c, type, key)
    PROVE  KVInv'
<1> DEFINE op == IF type = "Get" THEN [OpType |-> "Get", Key |-> key, Value |-> Nil, ClientId |-> Nil, SeqId |-> 0]
                 ELSE [OpType |-> type, Key |-> key, Value |-> <<c, client[c].seqId>>,
                       ClientId |-> c, SeqId |-> client[c].seqId]
           ck == [client[c] EXCEPT !.op = op, !.result = Nil, !.calls = @ + 1, !.attempts = @ + 1,
                                   !.since = Len(states)]
<1>1. client[c] \in Clerk /\ Len(states) \in Nat
  BY DEF KVInv, TypeOK, CallTypeOK, StatesTypeOK
<1>2. op \in Op
  <2>1. type \in {"Get", "Put", "Append"}
    BY Zenon, KVAssumption
  <2>2. client[c].seqId \in Nat
    BY <1>1 DEF Clerk
  <2>3. QED
    BY <2>1, <2>2 DEF Op
<1>3. client' = [client EXCEPT ![c] = ck] /\ handlers' = handlers \cup {RPC(c, ck)}
  BY DEF Call
<1> HIDE DEF op
<1>4. ck \in Clerk
  <2> DEFINE n == client[c].calls + 1
             m == client[c].attempts + 1
             since == Len(states)
  <2>1. n \in Nat /\ m \in Nat /\ since \in Nat
    BY <1>1 DEF Clerk
  <2>2. ck = [client[c] EXCEPT !.op = op, !.result = Nil, !.calls = n, !.attempts = m, !.since = since]
    OBVIOUS
  <2> HIDE DEF n, m, ck, since
  <2>3. QED
    BY Zenon, <1>1, <1>2, <2>1, <2>2 DEF Clerk
<1>5. ck.op = op
  BY <1>1 DEF Clerk
<1> HIDE DEF ck
<1>6. CallTypeOK' /\ \A g \in handlers' : g \in handlers \/ g.pc = "arrived"
  BY Zenon, <1>2, <1>3, <1>4, <1>5, ClerkType DEF KVInv, TypeOK, CallTypeOK
<1>7. UNCHANGED <<logVars, server, others>>
  BY DEF Call
<1>8. WaitInv'
  BY <1>6, <1>7, WaitSame DEF KVInv
<1>9. QED
  BY <1>6, <1>7, <1>8, CallStep

LEMMA CallFailsInvStep ==
    ASSUME KVInv, NEW c \in Client, CallFails(c)
    PROVE  KVInv'
<1>1. UNCHANGED <<logVars, server, others>> /\ client[c].result = Nil /\ Retry(c, handlers)
  BY DEF CallFails
<1>2. CallTypeOK' /\ \A g \in handlers' : g \in handlers \/ g.pc = "arrived"
  BY <1>1, RetryType DEF KVInv, TypeOK, CallTypeOK
<1>3. WaitInv'
  BY <1>1, <1>2, WaitSame DEF KVInv
<1>4. QED
  BY <1>1, <1>2, <1>3, CallStep

\* A handler that answers without touching server or log.
LEMMA AnswerStep ==
    ASSUME KVInv, NEW h \in handlers, NEW reply \in Reply, NEW hs, hs \subseteq Handler,
           \A g \in hs : g \in handlers \/ (g.pc = "remove" /\ g.index \in 1..MaxLog),
           Answer(h, reply, hs), UNCHANGED <<logVars, server, others>>
    PROVE  KVInv'
<1>1. CallTypeOK /\ h \in Handler
  BY DEF KVInv, TypeOK, CallTypeOK
<1>2. CallTypeOK' /\ \A g \in handlers' : g \in hs \/ g.pc = "arrived"
  BY <1>1, AnswerType
<1>3. WaitInv'
  BY <1>2, WaitSame DEF KVInv
<1>4. QED
  BY <1>2, <1>3, CallStep

LEMMA CheckDuplicateInvStep ==
    ASSUME KVInv, NEW h \in handlers, CheckDuplicate(h)
    PROVE  KVInv'
<1>1. UNCHANGED <<logVars, server, others>> /\ CallTypeOK /\ h \in Handler
  BY DEF CheckDuplicate, KVInv, TypeOK, CallTypeOK
<1>2. CASE Answer(h, [Value |-> <<>>, Err |-> OK], handlers \ {h})
  <2>1. [Value |-> <<>>, Err |-> OK] \in Reply /\ handlers \ {h} \subseteq Handler
    BY DEF Reply, Values, KVInv, TypeOK, CallTypeOK
  <2>2. QED
    BY <1>1, <1>2, <2>1, AnswerStep
<1>3. CASE handlers' = (handlers \ {h}) \cup {[h EXCEPT !.pc = "start"]} /\ UNCHANGED client
  <2>1. [h EXCEPT !.pc = "start"] \in Handler /\ [h EXCEPT !.pc = "start"].pc = "start"
    BY <1>1 DEF Handler
  <2>2. CallTypeOK'
    BY <1>1, <1>3, <2>1 DEF CallTypeOK
  <2>3. WaitInv'
    BY Zenon, <1>1, <1>3, <2>1, WaitSame DEF KVInv
  <2>4. QED
    BY <1>1, <2>2, <2>3, CallStep
<1>4. QED
  BY <1>2, <1>3 DEF CheckDuplicate

LEMMA TimeoutInvStep ==
    ASSUME KVInv, NEW h \in handlers, Timeout(h)
    PROVE  KVInv'
<1>1. h \in Handler /\ h.index \in 1..MaxLog
  BY DEF Timeout, KVInv, TypeOK, CallTypeOK, WaitInv
<1> DEFINE g == [h EXCEPT !.pc = "remove"]
<1>2. g \in Handler /\ g.pc = "remove" /\ g.index = h.index
  BY <1>1 DEF Handler
<1>3. Finished(h) = (handlers \ {h}) \cup {g}
  BY DEF Finished
<1>4. [Value |-> <<>>, Err |-> ErrTimeout] \in Reply /\ Finished(h) \subseteq Handler
  BY <1>2, <1>3 DEF Reply, Values, KVInv, TypeOK, CallTypeOK
<1> HIDE DEF g
<1>5. \A x \in Finished(h) : x \in handlers \/ (x.pc = "remove" /\ x.index \in 1..MaxLog)
  BY <1>1, <1>2, <1>3
<1>6. QED
  BY <1>4, <1>5, AnswerStep DEF Timeout

\* A step that neither commits nor adds a state keeps the history.
LEMMA StatesFrame ==
    ASSUME StatesTypeOK, StatesInv, states' = states, committed' = committed
    PROVE  StatesTypeOK' /\ StatesInv'
<1>1. StatesTypeOK'
  BY Zenon DEF StatesTypeOK
<1>2. \A n, c : doneAt(n, c)' = doneAt(n, c)
  BY Zenon DEF doneAt
<1>3. StatesInv'
  BY Zenon, <1>2 DEF StatesInv
<1>4. QED
  BY <1>1, <1>3

\* A step that leaves the handlers and the clerks alone keeps their types.
LEMMA CallFrame ==
    ASSUME CallTypeOK, handlers' = handlers, client' = client
    PROVE  CallTypeOK'
  BY Zenon DEF CallTypeOK

\* A step that leaves the handlers and the servers alone keeps the channels
\* the handlers wait on.
LEMMA WaitFrame ==
    ASSUME WaitInv, handlers' = handlers, server' = server
    PROVE  WaitInv'
  BY Zenon DEF WaitInv

\* A step that leaves the servers, the logs and the history alone keeps what
\* the servers hold.
LEMMA ServerFrame ==
    ASSUME ServerTypeOK, ServerInv, ChannelInv,
           server' = server, log' = log, committed' = committed, states' = states
    PROVE  ServerTypeOK' /\ ServerInv' /\ ChannelInv'
<1>1. ServerTypeOK'
  BY Zenon DEF ServerTypeOK
<1>2. \A q, i : Deliverable(q, i)' = Deliverable(q, i)
  BY Zenon DEF Deliverable
<1>3. ServerInv'
  BY Zenon, <1>2 DEF ServerInv
<1>4. \A i : replyAt(i)' = replyAt(i)
  BY Zenon DEF replyAt
<1>5. ChannelInv'
  BY Zenon, <1>4 DEF ChannelInv
<1>6. QED
  BY <1>1, <1>3, <1>5

LEMMA SubscribeInvStep ==
    ASSUME KVInv, NEW h \in handlers, Subscribe(h)
    PROVE  KVInv'
<1> DEFINE s == h.server
           i == h.index
           old == server[s].notifyChans
           chans == getNotifyChannel(old, i)
           g == [h EXCEPT !.pc = "wait", !.chan = Len(chans[i].bufs)]
<1>1. h \in Handler /\ s \in Server /\ i \in 1..MaxLog
  BY Zenon DEF Subscribe, KVInv, TypeOK, CallTypeOK, WaitInv, Handler
<1>2. old \in Channels /\ (old[i].open => old[i].bufs # <<>>)
  BY ZenonT(60), <1>1, ServerType DEF KVInv, TypeOK, ChannelInv
<1>3. /\ server' = [server EXCEPT ![s].notifyChans = chans]
      /\ handlers' = (handlers \ {h}) \cup {g}
      /\ UNCHANGED <<logVars, client, others>>
  BY DEF Subscribe
<1> HIDE DEF s, i, old
<1>4. /\ chans \in Channels /\ chans[i].open /\ Len(chans[i].bufs) > 0
      /\ Len(old[i].bufs) <= Len(chans[i].bufs) /\ \A j \in 1..MaxLog \ {i} : chans[j] = old[j]
      /\ \A n \in DOMAIN chans[i].bufs :
            chans[i].bufs[n] = <<>> \/ (n \in DOMAIN old[i].bufs /\ chans[i].bufs[n] = old[i].bufs[n])
  BY <1>1, <1>2, GetNotifyChannel
<1> HIDE DEF chans
<1>5. chans[i].bufs \in Seq(Seq(Reply)) /\ Len(chans[i].bufs) \in Nat
  BY <1>1, <1>4, ChannelType
<1>6. g \in Handler /\ g.pc = "wait" /\ g.server = s /\ g.index = i /\ g.chan = Len(chans[i].bufs)
  BY Zenon, <1>1, <1>5 DEF Handler, s, i
<1> HIDE DEF g
<1>7. CallTypeOK'
  BY <1>3, <1>6 DEF KVInv, TypeOK, CallTypeOK
<1>8. /\ server'[s].notifyChans = chans
      /\ \A p \in Server \ {s} : server'[p].notifyChans = server[p].notifyChans
  BY <1>1, <1>3 DEF KVInv, TypeOK, ServerTypeOK, IsServer
<1>9. WaitInv'
  <2>1. SUFFICES ASSUME NEW x \in handlers' \ {g}, x.pc \notin {"arrived", "start"}
                 PROVE  /\ x.index \in 1..MaxLog
                        /\ x.pc = "wait" => x.chan \in DOMAIN server'[x.server].notifyChans[x.index].bufs
    <3>1. Len(chans[i].bufs) \in DOMAIN chans[i].bufs
      BY <1>4, <1>5
    <3>2. g.index \in 1..MaxLog /\ g.chan \in DOMAIN server'[g.server].notifyChans[g.index].bufs
      BY Zenon, <1>1, <1>6, <1>8, <3>1
    <3>3. QED
      BY Zenon, <3>2 DEF WaitInv
  <2>2. x \in handlers /\ x.index \in 1..MaxLog /\ x.server \in Server
        /\ (x.pc = "wait" => x.chan \in DOMAIN server[x.server].notifyChans[x.index].bufs)
    BY Zenon, <1>3, <2>1 DEF KVInv, TypeOK, CallTypeOK, WaitInv, Handler
  <2>3. CASE x.server = s /\ x.index = i
    <3>1. DOMAIN old[i].bufs \subseteq DOMAIN chans[i].bufs
      <4>1. old[i].bufs \in Seq(Seq(Reply)) /\ Len(old[i].bufs) \in Nat
        BY <1>1, <1>2, ChannelType
      <4>2. DOMAIN old[i].bufs = 1..Len(old[i].bufs) /\ DOMAIN chans[i].bufs = 1..Len(chans[i].bufs)
        BY <1>5, <4>1
      <4>3. QED
        BY SMTT(60), <1>4, <1>5, <4>1, <4>2
    <3>2. QED
      BY <1>8, <2>2, <2>3, <3>1 DEF old
  <2>4. CASE ~(x.server = s /\ x.index = i)
    BY ZenonT(60), <1>4, <1>8, <2>2, <2>4 DEF old
  <2>5. QED
    BY Zenon, <2>2, <2>3, <2>4
<1>10. chans[i].bufs # <<>>
  BY <1>4, <1>5
<1>11. QED
  BY ZenonT(60), <1>1, <1>3, <1>4, <1>7, <1>9, <1>10, ChannelStep DEF old

\* The channels of one server change, and every one in use stays.
LEMMA WaitChannels ==
    ASSUME KVInv, NEW s \in Server, NEW chans \in Channels,
           server' = [server EXCEPT ![s].notifyChans = chans],
           \A j \in 1..MaxLog : DOMAIN chans[j].bufs = DOMAIN server[s].notifyChans[j].bufs,
           \A g \in handlers' : \/ g \in handlers \/ g.pc = "arrived"
                                \/ g.pc = "remove" /\ g.index \in 1..MaxLog
    PROVE  WaitInv'
<1>1. /\ server'[s].notifyChans = chans
      /\ \A p \in Server \ {s} : server'[p].notifyChans = server[p].notifyChans
  BY DEF KVInv, TypeOK, ServerTypeOK, IsServer
<1>2. \A p \in Server, j \in 1..MaxLog :
        DOMAIN server'[p].notifyChans[j].bufs = DOMAIN server[p].notifyChans[j].bufs
  BY <1>1
<1>3. \A g \in handlers : g.server \in Server
  BY DEF KVInv, TypeOK, CallTypeOK, Handler
<1>4. QED
  BY <1>2, <1>3 DEF KVInv, WaitInv

LEMMA UnsubscribeInvStep ==
    ASSUME KVInv, NEW h \in handlers, Unsubscribe(h)
    PROVE  KVInv'
<1> DEFINE s == h.server
           i == h.index
           old == server[s].notifyChans
           chans == removeNotifyChannel(old, i)
<1>1. s \in Server /\ i \in 1..MaxLog
  BY DEF Unsubscribe, KVInv, TypeOK, CallTypeOK, WaitInv, Handler
<1>2. old \in Channels
  BY <1>1, ServerType DEF KVInv, TypeOK
<1>3. /\ server' = [server EXCEPT ![s].notifyChans = chans]
      /\ handlers' = handlers \ {h}
      /\ UNCHANGED <<logVars, client, others>>
  BY DEF Unsubscribe
<1> HIDE DEF s, i, old
<1>4. /\ chans \in Channels /\ ~chans[i].open /\ chans[i].bufs = old[i].bufs
      /\ \A j \in 1..MaxLog \ {i} : chans[j] = old[j]
  BY <1>1, <1>2, RemoveChannel
<1> HIDE DEF chans
<1>5. CallTypeOK'
  BY <1>3 DEF KVInv, TypeOK, CallTypeOK
<1>6. \A j \in 1..MaxLog : DOMAIN chans[j].bufs = DOMAIN old[j].bufs
  BY <1>4
<1>7. WaitInv'
  BY Zenon, <1>1, <1>3, <1>4, <1>6, WaitChannels DEF old
<1>8. \A n \in DOMAIN chans[i].bufs :
        chans[i].bufs[n] = <<>> \/ (n \in DOMAIN old[i].bufs /\ chans[i].bufs[n] = old[i].bufs[n])
  BY <1>4
<1>9. chans[i].open => chans[i].bufs # <<>>
  BY <1>4
<1>10. QED
  BY Zenon, <1>1, <1>3, <1>4, <1>5, <1>7, <1>8, <1>9, ChannelStep DEF old

LEMMA ReceiveInvStep ==
    ASSUME KVInv, NEW h \in handlers, Receive(h)
    PROVE  KVInv'
<1> DEFINE s == h.server
           i == h.index
           k == h.chan
           old == server[s].notifyChans
           buf == old[i].bufs[k]
           chans == [old EXCEPT ![i].bufs[k] = <<>>]
           g == [h EXCEPT !.pc = "remove"]
<1>1. h \in Handler /\ s \in Server /\ i \in 1..MaxLog /\ k \in DOMAIN old[i].bufs
  BY Zenon DEF Receive, KVInv, TypeOK, CallTypeOK, WaitInv, Handler
<1>2. old \in Channels /\ (old[i].open => old[i].bufs # <<>>)
  BY Zenon, <1>1, ServerType DEF KVInv, TypeOK, ChannelInv
<1>3. /\ server' = [server EXCEPT ![s].notifyChans = chans]
      /\ Answer(h, Head(buf), Finished(h)) /\ buf # <<>>
      /\ UNCHANGED <<logVars, others>>
  BY Zenon DEF Receive
<1>4. Finished(h) = (handlers \ {h}) \cup {g}
  BY DEF Finished
<1>5. g \in Handler /\ g.pc = "remove" /\ g.index = i
  BY <1>1 DEF Handler
<1> HIDE DEF s, i, k, old, g
<1>6. Head(buf) \in Reply
  BY <1>1, <1>2, <1>3, ChannelType
<1> HIDE DEF buf
<1>7. /\ chans \in Channels /\ chans[i].open = old[i].open /\ Len(chans[i].bufs) = Len(old[i].bufs)
      /\ \A n \in DOMAIN chans[i].bufs : chans[i].bufs[n] = <<>> \/ chans[i].bufs[n] = old[i].bufs[n]
      /\ \A j \in 1..MaxLog \ {i} : chans[j] = old[j]
  BY <1>1, <1>2, TakeReply
<1> HIDE DEF chans
<1>8. DOMAIN chans[i].bufs = DOMAIN old[i].bufs
  BY <1>1, <1>2, <1>7, ChannelType
<1>9. CallTypeOK' /\ \A x \in handlers' : x \in Finished(h) \/ x.pc = "arrived"
  <2>1. Finished(h) \subseteq Handler /\ CallTypeOK
    BY <1>4, <1>5 DEF KVInv, TypeOK, CallTypeOK
  <2>2. QED
    BY <1>1, <1>3, <1>6, <2>1, AnswerType
<1>10. \A j \in 1..MaxLog : DOMAIN chans[j].bufs = DOMAIN old[j].bufs
  BY <1>7, <1>8
<1>11. WaitInv'
  <2>1. \A x \in handlers' : x \in handlers \/ x.pc = "arrived" \/ (x.pc = "remove" /\ x.index \in 1..MaxLog)
    BY <1>1, <1>4, <1>5, <1>9
  <2>2. QED
    BY Zenon, <1>1, <1>3, <1>7, <1>10, <2>1, WaitChannels DEF old
<1>12. chans[i].open => chans[i].bufs # <<>>
  BY <1>1, <1>2, <1>7, <1>8
<1>13. \A n \in DOMAIN chans[i].bufs :
        chans[i].bufs[n] = <<>> \/ (n \in DOMAIN old[i].bufs /\ chans[i].bufs[n] = old[i].bufs[n])
  BY <1>7, <1>8
<1>14. QED
  BY ZenonT(60), <1>1, <1>3, <1>7, <1>9, <1>11, <1>12, <1>13, ChannelStep DEF old

-----------------------------------------------------------------------------
(* Steps of the log: what was delivered stays, and so does the history. *)

LEMMA HistoryStep ==
    ASSUME KVInv, UNCHANGED server, LogTypeOK', StatesTypeOK',
           Len(committed) <= Len(committed'), \A i \in DOMAIN committed : committed'[i] = committed[i],
           Len(states) <= Len(states'), \A n \in DOMAIN states : states'[n] = states[n],
           \A s \in Server : Deliverable(s, server[s].delivered)'
    PROVE  ServerTypeOK' /\ ServerInv' /\ ChannelInv'
<1>0. states \in Seq({states[n] : n \in DOMAIN states}) /\ committed \in Seq(Entry)
  BY DEF KVInv, TypeOK, StatesTypeOK, LogTypeOK
<1>1. Len(states) = Len(committed) + 1 /\ Len(committed) \in Nat /\ DOMAIN committed = 1..Len(committed)
      /\ DOMAIN states = 1..Len(states)
  BY <1>0 DEF KVInv, StatesInv
<1>2. ServerTypeOK'
  BY DEF KVInv, TypeOK, ServerTypeOK
<1>3. \A s \in Server : server[s].delivered \in Nat /\ server[s].snapshot.index \in Nat
  BY ServerType DEF KVInv, TypeOK
<1>4. \A s \in Server : server[s].delivered <= Len(committed) /\ server[s].snapshot.index <= server[s].delivered
  BY Zenon DEF KVInv, ServerInv, Deliverable
<1>5. ServerInv'
  <2>1. \A s \in Server : /\ server[s].delivered + 1 \in DOMAIN states
                          /\ server[s].snapshot.index + 1 \in DOMAIN states
    BY SMTT(60), <1>1, <1>3, <1>4
  <2>2. QED
    BY SMTT(60), <2>1 DEF KVInv, ServerInv
<1>6. ChannelInv'
  <2>1. \A i \in DOMAIN committed : replyAt(i)' = replyAt(i)
    BY <1>1 DEF replyAt
  <2>2. \A s \in Server, i \in 1..MaxLog : i <= server[s].delivered => i \in DOMAIN committed
    BY <1>1, <1>3, <1>4
  <2>3. QED
    BY ZenonT(60), <2>1, <2>2 DEF KVInv, ChannelInv
<1>7. QED
  BY <1>2, <1>5, <1>6

LEMMA FollowStep ==
    ASSUME KVInv, NEW s \in Server, NEW l \in Seq(Entry), Len(l) <= MaxLog, Follow(s, l),
           \A i \in DOMAIN l : Known(l[i].Term), \A q \in leaders \ {s} : Owns(q, l),
           currentTerm' \in [Server -> Nat], \A p \in Server : currentTerm[p] <= currentTerm'[p],
           \A p \in Server \ {s} : currentTerm'[p] = currentTerm[p], restarts' \in Nat
    PROVE  /\ LogTypeOK' /\ TermInv'
           /\ \A p \in Server, i \in Nat : Deliverable(p, i) => Deliverable(p, i)'
<1>1. LogTypeOK /\ leaders' = leaders \ {s} /\ log' = [log EXCEPT ![s] = l] /\ committed' = committed
  BY DEF KVInv, TypeOK, Follow
<1>2. log'[s] = l /\ \A p \in Server \ {s} : log'[p] = log[p]
  BY <1>1 DEF LogTypeOK
<1>3. LogTypeOK'
  <2>1. log' \in [Server -> Seq(Entry)]
    BY <1>1 DEF LogTypeOK
  <2>2. QED
    BY <1>1, <1>2, <2>1 DEF LogTypeOK
<1>4. \A t \in Nat : Known(t) => Known(t)'
  BY <1>1 DEF Known, LogTypeOK
<1>5. TermInv'
  <2>1. \A i \in DOMAIN committed : committed[i].Term \in Nat
    BY <1>1, EntryType DEF LogTypeOK
  <2>2. \A p \in Server : \A i \in DOMAIN log[p] : log[p][i].Term \in Nat
    BY <1>1, EntryType DEF LogTypeOK
  <2>3. \A i \in DOMAIN l : l[i].Term \in Nat
    BY EntryType
  <2>4. \A q \in leaders' : q \in leaders /\ q # s /\ currentTerm'[q] = currentTerm[q] /\ log'[q] = log[q]
    BY <1>1, <1>2 DEF LogTypeOK
  <2>5. \A q \in leaders' : Owns(q, committed)' /\ \A p \in Server : Owns(q, log[p])'
    BY <1>1, <1>2, <2>4 DEF KVInv, TermInv, Owns
  <2>6. \A i \in DOMAIN committed : Known(committed[i].Term)'
    BY <1>1, <1>4, <2>1 DEF KVInv, TermInv
  <2>7. \A p \in Server : \A i \in DOMAIN log'[p] : Known(log[p][i].Term)'
    BY <1>2, <1>4, <2>2, <2>3 DEF KVInv, TermInv
  <2>8. \A q, p \in leaders' : currentTerm'[q] = currentTerm'[p] => q = p
    BY <2>4 DEF KVInv, TermInv
  <2>9. QED
    BY <1>1, <2>5, <2>6, <2>7, <2>8 DEF TermInv
<1>6. ASSUME NEW p \in Server, NEW i \in Nat, Deliverable(p, i)
      PROVE  Deliverable(p, i)'
  <2>1. i <= Len(committed) /\ i <= Len(log[p]) /\ \A k \in 1..i : committed[k] = log[p][k]
    BY <1>1, <1>6, DeliverableDef
  <2>2. i <= Len(committed') /\ i <= Len(log'[p]) /\ \A k \in 1..i : committed'[k] = log'[p][k]
    <3>1. CASE p = s
      <4>1. i <= Len(l) /\ \A k \in 1..i : l[k] = committed[k]
        BY <1>1, <1>6, <3>1, FollowKeeps DEF Follow
      <4>2. QED
        BY <1>1, <1>2, <2>1, <3>1, <4>1
    <3>2. CASE p # s
      BY <1>1, <1>2, <2>1, <3>2
    <3>3. QED
      BY <3>1, <3>2
  <2>3. QED
    BY <1>3, <2>2, DeliverableNext
<1>7. QED
  BY <1>3, <1>5, <1>6

LEMMA ReplicateInvStep ==
    ASSUME KVInv, NEW s \in Server, NEW p \in Server, Replicate(s, p)
    PROVE  KVInv'
<1>1. /\ p \in leaders /\ currentTerm[p] >= currentTerm[s] /\ Follow(s, log[p]) /\ committed' = committed
      /\ currentTerm' = [currentTerm EXCEPT ![s] = currentTerm[p]]
      /\ UNCHANGED <<server, handlers, client, restarts, states>>
  BY DEF Replicate, Follow
<1>2. LogTypeOK /\ StatesTypeOK /\ CallTypeOK /\ WaitInv /\ TermInv /\ StatesInv
  BY DEF KVInv, TypeOK
<1>3. log[p] \in Seq(Entry) /\ Len(log[p]) <= MaxLog /\ restarts' \in Nat
  BY <1>1, <1>2 DEF LogTypeOK
<1>4. /\ currentTerm' \in [Server -> Nat] /\ \A q \in Server : currentTerm[q] <= currentTerm'[q]
      /\ \A q \in Server \ {s} : currentTerm'[q] = currentTerm[q]
  BY <1>1, <1>2 DEF LogTypeOK
<1>5. (\A i \in DOMAIN log[p] : Known(log[p][i].Term)) /\ \A q \in leaders \ {s} : Owns(q, log[p])
  BY <1>2 DEF TermInv
<1>6. /\ LogTypeOK' /\ TermInv'
      /\ \A q \in Server, i \in Nat : Deliverable(q, i) => Deliverable(q, i)'
  BY Zenon, <1>1, <1>3, <1>4, <1>5, FollowStep
<1>7. StatesTypeOK' /\ CallTypeOK' /\ WaitInv' /\ StatesInv'
  BY Zenon, <1>1, <1>2, StatesFrame, CallFrame, WaitFrame
<1>8. \A q \in Server : Deliverable(q, server[q].delivered)'
  <2>1. \A q \in Server : server[q].delivered \in Nat /\ Deliverable(q, server[q].delivered)
    BY Zenon, ServerType DEF KVInv, TypeOK, ServerInv
  <2>2. \A q \in Server : server'[q].delivered = server[q].delivered
    BY <1>1
  <2>3. QED
    BY <1>6, <2>1, <2>2
<1>9. ServerTypeOK' /\ ServerInv' /\ ChannelInv'
  <2>1. Len(committed) \in Nat /\ Len(states) \in Nat
    BY <1>2 DEF LogTypeOK, StatesTypeOK
  <2>2. QED
    BY <1>1, <1>6, <1>7, <1>8, <2>1, HistoryStep
<1>10. QED
  BY <1>6, <1>7, <1>9 DEF KVInv, TypeOK

LEMMA BecomeLeaderInvStep ==
    ASSUME KVInv, NEW s \in Server, BecomeLeader(s)
    PROVE  KVInv'
<1>1. PICK new \in 1..MaxTerm :
        /\ \A p \in Server : currentTerm[p] < new
        /\ currentTerm' = [currentTerm EXCEPT ![s] = new]
        /\ s \notin leaders /\ leaders' = leaders \cup {s}
        /\ UNCHANGED <<log, committed, server, handlers, client, restarts, states>>
  BY ZenonT(60) DEF BecomeLeader, Lead
<1>2. LogTypeOK /\ StatesTypeOK /\ CallTypeOK /\ WaitInv /\ TermInv /\ StatesInv
  BY DEF KVInv, TypeOK
<1>3. new \in Nat /\ \A p \in Server : currentTerm[p] < new
  BY <1>1, KVAssumption
<1>4. /\ currentTerm' \in [Server -> Nat] /\ currentTerm'[s] = new
      /\ \A q \in Server \ {s} : currentTerm'[q] = currentTerm[q]
      /\ \A q \in Server : currentTerm[q] <= currentTerm'[q]
  BY <1>1, <1>2, <1>3 DEF LogTypeOK
<1>5. LogTypeOK'
  BY <1>1, <1>2, <1>4 DEF LogTypeOK
<1>6. StatesTypeOK' /\ CallTypeOK' /\ WaitInv' /\ StatesInv'
  BY Zenon, <1>1, <1>2, StatesFrame, CallFrame, WaitFrame
<1>7. \A t \in Nat : Known(t) => Known(t)' /\ t < new
  BY <1>2, <1>3, <1>4 DEF Known, LogTypeOK
<1>8. TermInv'
  <2>1. \A i \in DOMAIN committed : committed[i].Term \in Nat
    BY <1>2, EntryType DEF LogTypeOK
  <2>2. \A p \in Server : \A i \in DOMAIN log[p] : log[p][i].Term \in Nat
    BY <1>2, EntryType DEF LogTypeOK
  <2>3. Owns(s, committed)' /\ \A p \in Server : Owns(s, log[p])'
    BY <1>1, <1>2, <1>3, <1>4, <1>7, <2>1, <2>2 DEF Owns, TermInv
  <2>4. \A q \in leaders : q \in Server /\ q # s
    BY <1>1, <1>2 DEF LogTypeOK
  <2>5. \A q \in leaders : Owns(q, committed)' /\ \A p \in Server : Owns(q, log[p])'
    BY <1>1, <1>2, <1>4, <2>4 DEF Owns, TermInv
  <2>6. \A i \in DOMAIN committed : Known(committed[i].Term)'
    BY <1>1, <1>2, <1>7, <2>1 DEF TermInv
  <2>7. \A p \in Server : \A i \in DOMAIN log[p] : Known(log[p][i].Term)'
    BY <1>1, <1>2, <1>7, <2>2 DEF TermInv
  <2>8. \A q, p \in leaders' : currentTerm'[q] = currentTerm'[p] => q = p
    BY <1>1, <1>2, <1>3, <1>4, <2>4 DEF TermInv, LogTypeOK
  <2>9. QED
    BY <1>1, <2>3, <2>5, <2>6, <2>7, <2>8 DEF TermInv
<1>9. ServerTypeOK' /\ ServerInv' /\ ChannelInv'
  BY Zenon, <1>1, ServerFrame DEF KVInv, TypeOK
<1>10. QED
  BY <1>5, <1>6, <1>8, <1>9 DEF KVInv, TypeOK

LEMMA CommitNextInvStep ==
    ASSUME KVInv, NEW s \in Server, CommitNext(s)
    PROVE  KVInv'
<1> DEFINE n == Len(committed)
           e == log[s][n + 1]
           st == stateAfter(states[n + 1], e.Command)
<1>1. LogTypeOK /\ StatesTypeOK /\ CallTypeOK /\ WaitInv /\ TermInv /\ StatesInv
  BY DEF KVInv, TypeOK
<1>2. committed \in Seq(Entry) /\ log[s] \in Seq(Entry) /\ n \in Nat /\ n + 1 \in DOMAIN log[s]
  BY <1>1 DEF LogTypeOK, CommitNext
<1>3. /\ committed' = Append(committed, e) /\ s \in leaders
      /\ UNCHANGED <<log, leaders, server, handlers, client, currentTerm, restarts>>
  BY DEF CommitNext, Commit
<1>4. e \in Entry /\ e.Term \in Nat /\ e.Command \in Op
  BY <1>2, EntryType
<1>5. Len(states) = n + 1 /\ DOMAIN states = 1..(n + 1)
      /\ states \in Seq({states[k] : k \in DOMAIN states})
  BY <1>1 DEF StatesInv, StatesTypeOK
<1>6. states' = Append(states, st)
  <2>1. Latest(committed') = e
    BY <1>2, <1>3 DEF Latest
  <2>2. Latest(states) = states[n + 1]
    BY <1>5 DEF Latest
  <2>3. QED
    BY <2>1, <2>2 DEF CommitNext
<1>7. IsState(st)
  <2>1. IsState(states[n + 1])
    BY <1>1, <1>2, <1>5 DEF StatesTypeOK
  <2>2. QED
    BY ZenonT(60), <1>4, <2>1, ApplyType DEF IsState, stateAfter
<1> HIDE DEF e
<1>8. /\ committed' \in Seq(Entry) /\ Len(committed') = n + 1 /\ DOMAIN committed' = 1..(n + 1)
      /\ committed'[n + 1] = e /\ \A i \in 1..n : committed'[i] = committed[i]
  BY <1>2, <1>3, <1>4
<1>9. /\ Len(states') = n + 2 /\ DOMAIN states' = 1..(n + 2)
      /\ states'[n + 2] = st /\ \A i \in 1..(n + 1) : states'[i] = states[i]
  BY <1>2, <1>5, <1>6
<1>10. StatesTypeOK'
  <2>1. \A k \in DOMAIN states' : IsState(states'[k])
    BY <1>1, <1>2, <1>5, <1>7, <1>9 DEF StatesTypeOK
  <2>2. states' \in Seq({states'[k] : k \in DOMAIN states'})
    BY SMTT(60), <1>2, <1>9, <1>5, <1>6
  <2>3. QED
    BY <2>1, <2>2 DEF StatesTypeOK
<1>11. LogTypeOK' /\ CallTypeOK' /\ WaitInv'
  <2>1. LogTypeOK'
    BY Zenon, <1>1, <1>3, <1>8 DEF LogTypeOK
  <2>2. QED
    BY Zenon, <1>1, <1>3, <2>1, CallFrame, WaitFrame
<1>12. TermInv'
  <2>1. \A q \in leaders : Owns(q, committed)'
    <3>1. \A q \in leaders : Owns(q, committed) /\ Owns(q, log[s])
      BY <1>1 DEF TermInv
    <3>2. SUFFICES ASSUME NEW q \in leaders, NEW i \in DOMAIN committed', committed'[i].Term = currentTerm[q]
                   PROVE  i \in DOMAIN log[q] /\ log[q][i] = committed'[i]
      BY <1>3 DEF Owns
    <3>3. CASE i = n + 1
      BY <1>2, <1>8, <3>1, <3>2, <3>3 DEF Owns, e
    <3>4. CASE i # n + 1
      <4>1. i \in 1..n /\ i \in DOMAIN committed
        BY <1>2, <1>8, <3>4
      <4>2. QED
        BY <1>8, <3>1, <3>2, <4>1 DEF Owns
    <3>5. QED
      BY <3>3, <3>4
  <2>2. \A i \in DOMAIN committed' : Known(committed'[i].Term)
    <3>1. Known(e.Term) /\ \A i \in DOMAIN committed : Known(committed[i].Term)
      BY <1>1, <1>2 DEF TermInv, e
    <3>2. \A i \in DOMAIN committed' : i = n + 1 \/ (i \in 1..n /\ i \in DOMAIN committed)
      BY <1>2, <1>8
    <3>3. QED
      BY <1>8, <3>1, <3>2
  <2>3. QED
    BY <1>1, <1>3, <2>1, <2>2 DEF TermInv, Known, Owns
<1>13. StatesInv'
  <2>1. Len(states') = Len(committed') + 1 /\ states'[1] = [KV |-> <<>>, dup |-> <<>>]
    BY <1>1, <1>2, <1>8, <1>9 DEF StatesInv
  <2>2. \A k \in DOMAIN committed' : states'[k + 1] = stateAfter(states'[k], committed'[k].Command)
    <3>1. TAKE k \in DOMAIN committed'
    <3>2. CASE k = n + 1
      BY <1>2, <1>8, <1>9, <3>2
    <3>3. CASE k # n + 1
      <4>1. k \in 1..n /\ k \in DOMAIN committed /\ k \in 1..(n + 1) /\ k + 1 \in 1..(n + 1)
        BY <1>2, <1>8, <3>3
      <4>2. QED
        BY <1>1, <1>8, <1>9, <4>1 DEF StatesInv
    <3>4. QED
      BY <3>2, <3>3
  <2> DEFINE done(c) == IF c \in DOMAIN st.dup THEN st.dup[c] + 1 ELSE 0
  <2>3. \A c \in Client : done(c) \in Nat /\ doneAt(n + 1, c) <= done(c)
    <3>1. TAKE c \in Client
    <3>2. IsTable(states[n + 1].dup) /\ IsTable(st.dup)
      BY <1>1, <1>2, <1>5, <1>7 DEF StatesTypeOK, IsState
    <3>3. st.dup = apply(states[n + 1].KV, states[n + 1].dup, e.Command).dup
      BY DEF stateAfter
    <3> HIDE DEF st
    <3>4. c \in DOMAIN st.dup => st.dup[c] \in Nat
      BY <3>2 DEF IsTable
    <3>5. CASE c \in DOMAIN states[n + 1].dup
      <4>1. c \in DOMAIN st.dup /\ states[n + 1].dup[c] <= st.dup[c]
        BY <1>4, <3>2, <3>3, <3>5, ApplyTable
      <4>2. st.dup[c] \in Nat /\ states[n + 1].dup[c] \in Nat
        BY <3>2, <3>5, <4>1 DEF IsTable
      <4>3. QED
        BY <3>5, <4>1, <4>2 DEF doneAt
    <3>6. CASE c \notin DOMAIN states[n + 1].dup
      BY <3>4, <3>6 DEF doneAt
    <3>7. QED
      BY <3>5, <3>6
  <2>4. ASSUME NEW k \in DOMAIN states', NEW m \in DOMAIN states', m <= k, NEW c \in Client
        PROVE  doneAt(m, c)' <= doneAt(k, c)'
    <3>1. \A i \in 1..(n + 1) : doneAt(i, c)' = doneAt(i, c) /\ doneAt(i, c) \in Nat
      BY <1>1, <1>5, <1>9 DEF doneAt, StatesTypeOK, IsState, IsTable
    <3>2. \A i \in Nat : i = n + 2 => doneAt(i, c)' = done(c)
      BY <1>9 DEF doneAt
    <3> HIDE DEF done
    <3>3. \A i, j \in 1..(n + 1) : i <= j => doneAt(i, c) <= doneAt(j, c)
      BY <1>1, <1>5 DEF StatesInv
    <3>4. CASE k = n + 2
      <4>0. k \in Nat /\ doneAt(k, c)' = done(c) /\ done(c) \in Nat
        BY <1>2, <2>3, <3>2, <3>4
      <4>1. CASE m = n + 2
        BY <3>4, <4>0, <4>1
      <4>2. CASE m # n + 2
        <5>1. m \in 1..(n + 1) /\ n + 1 \in 1..(n + 1) /\ m <= n + 1
          BY <1>2, <1>9, <4>2
        <5>2. doneAt(m, c)' = doneAt(m, c) /\ doneAt(m, c) <= doneAt(n + 1, c)
          BY <3>1, <3>3, <5>1
        <5>3. doneAt(n + 1, c) <= done(c) /\ doneAt(n + 1, c) \in Nat /\ doneAt(m, c) \in Nat
          BY <2>3, <3>1, <5>1
        <5>4. QED
          BY <4>0, <5>2, <5>3
      <4>3. QED
        BY <4>1, <4>2
    <3>5. CASE k # n + 2
      <4>1. m \in 1..(n + 1) /\ k \in 1..(n + 1)
        BY <1>2, <1>9, <2>4, <3>5
      <4>2. QED
        BY <2>4, <3>1, <3>3, <4>1
    <3>6. QED
      BY <3>4, <3>5
  <2>5. QED
    BY <2>1, <2>2, <2>4 DEF StatesInv
<1>14. ServerTypeOK' /\ ServerInv' /\ ChannelInv'
  <2>1. \A q \in Server : Deliverable(q, server[q].delivered)'
    <3>1. \A q \in Server : server[q].delivered \in Nat /\ Deliverable(q, server[q].delivered)
      BY ZenonT(60), ServerType DEF KVInv, TypeOK, ServerInv
    <3>2. TAKE q \in Server
    <3> DEFINE i == server[q].delivered
    <3>3. i \in Nat /\ i <= Len(committed) /\ i <= Len(log[q]) /\ \A k \in 1..i : committed[k] = log[q][k]
      BY SMTT(60), <1>1, <3>1, DeliverableDef
    <3>4. server'[q].delivered = i
      BY <1>3
    <3> HIDE DEF i
    <3>5. i <= Len(committed') /\ i <= Len(log'[q]) /\ \A k \in 1..i : committed'[k] = log'[q][k]
      BY <1>2, <1>3, <1>8, <3>3
    <3>6. QED
      BY SMTT(60), <1>11, <3>3, <3>4, <3>5, DeliverableNext
  <2>2. DOMAIN committed = 1..n /\ n <= Len(committed') /\ Len(states) <= Len(states')
    BY <1>2, <1>5, <1>8, <1>9
  <2>3. QED
    BY <1>3, <1>5, <1>8, <1>9, <1>10, <1>11, <2>1, <2>2, HistoryStep
<1>15. QED
  BY <1>10, <1>11, <1>12, <1>13, <1>14 DEF KVInv, TypeOK

LEMMA StartInvStep ==
    ASSUME KVInv, NEW h \in handlers, Start(h)
    PROVE  KVInv'
<1> DEFINE s == h.server
           e == entry(h)
           g == [h EXCEPT !.pc = "channel", !.index = Len(log[s]) + 1]
<1>1. LogTypeOK /\ StatesTypeOK /\ CallTypeOK /\ WaitInv /\ TermInv /\ StatesInv
  BY DEF KVInv, TypeOK
<1>2. h \in Handler /\ s \in Server
  BY <1>1 DEF CallTypeOK, Handler
<1>3. CASE s \notin leaders
  <2>1. [Value |-> <<>>, Err |-> ErrWrongLeader] \in Reply /\ handlers \ {h} \subseteq Handler
    BY <1>1 DEF Reply, Values, CallTypeOK
  <2>2. QED
    BY <1>3, <2>1, AnswerStep DEF Start
<1>4. CASE s \in leaders
  <2>1. /\ Len(log[s]) < MaxLog /\ log' = [log EXCEPT ![s] = Append(@, e)]
        /\ handlers' = (handlers \ {h}) \cup {g}
        /\ UNCHANGED <<leaders, committed, client, server, currentTerm, restarts, states>>
    BY <1>4 DEF Start, AppendTo, others
  <2>2. log[s] \in Seq(Entry) /\ Len(log[s]) \in Nat /\ log \in [Server -> Seq(Entry)]
    BY <1>1, <1>2 DEF LogTypeOK
  <2>3. e \in Entry /\ e.Term = currentTerm[s]
    BY <1>1, <1>2 DEF entry, Entry, LogTypeOK, Handler
  <2> HIDE DEF e, s
  <2>4. /\ log' \in [Server -> Seq(Entry)] /\ Len(log'[s]) = Len(log[s]) + 1
        /\ DOMAIN log'[s] = 1..(Len(log[s]) + 1) /\ DOMAIN log[s] = 1..Len(log[s])
        /\ log'[s][Len(log[s]) + 1] = e /\ \A i \in 1..Len(log[s]) : log'[s][i] = log[s][i]
    BY <1>2, <2>1, <2>2, <2>3
  <2>5. \A p \in Server \ {s} : log'[p] = log[p]
    BY <1>2, <2>1, <2>2
  <2>6. LogTypeOK'
    <3>1. \A p \in Server : Len(log'[p]) <= MaxLog
      BY <1>1, <2>1, <2>2, <2>4, <2>5, KVAssumption DEF LogTypeOK
    <3>2. QED
      BY <1>1, <2>1, <2>4, <3>1 DEF LogTypeOK
  <2>7. g \in Handler /\ g.pc = "channel" /\ g.index = Len(log[s]) + 1 /\ g.index \in 1..MaxLog
    <3> DEFINE n == Len(log[s]) + 1
    <3>1. n \in 1..MaxLog /\ n \in Nat
      BY SMTT(60), <2>1, <2>2, KVAssumption
    <3>2. g = [h EXCEPT !.pc = "channel", !.index = n]
      BY DEF s
    <3> HIDE DEF n, g
    <3>3. g \in Handler /\ g.pc = "channel" /\ g.index = n
      BY Zenon, <1>2, <3>1, <3>2 DEF Handler
    <3>4. QED
      BY <3>1, <3>3 DEF n
  <2> HIDE DEF g
  <2>8. CallTypeOK'
    BY <1>1, <2>1, <2>7 DEF CallTypeOK
  <2>9. WaitInv'
    BY <1>1, <2>1, <2>7, WaitSame
  <2>10. TermInv'
    <3>1. SUFFICES ASSUME NEW q \in leaders, NEW p \in Server
                   PROVE  Owns(q, committed)' /\ Owns(q, log[p])'
      <4>1. Known(e.Term)
        BY <1>1, <1>2, <2>3 DEF Known, LogTypeOK
      <4>2. \A p \in Server : \A i \in DOMAIN log'[p] : Known(log'[p][i].Term)
        <5>1. TAKE p \in Server
        <5>2. CASE p = s
          <6>1. \A i \in DOMAIN log'[s] : i = Len(log[s]) + 1 \/ i \in 1..Len(log[s])
            BY <2>2, <2>4
          <6>2. QED
            BY Zenon, <1>1, <1>2, <2>4, <4>1, <5>2, <6>1 DEF TermInv
        <5>3. CASE p # s
          BY <1>1, <2>5, <5>3 DEF TermInv
        <5>4. QED
          BY <5>2, <5>3
      <4>3. \A x \in Server : \A i \in DOMAIN log'[x] : Known(log[x][i].Term)'
        BY Zenon, <2>1, <4>2 DEF Known
      <4>4. \A i \in DOMAIN committed' : Known(committed[i].Term)'
        BY <1>1, <2>1 DEF TermInv, Known
      <4>5. \A q, p \in leaders' : currentTerm'[q] = currentTerm'[p] => q = p
        BY <1>1, <2>1 DEF TermInv
      <4>6. QED
        BY <1>2, <2>1, <4>3, <4>4, <4>5 DEF TermInv
    <3>2. q \in Server /\ Owns(q, committed) /\ Owns(q, log[p]) /\ Owns(q, log[s])
      BY <1>1, <1>2 DEF TermInv, LogTypeOK
    <3>3. \A i \in DOMAIN log[q] : i \in DOMAIN log'[q] /\ log'[q][i] = log[q][i]
      <4>0. \A i \in DOMAIN log[s] : i \in DOMAIN log'[s] /\ log'[s][i] = log[s][i]
        BY <2>2, <2>4
      <4>1. CASE q = s
        BY <4>0, <4>1
      <4>2. CASE q # s
        BY <2>5, <3>2, <4>2
      <4>3. QED
        BY <4>1, <4>2
    <3>4. Owns(q, committed)'
      BY <2>1, <3>2, <3>3 DEF Owns
    <3>5. Owns(q, log[p])'
      <4>1. CASE p # s
        BY <2>1, <2>5, <3>2, <3>3, <4>1 DEF Owns
      <4>2. CASE p = s /\ q = s
        BY <2>1, <4>2 DEF Owns
      <4>3. CASE p = s /\ q # s
        <5>1. currentTerm[q] # currentTerm[s]
          BY <1>1, <1>4, <4>3 DEF TermInv, s
        <5>2. SUFFICES ASSUME NEW i \in DOMAIN log'[s], log'[s][i].Term = currentTerm[q]
                       PROVE  i \in DOMAIN log'[q] /\ log'[q][i] = log'[s][i]
          BY Zenon, <2>1, <4>3 DEF Owns
        <5>3. i \in 1..Len(log[s])
          BY <2>2, <2>3, <2>4, <5>1, <5>2
        <5>4. QED
          BY <2>4, <3>2, <3>3, <5>2, <5>3 DEF Owns
      <4>4. QED
        BY <4>1, <4>2, <4>3
    <3>6. QED
      BY <3>4, <3>5
  <2>11. StatesTypeOK' /\ StatesInv'
    BY ZenonT(60), <1>1, <2>1 DEF StatesTypeOK, StatesInv, doneAt
  <2>12. ServerTypeOK' /\ ServerInv' /\ ChannelInv'
    <3>1. \A q \in Server : Deliverable(q, server[q].delivered)'
      <4>1. TAKE q \in Server
      <4> DEFINE i == server[q].delivered
      <4>2. i \in Nat /\ Deliverable(q, i)
        BY Zenon, ServerType DEF KVInv, TypeOK, ServerInv
      <4>3. server'[q].delivered = i
        BY <2>1
      <4> HIDE DEF i
      <4>4. i <= Len(committed) /\ i <= Len(log[q]) /\ \A k \in 1..i : committed[k] = log[q][k]
        BY Zenon, <1>1, <4>2, DeliverableDef
      <4>5. i <= Len(log'[q]) /\ \A k \in 1..i : committed[k] = log'[q][k]
        <5>1. CASE q = s
          BY <2>2, <2>4, <4>2, <4>4, <5>1
        <5>2. CASE q # s
          BY <2>5, <4>4, <5>2
        <5>3. QED
          BY Zenon, <5>1, <5>2
      <4>6. QED
        BY <2>1, <2>6, <4>2, <4>3, <4>4, <4>5, DeliverableNext
    <3>2. Len(committed) \in Nat /\ Len(states) \in Nat
      BY <1>1 DEF LogTypeOK, StatesTypeOK
    <3>3. QED
      BY <2>1, <2>6, <2>11, <3>1, <3>2, HistoryStep
  <2>13. QED
    BY <2>6, <2>8, <2>9, <2>10, <2>11, <2>12 DEF KVInv, TypeOK
<1>5. QED
  BY <1>3, <1>4

-----------------------------------------------------------------------------
(* Steps that move a server along the history. *)

LEMMA PlaceStep ==
    ASSUME KVInv, LogTypeOK', TermInv', CallTypeOK', WaitInv', UNCHANGED <<committed, states>>,
           NEW s \in Server, NEW sv, IsServer(sv), server' = [server EXCEPT ![s] = sv],
           \A p \in Server, i \in Nat : Deliverable(p, i) => Deliverable(p, i)',
           \A i \in Nat : i = sv.delivered => Deliverable(s, i)',
           sv.lastApplied <= sv.delivered, sv.snapshot.index <= sv.delivered,
           [KV |-> sv.KV, dup |-> sv.dup] = states[sv.delivered + 1],
           [KV |-> sv.snapshot.KV, dup |-> sv.snapshot.dup] = states[sv.snapshot.index + 1],
           \A i \in 1..MaxLog :
              LET ch == sv.notifyChans[i] IN
              /\ ch.open => ch.bufs # <<>>
              /\ \A n \in DOMAIN ch.bufs :
                    ch.bufs[n] # <<>> => i <= sv.delivered /\ ch.bufs[n] = <<replyAt(i)>>
    PROVE  KVInv'
<1>1. StatesTypeOK' /\ StatesInv'
  BY DEF KVInv, TypeOK, StatesTypeOK, StatesInv, doneAt
<1>2. ServerTypeOK' /\ server'[s] = sv /\ \A p \in Server \ {s} : server'[p] = server[p]
  BY Zenon, ServerUpdate DEF KVInv, TypeOK
<1>3. sv.delivered \in Nat
  BY Zenon DEF IsServer
<1>4. \A p \in Server \ {s} : server[p].delivered \in Nat /\ Deliverable(p, server[p].delivered)
  BY Zenon, ServerType DEF KVInv, TypeOK, ServerInv
<1>5. \A p \in Server : Deliverable(p, server[p].delivered)'
  <2>1. TAKE p \in Server
  <2>2. PICK i \in Nat : i = server'[p].delivered
    BY Zenon, <1>2, <1>3, <1>4
  <2>3. Deliverable(p, i)'
    BY <1>2, <1>4, <2>2
  <2>4. QED
    BY Zenon, <2>2, <2>3
<1>6. ServerInv'
  <2>1. SUFFICES ASSUME NEW p \in Server
                 PROVE  /\ server'[p].lastApplied <= server'[p].delivered
                        /\ server'[p].snapshot.index <= server'[p].delivered
                        /\ [KV |-> server'[p].KV, dup |-> server'[p].dup] = states[server'[p].delivered + 1]
                        /\ [KV |-> server'[p].snapshot.KV, dup |-> server'[p].snapshot.dup]
                              = states[server'[p].snapshot.index + 1]
    BY ZenonT(60), <1>5 DEF ServerInv
  <2>2. CASE p = s
    BY Zenon, <1>2, <2>2
  <2>3. CASE p # s
    BY ZenonT(60), <1>2, <2>3 DEF KVInv, ServerInv
  <2>4. QED
    BY Zenon, <2>2, <2>3
<1>7. ChannelInv'
  <2>1. \A i \in 1..MaxLog : replyAt(i)' = replyAt(i)
    BY Zenon DEF replyAt
  <2> DEFINE Good(x, i) ==
                LET ch == x.notifyChans[i] IN
                /\ ch.open => ch.bufs # <<>>
                /\ \A n \in DOMAIN ch.bufs :
                      ch.bufs[n] # <<>> => i <= x.delivered /\ ch.bufs[n] = <<replyAt(i)>>
  <2>2. \A p \in Server, i \in 1..MaxLog : Good(server[p], i)
    BY Zenon DEF KVInv, ChannelInv
  <2>3. \A i \in 1..MaxLog : Good(sv, i)
    BY Zenon
  <2> HIDE DEF Good
  <2>4. \A p \in Server, i \in 1..MaxLog : Good(server'[p], i)
    BY Zenon, <1>2, <2>2, <2>3
  <2>5. QED
    BY ZenonT(60), <2>1, <2>4 DEF Good, ChannelInv
<1>8. QED
  BY Zenon, <1>1, <1>2, <1>6, <1>7 DEF KVInv, TypeOK

LEMMA RestartInvStep ==
    ASSUME KVInv, NEW s \in Server, Restart(s)
    PROVE  KVInv'
<1> DEFINE snapshot == server[s].snapshot
           sv == StartKVServer(snapshot)
<1>1. LogTypeOK /\ ServerTypeOK /\ CallTypeOK /\ WaitInv /\ TermInv /\ StatesInv /\ IsServer(server[s])
  BY DEF KVInv, TypeOK, ServerTypeOK
<1>2. /\ Follow(s, log[s]) /\ committed' = committed /\ restarts' = restarts + 1
      /\ server' = [server EXCEPT ![s] = sv]
      /\ handlers' = {h \in handlers : h.server # s}
      /\ UNCHANGED <<client, currentTerm, states>>
  BY DEF Restart, Follow
<1>3. /\ LogTypeOK' /\ TermInv'
      /\ \A q \in Server, i \in Nat : Deliverable(q, i) => Deliverable(q, i)'
  <2>1. log[s] \in Seq(Entry) /\ Len(log[s]) <= MaxLog /\ restarts' \in Nat
    BY <1>1, <1>2 DEF LogTypeOK
  <2>2. (\A i \in DOMAIN log[s] : Known(log[s][i].Term)) /\ \A q \in leaders \ {s} : Owns(q, log[s])
    BY <1>1 DEF TermInv
  <2>3. currentTerm' \in [Server -> Nat] /\ (\A p \in Server : currentTerm[p] <= currentTerm'[p])
        /\ \A p \in Server \ {s} : currentTerm'[p] = currentTerm[p]
    BY <1>1, <1>2 DEF LogTypeOK
  <2>4. QED
    BY Zenon, <1>2, <2>1, <2>2, <2>3, FollowStep
<1>4. /\ snapshot.index \in Nat /\ snapshot \in [index : Nat, KV : {snapshot.KV}, dup : {snapshot.dup}]
      /\ snapshot.index <= server[s].delivered /\ server[s].delivered \in Nat
      /\ Deliverable(s, server[s].delivered)
      /\ [KV |-> snapshot.KV, dup |-> snapshot.dup] = states[snapshot.index + 1]
  BY Zenon, <1>1 DEF KVInv, IsServer, ServerInv
<1> HIDE DEF snapshot
<1>5. NoChannels \in Channels /\ \A i \in 1..MaxLog : NoChannels[i] = [open |-> FALSE, bufs |-> <<>>]
  <2>1. [open |-> FALSE, bufs |-> <<>>] \in [open : BOOLEAN, bufs : Seq(Seq(Reply))]
    OBVIOUS
  <2>2. QED
    BY Zenon, <2>1 DEF NoChannels, Channels
<1>6. sv = [lastApplied |-> 0, KV |-> IF snapshot.index = 0 THEN <<>> ELSE snapshot.KV,
            dup |-> IF snapshot.index = 0 THEN <<>> ELSE snapshot.dup, notifyChans |-> NoChannels,
            delivered |-> snapshot.index, snapshot |-> snapshot]
  <2>1. CASE snapshot.index = 0
    BY <2>1 DEF StartKVServer, restoreFromSnapshot
  <2>2. CASE snapshot.index # 0
    BY Zenon, <2>2 DEF StartKVServer, restoreFromSnapshot
  <2>3. QED
    BY Zenon, <2>1, <2>2
<1> HIDE DEF sv
<1>7. /\ sv.lastApplied = 0 /\ sv.notifyChans = NoChannels /\ sv.delivered = snapshot.index
      /\ sv.snapshot = snapshot
  BY <1>6
<1>8. IsServer(sv)
  BY Zenon, <1>4, <1>5, <1>6, <1>7 DEF IsServer
<1>9. [KV |-> sv.KV, dup |-> sv.dup] = states[sv.delivered + 1]
  <2>1. CASE snapshot.index = 0
    <3>1. states[1] = [KV |-> <<>>, dup |-> <<>>]
      BY <1>1 DEF StatesInv
    <3>2. sv.KV = <<>> /\ sv.dup = <<>> /\ sv.delivered + 1 = 1
      BY <1>6, <1>7, <2>1
    <3>3. QED
      BY <3>1, <3>2
  <2>2. CASE snapshot.index # 0
    BY <1>4, <1>6, <1>7, <2>2
  <2>3. QED
    BY Zenon, <2>1, <2>2
<1>10. \A i \in Nat : i = sv.delivered => Deliverable(s, i)'
  <2>1. Deliverable(s, snapshot.index)
    <3>1. server[s].delivered <= Len(committed) /\ server[s].delivered <= Len(log[s])
          /\ \A k \in 1..server[s].delivered : committed[k] = log[s][k]
      BY Zenon, <1>1, <1>4, DeliverableDef
    <3>2. snapshot.index <= Len(committed) /\ snapshot.index <= Len(log[s])
          /\ \A k \in 1..snapshot.index : committed[k] = log[s][k]
      BY SMTT(60), <1>1, <1>4, <3>1 DEF LogTypeOK
    <3>3. QED
      BY Zenon, <1>1, <1>4, <3>2, DeliverableDef
  <2>2. QED
    BY <1>3, <1>7, <2>1
<1>11. CallTypeOK'
  BY Zenon, <1>1, <1>2 DEF CallTypeOK
<1>12. WaitInv'
  <2>1. \A h \in handlers' : h \in handlers /\ server'[h.server] = server[h.server]
    <3>1. \A h \in handlers : h.server \in Server
      BY <1>1 DEF CallTypeOK, Handler
    <3>2. QED
      BY Zenon, <1>1, <1>2, <3>1 DEF ServerTypeOK
  <2>2. QED
    BY Zenon, <1>1, <2>1 DEF WaitInv
<1>13. sv.lastApplied <= sv.delivered /\ sv.snapshot.index <= sv.delivered
       /\ [KV |-> sv.snapshot.KV, dup |-> sv.snapshot.dup] = states[sv.snapshot.index + 1]
  BY <1>4, <1>7
<1>14. \A i \in 1..MaxLog : ~sv.notifyChans[i].open /\ sv.notifyChans[i].bufs = <<>>
  BY <1>5, <1>7
<1>15. \A i \in 1..MaxLog : DOMAIN sv.notifyChans[i].bufs = {}
  BY <1>14
<1>16. QED
  BY Zenon, <1>2, <1>3, <1>8, <1>9, <1>10, <1>11, <1>12, <1>13, <1>14, <1>15, PlaceStep

LEMMA ApplySnapshotInvStep ==
    ASSUME KVInv, NEW s \in Server, NEW p \in Server, applySnapshot(s, p)
    PROVE  KVInv'
<1> DEFINE snapshot == server[p].snapshot
           k == snapshot.index
           prefix == SubSeq(committed, 1, k)
           l == IF Begins(prefix, log[s]) THEN log[s] ELSE prefix
           sv == [restoreFromSnapshot(server[s], snapshot) EXCEPT
                    !.lastApplied = k, !.delivered = k, !.snapshot = snapshot]
<1>1. LogTypeOK /\ ServerTypeOK /\ CallTypeOK /\ WaitInv /\ TermInv /\ StatesInv
      /\ IsServer(server[s]) /\ IsServer(server[p])
  BY DEF KVInv, TypeOK, ServerTypeOK
<1>2. /\ k > server[s].delivered /\ Follow(s, l) /\ committed' = committed
      /\ server' = [server EXCEPT ![s] = sv]
      /\ UNCHANGED <<handlers, client, currentTerm, restarts, states>>
  BY DEF applySnapshot, Follow, others
<1>3. /\ k \in Nat /\ snapshot \in [index : Nat, KV : {snapshot.KV}, dup : {snapshot.dup}]
      /\ k <= server[p].delivered /\ server[p].delivered \in Nat /\ server[s].delivered \in Nat
      /\ Deliverable(p, server[p].delivered)
      /\ [KV |-> snapshot.KV, dup |-> snapshot.dup] = states[k + 1]
  BY Zenon, <1>1 DEF KVInv, IsServer, ServerInv
<1> HIDE DEF snapshot, k
<1>4. committed \in Seq(Entry) /\ log[s] \in Seq(Entry) /\ log[p] \in Seq(Entry)
      /\ Len(log[s]) <= MaxLog /\ Len(log[p]) <= MaxLog
  BY <1>1 DEF LogTypeOK
<1>5. k <= Len(committed) /\ k <= MaxLog /\ k > 0
  <2>1. server[p].delivered <= Len(committed) /\ server[p].delivered <= Len(log[p])
    BY Zenon, <1>1, <1>3, DeliverableDef
  <2>2. QED
    BY SMTT(60), <1>2, <1>3, <1>4, <2>1, KVAssumption
<1>6. prefix \in Seq(Entry) /\ Len(prefix) = k /\ \A i \in 1..k : prefix[i] = committed[i]
  BY SMTT(60), <1>3, <1>4, <1>5, SubSeqFirst
<1> HIDE DEF prefix
<1>7. l \in Seq(Entry) /\ Len(l) <= MaxLog /\ k <= Len(l) /\ \A i \in 1..k : l[i] = committed[i]
  BY <1>4, <1>5, <1>6 DEF Begins
<1>8. (\A i \in DOMAIN l : Known(l[i].Term)) /\ \A q \in leaders \ {s} : Owns(q, l)
  <2>1. CASE l = log[s]
    BY Zenon, <1>1, <2>1 DEF TermInv
  <2>2. CASE l = prefix
    <3>1. \A i \in DOMAIN l : i \in DOMAIN committed /\ l[i] = committed[i]
      BY SMTT(60), <1>3, <1>4, <1>5, <1>6, <2>2
    <3> HIDE DEF l
    <3>2. QED
      BY <1>1, <3>1 DEF TermInv, Owns
  <2>3. QED
    BY Zenon, <2>1, <2>2
<1> HIDE DEF l
<1>9. /\ LogTypeOK' /\ TermInv'
      /\ \A q \in Server, i \in Nat : Deliverable(q, i) => Deliverable(q, i)'
  <2>1. currentTerm' \in [Server -> Nat] /\ (\A q \in Server : currentTerm[q] <= currentTerm'[q])
        /\ (\A q \in Server \ {s} : currentTerm'[q] = currentTerm[q]) /\ restarts' \in Nat
    BY <1>1, <1>2 DEF LogTypeOK
  <2>2. QED
    BY Zenon, <1>2, <1>7, <1>8, <2>1, FollowStep
<1>10. /\ sv.lastApplied = k /\ sv.delivered = k /\ sv.snapshot = snapshot
       /\ sv.KV = snapshot.KV /\ sv.dup = snapshot.dup /\ sv.notifyChans = server[s].notifyChans
       /\ IsServer(sv)
  <2>1. restoreFromSnapshot(server[s], snapshot) = [server[s] EXCEPT !.KV = snapshot.KV, !.dup = snapshot.dup]
    BY <1>3, <1>5 DEF restoreFromSnapshot, k
  <2>2. sv = [server[s] EXCEPT !.KV = snapshot.KV, !.dup = snapshot.dup, !.lastApplied = k,
                               !.delivered = k, !.snapshot = snapshot]
    BY Zenon, <1>1, <2>1 DEF IsServer
  <2> HIDE DEF sv
  <2>3. /\ sv.lastApplied = k /\ sv.delivered = k /\ sv.snapshot = snapshot
        /\ sv.KV = snapshot.KV /\ sv.dup = snapshot.dup /\ sv.notifyChans = server[s].notifyChans
    BY Zenon, <1>1, <2>2 DEF IsServer
  <2>4. IsServer(sv)
    BY Zenon, <1>1, <1>3, <2>2, <2>3 DEF IsServer
  <2>5. QED
    BY <2>3, <2>4
<1> HIDE DEF sv
<1>11. \A i \in Nat : i = sv.delivered => Deliverable(s, i)'
  <2>1. log'[s] = l
    BY <1>1, <1>2 DEF Follow, LogTypeOK
  <2>2. k <= Len(committed') /\ k <= Len(log'[s]) /\ \A i \in 1..k : committed'[i] = log'[s][i]
    BY <1>2, <1>5, <1>7, <2>1
  <2>3. QED
    BY <1>9, <1>10, <2>2, DeliverableNext
<1>12. CallTypeOK'
  BY <1>1, <1>2 DEF CallTypeOK
<1>13. WaitInv'
  <2>1. \A q \in Server : server'[q].notifyChans = server[q].notifyChans
    BY <1>1, <1>2, <1>10 DEF ServerTypeOK
  <2>2. \A h \in handlers : h.server \in Server
    BY <1>1 DEF CallTypeOK, Handler
  <2>3. QED
    BY Zenon, <1>1, <1>2, <2>1, <2>2 DEF WaitInv
<1>14. sv.lastApplied <= sv.delivered /\ sv.snapshot.index <= sv.delivered
       /\ [KV |-> sv.KV, dup |-> sv.dup] = states[sv.delivered + 1]
       /\ [KV |-> sv.snapshot.KV, dup |-> sv.snapshot.dup] = states[sv.snapshot.index + 1]
  BY <1>3, <1>10 DEF k
<1>15. ASSUME NEW i \in 1..MaxLog
       PROVE  LET ch == sv.notifyChans[i] IN
              /\ ch.open => ch.bufs # <<>>
              /\ \A n \in DOMAIN ch.bufs :
                    ch.bufs[n] # <<>> => i <= sv.delivered /\ ch.bufs[n] = <<replyAt(i)>>
  <2> DEFINE ch == server[s].notifyChans[i]
  <2>1. /\ ch.open => ch.bufs # <<>>
        /\ \A n \in DOMAIN ch.bufs :
              ch.bufs[n] # <<>> => i <= server[s].delivered /\ ch.bufs[n] = <<replyAt(i)>>
    BY Zenon DEF KVInv, ChannelInv
  <2>2. i <= server[s].delivered => i <= sv.delivered
    BY <1>2, <1>3, <1>10
  <2>3. sv.notifyChans[i] = ch
    BY Zenon, <1>10
  <2> HIDE DEF ch
  <2>4. QED
    BY <2>1, <2>2, <2>3
<1>16. QED
  BY Zenon, <1>2, <1>9, <1>10, <1>11, <1>12, <1>13, <1>14, <1>15, PlaceStep

LEMMA ApplyTaskInvStep ==
    ASSUME KVInv, NEW s \in Server, applyTask(s)
    PROVE  KVInv'
<1> DEFINE old == server[s]
           index == old.delivered + 1
           new == apply(old.KV, old.dup, log[s][index].Command)
           chans == IF s \in leaders THEN send(old.notifyChans, index, new.reply) ELSE old.notifyChans
           applied == [old EXCEPT !.delivered = index, !.lastApplied = index, !.KV = new.KV, !.dup = new.dup,
                                  !.notifyChans = chans]
<1>1. LogTypeOK /\ ServerTypeOK /\ StatesTypeOK /\ CallTypeOK /\ WaitInv /\ TermInv /\ StatesInv /\ IsServer(old)
  BY DEF KVInv, TypeOK, ServerTypeOK
<1>2. /\ old.delivered \in Nat /\ old.lastApplied <= old.delivered /\ old.lastApplied \in Nat
      /\ old.snapshot.index \in Nat /\ old.snapshot.index <= old.delivered /\ index \in Nat
      /\ [KV |-> old.KV, dup |-> old.dup] = states[index]
      /\ [KV |-> old.snapshot.KV, dup |-> old.snapshot.dup] = states[old.snapshot.index + 1]
  <2>1. old.delivered \in Nat /\ old.lastApplied \in Nat /\ old.snapshot.index \in Nat
    BY <1>1 DEF IsServer
  <2>2. /\ old.lastApplied <= old.delivered /\ old.snapshot.index <= old.delivered
        /\ [KV |-> old.KV, dup |-> old.dup] = states[old.delivered + 1]
        /\ [KV |-> old.snapshot.KV, dup |-> old.snapshot.dup] = states[old.snapshot.index + 1]
    BY Zenon DEF KVInv, ServerInv
  <2>3. index \in Nat
    BY <2>1
  <2>4. QED
    BY Zenon, <2>1, <2>2, <2>3
<1>3. /\ index > 0 /\ index <= Len(committed) /\ index <= Len(log[s])
      /\ index \in DOMAIN committed /\ index \in DOMAIN states /\ index \in 1..MaxLog
      /\ committed[index] = log[s][index] /\ committed[index].Command \in Op
  <2>1. committed \in Seq(Entry) /\ log[s] \in Seq(Entry) /\ Len(log[s]) <= MaxLog
        /\ Len(states) = Len(committed) + 1 /\ DOMAIN states = 1..Len(states)
    <3>1. committed \in Seq(Entry) /\ log[s] \in Seq(Entry) /\ Len(log[s]) <= MaxLog
      BY Zenon, <1>1 DEF LogTypeOK
    <3>2. Len(states) = Len(committed) + 1
      BY Zenon, <1>1 DEF StatesInv
    <3>3. DOMAIN states = 1..Len(states)
      BY <1>1 DEF StatesTypeOK
    <3>4. QED
      BY Zenon, <3>1, <3>2, <3>3
  <2>2. Deliverable(s, index)
    BY Zenon DEF applyTask
  <2>3. index <= Len(committed) /\ index <= Len(log[s]) /\ \A k \in 1..index : committed[k] = log[s][k]
    BY Zenon, <1>1, <1>2, <2>2, DeliverableDef
  <2>4. index > 0 /\ index \in DOMAIN committed /\ index \in DOMAIN states /\ index \in 1..MaxLog
    <3>1. index \in Nat /\ index > 0
      BY <1>2
    <3> HIDE DEF index
    <3>2. index \in 1..Len(committed) /\ DOMAIN committed = 1..Len(committed)
      BY <2>1, <2>3, <3>1
    <3>3. index \in DOMAIN states
      BY <2>1, <2>3, <3>1
    <3>4. index \in 1..MaxLog
      <4> DEFINE l == Len(log[s])
      <4>1. index \in Nat /\ index > 0 /\ l \in Nat /\ index <= l /\ l <= MaxLog
        BY <2>1, <2>3, <3>1
      <4> HIDE DEF l
      <4>2. QED
        BY <4>1, MaxLogNat
    <3>5. QED
      BY Zenon, <3>1, <3>2, <3>3, <3>4
  <2>5. committed[index].Command \in Op
    BY Zenon, <2>1, <2>4, EntryType
  <2>6. index \in 1..index
    BY <1>2, <2>4
  <2>7. QED
    BY Zenon, <2>3, <2>4, <2>5, <2>6
<1>4. old.KV = states[index].KV /\ old.dup = states[index].dup
  <2> DEFINE w == [KV |-> old.KV, dup |-> old.dup]
  <2>1. w.KV = old.KV /\ w.dup = old.dup
    OBVIOUS
  <2>2. w = states[index]
    BY Zenon, <1>2
  <2> HIDE DEF w
  <2>3. QED
    BY Zenon, <2>1, <2>2
<1>5. /\ new = apply(states[index].KV, states[index].dup, committed[index].Command)
      /\ new.reply = replyAt(index) /\ new.reply \in Reply
      /\ [KV |-> new.KV, dup |-> new.dup] = states[index + 1]
  <2>1. new = apply(states[index].KV, states[index].dup, committed[index].Command)
    BY Zenon, <1>3, <1>4
  <2>2. IsStore(states[index].KV) /\ IsTable(states[index].dup)
    BY Zenon, <1>1, <1>3 DEF StatesTypeOK, IsState
  <2>3. new.reply \in Reply
    BY Zenon, <1>3, <2>1, <2>2, ApplyType
  <2>4. new.reply = replyAt(index)
    BY Zenon, <2>1 DEF replyAt
  <2>5. states[index + 1] = stateAfter(states[index], committed[index].Command)
    BY Zenon, <1>1, <1>3 DEF StatesInv
  <2>6. QED
    BY Zenon, <2>1, <2>3, <2>4, <2>5 DEF stateAfter
<1> HIDE DEF new
<1>6. /\ UNCHANGED <<log, leaders, committed, handlers, client, currentTerm, restarts, states>>
      /\ server' = [server EXCEPT ![s] =
                       IF Len(log[s]) - old.snapshot.index >= maxraftstate THEN makeSnapshot(applied) ELSE applied]
  <2>1. ~(index <= old.lastApplied)
    BY <1>2
  <2>2. QED
    BY Zenon, <2>1 DEF applyTask, logVars, others, new
<1>7. \A i \in 1..MaxLog :
        LET ch == old.notifyChans[i] IN
        /\ ch.open => ch.bufs # <<>>
        /\ \A n \in DOMAIN ch.bufs : ch.bufs[n] # <<>> => i <= old.delivered /\ ch.bufs[n] = <<replyAt(i)>>
  BY Zenon DEF KVInv, ChannelInv
<1>8. old.notifyChans \in Channels
  BY <1>1 DEF IsServer
<1> HIDE DEF index
<1>9. /\ chans \in Channels
      /\ \A i \in 1..MaxLog \ {index} : chans[i] = old.notifyChans[i]
      /\ chans[index].open => chans[index].bufs # <<>>
      /\ Len(old.notifyChans[index].bufs) <= Len(chans[index].bufs)
      /\ \A n \in DOMAIN chans[index].bufs :
            chans[index].bufs[n] # <<>> => chans[index].bufs[n] = <<replyAt(index)>>
  <2>1. old.notifyChans[index].open => old.notifyChans[index].bufs # <<>>
    BY Zenon, <1>3, <1>7
  <2>2. \A n \in DOMAIN old.notifyChans[index].bufs :
           old.notifyChans[index].bufs[n] # <<>> => old.notifyChans[index].bufs[n] = <<replyAt(index)>>
    BY Zenon, <1>3, <1>7
  <2>3. CASE s \in leaders
    <3> DEFINE c == old.notifyChans
               reply == new.reply
    <3>0. chans = send(c, index, reply)
      BY <2>3
    <3>4. c \in Channels /\ index \in 1..MaxLog /\ reply \in Reply /\ (c[index].open => c[index].bufs # <<>>)
      BY Zenon, <1>3, <1>5, <1>8, <2>1
    <3> HIDE DEF chans, c, reply
    <3>5. /\ chans \in Channels /\ Len(chans[index].bufs) > 0
          /\ Len(c[index].bufs) <= Len(chans[index].bufs)
          /\ \A n \in DOMAIN chans[index].bufs :
                \/ chans[index].bufs[n] = <<>> \/ chans[index].bufs[n] = <<reply>>
                \/ n \in DOMAIN c[index].bufs /\ chans[index].bufs[n] = c[index].bufs[n]
          /\ \A j \in 1..MaxLog \ {index} : chans[j] = c[j]
      BY ZenonT(60), <3>0, <3>4, SendReply
    <3>1. /\ chans \in Channels /\ Len(chans[index].bufs) > 0
          /\ Len(old.notifyChans[index].bufs) <= Len(chans[index].bufs)
          /\ \A n \in DOMAIN chans[index].bufs :
                \/ chans[index].bufs[n] = <<>> \/ chans[index].bufs[n] = <<new.reply>>
                \/ /\ n \in DOMAIN old.notifyChans[index].bufs
                   /\ chans[index].bufs[n] = old.notifyChans[index].bufs[n]
          /\ \A j \in 1..MaxLog \ {index} : chans[j] = old.notifyChans[j]
      BY Zenon, <3>5 DEF c, reply
    <3>2. chans[index].bufs # <<>>
      <4> DEFINE b == chans[index].bufs
      <4>1. b \in Seq(Seq(Reply)) /\ Len(b) > 0
        BY Zenon, <1>3, <3>1, ChannelType
      <4> HIDE DEF b
      <4>2. b # <<>>
        BY <4>1
      <4>3. QED
        BY Zenon, <4>2 DEF b
    <3>3. QED
      BY Zenon, <1>5, <2>2, <3>1, <3>2
  <2>4. CASE s \notin leaders
    <3>1. chans = old.notifyChans /\ Len(old.notifyChans[index].bufs) \in Nat
      BY Zenon, <1>3, <1>8, <2>4, ChannelType
    <3> HIDE DEF chans
    <3>2. QED
      <4>1. Len(chans[index].bufs) <= Len(chans[index].bufs)
        BY <3>1
      <4>2. QED
        BY Zenon, <1>8, <2>1, <2>2, <3>1, <4>1
  <2>5. QED
    BY Zenon, <2>3, <2>4
<1> HIDE DEF chans
<1> DEFINE sv == IF Len(log[s]) - old.snapshot.index >= maxraftstate THEN makeSnapshot(applied) ELSE applied
<1>10. /\ applied.delivered = index /\ applied.lastApplied = index /\ applied.KV = new.KV
       /\ applied.dup = new.dup /\ applied.notifyChans = chans /\ applied.snapshot = old.snapshot
       /\ IsServer(applied)
  <2>1. /\ applied.delivered = index /\ applied.lastApplied = index /\ applied.KV = new.KV
        /\ applied.dup = new.dup /\ applied.notifyChans = chans /\ applied.snapshot = old.snapshot
    BY <1>1 DEF IsServer
  <2>2. IsServer(applied)
    BY Zenon, <1>1, <1>2, <1>9, <2>1 DEF IsServer
  <2>3. QED
    BY <2>1, <2>2
<1> HIDE DEF applied
<1>11. /\ sv.delivered = index /\ sv.lastApplied = index /\ sv.KV = new.KV /\ sv.dup = new.dup
       /\ sv.notifyChans = chans /\ IsServer(sv)
       /\ sv.snapshot \in {old.snapshot, [index |-> index, KV |-> new.KV, dup |-> new.dup]}
  <2> DEFINE snapshot == [index |-> index, KV |-> new.KV, dup |-> new.dup]
             ms == [applied EXCEPT !.snapshot = snapshot]
  <2>1. makeSnapshot(applied) = ms
    BY <1>10 DEF makeSnapshot
  <2>2. /\ ms.delivered = index /\ ms.lastApplied = index /\ ms.KV = new.KV /\ ms.dup = new.dup
        /\ ms.notifyChans = chans /\ ms.snapshot = snapshot
    BY <1>10 DEF IsServer
  <2>3. snapshot \in [index : Nat, KV : {snapshot.KV}, dup : {snapshot.dup}]
    BY Zenon, <1>2
  <2> HIDE DEF snapshot
  <2>4. IsServer(ms)
    BY Zenon, <1>10, <2>2, <2>3 DEF IsServer
  <2> HIDE DEF ms
  <2>5. QED
    BY Zenon, <1>10, <2>1, <2>2, <2>4 DEF snapshot
<1> HIDE DEF sv
<1>12. LogTypeOK' /\ TermInv' /\ CallTypeOK'
  <2>1. LogTypeOK' /\ CallTypeOK'
    BY Zenon, <1>1, <1>6 DEF LogTypeOK, CallTypeOK
  <2>2. TermInv'
    BY ZenonT(60), <1>1, <1>6 DEF TermInv, Owns, Known
  <2>3. QED
    BY Zenon, <2>1, <2>2
<1>13. WaitInv'
  <2>1. \A i \in 1..MaxLog : DOMAIN old.notifyChans[i].bufs \subseteq DOMAIN chans[i].bufs
    <3>1. TAKE i \in 1..MaxLog
    <3>2. CASE i = index
      <4>1. /\ old.notifyChans[index].bufs \in Seq(Seq(Reply)) /\ Len(old.notifyChans[index].bufs) \in Nat
            /\ chans[index].bufs \in Seq(Seq(Reply)) /\ Len(chans[index].bufs) \in Nat
        BY Zenon, <1>3, <1>8, <1>9, ChannelType
      <4>2. /\ DOMAIN old.notifyChans[index].bufs = 1..Len(old.notifyChans[index].bufs)
            /\ DOMAIN chans[index].bufs = 1..Len(chans[index].bufs)
        BY <4>1
      <4>3. DOMAIN old.notifyChans[index].bufs \subseteq DOMAIN chans[index].bufs
        <5> DEFINE a == Len(old.notifyChans[index].bufs)
                   b == Len(chans[index].bufs)
        <5>1. a \in Nat /\ b \in Nat /\ a <= b
          BY Zenon, <1>9, <4>1
        <5> HIDE DEF a, b
        <5>2. 1..a \subseteq 1..b
          BY <5>1
        <5>3. QED
          BY Zenon, <4>2, <5>2 DEF a, b
      <4>4. QED
        BY Zenon, <3>2, <4>3
    <3>3. CASE i # index
      BY Zenon, <1>9, <3>3
    <3>4. QED
      BY Zenon, <3>2, <3>3
  <2>2. server'[s].notifyChans = chans /\ \A q \in Server \ {s} : server'[q] = server[q]
    BY Zenon, <1>1, <1>6, <1>11 DEF ServerTypeOK, sv
  <2>3. \A h \in handlers : h.server \in Server
    BY <1>1 DEF CallTypeOK, Handler
  <2>4. QED
    BY ZenonT(60), <1>1, <1>6, <2>1, <2>2, <2>3 DEF WaitInv
<1>14. \A q \in Server, i \in Nat : Deliverable(q, i) => Deliverable(q, i)'
  BY Zenon, <1>6 DEF Deliverable
<1>15. Deliverable(s, index)
  BY SMTT(60) DEF applyTask, index
<1>16. \A i \in Nat : i = sv.delivered => Deliverable(s, i)'
  BY Zenon, <1>2, <1>11, <1>14, <1>15
<1>17. sv.lastApplied <= sv.delivered /\ sv.snapshot.index <= sv.delivered
       /\ [KV |-> sv.KV, dup |-> sv.dup] = states[sv.delivered + 1]
       /\ [KV |-> sv.snapshot.KV, dup |-> sv.snapshot.dup] = states[sv.snapshot.index + 1]
  <2> DEFINE d == old.delivered
             n == old.snapshot.index
  <2>1. /\ d \in Nat /\ n \in Nat /\ n <= d /\ index = d + 1
        /\ [KV |-> old.snapshot.KV, dup |-> old.snapshot.dup] = states[n + 1]
    BY Zenon, <1>2 DEF index
  <2>2. CASE sv.snapshot = old.snapshot
    <3>1. sv.snapshot.index = n /\ sv.snapshot.KV = old.snapshot.KV /\ sv.snapshot.dup = old.snapshot.dup
      BY Zenon, <2>2
    <3> HIDE DEF d, n
    <3>2. index <= index /\ n <= index
      BY <2>1
    <3>3. QED
      BY Zenon, <1>5, <1>11, <2>1, <3>1, <3>2
  <2>3. CASE sv.snapshot = [index |-> index, KV |-> new.KV, dup |-> new.dup]
    <3>1. sv.snapshot.index = index /\ sv.snapshot.KV = new.KV /\ sv.snapshot.dup = new.dup
      BY <2>3
    <3> HIDE DEF d, n
    <3>2. index <= index
      BY <2>1
    <3>3. QED
      BY Zenon, <1>5, <1>11, <3>1, <3>2
  <2>4. QED
    BY Zenon, <1>11, <2>2, <2>3
<1>18. ASSUME NEW i \in 1..MaxLog
       PROVE  LET ch == sv.notifyChans[i] IN
              /\ ch.open => ch.bufs # <<>>
              /\ \A n \in DOMAIN ch.bufs :
                    ch.bufs[n] # <<>> => i <= sv.delivered /\ ch.bufs[n] = <<replyAt(i)>>
  <2>1. CASE i = index
    <3>1. i <= index
      BY <1>2, <2>1
    <3>2. QED
      BY Zenon, <1>9, <1>11, <2>1, <3>1
  <2>2. CASE i # index
    <3> DEFINE ch == old.notifyChans[i]
    <3>1. sv.notifyChans[i] = ch
      BY Zenon, <1>9, <1>11, <2>2
    <3>2. i <= old.delivered => i <= sv.delivered
      <4> DEFINE d == old.delivered
      <4>1. d \in Nat /\ sv.delivered = d + 1
        BY Zenon, <1>2, <1>11 DEF index
      <4> HIDE DEF d
      <4>2. i <= d => i <= d + 1
        BY <4>1
      <4>3. QED
        BY Zenon, <4>1, <4>2 DEF d
    <3>3. /\ ch.open => ch.bufs # <<>>
          /\ \A n \in DOMAIN ch.bufs : ch.bufs[n] # <<>> => i <= old.delivered /\ ch.bufs[n] = <<replyAt(i)>>
      BY Zenon, <1>7
    <3> HIDE DEF ch
    <3>4. QED
      BY Zenon, <3>1, <3>2, <3>3
  <2>3. QED
    BY Zenon, <2>1, <2>2
<1>19. server' = [server EXCEPT ![s] = sv]
  BY <1>6 DEF sv
<1>20. QED
  BY Zenon, <1>6, <1>11, <1>12, <1>13, <1>14, <1>16, <1>17, <1>18, <1>19, PlaceStep

-----------------------------------------------------------------------------
(* The invariant holds. *)

LEMMA KVInvInit ==
    ASSUME Init
    PROVE  KVInv
<1> DEFINE empty == [KV |-> <<>>, dup |-> <<>>]
           sv == [lastApplied |-> 0, KV |-> <<>>, dup |-> <<>>, notifyChans |-> NoChannels,
                  delivered |-> 0, snapshot |-> NoSnapshot]
<1>1. /\ log = [s \in Server |-> <<>>] /\ leaders = {} /\ committed = <<>> /\ handlers = {}
      /\ client = [c \in Client |-> MakeClerk] /\ currentTerm = [s \in Server |-> 0]
      /\ restarts = 0 /\ states = <<empty>> /\ server = [s \in Server |-> StartKVServer(NoSnapshot)]
  BY DEF Init, LogInit
<1>2. StartKVServer(NoSnapshot) = sv
  BY DEF StartKVServer, restoreFromSnapshot, NoSnapshot
<1>3. NoChannels \in Channels /\ \A i \in 1..MaxLog : NoChannels[i] = [open |-> FALSE, bufs |-> <<>>]
  <2>1. [open |-> FALSE, bufs |-> <<>>] \in [open : BOOLEAN, bufs : Seq(Seq(Reply))]
    OBVIOUS
  <2>2. QED
    BY <2>1 DEF NoChannels, Channels
<1>4. LogTypeOK
  BY <1>1, KVAssumption DEF LogTypeOK
<1>5. /\ sv.lastApplied = 0 /\ sv.KV = <<>> /\ sv.dup = <<>> /\ sv.notifyChans = NoChannels
      /\ sv.delivered = 0 /\ sv.snapshot = NoSnapshot /\ IsServer(sv)
  <2>1. NoSnapshot \in [index : Nat, KV : {NoSnapshot.KV}, dup : {NoSnapshot.dup}]
    BY DEF NoSnapshot
  <2>2. QED
    BY <1>3, <2>1 DEF IsServer
<1> HIDE DEF sv
<1>6. ServerTypeOK /\ \A s \in Server : server[s] = sv
  BY <1>1, <1>2, <1>5 DEF ServerTypeOK
<1>7. IsState(empty)
  BY DEF IsState, IsStore, IsTable
<1>8. Len(states) = 1 /\ DOMAIN states = {1} /\ states[1] = empty
  BY <1>1
<1>9. StatesTypeOK
  <2>1. states \in Seq({states[n] : n \in DOMAIN states})
    BY <1>1, <1>8
  <2>2. QED
    BY <1>7, <1>8, <2>1 DEF StatesTypeOK
<1>10. CallTypeOK
  <2>1. 0 \in Server
    BY KVAssumption
  <2>2. <<>> \in Values
    BY DEF Values
  <2>3. MakeClerk \in Clerk /\ MakeClerk.result # Nil
    BY <2>1, <2>2, NilAssumption DEF MakeClerk, Clerk
  <2>4. QED
    BY <1>1, <2>3 DEF CallTypeOK
<1>11. WaitInv /\ TermInv
  BY <1>1 DEF WaitInv, TermInv, Owns
<1>12. StatesInv
  <2>1. \A c \in Client : doneAt(1, c) = 0
    BY <1>8 DEF doneAt
  <2>2. Len(committed) = 0 /\ DOMAIN committed = {}
    BY <1>1
  <2>3. QED
    BY <1>8, <2>1, <2>2 DEF StatesInv
<1>13. ServerInv
  <2>2. \A s \in Server : Deliverable(s, 0)
    BY <1>1, <1>4, DeliverableDef
  <2>3. states[0 + 1] = empty /\ NoSnapshot.index = 0 /\ NoSnapshot.KV = <<>> /\ NoSnapshot.dup = <<>>
    BY <1>8 DEF NoSnapshot
  <2>4. QED
    BY <1>5, <1>6, <2>2, <2>3 DEF ServerInv
<1>14. ChannelInv
  BY SMTT(60), <1>3, <1>5, <1>6 DEF ChannelInv
<1>15. QED
  BY <1>4, <1>6, <1>9, <1>10, <1>11, <1>12, <1>13, <1>14 DEF KVInv, TypeOK

LEMMA KVInvNext ==
    ASSUME KVInv, [Next]_vars
    PROVE  KVInv'
<1>1. ASSUME NEW c \in Client, NEW key \in Key, NEW type \in Program[c], Call(c, type, key) PROVE KVInv'
  BY <1>1, CallInvStep
<1>2. ASSUME NEW c \in Client, CallFails(c) PROVE KVInv'
  BY <1>2, CallFailsInvStep
<1>3. ASSUME NEW h \in handlers, CheckDuplicate(h) PROVE KVInv'
  BY <1>3, CheckDuplicateInvStep
<1>4. ASSUME NEW h \in handlers, Start(h) PROVE KVInv'
  BY <1>4, StartInvStep
<1>5. ASSUME NEW h \in handlers, Subscribe(h) PROVE KVInv'
  BY <1>5, SubscribeInvStep
<1>6. ASSUME NEW h \in handlers, Receive(h) PROVE KVInv'
  BY <1>6, ReceiveInvStep
<1>7. ASSUME NEW h \in handlers, Timeout(h) PROVE KVInv'
  BY <1>7, TimeoutInvStep
<1>8. ASSUME NEW h \in handlers, Unsubscribe(h) PROVE KVInv'
  BY <1>8, UnsubscribeInvStep
<1>9. ASSUME NEW s \in Server, applyTask(s) PROVE KVInv'
  BY <1>9, ApplyTaskInvStep
<1>10. ASSUME NEW s \in Server, NEW p \in Server, applySnapshot(s, p) PROVE KVInv'
  BY <1>10, ApplySnapshotInvStep
<1>11. ASSUME NEW s \in Server, Restart(s) PROVE KVInv'
  BY <1>11, RestartInvStep
<1>12. ASSUME NEW s \in Server, BecomeLeader(s) PROVE KVInv'
  BY <1>12, BecomeLeaderInvStep
<1>13. ASSUME NEW s \in Server, NEW p \in Server, Replicate(s, p) PROVE KVInv'
  BY <1>13, ReplicateInvStep
<1>14. ASSUME NEW s \in Server, CommitNext(s) PROVE KVInv'
  BY <1>14, CommitNextInvStep
<1>15. CASE UNCHANGED vars
  <2>1. UNCHANGED <<logVars, server, handlers, client, others>>
    BY <1>15 DEF vars, kvVars
  <2>2. CallTypeOK' /\ WaitInv'
    BY Zenon, <2>1 DEF KVInv, TypeOK, CallTypeOK, WaitInv
  <2>3. QED
    BY <2>1, <2>2, CallStep
<1>16. QED
  BY Zenon, <1>1, <1>2, <1>3, <1>4, <1>5, <1>6, <1>7, <1>8, <1>9, <1>10, <1>11, <1>12, <1>13, <1>14, <1>15 DEF Next

LEMMA KVInvariant == Spec => []KVInv
<1>1. Init => KVInv
  BY KVInvInit
<1>2. KVInv /\ [Next]_vars => KVInv'
  BY KVInvNext
<1>3. QED
  BY <1>1, <1>2, PTL DEF Spec

\* The store and duplicate table of every server are those of the entries it
\* was given, over snapshots made in applyTask, installed from a leader and
\* read again by StartKVServer, and over any change of the leader.
THEOREM EveryReplicaAgrees == Spec => []ReplicasAgree
<1>1. KVInv => ReplicasAgree
  BY Zenon DEF KVInv, ServerInv, ReplicasAgree
<1>2. QED
  BY <1>1, KVInvariant, PTL

\* applyTask never blocks on notifyCh while it holds kv.mu: a channel of an
\* index that was not applied yet is empty, however many handlers of earlier
\* terms used the same index.
THEOREM ApplyIsNeverBlocked == Spec => []ApplyNeverBlocks
<1>1. KVInv => ApplyNeverBlocks
  <2>1. SUFFICES ASSUME KVInv, NEW s \in leaders, Deliverable(s, server[s].delivered + 1)
                 PROVE  CanSend(server[s].notifyChans, server[s].delivered + 1)
    BY DEF ApplyNeverBlocks
  <2> DEFINE i == server[s].delivered + 1
             ch == server[s].notifyChans[i]
  <2>2. s \in Server /\ server[s].delivered \in Nat /\ server[s].notifyChans \in Channels /\ LogTypeOK
    BY Zenon, <2>1, ServerType DEF KVInv, TypeOK, LogTypeOK
  <2>3. i \in Nat /\ i > server[s].delivered
    BY <2>2
  <2>4. i \in 1..MaxLog
    <3>1. i <= Len(log[s]) /\ Len(log[s]) <= MaxLog /\ Len(log[s]) \in Nat
      BY <2>1, <2>2, <2>3, DeliverableDef DEF LogTypeOK
    <3>2. i > 0
      BY <2>2
    <3> DEFINE l == Len(log[s])
    <3>3. i \in Nat /\ i > 0 /\ l \in Nat /\ i <= l /\ l <= MaxLog
      BY Zenon, <2>3, <3>1, <3>2
    <3> HIDE DEF i, l
    <3>4. QED
      BY <3>3, MaxLogNat
  <2>5. (ch.open => ch.bufs # <<>>) /\ \A n \in DOMAIN ch.bufs : ch.bufs[n] # <<>> => i <= server[s].delivered
    BY Zenon, <2>1, <2>2, <2>4 DEF KVInv, ChannelInv
  <2>6. ch.bufs \in Seq(Seq(Reply))
    BY <2>2, <2>4, ChannelType
  <2> HIDE DEF ch, i
  <2>7. ch.open => Len(ch.bufs) \in DOMAIN ch.bufs
    BY <2>5, <2>6
  <2>8. ch.open => ch.bufs[Len(ch.bufs)] = <<>>
    BY <2>2, <2>3, <2>5, <2>7
  <2>9. QED
    BY Zenon, <2>8 DEF CanSend, Latest, ch, i
<1>2. QED
  BY <1>1, KVInvariant, PTL
=============================================================================
