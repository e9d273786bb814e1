----------------------------- MODULE KVServer -----------------------------
(***************************************************************************)
(* The replicated key-value service of src/kvraft: clerks that retry their *)
(* calls, the handlers Get and PutAppend, applyTask with the duplicate     *)
(* table, the notification channels by log index, snapshots and restarts.  *)
(* Raft below it is ReplicatedLog.                                         *)
(*                                                                         *)
(* A handler takes kv.mu only for a moment; between its steps the log may  *)
(* be replaced, entries applied and the leader changed.  A string is the   *)
(* sequence of the pieces it was put together from.                        *)
(***************************************************************************)
EXTENDS ReplicatedLog, Functions

CONSTANTS Client, Key, Nil,
          Program,      \* per clerk, the operations it calls: "Get", "Put", "Append"
          maxraftstate, \* snapshot if the log has this many entries
          Handover,     \* {"waiting"}: a server may lead again while requests wait there
          MaxSeq,       \* bound: calls of a clerk
          MaxAttempts,  \* bound: per clerk, its RPCs
          MaxLog,       \* bound: length of a log
          MaxTerm,      \* bound: elections
          MaxRestart    \* bound: restarts, of all servers together

ASSUME KVAssumption ==
    /\ Server = 0..(Cardinality(Server) - 1) /\ Cardinality(Server) \in Nat \ {0}
    /\ Program \in [Client -> SUBSET {"Get", "Put", "Append"}]
    /\ Handover \subseteq {"waiting"}
    /\ MaxAttempts \in [Client -> Nat]
    /\ {maxraftstate, MaxSeq, MaxLog, MaxTerm, MaxRestart} \subseteq Nat

\* The strings of the service, and what clerks ask for.
Values == Seq(Client \X Nat)

Op ==
    [OpType : {"Get"}, Key : Key, Value : {Nil}, ClientId : {Nil}, SeqId : {0}] \cup
    [OpType : {"Put", "Append"}, Key : Key, Value : Client \X Nat, ClientId : Client, SeqId : Nat]

ASSUME NilAssumption == Nil \notin Client /\ Nil \notin Op /\ Nil \notin Values

VARIABLES server,     \* the structs KVServer, with the state Raft keeps for them
          handlers,   \* the RPC handlers that have not returned
          client,     \* the structs Clerk, with the call in progress
          currentTerm, restarts,
          states      \* history: store and duplicate table after 0, 1, 2... committed entries

others == <<currentTerm, restarts, states>>
kvVars == <<server, handlers, client, others>>
vars == <<logVars, kvVars>>

OK == "OK"
ErrNoKey == "ErrNoKey"
ErrWrongLeader == "ErrWrongLeader"
ErrTimeout == "ErrTimeout"

-----------------------------------------------------------------------------
(* The state machine: src/kvraft/state_machine.go and applyToStateMachine. *)

\* A map after m[key] = value.
assign(m, key, value) == [k \in DOMAIN m \cup {key} |-> IF k = key THEN value ELSE m[k]]

Get(kv, key) ==
    IF key \in DOMAIN kv THEN [Value |-> kv[key], Err |-> OK] ELSE [Value |-> <<>>, Err |-> ErrNoKey]

PutTo(kv, key, value) == assign(kv, key, <<value>>)

AppendValue(kv, key, value) == assign(kv, key, Append(Get(kv, key).Value, value))

applyToStateMachine(kv, op) ==
    CASE op.OpType = "Get"    -> [KV |-> kv, reply |-> Get(kv, op.Key)]
      [] op.OpType = "Put"    -> [KV |-> PutTo(kv, op.Key, op.Value), reply |-> [Value |-> <<>>, Err |-> OK]]
      [] op.OpType = "Append" -> [KV |-> AppendValue(kv, op.Key, op.Value), reply |-> [Value |-> <<>>, Err |-> OK]]

\* dup[c] is the SeqId of c's last write; its Reply is OK for every write.
requestDuplicated(dup, clientId, seqId) == clientId \in DOMAIN dup /\ seqId <= dup[clientId]

\* What applyTask does to the store and the duplicate table, and its reply.
applyAlways(kv, dup, op) ==
    LET new == applyToStateMachine(kv, op) IN
    [KV |-> new.KV, dup |-> IF op.OpType = "Get" THEN dup ELSE assign(dup, op.ClientId, op.SeqId),
     reply |-> new.reply]

apply(kv, dup, op) ==
    IF op.OpType # "Get" /\ requestDuplicated(dup, op.ClientId, op.SeqId)
    THEN [KV |-> kv, dup |-> dup, reply |-> [Value |-> <<>>, Err |-> OK]]
    ELSE LET new == applyToStateMachine(kv, op) IN
         [KV |-> new.KV, dup |-> IF op.OpType = "Get" THEN dup ELSE assign(dup, op.ClientId, op.SeqId),
          reply |-> new.reply]

-----------------------------------------------------------------------------
(* Notification channels.  A handler holds on to the channel it got, also
   after another one removed it from the map: channel n of an index is the
   n-th that was made for it, and holds at most one reply. *)

NoChannels == [i \in 1..MaxLog |-> [open |-> FALSE, bufs |-> <<>>]]

getNotifyChannel(chans, index) ==
    IF chans[index].open THEN chans
    ELSE [chans EXCEPT ![index] = [open |-> TRUE, bufs |-> Append(@.bufs, <<>>)]]

removeNotifyChannel(chans, index) == [chans EXCEPT ![index].open = FALSE]

\* Without a buffer the sender would need a handler that receives.
CanSendUnbuffered(chans, index) ==
    \E h \in handlers : h.pc = "wait" /\ h.index = index /\ h.chan = Len(chans[index].bufs)

\* notifyCh <- opReply; a full channel blocks the sender.
CanSend(chans, index) == chans[index].open => Latest(chans[index].bufs) = <<>>

send(chans, index, reply) ==
    LET with == getNotifyChannel(chans, index)
    IN  [with EXCEPT ![index].bufs[Len(with[index].bufs)] = <<reply>>]

-----------------------------------------------------------------------------
(* Clerks: src/kvraft/client.go. *)

MakeClerk == [op |-> Nil, seqId |-> 0, leaderId |-> 0, attempts |-> 0, calls |-> 0,
              result |-> <<>>, since |-> 0]

RPC(c, ck) == [server |-> ck.leaderId, client |-> c, call |-> ck.attempts, op |-> ck.op,
               pc |-> "arrived", index |-> 0, chan |-> 0]

\* Get or PutAppend of a clerk begins: its first RPC.
Call(c, type, key) ==
    LET op == IF type = "Get" THEN [OpType |-> "Get", Key |-> key, Value |-> Nil, ClientId |-> Nil, SeqId |-> 0]
              ELSE [OpType |-> type, Key |-> key, Value |-> <<c, client[c].seqId>>,
                    ClientId |-> c, SeqId |-> client[c].seqId]
        ck == [client[c] EXCEPT !.op = op, !.result = Nil, !.calls = @ + 1, !.attempts = @ + 1,
                                !.since = Len(states)]
    IN
    /\ client[c].result # Nil
    /\ client[c].calls < MaxSeq /\ client[c].attempts < MaxAttempts[c]
    /\ client' = [client EXCEPT ![c] = ck]
    /\ handlers' = handlers \cup {RPC(c, ck)}
    /\ UNCHANGED <<logVars, server, others>>

nextServer(ck) == [ck EXCEPT !.leaderId = (@ + 1) % Cardinality(Server), !.attempts = @ + 1]

\* The RPC of c fails, or its reply says so: the clerk tries the next server.
Retry(c, hs) ==
    LET ck == nextServer(client[c]) IN
    /\ client[c].attempts < MaxAttempts[c]
    /\ client' = [client EXCEPT ![c] = ck]
    /\ handlers' = hs \cup {RPC(c, ck)}

CallFails(c) ==
    /\ client[c].result = Nil
    /\ Retry(c, handlers)
    /\ UNCHANGED <<logVars, server, others>>

\* The RPC of handler h returns a reply; hs are the handlers left.
Answer(h, reply, hs) ==
    LET c == h.client IN
    IF client[c].result # Nil \/ client[c].attempts # h.call
    THEN handlers' = hs /\ UNCHANGED client
    ELSE IF reply.Err \in {ErrWrongLeader, ErrTimeout} THEN Retry(c, hs)
    ELSE /\ client' = [client EXCEPT ![c].result = reply.Value,
                                     ![c].seqId = IF h.op.OpType = "Get" THEN @ ELSE @ + 1]
         /\ handlers' = hs

-----------------------------------------------------------------------------
(* The handlers Get and PutAppend of src/kvraft/server.go. *)

\* The test for a duplicate; Get has none.
CheckDuplicate(h) ==
    /\ h.pc = "arrived"
    /\ IF h.op.OpType # "Get" /\ requestDuplicated(server[h.server].dup, h.op.ClientId, h.op.SeqId)
       THEN Answer(h, [Value |-> <<>>, Err |-> OK], handlers \ {h})
       ELSE handlers' = (handlers \ {h}) \cup {[h EXCEPT !.pc = "start"]} /\ UNCHANGED client
    /\ UNCHANGED <<logVars, server, others>>

\* What Start appends: Raft adds the term of the leader.
entry(h) == [Term |-> currentTerm[h.server], Command |-> h.op]

StartReadsLocally(h) ==
    /\ h.pc = "start"
    /\ IF h.op.OpType = "Get"
       THEN Answer(h, Get(server[h.server].KV, h.op.Key), handlers \ {h}) /\ UNCHANGED logVars
       ELSE /\ h.server \in leaders /\ Len(log[h.server]) < MaxLog
            /\ AppendTo(h.server, entry(h))
            /\ handlers' = (handlers \ {h}) \cup
                              {[h EXCEPT !.pc = "channel", !.index = Len(log[h.server]) + 1]}
            /\ UNCHANGED client
    /\ UNCHANGED <<server, others>>

\* rf.Start.
Start(h) ==
    /\ h.pc = "start"
    /\ IF h.server \in leaders
       THEN /\ Len(log[h.server]) < MaxLog
            /\ AppendTo(h.server, entry(h))
            /\ handlers' = (handlers \ {h}) \cup
                              {[h EXCEPT !.pc = "channel", !.index = Len(log[h.server]) + 1]}
            /\ UNCHANGED client
       ELSE /\ Answer(h, [Value |-> <<>>, Err |-> ErrWrongLeader], handlers \ {h})
            /\ UNCHANGED logVars
    /\ UNCHANGED <<server, others>>

Subscribe(h) ==
    LET chans == getNotifyChannel(server[h.server].notifyChans, h.index) IN
    /\ h.pc = "channel"
    /\ server' = [server EXCEPT ![h.server].notifyChans = chans]
    /\ handlers' = (handlers \ {h}) \cup {[h EXCEPT !.pc = "wait", !.chan = Len(chans[h.index].bufs)]}
    /\ UNCHANGED <<logVars, client, others>>

Finished(h) == (handlers \ {h}) \cup {[h EXCEPT !.pc = "remove"]}

\* result := <-notifyCh
Receive(h) ==
    LET buf == server[h.server].notifyChans[h.index].bufs[h.chan] IN
    /\ h.pc = "wait" /\ buf # <<>>
    /\ server' = [server EXCEPT ![h.server].notifyChans[h.index].bufs[h.chan] = <<>>]
    /\ Answer(h, Head(buf), Finished(h))
    /\ UNCHANGED <<logVars, others>>

\* <-time.After(ClientRequestTimeout)
Timeout(h) ==
    /\ h.pc = "wait"
    /\ Answer(h, [Value |-> <<>>, Err |-> ErrTimeout], Finished(h))
    /\ UNCHANGED <<logVars, server, others>>

\* The goroutine that removes the channel.
Unsubscribe(h) ==
    /\ h.pc = "remove"
    /\ server' = [server EXCEPT ![h.server].notifyChans = removeNotifyChannel(@, h.index)]
    /\ handlers' = handlers \ {h}
    /\ UNCHANGED <<logVars, client, others>>

-----------------------------------------------------------------------------
(* applyTask and snapshots. *)

makeSnapshotNoTable(sv) ==
    [sv EXCEPT !.snapshot = [index |-> sv.lastApplied, KV |-> sv.KV, dup |-> <<>>]]

makeSnapshot(sv) ==
    [sv EXCEPT !.snapshot = [index |-> sv.lastApplied, KV |-> sv.KV, dup |-> sv.dup]]

NoSnapshot == [index |-> 0, KV |-> <<>>, dup |-> <<>>]

\* An empty snapshot leaves the state as it is.
restoreFromSnapshot(sv, snapshot) ==
    IF snapshot.index = 0 THEN sv ELSE [sv EXCEPT !.KV = snapshot.KV, !.dup = snapshot.dup]

\* Raft delivers entries that are committed and in the server's log.
Deliverable(s, index) == index <= Len(committed) /\ Begins(SubSeq(committed, 1, index), log[s])

applyTask(s) ==
    LET sv == server[s]
        index == sv.delivered + 1
        new == apply(sv.KV, sv.dup, log[s][index].Command)
        applied == [sv EXCEPT !.delivered = index, !.lastApplied = index, !.KV = new.KV, !.dup = new.dup,
                              !.notifyChans = IF s \in leaders THEN send(@, index, new.reply) ELSE @]
    IN
    /\ Deliverable(s, index)
    /\ server' = [server EXCEPT ![s] =
                    IF index <= sv.lastApplied THEN [sv EXCEPT !.delivered = index]
                    ELSE IF Len(log[s]) - sv.snapshot.index >= maxraftstate THEN makeSnapshot(applied) ELSE applied]
    /\ index > sv.lastApplied /\ s \in leaders => CanSend(sv.notifyChans, index)
    /\ UNCHANGED <<logVars, handlers, client, others>>

\* Raft delivers the snapshot a leader sent: the entries behind it are kept
\* if the log had those before it.
applySnapshot(s, p) ==
    LET snapshot == server[p].snapshot
        prefix == SubSeq(committed, 1, snapshot.index)
    IN
    /\ p \in leaders /\ p # s /\ snapshot.index > server[s].delivered
    /\ Follow(s, IF Begins(prefix, log[s]) THEN log[s] ELSE prefix)
    /\ server' = [server EXCEPT ![s] = [restoreFromSnapshot(@, snapshot) EXCEPT
                    !.lastApplied = snapshot.index, !.delivered = snapshot.index, !.snapshot = snapshot]]
    /\ UNCHANGED <<handlers, client, others>>

\* StartKVServer; Raft delivers again what lies behind the snapshot.
StartKVServer(snapshot) ==
    restoreFromSnapshot([lastApplied |-> 0, KV |-> <<>>, dup |-> <<>>, notifyChans |-> NoChannels,
                         delivered |-> snapshot.index, snapshot |-> snapshot], snapshot)

Restart(s) ==
    /\ restarts < MaxRestart
    /\ restarts' = restarts + 1
    /\ server' = [server EXCEPT ![s] = StartKVServer(@.snapshot)]
    /\ Follow(s, log[s])
    /\ handlers' = {h \in handlers : h.server # s}
    /\ UNCHANGED <<client, currentTerm, states>>

-----------------------------------------------------------------------------
(* Raft. *)

\* s is elected for a term above every other.
BecomeLeader(s) ==
    /\ "waiting" \in Handover \/ \A h \in handlers : h.server = s => h.pc \notin {"channel", "wait"}
    /\ \E new \in 1..MaxTerm :
        /\ \A p \in Server : currentTerm[p] < new
        /\ currentTerm' = [currentTerm EXCEPT ![s] = new]
    /\ Lead(s)
    /\ UNCHANGED <<server, handlers, client, restarts, states>>

\* s follows p, whose log it gets.
Replicate(s, p) ==
    /\ p \in leaders /\ p # s /\ currentTerm[p] >= currentTerm[s]
    /\ currentTerm' = [currentTerm EXCEPT ![s] = currentTerm[p]]
    /\ Follow(s, log[p])
    /\ UNCHANGED <<server, handlers, client, restarts, states>>

stateAfter(st, op) == [KV |-> apply(st.KV, st.dup, op).KV, dup |-> apply(st.KV, st.dup, op).dup]

CommitNext(s) ==
    /\ Len(log[s]) > Len(committed)
    /\ Commit(s, Append(committed, log[s][Len(committed) + 1]))
    /\ states' = Append(states, stateAfter(Latest(states), Latest(committed').Command))
    /\ UNCHANGED <<server, handlers, client, currentTerm, restarts>>

Init ==
    /\ LogInit
    /\ server = [s \in Server |-> StartKVServer(NoSnapshot)]
    /\ handlers = {}
    /\ client = [c \in Client |-> MakeClerk]
    /\ currentTerm = [s \in Server |-> 0] /\ restarts = 0
    /\ states = <<[KV |-> <<>>, dup |-> <<>>]>>

Next ==
    \/ \E c \in Client, key \in Key : \E type \in Program[c] : Call(c, type, key)
    \/ \E c \in Client : CallFails(c)
    \/ \E h \in handlers : CheckDuplicate(h)
    \/ \E h \in handlers : Start(h)
    \/ \E h \in handlers : Subscribe(h)
    \/ \E h \in handlers : Receive(h)
    \/ \E h \in handlers : Timeout(h)
    \/ \E h \in handlers : Unsubscribe(h)
    \/ \E s \in Server : applyTask(s)
    \/ \E s, p \in Server : applySnapshot(s, p)
    \/ \E s \in Server : Restart(s)
    \/ \E s \in Server : BecomeLeader(s)
    \/ \E s, p \in Server : Replicate(s, p)
    \/ \E s \in Server : CommitNext(s)

Spec == Init /\ [][Next]_vars

-----------------------------------------------------------------------------
(* Properties. *)

\* Every server's store and duplicate table are those of the entries it was
\* given, over snapshots made, installed and read after a restart.
ReplicasAgree ==
    \A s \in Server :
        [KV |-> server[s].KV, dup |-> server[s].dup] = states[server[s].delivered + 1]

\* applyTask holds kv.mu while it sends a reply; the channel always has room,
\* so it never blocks there and the server with it.
ApplyNeverBlocks ==
    \A s \in leaders :
        LET index == server[s].delivered + 1
        IN  Deliverable(s, index) /\ index > server[s].lastApplied => CanSend(server[s].notifyChans, index)

Store ==
    INSTANCE KVStore WITH
        store <- Latest(states).KV,
        done <- [c \in Client |-> IF c \in DOMAIN Latest(states).dup THEN Latest(states).dup[c] + 1 ELSE 0],
        op <- [c \in Client |-> client[c].op],
        result <- [c \in Client |-> client[c].result],
        seen <- [c \in Client |->
                   IF client[c].result # Nil THEN {}
                   ELSE {Get(states[n].KV, client[c].op.Key).Value : n \in client[c].since..Len(states)}]

\* To its clients the service is one store: every Put and Append takes effect
\* exactly once before its clerk returns, and every Get returns a value the
\* key had during the call, over retries, timeouts, changes of the leader,
\* snapshots and restarts.
OneStore == Store!StoreSpec

-----------------------------------------------------------------------------
(* The inductive invariant. *)

Entry == [Term : Nat, Command : Op]

\* A store and a duplicate table are maps.
IsStore(kv) == DOMAIN kv \subseteq Key /\ kv \in [DOMAIN kv -> Values]

IsTable(dup) == DOMAIN dup \subseteq Client /\ dup \in [DOMAIN dup -> Nat]

IsState(st) == st \in [KV : {st.KV}, dup : {st.dup}] /\ IsStore(st.KV) /\ IsTable(st.dup)

Reply == [Value : Values, Err : {OK, ErrNoKey, ErrWrongLeader, ErrTimeout}]

Channels == [1..MaxLog -> [open : BOOLEAN, bufs : Seq(Seq(Reply))]]

IsServer(sv) ==
    /\ sv \in [lastApplied : Nat, KV : {sv.KV}, dup : {sv.dup}, notifyChans : Channels,
               delivered : Nat, snapshot : {sv.snapshot}]
    /\ sv.snapshot \in [index : Nat, KV : {sv.snapshot.KV}, dup : {sv.snapshot.dup}]

Handler == [server : Server, client : Client, call : Nat, op : Op,
            pc : {"arrived", "start", "channel", "wait", "remove"}, index : Nat, chan : Nat]

Clerk == [op : Op \cup {Nil}, seqId : Nat, leaderId : Server, attempts : Nat, calls : Nat,
          result : Values \cup {Nil}, since : Nat]

LogTypeOK ==
    /\ log \in [Server -> Seq(Entry)] /\ leaders \subseteq Server /\ committed \in Seq(Entry)
    /\ currentTerm \in [Server -> Nat] /\ restarts \in Nat
    /\ \A s \in Server : Len(log[s]) <= MaxLog

ServerTypeOK == DOMAIN server = Server /\ \A s \in Server : IsServer(server[s])

StatesTypeOK ==
    /\ states \in Seq({states[n] : n \in DOMAIN states})
    /\ \A n \in DOMAIN states : IsState(states[n])

CallTypeOK ==
    /\ handlers \subseteq Handler /\ client \in [Client -> Clerk]
    /\ \A c \in Client : client[c].result = Nil => client[c].op \in Op

TypeOK == LogTypeOK /\ ServerTypeOK /\ StatesTypeOK /\ CallTypeOK

\* The channel a handler waits on was made.
WaitInv ==
    \A h \in handlers :
        /\ h.pc \notin {"arrived", "start"} => h.index \in 1..MaxLog
        /\ h.pc = "wait" => h.chan \in DOMAIN server[h.server].notifyChans[h.index].bufs

\* A leader has every entry of its term at the place where others have it,
\* no two servers lead in a term, and no entry is of a term yet to come.
Known(term) == \E s \in Server : term <= currentTerm[s]

Owns(s, l) ==
    \A i \in DOMAIN l : l[i].Term = currentTerm[s] => i \in DOMAIN log[s] /\ log[s][i] = l[i]

TermInv ==
    /\ \A s, p \in leaders : currentTerm[s] = currentTerm[p] => s = p
    /\ \A s \in leaders : Owns(s, committed) /\ \A p \in Server : Owns(s, log[p])
    /\ \A i \in DOMAIN committed : Known(committed[i].Term)
    /\ \A p \in Server : \A i \in DOMAIN log[p] : Known(log[p][i].Term)

\* The history: each state is made from the one before by a committed entry,
\* and the table of the last writes never falls.
doneAt(n, c) == IF c \in DOMAIN states[n].dup THEN states[n].dup[c] + 1 ELSE 0

StatesInv ==
    /\ Len(states) = Len(committed) + 1
    /\ states[1] = [KV |-> <<>>, dup |-> <<>>]
    /\ \A n \in DOMAIN committed : states[n + 1] = stateAfter(states[n], committed[n].Command)
    /\ \A m, n \in DOMAIN states : m <= n => \A c \in Client : doneAt(m, c) <= doneAt(n, c)

\* A server and its snapshot are at points of the history its log reaches.
ServerInv ==
    \A s \in Server :
        LET sv == server[s] IN
        /\ Deliverable(s, sv.delivered)
        /\ sv.lastApplied <= sv.delivered /\ sv.snapshot.index <= sv.delivered
        /\ [KV |-> sv.KV, dup |-> sv.dup] = states[sv.delivered + 1]
        /\ [KV |-> sv.snapshot.KV, dup |-> sv.snapshot.dup] = states[sv.snapshot.index + 1]

\* A reply in a channel is the reply to the entry at its index, and the
\* server has applied it.
replyAt(i) == apply(states[i].KV, states[i].dup, committed[i].Command).reply

ChannelInv ==
    \A s \in Server, i \in 1..MaxLog :
        LET ch == server[s].notifyChans[i] IN
        /\ ch.open => ch.bufs # <<>>
        /\ \A n \in DOMAIN ch.bufs :
              ch.bufs[n] # <<>> => i <= server[s].delivered /\ ch.bufs[n] = <<replyAt(i)>>

\* The clerk waits for this RPC, and then it carries its operation.
Current(h) == client[h.client].result = Nil /\ client[h.client].attempts = h.call

Ours(h) == h.call <= client[h.client].attempts /\ (Current(h) => h.op = client[h.client].op)

\* While its server leads, a handler's operation is where Start put it; and
\* if something was committed there before the call began, it is not that.
Waiting(h) == h.pc \in {"channel", "wait"}

Placed(h) ==
    Waiting(h) /\ h.server \in leaders =>
        /\ h.index <= Len(log[h.server]) /\ log[h.server][h.index] = entry(h)
        /\ Current(h) /\ h.index < client[h.client].since => committed[h.index] # entry(h)

\* Once a reply is there, it is the reply to this operation.
Replied(h) ==
    \E n \in DOMAIN server[h.server].notifyChans[h.index].bufs :
        server[h.server].notifyChans[h.index].bufs[n] # <<>>

Answered(h) ==
    Waiting(h) /\ Replied(h) =>
        /\ committed[h.index].Command = h.op
        /\ Current(h) => client[h.client].since <= h.index

HandlerInv == \A h \in handlers : Ours(h) /\ Placed(h) /\ Answered(h)

\* A write is of a call that returned, and then took effect, or of the call
\* in progress.
OpFits(o) ==
    o.OpType # "Get" =>
        /\ o.SeqId <= client[o.ClientId].seqId
        /\ o.SeqId = client[o.ClientId].seqId =>
              client[o.ClientId].result = Nil /\ client[o.ClientId].op = o

OpsInv ==
    /\ \A h \in handlers : OpFits(h.op)
    /\ \A i \in DOMAIN committed : OpFits(committed[i].Command)
    /\ \A s \in Server : \A i \in DOMAIN log[s] : OpFits(log[s][i].Command)

ClerkOK(c) ==
    LET ck == client[c]
        n == doneAt(Len(states), c)
    IN  /\ ck.result = Nil =>
              /\ ck.since \in DOMAIN states
              /\ ck.op.OpType # "Get" => ck.op.ClientId = c /\ ck.op.SeqId = ck.seqId
        /\ \/ n = ck.seqId
           \/ n = ck.seqId + 1 /\ ck.result = Nil /\ ck.op.OpType # "Get"

KVInv == TypeOK /\ WaitInv /\ TermInv /\ StatesInv /\ ServerInv /\ ChannelInv

CallInv == HandlerInv /\ OpsInv /\ \A c \in Client : ClerkOK(c)
=============================================================================
