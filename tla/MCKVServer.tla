---------------------------- MODULE MCKVServer ----------------------------
(* Instances of KVServer for TLC. *)
EXTENDS KVHistory

CONSTANTS c1, c2, k

\* One clerk writes, the other reads.
Programs == (c1 :> {"Append"}) @@ (c2 :> {"Get"})

Attempts == (c1 :> 2) @@ (c2 :> 1)

\* A later start: server 0 was elected.
LedInit ==
    /\ leaders = {0} /\ currentTerm = [s \in Server |-> 1]
    /\ log = [s \in Server |-> <<>>] /\ committed = <<>>
    /\ server = [s \in Server |-> StartKVServer(NoSnapshot)]
    /\ handlers = {} /\ client = [c \in Client |-> MakeClerk] /\ restarts = 0
    /\ states = <<[KV |-> <<>>, dup |-> <<>>]>>
    /\ events = <<>>

LedSpec == LedInit /\ [][TestedNext]_<<vars, events>>

(***************************************************************************)
(* The checker decides as its reference does, for every history of three   *)
(* calls within the times 1 to 3: two writes and a Get on one key, and a   *)
(* write and two Gets on two keys.                                         *)
(***************************************************************************)
Intervals == {t \in (1..3) \X (1..3) : t[1] <= t[2]}

Timed(op, key, value, output, t) ==
    [Input |-> [Op |-> op, Key |-> key, Value |-> value], Output |-> output, Call |-> t[1], Return |-> t[2]]

Outputs == {<<>>, <<1>>, <<2>>, <<1, 2>>, <<2, 1>>}

TestHistories ==
    {<<Timed("Append", k, 1, <<>>, t), Timed(op, k, 2, <<>>, u), Timed("Get", k, Nil, out, v)>> :
        op \in {"Put", "Append"}, out \in Outputs,
        t \in Intervals, u \in Intervals, v \in Intervals}
    \cup
    {<<Timed("Append", k, 1, <<>>, t), Timed("Get", key, Nil, out, u), Timed("Get", k, Nil, out2, v)>> :
        key \in {k, Nil}, out \in {<<>>, <<1>>}, out2 \in {<<>>, <<1>>},
        t \in Intervals, u \in Intervals, v \in Intervals}

ASSUME CheckerExact == \A history \in TestHistories : CheckOperations(history) = Linearizable(history)

(***************************************************************************)
(* What the future of a state depends on.  A handler whose clerk has given *)
(* up answers nobody.  A channel no handler holds and the map no longer    *)
(* has is garbage; its number is free.                                     *)
(***************************************************************************)
Held(s, i, n) == \E h \in handlers : h.server = s /\ h.index = i /\ h.chan = n /\ h.pc = "wait"

ChannelView(s, i) ==
    LET ch == server[s].notifyChans[i] IN
    {<<n, ch.bufs[n], ch.open /\ n = Len(ch.bufs)>> :
        n \in {m \in DOMAIN ch.bufs : Held(s, i, m) \/ (ch.open /\ m = Len(ch.bufs))}}

HandlerView(h) ==
    IF Current(h) THEN [h EXCEPT !.op = Nil]
    ELSE [h EXCEPT !.call = 0, !.op = IF h.pc \in {"arrived", "start"} THEN @ ELSE Nil]

\* Of a call that returned only the sequence number is left.
ClientView(ck) ==
    [ck EXCEPT !.leaderId = IF ck.result # Nil /\ ck.calls = MaxSeq THEN 0 ELSE @,
               !.attempts = IF ck.result # Nil /\ ck.calls = MaxSeq THEN 0 ELSE @,
               !.since = IF ck.result # Nil \/ ck.op.OpType # "Get" THEN 0 ELSE @,
               !.op = IF ck.result # Nil THEN Nil ELSE @,
               !.result = IF ck.result # Nil THEN <<>> ELSE @]

\* Every clerk calls once here.  Of the history matters which calls returned
\* what, and before which others began; at the end, what the checker says.
Over == Quiet /\ \A c \in Client : client[c].calls = MaxSeq

HistoryView ==
    IF Over THEN <<CheckOperations(Operations)>>
    ELSE <<{<<events[i].client, events[i].result>> : i \in {n \in DOMAIN events : events[n].kind = "return"}},
           {<<events[p[1]].client, events[p[2]].client>> :
               p \in {q \in (DOMAIN events) \X (DOMAIN events) :
                        q[1] < q[2] /\ events[q[1]].kind = "return" /\ events[q[2]].kind = "call"}}>>

View ==
    <<HistoryView, logVars, currentTerm, restarts,
      [s \in Server |-> [server[s] EXCEPT !.notifyChans = [i \in 1..MaxLog |-> ChannelView(s, i)]]],
      {HandlerView(h) : h \in handlers},
      [c \in Client |-> ClientView(client[c])]>>
=============================================================================
