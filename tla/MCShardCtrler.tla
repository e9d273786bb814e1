--------------------------- MODULE MCShardCtrler ---------------------------
(* An instance of ShardCtrler for TLC. *)
EXTENDS ShardCtrler, TLC

CONSTANTS c1, c2

\* Two of the orders in which Go may walk through a map.
Orders == {<<-1, 0, 1, 2, 3>>, <<3, 0, 2, 1, -1>>}

\* One clerk adds groups, the other one is the administrator who removes
\* them, moves shards and asks for configurations.
Programs ==
    (c1 :> {[OpType |-> "Join", Servers |-> groups] : groups \in {{1, 2}, {3}}}) @@
    (c2 :> {[OpType |-> "Leave", GIDs |-> gids] : gids \in {<<1>>, <<3, 2>>}} \cup
           {[OpType |-> "Move", Shard |-> 0, GID |-> 2]} \cup
           {[OpType |-> "Query", Num |-> -1]})

\* A call that returned leaves nothing behind; only a Query cares since when
\* it waits.
ClientView(ck) ==
    IF ck.result # Nil THEN <<ck.seqId, ck.calls>>
    ELSE <<ck.seqId, ck.calls, ck.op, IF ck.op.OpType = "Query" THEN ck.since ELSE 0>>

View == <<server, [c \in Client |-> ClientView(client[c])], proposed, committed, restarts>>
=============================================================================
