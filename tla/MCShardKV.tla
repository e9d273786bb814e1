----------------------------- MODULE MCShardKV -----------------------------
(* An instance of ShardKV for TLC, with configurations of ShardCtrler. *)
EXTENDS ShardKV, TLC

CONSTANTS c1, k1, k2

Ctrler == INSTANCE ShardCtrler WITH
    NShards <- 2, Order <- {}, Careless <- {}, MaxSeq <- 0, MaxLog <- 0, MaxRestart <- 0, Server <- {},
    server <- <<>>, proposed <- {}, committed <- <<>>, restarts <- 0

GidOrder == <<-1, 0, 1, 2, 3>>

\* Groups 1 and 2 join, group 1 leaves, group 3 joins: shard 0 goes from
\* group 1 to 2 and on to 3, shard 1 stays with group 2.
ConfigSeq ==
    LET joined == Ctrler!Join(Ctrler!NewCtrlerStateMachine, {1, 2}, GidOrder)
        left == Ctrler!Leave(joined, <<1>>, GidOrder)
    IN  Ctrler!Join(left, {3}, GidOrder)

AllConfigs == [n \in 0..LastNum |->
                 [Shards |-> ConfigSeq[n + 1].Shards, Groups |-> ConfigSeq[n + 1].Groups]]

ShardOfKey == [key \in Key |-> IF key = k1 THEN 0 ELSE 1]

Programs == (c1 :> <<<<"Put", k1>>, <<"Append", k1>>, <<"Get", k1>>>>)
=============================================================================
