---------------------------- MODULE ShardCtrler ----------------------------
(***************************************************************************)
(* The shard controller of src/shardctrler: Join, Leave and Move make new  *)
(* configurations, Query reads one.  The algorithm that spreads the shards *)
(* over the groups is translated statement by statement; the service       *)
(* around it is that of KVServer, which has the details of its handlers    *)
(* and channels.  Here a clerk's RPC may reach any server any number of    *)
(* times, and a proposed operation may be committed late, again or never.  *)
(*                                                                         *)
(* The servers' names of a group are left out: Groups is a set of gids.    *)
(***************************************************************************)
EXTENDS Integers, SequencesExt

CONSTANTS Server, Client, Nil,
          NShards,
          Order,       \* the orders in which Go may walk through a map: sequences of all gids
          Program,     \* per clerk, the operations it calls
          Careless,    \* {"move"}: clerks move shards to groups that are no members
          MaxSeq,      \* bound: calls of a clerk
          MaxLog,      \* bound: committed entries
          MaxRestart   \* bound: restarts

AllShards == 0..NShards - 1

VARIABLES server,      \* the structs ShardCtrler
          client,      \* the structs Clerk, with the call in progress
          proposed,    \* the operations a leader has put into its log
          committed,   \* the entries Raft has committed
          restarts

vars == <<server, client, proposed, committed, restarts>>

-----------------------------------------------------------------------------
(* src/shardctrler/state_machine.go. *)

DefaultConfig == [Num |-> 0, Shards |-> [shard \in AllShards |-> 0], Groups |-> {}]

NewCtrlerStateMachine == <<DefaultConfig>>

Query(configs, num) ==
    IF num < 0 \/ num >= Len(configs) THEN Last(configs) ELSE configs[num + 1]

\* The map from gids to their shards that Join and Leave work on.
gidToShards(config) ==
    [gid \in config.Groups \cup {config.Shards[shard] : shard \in AllShards} |->
        SelectSeq([i \in 1..NShards |-> i - 1], LAMBDA shard : config.Shards[shard] = gid)]

ShardsOf(gids, gid) == IF gid \in DOMAIN gids THEN gids[gid] ELSE <<>>

give(gids, gid, shard) == [g \in DOMAIN gids \cup {gid} |->
                             IF g = gid THEN Append(ShardsOf(gids, gid), shard) ELSE gids[g]]

\* The keys of the map as the loop over it finds them, and what sort.Ints
\* makes of them.
unsortedGids(gids, order) == SelectSeq(order, LAMBDA gid : gid \in DOMAIN gids)

sortInts(list) ==
    [i \in DOMAIN list |-> CHOOSE x \in ToSet(list) : Cardinality({y \in ToSet(list) : y < x}) = i - 1]

sortedGids(gids, order) == sortInts(unsortedGids(gids, order))

\* The first gid in the list whose number of shards no other one exceeds.
gidWithMaxShards(gids, order) ==
    LET list == sortedGids(gids, order)
        most == Max({Len(gids[gid]) : gid \in DOMAIN gids})
    IN  IF ShardsOf(gids, 0) # <<>> THEN 0
        ELSE SelectSeq(list, LAMBDA gid : Len(gids[gid]) = most)[1]

gidWithMinShards(gids, order) ==
    LET list == SelectSeq(sortedGids(gids, order), LAMBDA gid : gid # 0)
        least == Min({Len(gids[gid]) : gid \in DOMAIN gids \ {0}})
    IN  IF list = <<>> THEN -1 ELSE SelectSeq(list, LAMBDA gid : Len(gids[gid]) = least)[1]

\* The loop of Join.
RECURSIVE moveShards(_, _)
moveShards(gids, order) ==
    LET maxGid == gidWithMaxShards(gids, order)
        minGid == gidWithMinShards(gids, order)
    IN  IF maxGid # 0 /\ Len(gids[maxGid]) - Len(ShardsOf(gids, minGid)) <= 1 THEN gids
        ELSE moveShards([give(gids, minGid, Head(gids[maxGid])) EXCEPT ![maxGid] = Tail(@)], order)

\* The map turned round.
newShards(gids) ==
    [shard \in AllShards |->
        IF \E gid \in DOMAIN gids : Contains(gids[gid], shard)
        THEN CHOOSE gid \in DOMAIN gids : Contains(gids[gid], shard) ELSE 0]

JoinForgetsNew(configs, groups, order) ==
    LET joined == [Last(configs) EXCEPT !.Num = Len(configs), !.Groups = @ \cup groups]
    IN  Append(configs, [joined EXCEPT !.Shards = newShards(moveShards(gidToShards(Last(configs)), order))])

JoinFromScratch(configs, groups, order) ==
    LET joined == [Last(configs) EXCEPT !.Num = Len(configs), !.Groups = @ \cup groups,
                                        !.Shards = [shard \in AllShards |-> 0]]
    IN  Append(configs, [joined EXCEPT !.Shards = newShards(moveShards(gidToShards(joined), order))])

Join(configs, groups, order) ==
    LET lastConfig == Last(configs)
        joined == [lastConfig EXCEPT !.Num = Len(configs), !.Groups = @ \cup groups]
    IN  Append(configs, [joined EXCEPT !.Shards = newShards(moveShards(gidToShards(joined), order))])

\* The shards of the groups that leave, in the order of the call.
unassigned(gids, leaving) == FlattenSeq([i \in DOMAIN leaving |-> ShardsOf(gids, leaving[i])])

LeaveKeepsGid(configs, leaving, order) ==
    LET lastConfig == Last(configs)
        gids == gidToShards(lastConfig)
        groups == lastConfig.Groups \ ToSet(leaving)
        kept == [gid \in DOMAIN gids |-> IF Contains(leaving, gid) THEN <<>> ELSE gids[gid]]
        spread == FoldLeft(LAMBDA m, shard : give(m, gidWithMinShards(m, order), shard),
                           kept, unassigned(gids, leaving))
    IN  Append(configs, [Num |-> Len(configs), Groups |-> groups,
                         Shards |-> newShards(IF groups = {} THEN <<>> ELSE spread)])

Leave(configs, leaving, order) ==
    LET lastConfig == Last(configs)
        gids == gidToShards(lastConfig)
        groups == lastConfig.Groups \ ToSet(leaving)
        kept == [gid \in DOMAIN gids \ ToSet(leaving) |-> gids[gid]]
        spread == FoldLeft(LAMBDA m, shard : give(m, gidWithMinShards(m, order), shard),
                           kept, unassigned(gids, leaving))
    IN  Append(configs, [Num |-> Len(configs), Groups |-> groups,
                         Shards |-> newShards(IF groups = {} THEN <<>> ELSE spread)])

Move(configs, shard, gid) ==
    Append(configs, [Last(configs) EXCEPT !.Num = Len(configs), !.Shards[shard] = gid])

-----------------------------------------------------------------------------
(* The service: src/shardctrler/server.go and client.go. *)

StartServer == [lastApplied |-> 0, configs |-> NewCtrlerStateMachine, dup |-> [c \in Client |-> -1]]

requestDuplicatedLess(sv, op) == op.OpType # "Query" /\ op.SeqId < sv.dup[op.ClientId]

\* dup[c] is the SeqId of c's last operation, -1 if there is none.
requestDuplicated(sv, op) == op.OpType # "Query" /\ op.SeqId <= sv.dup[op.ClientId]

applyToStateMachine(configs, op, order) ==
    CASE op.OpType = "Query" -> configs
      [] op.OpType = "Join"  -> Join(configs, op.Servers, order)
      [] op.OpType = "Leave" -> Leave(configs, op.GIDs, order)
      [] op.OpType = "Move"  -> Move(configs, op.Shard, op.GID)

MakeClerk == [op |-> Nil, seqId |-> 0, calls |-> 0, result |-> DefaultConfig, since |-> 1]

\* A clerk's method begins.  A careful clerk moves shards to groups that
\* are members, as a Query would tell it.
Call(c, args) ==
    /\ client[c].result # Nil /\ client[c].calls < MaxSeq
    /\ args.OpType = "Move" /\ "move" \notin Careless =>
          \E s \in Server : /\ server[s].lastApplied = Len(committed)
                            /\ args.GID \in Last(server[s].configs).Groups
    /\ client' = [client EXCEPT
          ![c].op = args @@ [ClientId |-> c, SeqId |-> client[c].seqId, call |-> client[c].calls],
          ![c].result = Nil, ![c].calls = @ + 1,
          ![c].since = Max({Len(server[s].configs) : s \in Server})]
    /\ UNCHANGED <<server, proposed, committed, restarts>>

\* The reply reaches the clerk c if it still waits for that of op.
Answer(c, op, config) ==
    /\ client[c].result = Nil /\ client[c].op = op
    /\ client' = [client EXCEPT ![c].result = config,
                                ![c].seqId = IF op.OpType = "Query" THEN @ ELSE @ + 1]

\* What the RPC finds at server s: a duplicate, or Start.
commandLocalQuery(c, s) ==
    LET op == client[c].op IN
    /\ client[c].result = Nil
    /\ \/ /\ requestDuplicated(server[s], op) \/ op.OpType = "Query"
          /\ Answer(c, op, Last(server[s].configs))
          /\ UNCHANGED proposed
       \/ /\ ~requestDuplicated(server[s], op)
          /\ proposed' = proposed \cup {op}
          /\ UNCHANGED client
    /\ UNCHANGED <<server, committed, restarts>>

command(c, s) ==
    LET op == client[c].op IN
    /\ client[c].result = Nil
    /\ \/ /\ requestDuplicated(server[s], op)
          /\ Answer(c, op, DefaultConfig)
          /\ UNCHANGED proposed
       \/ /\ ~requestDuplicated(server[s], op)
          /\ proposed' = proposed \cup {op}
          /\ UNCHANGED client
    /\ UNCHANGED <<server, committed, restarts>>

Commit(op) ==
    /\ Len(committed) < MaxLog
    /\ committed' = Append(committed, op)
    /\ UNCHANGED <<server, client, proposed, restarts>>

\* Server s applies its next entry; the reply may get lost, or nobody waits.
applyTask(s, order) ==
    LET sv == server[s]
        op == committed[sv.lastApplied + 1]
        new == IF requestDuplicated(sv, op) THEN sv.configs ELSE applyToStateMachine(sv.configs, op, order)
    IN
    /\ sv.lastApplied < Len(committed)
    /\ server' = [server EXCEPT ![s] = [lastApplied |-> sv.lastApplied + 1, configs |-> new,
          dup |-> IF op.OpType = "Query" \/ requestDuplicated(sv, op) THEN sv.dup
                  ELSE [sv.dup EXCEPT ![op.ClientId] = op.SeqId]]]
    /\ \/ Answer(op.ClientId, op, IF op.OpType = "Query" THEN Query(new, op.Num) ELSE DefaultConfig)
       \/ UNCHANGED client
    /\ UNCHANGED <<proposed, committed, restarts>>

\* A server starts again with nothing; Raft delivers the whole log to it.
Restart(s) ==
    /\ restarts < MaxRestart
    /\ restarts' = restarts + 1
    /\ server' = [server EXCEPT ![s] = StartServer]
    /\ UNCHANGED <<client, proposed, committed>>

Init ==
    /\ server = [s \in Server |-> StartServer]
    /\ client = [c \in Client |-> MakeClerk]
    /\ proposed = {} /\ committed = <<>> /\ restarts = 0

Next ==
    \/ \E c \in Client : \E args \in Program[c] : Call(c, args)
    \/ \E c \in Client, s \in Server : command(c, s)
    \/ \E op \in proposed : Commit(op)
    \/ \E s \in Server, order \in Order : applyTask(s, order)
    \/ \E s \in Server : Restart(s)

Spec == Init /\ [][Next]_vars

-----------------------------------------------------------------------------
(* Properties. *)

\* Of two servers one has the configurations of the other and perhaps more,
\* whatever the order in which each walks through its maps: "the gids are
\* sorted so that every node gets the same configuration"
\* (state_machine.go:187), also over restarts.
ConfigsAgree ==
    \A s, t \in Server :
        IsPrefix(server[s].configs, server[t].configs) \/ IsPrefix(server[t].configs, server[s].configs)

\* A shard is never assigned to a group that is not a member, and to group 0
\* only while there are no groups.
ShardsOnMembers ==
    \A s \in Server, n \in 1..MaxLog + 1 : n <= Len(server[s].configs) =>
        LET config == server[s].configs[n]
        IN  \A shard \in AllShards : config.Shards[shard] \in
                IF config.Groups = {} THEN {0} ELSE config.Groups

\* Every Join, Leave and Move makes exactly one configuration, however often
\* it was proposed and committed, and it is committed before its clerk returns.
ExactlyOnce ==
    /\ \A s \in Server : Len(server[s].configs) = 1 + FoldFunction(+, 0, [c \in Client |-> server[s].dup[c] + 1])
    /\ \A c \in Client : \A n \in 0..client[c].seqId - 1 :
          \E i \in DOMAIN committed : LET op == committed[i] IN
              op.OpType # "Query" /\ op.ClientId = c /\ op.SeqId = n

\* Query(-1) returns a configuration at least as new as any a server had
\* when it was called.
QueryFresh ==
    \A c \in Client :
        /\ client[c].result # Nil /\ client[c].op # Nil
        /\ client[c].op.OpType = "Query" /\ client[c].op.Num = -1
        => client[c].result.Num + 1 >= client[c].since

Balanced(shards, groups) ==
    \A g, h \in groups :
        Cardinality({i \in AllShards : shards[i] = g}) - Cardinality({i \in AllShards : shards[i] = h}) <= 1

BalancedConfig(config) == Balanced(config.Shards, config.Groups)

\* Server s makes a new configuration, by the operation operation(s).
makesConfig(s) ==
    server'[s].lastApplied = server[s].lastApplied + 1 /\ server'[s].configs # server[s].configs

operation(s) == committed[server[s].lastApplied + 1]

\* A Join leaves the shards evenly spread, even after Moves; a Leave leaves
\* them so if they were.
EvenlySpread ==
    [][\A s \in Server : makesConfig(s) =>
          \/ operation(s).OpType = "Move"
          \/ operation(s).OpType = "Leave" /\ ~BalancedConfig(Last(server[s].configs))
          \/ BalancedConfig(Last(server'[s].configs))]_vars

Moved(shards0, shards) == Cardinality({shard \in AllShards : shards0[shard] # shards[shard]})

\* A Join moves no more shards than any other even spread would; a Leave
\* moves only those of the groups that leave.
FewestMoves ==
    [][\A s \in Server : makesConfig(s) =>
          LET op == operation(s)
              old == Last(server[s].configs)
              new == Last(server'[s].configs)
              moved == Moved(old.Shards, new.Shards)
          IN
          /\ op.OpType = "Join" => \A shards \in [AllShards -> new.Groups] :
                Moved(old.Shards, shards) < moved => ~Balanced(shards, new.Groups)
          /\ op.OpType = "Leave" => \A shard \in AllShards :
                old.Shards[shard] # new.Shards[shard] => Contains(op.GIDs, old.Shards[shard])]_vars
=============================================================================
