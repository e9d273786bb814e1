------------------------------ MODULE ShardKV ------------------------------
(***************************************************************************)
(* The sharded key-value service of src/shardkv: groups that own shards,   *)
(* follow the configurations of the shard controller one by one, fetch     *)
(* the shards they gain from their former owners and have them deleted     *)
(* there, while clerks read and write.                                     *)
(*                                                                         *)
(* A group is a replicated state machine.  group[g] is its state after all *)
(* committed commands.  A leader may be behind, because it has just been   *)
(* elected or restarted: whatever handlers and tasks read before they      *)
(* propose a command is one of the states in past[g].  Proposing and       *)
(* committing is one step; that the proposer read its state long before is *)
(* covered by past.  Snapshots save and restore the whole state, so that a *)
(* server that restarts from one is in a past state, too.                  *)
(***************************************************************************)
EXTENDS Integers, Sequences

CONSTANTS Group,       \* the gids
          Shard, Key, Client, Nil,
          key2shard,   \* the shard of each key
          LastNum,
          Configs,     \* the configurations 0..LastNum the controller makes, one after the other
          Program      \* bound: per clerk, its calls, pairs of a type and a key

ASSUME ShardKVAssumption ==
    /\ LastNum \in Nat
    /\ Program \in [Client -> Seq({"Get", "Put", "Append"} \X Key)]
    /\ Group \subseteq Nat \ {0}
    /\ key2shard \in [Key -> Shard]
    /\ Configs \in [0..LastNum -> [Shards : [Shard -> Group \cup {0}], Groups : SUBSET Group]]

\* The number of a configuration stands for it.
owner(n, shard) == Configs[n].Shards[shard]

\* What the controller guarantees, and that not all groups leave at a time:
\* a shard is with a member, and once it is with a group it stays with one.
ASSUME ConfigAssumption ==
    /\ \A shard \in Shard : owner(0, shard) = 0
    /\ \A n \in 0..LastNum, shard \in Shard : owner(n, shard) \in Configs[n].Groups \cup {0}
    /\ \A m, n \in 0..LastNum, shard \in Shard : m <= n /\ owner(n, shard) = 0 => owner(m, shard) = 0

VARIABLES group,       \* per group, its state
          past,        \* per group, the states it has been in
          published,   \* the number of the controller's latest configuration
          deleted,     \* replies OK of DeleteShardsData: the new owner and its request
          client,      \* the structs Clerk, with the call in progress
          sent,        \* the operations that were sent to a group
          seen         \* history: per clerk, the values of its key during its call

kvVars == <<group, past, deleted>>
clientVars == <<client, sent, seen>>
vars == <<kvVars, published, clientVars>>

Normal == "Normal"
MoveIn == "MoveIn"
MoveOut == "MoveOut"
GC == "GC"
Status == {Normal, MoveIn, MoveOut, GC}

-----------------------------------------------------------------------------
(* The state of a group and its client operations. *)

\* currentConfig is number Num, prevConfig the one before.  An absent key has
\* the value <<>>, as Get tells it.
StartServer ==
    [Num |-> 0, Status |-> [shard \in Shard |-> Normal],
     KV |-> [key \in Key |-> <<>>], dup |-> [c \in Client |-> -1]]

matchGroup(g, st, key) ==
    /\ owner(st.Num, key2shard[key]) = g
    /\ st.Status[key2shard[key]] \in {Normal, GC}

requestDuplicated(st, op) == op.OpType # "Get" /\ op.SeqId <= st.dup[op.ClientId]

applyToStateMachine(KV, op) ==
    CASE op.OpType = "Put"    -> [KV EXCEPT ![op.Key] = <<op.Value>>]
      [] op.OpType = "Append" -> [KV EXCEPT ![op.Key] = Append(@, op.Value)]
      [] OTHER                -> KV

\* Group g applies op; the reply is KV[op.Key], or ErrWrongGroup.
applyClientOperation(g, st, op) ==
    IF ~matchGroup(g, st, op.Key) \/ requestDuplicated(st, op) \/ op.OpType = "Get" THEN st
    ELSE [st EXCEPT !.KV = applyToStateMachine(@, op), !.dup[op.ClientId] = op.SeqId]

-----------------------------------------------------------------------------
(* Changes of the configuration: src/shardkv/conf_change.go. *)

\* The status of a shard after the change to configuration n.
newStatus(g, st, n, shard) ==
    IF owner(st.Num, shard) # g /\ owner(n, shard) = g /\ owner(st.Num, shard) # 0 THEN MoveIn
    ELSE IF owner(st.Num, shard) = g /\ owner(n, shard) # g /\ owner(n, shard) # 0 THEN MoveOut
    ELSE st.Status[shard]

applyNewConfig(g, st, n) ==
    IF st.Num + 1 # n THEN st
    ELSE [st EXCEPT !.Num = n, !.Status = [shard \in Shard |-> newStatus(g, st, n, shard)]]

\* The loops over shards stop at the first one with an unexpected status;
\* shards come in any order.
Handled(ids, expected) == IF ids \subseteq expected THEN {ids} ELSE SUBSET (ids \cap expected)

InStatus(st, statuses) == {shard \in Shard : st.Status[shard] \in statuses}

applyShardMigrationNoTable(st, reply, done) ==
    IF reply.ConfigNum # st.Num THEN st
    ELSE [st EXCEPT
            !.KV = [key \in Key |-> IF key2shard[key] \in done /\ reply.KV[key] # <<>>
                                    THEN reply.KV[key] ELSE @[key]],
            !.Status = [shard \in Shard |-> IF shard \in done THEN GC ELSE @[shard]]]

\* reply is [ConfigNum, ShardIds, KV, dup]; done are the shards its loop handles.
applyShardMigration(st, reply, done) ==
    IF reply.ConfigNum # st.Num THEN st
    ELSE [st EXCEPT
            !.KV = [key \in Key |-> IF key2shard[key] \in done /\ reply.KV[key] # <<>>
                                    THEN reply.KV[key] ELSE @[key]],
            !.Status = [shard \in Shard |-> IF shard \in done THEN GC ELSE @[shard]],
            !.dup = [c \in Client |-> IF @[c] < reply.dup[c] THEN reply.dup[c] ELSE @[c]]]

applyShardGCKeepsData(st, args, done) ==
    IF args.ConfigNum # st.Num THEN st
    ELSE [st EXCEPT !.Status = [shard \in Shard |-> IF shard \in done THEN Normal ELSE @[shard]]]


\* The new owner keeps a shard in GC, the former owner clears one in MoveOut.
applyShardGC(st, args, done) ==
    IF args.ConfigNum # st.Num THEN st
    ELSE [st EXCEPT
            !.KV = [key \in Key |-> IF key2shard[key] \in done /\ st.Status[key2shard[key]] = MoveOut
                                    THEN <<>> ELSE @[key]],
            !.Status = [shard \in Shard |-> IF shard \in done THEN Normal ELSE @[shard]]]

-----------------------------------------------------------------------------
(* The tasks of a leader: src/shardkv/task.go. *)

\* A command that changes nothing is no step.
Becomes(g, st) ==
    /\ st # group[g]
    /\ group' = [group EXCEPT ![g] = st]
    /\ past' = [past EXCEPT ![g] = @ \cup {st}]

AllNormal(st) == \A shard \in Shard : st.Status[shard] = Normal

fetchConfigTaskEarly(g, n) ==
    /\ n <= published
    /\ {st \in past[g] : st.Num + 1 = n} # {}
    /\ Becomes(g, applyNewConfig(g, group[g], n))
    /\ UNCHANGED <<published, deleted, clientVars>>

\* The configuration a leader of g fetches, and commits: the one after that
\* of the state it reads.
fetchConfigTask(g, n) ==
    /\ n <= published
    /\ {st \in past[g] : AllNormal(st) /\ st.Num + 1 = n} # {}
    /\ Becomes(g, applyNewConfig(g, group[g], n))
    /\ UNCHANGED <<published, deleted, clientVars>>

\* The shards of a status, by the group they come from.
getShardByStatus(st, status, h) ==
    {shard \in Shard : st.Status[shard] = status /\ st.Num > 0 /\ owner(st.Num - 1, shard) = h}

\* The requests leaders of g may have for group h about shards of a status.
Requests(g, status, h) ==
    {[ConfigNum |-> st.Num, ShardIds |-> getShardByStatus(st, status, h)] :
        st \in {x \in past[g] : getShardByStatus(x, status, h) # {} /\ h \in Configs[x.Num - 1].Groups}}

\* The answer of a leader of the former owner that is in state st.
GetShardsData(st, args) ==
    [ConfigNum |-> args.ConfigNum, ShardIds |-> args.ShardIds, KV |-> st.KV, dup |-> st.dup]

shardMigrationTaskUnready(g, h) ==
    /\ \E args \in Requests(g, MoveIn, h) :
          \E reply \in {GetShardsData(st, args) : st \in past[h]} :
             \E done \in Handled(args.ShardIds, InStatus(group[g], {MoveIn})) :
                Becomes(g, applyShardMigration(group[g], reply, done))
    /\ UNCHANGED <<published, deleted, clientVars>>

shardMigrationTask(g, h) ==
    /\ \E args \in Requests(g, MoveIn, h) :
          \E reply \in {GetShardsData(st, args) : st \in {x \in past[h] : x.Num >= args.ConfigNum}} :
             \E done \in Handled(args.ShardIds, InStatus(group[g], {MoveIn})) :
                Becomes(g, applyShardMigration(group[g], reply, done))
    /\ UNCHANGED <<published, deleted, clientVars>>

\* Called by g: a leader of h that is past the configuration has nothing to
\* do, others commit the command.
DeleteShardsData(g, h) ==
    /\ \E args \in Requests(g, GC, h) :
          /\ \/ /\ \/ {st \in past[h] : st.Num > args.ConfigNum} # {}
                   \/ \E done \in Handled(args.ShardIds, InStatus(group[h], {MoveOut, GC})) :
                         group[h] = applyShardGC(group[h], args, done)
                /\ UNCHANGED <<group, past>>
             \/ \E done \in Handled(args.ShardIds, InStatus(group[h], {MoveOut, GC})) :
                   Becomes(h, applyShardGC(group[h], args, done))
          /\ deleted' = deleted \cup {<<g, args>>}
    /\ UNCHANGED <<published, clientVars>>

\* It has returned OK, and shardGCTask of g goes on.
shardGCTask(g, args) ==
    /\ <<g, args>> \in deleted
    /\ \E done \in Handled(args.ShardIds, InStatus(group[g], {MoveOut, GC})) :
          Becomes(g, applyShardGC(group[g], args, done))
    /\ UNCHANGED <<published, deleted, clientVars>>

\* The controller makes its next configuration.
Publish ==
    /\ published < LastNum
    /\ published' = published + 1
    /\ UNCHANGED <<kvVars, clientVars>>

-----------------------------------------------------------------------------
(* Clerks and the handlers Get and PutAppend: src/shardkv/client.go, server.go. *)

\* The group that has the data of a shard: the one that serves it, or else
\* the one that waits for the new owner to fetch it.  0 if there is none.
serves(g, st, shard) == owner(st.Num, shard) = g /\ st.Status[shard] \in {Normal, GC}

holder(groups, shard) ==
    IF \E g \in Group : serves(g, groups[g], shard)
    THEN CHOOSE g \in Group : serves(g, groups[g], shard)
    ELSE IF \E g \in Group : groups[g].Status[shard] = MoveOut
    THEN CHOOSE g \in Group : groups[g].Status[shard] = MoveOut ELSE 0

valueOf(groups, key) ==
    LET g == holder(groups, key2shard[key]) IN IF g = 0 THEN <<>> ELSE groups[g].KV[key]

MakeClerk == [op |-> Nil, seqId |-> 0, calls |-> 0, config |-> 0, result |-> <<>>]

Call(c) ==
    LET call == Program[c][client[c].calls + 1]
        op == [OpType |-> call[1], Key |-> call[2], Value |-> <<c, client[c].seqId>>,
               ClientId |-> c, SeqId |-> client[c].seqId, call |-> client[c].calls]
    IN
    /\ client[c].result # Nil /\ client[c].calls < Len(Program[c])
    /\ client' = [client EXCEPT ![c].op = op, ![c].result = Nil, ![c].calls = @ + 1]
    /\ seen' = [seen EXCEPT ![c] = {valueOf(group, op.Key)}]
    /\ UNCHANGED <<kvVars, published, sent>>


\* The clerk asks the controller for the latest configuration.
Query(c) ==
    /\ client[c].result = Nil
    /\ client' = [client EXCEPT ![c].config = published]
    /\ UNCHANGED <<kvVars, published, sent, seen>>

\* The RPC goes to the group that owns the shard in the clerk's configuration.
Send(c) ==
    LET g == owner(client[c].config, key2shard[client[c].op.Key]) IN
    /\ client[c].result = Nil
    /\ g \in Configs[client[c].config].Groups
    /\ sent' = sent \cup {<<g, client[c].op>>}
    /\ UNCHANGED <<kvVars, published, client, seen>>

\* The reply reaches the clerk, if it still waits for it.
Answer(op, value) ==
    LET c == op.ClientId IN
    /\ client[c].result = Nil /\ client[c].op = op
    /\ client' = [client EXCEPT ![c].result = value,
                                ![c].seqId = IF op.OpType = "Get" THEN @ ELSE @ + 1]
    /\ seen' = [seen EXCEPT ![c] = {}]

\* The states of leaders of g that take op as a duplicate, or as new.
Accepting(g, op, duplicated) ==
    {st \in past[g] : matchGroup(g, st, op.Key) /\ requestDuplicated(st, op) = duplicated}

\* A new op is proposed, committed and applied.  Every call in progress sees
\* the new value.
Operate(g, op) ==
    /\ Accepting(g, op, FALSE) # {}
    /\ Becomes(g, applyClientOperation(g, group[g], op))
    /\ seen' = [d \in Client |-> IF client[d].result = Nil
                                 THEN seen[d] \cup {valueOf(group', client[d].op.Key)} ELSE seen[d]]
    /\ UNCHANGED <<deleted, published, client, sent>>

\* The reply to a Get that was applied.
AnswerGet(g, op) ==
    /\ op.OpType = "Get" /\ matchGroup(g, group[g], op.Key)
    /\ Answer(op, group[g].KV[op.Key])
    /\ UNCHANGED <<kvVars, published, sent>>

\* The reply to a Put or Append that was applied, or was found to be a duplicate.
AnswerWrite(g, op) ==
    /\ Accepting(g, op, TRUE) # {}
    /\ Answer(op, <<>>)
    /\ UNCHANGED <<kvVars, published, sent>>

Init ==
    /\ group = [g \in Group |-> StartServer]
    /\ past = [g \in Group |-> {StartServer}]
    /\ published = 0 /\ deleted = {}
    /\ client = [c \in Client |-> MakeClerk]
    /\ sent = {} /\ seen = [c \in Client |-> {}]

Next ==
    \/ Publish
    \/ \E g \in Group, n \in 1..LastNum : fetchConfigTask(g, n)
    \/ \E g, h \in Group : shardMigrationTask(g, h)
    \/ \E g, h \in Group : DeleteShardsData(g, h)
    \/ \E d \in deleted : shardGCTask(d[1], d[2])
    \/ \E c \in Client : Call(c)
    \/ \E c \in Client : Query(c)
    \/ \E c \in Client : Send(c)
    \/ \E s \in sent : Operate(s[1], s[2])
    \/ \E s \in sent : AnswerGet(s[1], s[2])
    \/ \E s \in sent : AnswerWrite(s[1], s[2])

Spec == Init /\ [][Next]_vars

-----------------------------------------------------------------------------
(* Properties. *)

\* At most one group serves a shard: matchGroup holds for one of them only,
\* however far each has followed the configurations.
OneOwner ==
    \A g, h \in Group, shard \in Shard :
        serves(g, group[g], shard) /\ serves(h, group[h], shard) => g = h

\* A group takes the next configuration only when all its shards are Normal.
\* applyNewConfig does not test it; fetchConfigTask of a leader that may be
\* behind did.
AdvancesWhenNormal ==
    [][\A g \in Group : group'[g].Num # group[g].Num => AllNormal(group[g])]_vars

\* A group keeps nothing of a shard it has given away or not yet got: the
\* data it will fetch are laid over what it has (conf_change.go:85).
NothingLeft ==
    \A g \in Group, key \in Key :
        LET shard == key2shard[key]
            away == owner(group[g].Num, shard) # g /\ group[g].Status[shard] = Normal
        IN  away \/ group[g].Status[shard] = MoveIn => group[g].KV[key] = <<>>

Store ==
    INSTANCE KVStore WITH
        store <- [key \in {k \in Key : valueOf(group, k) # <<>>} |-> valueOf(group, key)],
        done <- [c \in Client |-> CHOOSE n \in 0..Len(Program[c]) :
                   /\ \E g \in Group : group[g].dup[c] = n - 1
                   /\ \A g \in Group : group[g].dup[c] <= n - 1],
        op <- [c \in Client |-> client[c].op],
        result <- [c \in Client |-> client[c].result],
        seen <- seen

\* To its clients the service is one store: no write is lost or repeated by
\* a migration, a retry at another group or a stale leader, and a Get returns
\* a value its key had during the call.
OneStore == Store!StoreSpec

\* Leaders go on with their tasks and clerks with their calls, and a message
\* that is sent again and again arrives.
Fairness ==
    /\ \A g \in Group :
          /\ WF_vars(\E n \in 1..LastNum : fetchConfigTask(g, n))
          /\ WF_vars(\E h \in Group : shardMigrationTask(g, h))
          /\ WF_vars(\E h \in Group : DeleteShardsData(g, h))
          /\ WF_vars(\E d \in deleted : d[1] = g /\ shardGCTask(g, d[2]))
    /\ \A c \in Client :
          /\ WF_vars(Query(c)) /\ WF_vars(Send(c))
          /\ WF_vars(\E s \in sent : s[2] = client[c].op /\ Operate(s[1], s[2]))
          /\ WF_vars(\E s \in sent : s[2] = client[c].op /\ (AnswerGet(s[1], s[2]) \/ AnswerWrite(s[1], s[2])))

FairSpec == Spec /\ Fairness



-----------------------------------------------------------------------------
(* The inductive invariant behind OneOwner, NothingLeft and AdvancesWhenNormal. *)

\* The struct has its fields, and its maps have all their keys.
IsState(st) ==
    /\ st = [Num |-> st.Num, Status |-> st.Status, KV |-> st.KV, dup |-> st.dup]
    /\ st.Num \in 0..LastNum
    /\ st.Status \in [Shard -> Status]
    /\ st.KV = [key \in Key |-> st.KV[key]]

\* A leader that is behind in the same configuration has not more shards
\* Normal than its group.
Behind(st, now) ==
    /\ st.Num <= now.Num
    /\ st.Num = now.Num =>
          \A shard \in Shard : st.Status[shard] = Normal => now.Status[shard] = Normal

\* A shard that comes in is the group's by now.
StatusFits(g, st) ==
    \A shard \in Shard : st.Status[shard] \in {MoveIn, GC} => owner(st.Num, shard) = g

\* Group g has had the data of a shard in configuration k.
Got(g, shard, k) ==
    \/ k < group[g].Num
    \/ k = group[g].Num /\ group[g].Status[shard] # MoveIn

\* If the owner in configuration k has got the shard, every other owner in k
\* or before has left the configuration in which it was the owner.
Handed ==
    \A g, h \in Group, shard \in Shard, j, k \in 0..LastNum :
        /\ owner(k, shard) = g /\ Got(g, shard, k)
        /\ j <= k /\ h # g /\ owner(j, shard) = h
        => j < group[h].Num

GroupInv ==
    /\ group = [g \in Group |-> group[g]] /\ past = [g \in Group |-> past[g]]
    /\ \A g \in Group :
          /\ IsState(group[g]) /\ StatusFits(g, group[g])
          /\ \A st \in past[g] : IsState(st) /\ Behind(st, group[g])
=============================================================================
