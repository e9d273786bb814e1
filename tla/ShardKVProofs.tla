--------------------------- MODULE ShardKVProofs ---------------------------
(***************************************************************************)
(* One owner per shard, for any groups, shards and sequence of             *)
(* configurations, and any number of clerks.  The argument is about what   *)
(* one committed command may do to its group (Proceeds): every action is   *)
(* shown to be such a step or to leave the groups alone, and such a step   *)
(* keeps the invariant.                                                    *)
(***************************************************************************)
EXTENDS ShardKV, TLAPS

\* The part of NothingLeft that is about one group.
Clean(g, st) ==
    \A key \in Key :
        LET shard == key2shard[key]
            away == owner(st.Num, shard) # g /\ st.Status[shard] = Normal
        IN  away \/ st.Status[shard] = MoveIn => st.KV[key] = <<>>

\* The former owner of a shard that comes in has reached the configuration.
Fetched(g, shard) ==
    /\ group[g].Num > 0
    /\ \E h \in Group : owner(group[g].Num - 1, shard) = h /\ group[h].Num >= group[g].Num

\* A command within a configuration.
Within(g, new) ==
    /\ new.Num = group[g].Num
    /\ \A shard \in Shard :
          /\ group[g].Status[shard] = Normal => new.Status[shard] = Normal
          /\ new.Status[shard] = MoveIn => group[g].Status[shard] = MoveIn
          /\ group[g].Status[shard] = MoveIn /\ new.Status[shard] # MoveIn => Fetched(g, shard)

\* The change to the next configuration.
Advances(g, new) ==
    /\ new.Num = group[g].Num + 1
    /\ AllNormal(group[g])
    /\ \A shard \in Shard : new.Status[shard] = newStatus(g, group[g], new.Num, shard)

\* What a command may do to its group.
Proceeds(g, new) ==
    /\ IsState(new) /\ StatusFits(g, new) /\ Clean(g, new)
    /\ Within(g, new) \/ Advances(g, new)

\* The step of a group that becomes new.
StepTo(g, new) ==
    /\ group' = [group EXCEPT ![g] = new]
    /\ past' = [past EXCEPT ![g] = @ \cup {new}]

Inv == GroupInv /\ Handed /\ NothingLeft

LEMMA GroupsPositive == 0 \notin Group
BY ShardKVAssumption

\* A shard no group has got was with no group before.
LEMMA OwnersContinue ==
    ASSUME NEW m \in 0..LastNum, NEW n \in 0..LastNum, m <= n, NEW shard \in Shard,
           owner(n, shard) = 0
    PROVE  owner(m, shard) = 0
BY ConfigAssumption

LEMMA NothingLeftIsClean == NothingLeft <=> \A g \in Group : Clean(g, group[g])
BY DEF NothingLeft, Clean

LEMMA NumIsNat == \A st : IsState(st) => st.Num \in Nat /\ st.Num <= LastNum
<1> SUFFICES ASSUME NEW st, IsState(st)
             PROVE  st.Num \in Nat /\ st.Num <= LastNum
  OBVIOUS
<1>1. st.Num \in 0..LastNum
  BY DEF IsState
<1> QED
  BY <1>1, ShardKVAssumption

LEMMA GroupFacts ==
    ASSUME GroupInv, NEW g \in Group
    PROVE  /\ IsState(group[g]) /\ StatusFits(g, group[g])
           /\ \A st \in past[g] : IsState(st) /\ Behind(st, group[g])
BY DEF GroupInv

LEMMA StepKeepsGroups ==
    ASSUME Inv, NEW g \in Group, NEW new, Proceeds(g, new), StepTo(g, new)
    PROVE  GroupInv' /\ NothingLeft'
<1>1. group' = [h \in Group |-> IF h = g THEN new ELSE group[h]]
  BY DEF Inv, GroupInv, StepTo
<1>2. past' = [h \in Group |-> IF h = g THEN past[g] \cup {new} ELSE past[h]]
  BY DEF Inv, GroupInv, StepTo
<1>3. Behind(group[g], new)
  <2>1. group[g].Num \in Nat /\ new.Num \in Nat
    BY GroupFacts, NumIsNat DEF Inv, Proceeds
  <2>2. CASE Within(g, new)
    BY <2>1, <2>2 DEF Within, Behind
  <2>3. CASE Advances(g, new)
    BY <2>1, <2>3 DEF Advances, Behind
  <2>4. QED
    BY <2>2, <2>3 DEF Proceeds
<1>4. ASSUME NEW st \in past[g]
      PROVE  Behind(st, new)
  <2>1. Behind(st, group[g]) /\ st.Num \in Int /\ group[g].Num \in Int /\ new.Num \in Int
    BY GroupFacts, NumIsNat DEF Inv, Proceeds
  <2>2. QED
    BY <1>3, <2>1 DEF Behind
<1>5. Behind(new, new)
  BY DEF Behind, Proceeds, IsState
<1>6. ASSUME NEW h \in Group
      PROVE  /\ IsState(group'[h]) /\ StatusFits(h, group'[h]) /\ Clean(h, group'[h])
             /\ \A st \in past'[h] : IsState(st) /\ Behind(st, group'[h])
  <2>1. CASE h = g
    BY <1>1, <1>2, <1>4, <1>5, <2>1 DEF Inv, GroupInv, Proceeds
  <2>2. CASE h # g
    BY <1>1, <1>2, <2>2, NothingLeftIsClean DEF Inv, GroupInv
  <2>3. QED
    BY <2>1, <2>2
<1>7. GroupInv'
  BY <1>1, <1>2, <1>6 DEF GroupInv
<1>8. NothingLeft'
  BY <1>6 DEF NothingLeft, Clean
<1>9. QED
  BY <1>7, <1>8

\* The heart of the matter: a group that gets a shard in configuration k
\* gets it from the owner in k - 1, which has left that configuration and
\* had got it from its predecessors.
LEMMA StepKeepsHanded ==
    ASSUME Inv, NEW g \in Group, NEW new, Proceeds(g, new), StepTo(g, new)
    PROVE  Handed'
<1> SUFFICES ASSUME NEW a \in Group, NEW b \in Group, NEW shard \in Shard,
                    NEW j \in 0..LastNum, NEW k \in 0..LastNum,
                    owner(k, shard) = a, Got(a, shard, k)',
                    j <= k, b # a, owner(j, shard) = b
             PROVE  j < group'[b].Num
  BY DEF Handed
<1>1. group' = [h \in Group |-> IF h = g THEN new ELSE group[h]]
  BY DEF Inv, GroupInv, StepTo
<1>2. \A h \in Group : group[h].Num \in Nat
  BY GroupFacts, NumIsNat DEF Inv
<1>3. new.Num \in Nat /\ new.Num <= LastNum /\ j \in Nat /\ k \in Nat /\ LastNum \in Nat
  BY NumIsNat, ShardKVAssumption DEF Proceeds
<1>4. new.Num >= group[g].Num
  BY <1>2, <1>3 DEF Proceeds, Within, Advances
<1>5. SUFFICES j < group[b].Num
  BY <1>1, <1>2, <1>3, <1>4
<1>6. \A c \in Group, m \in 0..LastNum :
         owner(m, shard) = c /\ Got(c, shard, m) /\ j <= m /\ b # c => j < group[b].Num
  BY DEF Inv, Handed
<1>7. j # k
  OBVIOUS
<1>8. CASE a # g
  <2>1. Got(a, shard, k)
    BY <1>1, <1>8 DEF Got
  <2>2. QED
    BY <1>6, <2>1
<1>9. CASE a = g /\ Within(g, new)
  <2>1. CASE Got(g, shard, k)
    BY <1>6, <1>9, <2>1
  <2>2. CASE ~Got(g, shard, k)
    <3>1. /\ k = group[g].Num /\ group[g].Status[shard] = MoveIn
          /\ new.Status[shard] # MoveIn
      BY <1>1, <1>9, <2>2 DEF Got, Within
    <3>2. Fetched(g, shard)
      BY <1>9, <3>1 DEF Within
    <3>3. PICK h \in Group : owner(k - 1, shard) = h /\ group[h].Num >= k
      BY <3>1, <3>2 DEF Fetched
    <3>4. k - 1 \in 0..LastNum /\ j <= k - 1
      BY <1>3, <1>7
    <3>5. Got(h, shard, k - 1)
      BY <1>2, <1>3, <3>3 DEF Got
    <3>6. CASE b = h
      BY <1>2, <1>3, <3>3, <3>4, <3>6
    <3>7. CASE b # h
      BY <1>6, <3>3, <3>4, <3>5, <3>7
    <3>8. QED
      BY <3>6, <3>7
  <2>3. QED
    BY <2>1, <2>2
<1>10. CASE a = g /\ Advances(g, new)
  <2>1. group[g].Status[shard] # MoveIn
    BY <1>10 DEF Advances, AllNormal, Normal, MoveIn
  <2>2. CASE k <= group[g].Num
    <3>1. Got(g, shard, k)
      BY <1>2, <1>3, <2>1, <2>2 DEF Got
    <3>2. QED
      BY <1>6, <1>10, <3>1
  <2>3. CASE k > group[g].Num
    <3>1. group'[g] = new
      BY <1>1
    <3>2. k = new.Num /\ new.Num = group[g].Num + 1 /\ new.Status[shard] # MoveIn
      BY <1>2, <1>3, <1>10, <2>3, <3>1 DEF Got, Advances
    <3>3. new.Status[shard] = newStatus(g, group[g], k, shard)
      BY <1>10, <3>2 DEF Advances
    <3>4. group[g].Num \in 0..LastNum /\ group[g].Num = k - 1 /\ j <= group[g].Num
      BY <1>2, <1>3, <1>7, <3>2
    <3>5. owner(group[g].Num, shard) \in {g, 0}
      BY <1>10, <3>2, <3>3 DEF newStatus
    <3>6. owner(group[g].Num, shard) # 0
      BY <3>4, OwnersContinue, GroupsPositive
    <3>7. Got(g, shard, group[g].Num)
      BY <2>1 DEF Got
    <3>8. QED
      BY <1>6, <1>10, <3>4, <3>5, <3>6, <3>7
  <2>4. QED
    BY <1>2, <1>3, <2>2, <2>3
<1>11. QED
  BY <1>8, <1>9, <1>10 DEF Proceeds

-----------------------------------------------------------------------------
(* The actions. *)

LEMMA FetchProceeds ==
    ASSUME Inv, NEW g \in Group, NEW n \in 1..LastNum, fetchConfigTask(g, n)
    PROVE  Proceeds(g, applyNewConfig(g, group[g], n)) /\ AllNormal(group[g])
<1> DEFINE st == group[g]
           S == [shard \in Shard |-> newStatus(g, st, n, shard)]
           new == [Num |-> n, Status |-> S, KV |-> st.KV, dup |-> st.dup]
<1>1. IsState(st) /\ StatusFits(g, st) /\ Clean(g, st)
  BY GroupFacts, NothingLeftIsClean DEF Inv
<1>2. st.Num + 1 = n
  BY Zenon DEF fetchConfigTask, Becomes, applyNewConfig
<1>3. AllNormal(st)
  <2>1. PICK x \in past[g] : AllNormal(x) /\ x.Num + 1 = n
    BY DEF fetchConfigTask
  <2>2. Behind(x, st) /\ x.Num \in Nat /\ st.Num \in Nat
    BY <1>1, GroupFacts, NumIsNat DEF Inv
  <2>3. QED
    BY <1>2, <2>1, <2>2 DEF Behind, AllNormal
<1>4. applyNewConfig(g, st, n) = new
  BY Zenon, <1>1, <1>2 DEF applyNewConfig, IsState
<1>5. \A shard \in Shard : S[shard] = newStatus(g, st, n, shard) /\ st.Status[shard] = Normal
  BY <1>3 DEF AllNormal
<1>6. S \in [Shard -> Status]
  BY <1>5 DEF newStatus, Status
<1>7. IsState(new)
  BY <1>1, <1>6 DEF IsState
<1>8. StatusFits(g, new)
  BY <1>5 DEF StatusFits, newStatus, Normal, MoveIn, MoveOut, GC
<1>9. Clean(g, new)
  <2> SUFFICES ASSUME NEW key \in Key,
                      \/ owner(n, key2shard[key]) # g /\ S[key2shard[key]] = Normal
                      \/ S[key2shard[key]] = MoveIn
               PROVE  st.KV[key] = <<>>
    BY DEF Clean
  <2> DEFINE shard == key2shard[key]
  <2>1. shard \in Shard
    BY ShardKVAssumption
  <2>2. st.Num \in 0..LastNum /\ st.Num <= n
    BY <1>1, <1>2, NumIsNat, ShardKVAssumption
  <2>3. owner(n, shard) = 0 => owner(st.Num, shard) = 0
    BY <2>1, <2>2, OwnersContinue
  <2>4. owner(st.Num, shard) # g
    BY Zenon, <1>5, <2>1, <2>3, GroupsPositive DEF newStatus, Normal, MoveIn, MoveOut
  <2>5. QED
    BY <1>1, <1>5, <2>1, <2>4 DEF Clean
<1>10. Advances(g, new)
  BY <1>2, <1>3, <1>5 DEF Advances
<1>11. QED
  BY <1>3, <1>4, <1>7, <1>8, <1>9, <1>10 DEF Proceeds

\* The loops of the two shard commands handle nothing unexpected.
LEMMA HandledExpected ==
    ASSUME NEW ids, NEW expected, NEW done \in Handled(ids, expected)
    PROVE  done \subseteq ids /\ done \subseteq expected
BY DEF Handled

LEMMA MigrationProceeds ==
    ASSUME Inv, NEW g \in Group, NEW h \in Group, NEW args \in Requests(g, MoveIn, h),
           NEW x \in past[h], x.Num >= args.ConfigNum,
           NEW done \in Handled(args.ShardIds, InStatus(group[g], {MoveIn})),
           NEW new, new = applyShardMigration(group[g], GetShardsData(x, args), done),
           new # group[g]
    PROVE  Proceeds(g, new)
<1> DEFINE st == group[g]
           reply == GetShardsData(x, args)
           S == [shard \in Shard |-> IF shard \in done THEN GC ELSE st.Status[shard]]
           KV == [key \in Key |-> IF key2shard[key] \in done /\ reply.KV[key] # <<>>
                                   THEN reply.KV[key] ELSE st.KV[key]]
           dup == [c \in Client |-> IF st.dup[c] < reply.dup[c] THEN reply.dup[c] ELSE st.dup[c]]
           res == [Num |-> st.Num, Status |-> S, KV |-> KV, dup |-> dup]
<1>1. IsState(st) /\ StatusFits(g, st) /\ Clean(g, st)
  BY GroupFacts, NothingLeftIsClean DEF Inv
<1>2. done \subseteq args.ShardIds /\ \A shard \in done : shard \in Shard /\ st.Status[shard] = MoveIn
  BY HandledExpected DEF InStatus
<1>3. args.ConfigNum = st.Num /\ new = res
  BY Zenon, <1>1 DEF applyShardMigration, GetShardsData, IsState
<1>4. S \in [Shard -> Status]
  BY <1>1 DEF IsState, Status
<1>5. IsState(res)
  BY Zenon, <1>1, <1>4 DEF IsState
<1>6. StatusFits(g, res)
  BY <1>1, <1>2 DEF StatusFits
<1>7. Clean(g, res)
  <2> SUFFICES ASSUME NEW key \in Key,
                      \/ owner(st.Num, key2shard[key]) # g /\ S[key2shard[key]] = Normal
                      \/ S[key2shard[key]] = MoveIn
               PROVE  KV[key] = <<>>
    BY Zenon DEF Clean
  <2>1. key2shard[key] \in Shard
    BY ShardKVAssumption
  <2>2. key2shard[key] \notin done
    BY Zenon, <2>1 DEF Normal, MoveIn, GC
  <2>3. KV[key] = st.KV[key] /\ S[key2shard[key]] = st.Status[key2shard[key]]
    BY Zenon, <2>1, <2>2
  <2>4. QED
    BY Zenon, <1>1, <2>3 DEF Clean
<1>8. ASSUME NEW shard \in done
      PROVE  Fetched(g, shard)
  <2>1. PICK y \in past[g] : args = [ConfigNum |-> y.Num, ShardIds |-> getShardByStatus(y, MoveIn, h)]
    BY DEF Requests
  <2>2. y.Num > 0 /\ owner(y.Num - 1, shard) = h /\ y.Num = st.Num
    BY Zenon, <1>2, <1>3, <2>1 DEF getShardByStatus
  <2>3. x.Num <= group[h].Num /\ x.Num \in Nat /\ group[h].Num \in Nat /\ st.Num \in Nat
    BY GroupFacts, NumIsNat DEF Inv, Behind
  <2>4. group[h].Num >= st.Num
    BY <1>3, <2>3
  <2>5. QED
    BY <2>2, <2>4 DEF Fetched
<1>9. Within(g, res)
  BY Zenon, <1>2, <1>8 DEF Within, Normal, MoveIn, GC
<1>10. QED
  BY Zenon, <1>3, <1>5, <1>6, <1>7, <1>9 DEF Proceeds

LEMMA GCProceeds ==
    ASSUME Inv, NEW g \in Group, NEW args,
           NEW done \in Handled(args.ShardIds, InStatus(group[g], {MoveOut, GC})),
           NEW new, new = applyShardGC(group[g], args, done), new # group[g]
    PROVE  Proceeds(g, new)
<1> DEFINE st == group[g]
           S == [shard \in Shard |-> IF shard \in done THEN Normal ELSE st.Status[shard]]
           KV == [key \in Key |-> IF key2shard[key] \in done /\ st.Status[key2shard[key]] = MoveOut
                                   THEN <<>> ELSE st.KV[key]]
           res == [Num |-> st.Num, Status |-> S, KV |-> KV, dup |-> st.dup]
<1>1. IsState(st) /\ StatusFits(g, st) /\ Clean(g, st)
  BY GroupFacts, NothingLeftIsClean DEF Inv
<1>2. \A shard \in done : shard \in Shard /\ st.Status[shard] \in {MoveOut, GC}
  BY HandledExpected DEF InStatus
<1>3. new = res
  BY Zenon, <1>1 DEF applyShardGC, IsState
<1>4. S \in [Shard -> Status]
  BY <1>1 DEF IsState, Status
<1>5. IsState(res)
  BY <1>1, <1>4 DEF IsState
<1>6. StatusFits(g, res)
  BY <1>1 DEF StatusFits, Normal, MoveIn, GC
<1>7. Clean(g, res)
  <2> SUFFICES ASSUME NEW key \in Key,
                      \/ owner(st.Num, key2shard[key]) # g /\ S[key2shard[key]] = Normal
                      \/ S[key2shard[key]] = MoveIn
               PROVE  KV[key] = <<>>
    BY Zenon DEF Clean
  <2>1. key2shard[key] \in Shard
    BY ShardKVAssumption
  <2>2. CASE key2shard[key] \in done
    <3>1. owner(st.Num, key2shard[key]) # g
      BY <2>1, <2>2 DEF Normal, MoveIn
    <3>2. st.Status[key2shard[key]] = MoveOut
      BY <1>1, <1>2, <2>1, <2>2, <3>1 DEF StatusFits
    <3>3. QED
      BY <2>2, <3>2
  <2>3. CASE key2shard[key] \notin done
    <3>1. KV[key] = st.KV[key] /\ S[key2shard[key]] = st.Status[key2shard[key]]
      BY <2>1, <2>3
    <3>2. QED
      BY Zenon, <1>1, <3>1 DEF Clean
  <2>4. QED
    BY <2>2, <2>3
<1>8. Within(g, res)
  BY <1>2 DEF Within, Normal, MoveIn, MoveOut, GC
<1>9. QED
  BY Zenon, <1>3, <1>5, <1>6, <1>7, <1>8 DEF Proceeds

\* A client operation touches a key of a shard that its group serves.
LEMMA OperateProceeds ==
    ASSUME Inv, NEW g \in Group, NEW op,
           NEW new, new = applyClientOperation(g, group[g], op), new # group[g]
    PROVE  Proceeds(g, new)
<1> DEFINE st == group[g]
           KV == applyToStateMachine(st.KV, op)
           dup == [st.dup EXCEPT ![op.ClientId] = op.SeqId]
           res == [Num |-> st.Num, Status |-> st.Status, KV |-> KV, dup |-> dup]
<1>1. IsState(st) /\ StatusFits(g, st) /\ Clean(g, st)
  BY GroupFacts, NothingLeftIsClean DEF Inv
<1>2. matchGroup(g, st, op.Key) /\ new = res
  BY Zenon, <1>1 DEF applyClientOperation, IsState
<1>3. st.KV = [key \in Key |-> st.KV[key]]
  BY <1>1 DEF IsState
<1>4. KV = [key \in Key |-> KV[key]] /\ \A key \in Key : key # op.Key => KV[key] = st.KV[key]
  <2>1. CASE op.OpType = "Put"
    BY <1>3, <2>1 DEF applyToStateMachine
  <2>2. CASE op.OpType = "Append"
    BY Zenon, <1>3, <2>2 DEF applyToStateMachine
  <2>3. CASE op.OpType # "Put" /\ op.OpType # "Append"
    BY <1>3, <2>3 DEF applyToStateMachine
  <2>4. QED
    BY <2>1, <2>2, <2>3
<1> HIDE DEF KV, dup
<1>5. IsState(res)
  BY <1>1, <1>4 DEF IsState
<1>6. StatusFits(g, res)
  BY <1>1 DEF StatusFits
<1>7. Clean(g, res)
  <2> SUFFICES ASSUME NEW key \in Key,
                      \/ owner(st.Num, key2shard[key]) # g /\ st.Status[key2shard[key]] = Normal
                      \/ st.Status[key2shard[key]] = MoveIn
               PROVE  KV[key] = <<>>
    BY DEF Clean
  <2>1. key # op.Key
    BY <1>2 DEF matchGroup, Normal, MoveIn, GC
  <2>2. QED
    BY <1>1, <1>4, <2>1 DEF Clean
<1>8. Within(g, res)
  BY DEF Within
<1>9. QED
  BY <1>2, <1>5, <1>6, <1>7, <1>8 DEF Proceeds

-----------------------------------------------------------------------------
(* All steps. *)

\* What a step may do to the groups: nothing, or one command of one group.
GroupStep ==
    \/ group' = group /\ past' = past
    \/ \E g \in Group : \E new : Proceeds(g, new) /\ StepTo(g, new)

LEMMA BecomesIsGroupStep ==
    ASSUME Inv, NEW g, NEW new, Becomes(g, new), g \in Group => Proceeds(g, new)
    PROVE  GroupStep
<1>1. CASE g \in Group
  BY Zenon, <1>1 DEF GroupStep, Becomes, StepTo
<1>2. CASE g \notin Group
  BY Zenon, <1>2 DEF GroupStep, Becomes, Inv, GroupInv
<1>3. QED
  BY <1>1, <1>2

LEMMA NextIsGroupStep ==
    ASSUME Inv, [Next]_vars
    PROVE  GroupStep
<1>1. CASE Publish
  BY <1>1 DEF Publish, kvVars, GroupStep
<1>2. ASSUME NEW g \in Group, NEW n \in 1..LastNum, fetchConfigTask(g, n)
      PROVE  GroupStep
  BY <1>2, FetchProceeds, BecomesIsGroupStep DEF fetchConfigTask
<1>3. ASSUME NEW g \in Group, NEW h \in Group, shardMigrationTask(g, h)
      PROVE  GroupStep
  <2>1. PICK args \in Requests(g, MoveIn, h) :
           \E x \in past[h] :
              /\ x.Num >= args.ConfigNum
              /\ \E done \in Handled(args.ShardIds, InStatus(group[g], {MoveIn})) :
                    Becomes(g, applyShardMigration(group[g], GetShardsData(x, args), done))
    BY <1>3 DEF shardMigrationTask
  <2>2. PICK x \in past[h] :
           /\ x.Num >= args.ConfigNum
           /\ \E done \in Handled(args.ShardIds, InStatus(group[g], {MoveIn})) :
                 Becomes(g, applyShardMigration(group[g], GetShardsData(x, args), done))
    BY <2>1
  <2>3. PICK done \in Handled(args.ShardIds, InStatus(group[g], {MoveIn})) :
           Becomes(g, applyShardMigration(group[g], GetShardsData(x, args), done))
    BY <2>2
  <2>4. QED
    BY Zenon, <2>2, <2>3, MigrationProceeds, BecomesIsGroupStep DEF Becomes
<1>4. ASSUME NEW g \in Group, NEW h \in Group, DeleteShardsData(g, h)
      PROVE  GroupStep
  <2>1. PICK args \in Requests(g, GC, h) :
           \/ UNCHANGED <<group, past>>
           \/ \E done \in Handled(args.ShardIds, InStatus(group[h], {MoveOut, GC})) :
                 Becomes(h, applyShardGC(group[h], args, done))
    BY Zenon, <1>4 DEF DeleteShardsData
  <2>2. CASE UNCHANGED <<group, past>>
    BY <2>2 DEF GroupStep
  <2>3. CASE \E done \in Handled(args.ShardIds, InStatus(group[h], {MoveOut, GC})) :
                Becomes(h, applyShardGC(group[h], args, done))
    BY Zenon, <2>3, GCProceeds, BecomesIsGroupStep DEF Becomes
  <2>4. QED
    BY <2>1, <2>2, <2>3
<1>5. ASSUME NEW g, NEW args, shardGCTask(g, args)
      PROVE  GroupStep
  <2>1. PICK done \in Handled(args.ShardIds, InStatus(group[g], {MoveOut, GC})) :
           Becomes(g, applyShardGC(group[g], args, done))
    BY <1>5 DEF shardGCTask
  <2>2. QED
    BY Zenon, <2>1, GCProceeds, BecomesIsGroupStep DEF Becomes
<1>6. ASSUME NEW c \in Client, Call(c) \/ Query(c) \/ Send(c)
      PROVE  GroupStep
  BY Zenon, <1>6 DEF Call, Query, Send, kvVars, GroupStep
<1>7. ASSUME NEW g, NEW op, Operate(g, op)
      PROVE  GroupStep
  BY Zenon, <1>7, OperateProceeds, BecomesIsGroupStep DEF Operate, Becomes
<1>8. ASSUME NEW g, NEW op, AnswerGet(g, op) \/ AnswerWrite(g, op)
      PROVE  GroupStep
  BY Zenon, <1>8 DEF AnswerGet, AnswerWrite, kvVars, GroupStep
<1>9. CASE UNCHANGED vars
  BY <1>9 DEF vars, kvVars, GroupStep
<1>10. QED
  BY <1>1, <1>2, <1>3, <1>4, <1>5, <1>6, <1>7, <1>8, <1>9 DEF Next

LEMMA InitInv == Init => Inv
<1> SUFFICES ASSUME Init
             PROVE  Inv
  OBVIOUS
<1>1. \A g \in Group : group[g] = StartServer /\ past[g] = {StartServer}
  BY DEF Init
<1>2. IsState(StartServer)
  BY ShardKVAssumption DEF IsState, StartServer, Status
<1>3. \A g \in Group : StatusFits(g, StartServer) /\ Clean(g, StartServer)
  <2>1. \A key \in Key : key2shard[key] \in Shard /\ StartServer.KV[key] = <<>>
    BY ShardKVAssumption DEF StartServer
  <2>2. QED
    BY <2>1 DEF StatusFits, Clean, StartServer, Normal, MoveIn, GC
<1>4. Behind(StartServer, StartServer)
  BY DEF Behind, StartServer
<1>5. GroupInv
  BY <1>1, <1>2, <1>3, <1>4 DEF GroupInv, Init
<1>6. NothingLeft
  BY <1>1, <1>3, NothingLeftIsClean
<1>7. Handed
  <2> SUFFICES ASSUME NEW g \in Group, NEW shard \in Shard, NEW k \in 0..LastNum,
                      owner(k, shard) = g, Got(g, shard, k)
               PROVE  FALSE
    BY DEF Handed
  <2>1. k = 0
    BY <1>1, ShardKVAssumption DEF Got, StartServer
  <2>2. QED
    BY <2>1, ConfigAssumption, GroupsPositive
<1>8. QED
  BY <1>5, <1>6, <1>7 DEF Inv

LEMMA StepInv ==
    ASSUME Inv, [Next]_vars
    PROVE  Inv'
<1>1. GroupStep
  BY NextIsGroupStep
<1>2. CASE group' = group /\ past' = past
  BY <1>2 DEF Inv, GroupInv, Handed, NothingLeft, Got
<1>3. ASSUME NEW g \in Group, NEW new, Proceeds(g, new), StepTo(g, new)
      PROVE  Inv'
  BY <1>3, StepKeepsGroups, StepKeepsHanded DEF Inv
<1>4. QED
  BY <1>1, <1>2, <1>3 DEF GroupStep

\* Every reachable state satisfies the inductive invariant: statuses fit the
\* configuration, leaders that are behind know no more than their group, and
\* shards are handed from owner to owner.
THEOREM Invariance == Spec => []Inv
<1>1. Inv /\ [Next]_vars => Inv'
  BY StepInv
<1>2. QED
  BY InitInv, <1>1, PTL DEF Spec

\* At no time do two groups serve a shard, for any groups and any sequence of
\* configurations the controller may make: matchGroup holds for one of them.
THEOREM AtMostOneOwner == Spec => []OneOwner
<1>1. Inv => OneOwner
  <2> SUFFICES ASSUME Inv, NEW g \in Group, NEW h \in Group, NEW shard \in Shard,
                      serves(g, group[g], shard), serves(h, group[h], shard), g # h
               PROVE  FALSE
    BY DEF OneOwner
  <2>1. /\ group[g].Num \in 0..LastNum /\ group[h].Num \in 0..LastNum
        /\ group[g].Num \in Nat /\ group[h].Num \in Nat
    BY GroupFacts, NumIsNat, ShardKVAssumption DEF Inv
  <2>2. Got(g, shard, group[g].Num) /\ Got(h, shard, group[h].Num)
    BY DEF serves, Got, Normal, GC, MoveIn
  <2>3. owner(group[g].Num, shard) = g /\ owner(group[h].Num, shard) = h
    BY DEF serves
  <2>4. CASE group[g].Num <= group[h].Num
    BY <2>1, <2>2, <2>3, <2>4 DEF Inv, Handed
  <2>5. CASE group[h].Num <= group[g].Num
    BY <2>1, <2>2, <2>3, <2>5 DEF Inv, Handed
  <2>6. QED
    BY <2>1, <2>4, <2>5
<1>2. QED
  BY Invariance, <1>1, PTL

\* A group keeps nothing of a shard it has given away or not yet got, so that
\* the data applyShardMigration lays over its store are the shard's data.
THEOREM NothingStays == Spec => []NothingLeft
<1>1. Inv => NothingLeft
  BY DEF Inv
<1>2. QED
  BY Invariance, <1>1, PTL

\* A group takes a configuration only when it has finished with the one
\* before, although only a leader that may be behind tests it.
THEOREM OnlyNormalAdvances == Spec => AdvancesWhenNormal
<1>1. Inv /\ [Next]_vars =>
        [\A g \in Group : group'[g].Num # group[g].Num => AllNormal(group[g])]_vars
  <2> SUFFICES ASSUME Inv, [Next]_vars, NEW g \in Group, group'[g].Num # group[g].Num
               PROVE  AllNormal(group[g])
    OBVIOUS
  <2>1. PICK h \in Group : \E new : Proceeds(h, new) /\ StepTo(h, new)
    BY NextIsGroupStep DEF GroupStep
  <2>2. PICK new : Proceeds(h, new) /\ StepTo(h, new)
    BY <2>1
  <2>3. h = g /\ group'[g] = new
    BY Zenon, <2>2 DEF StepTo, Inv, GroupInv
  <2>4. QED
    BY <2>2, <2>3 DEF Proceeds, Within, Advances
<1>2. QED
  BY Invariance, <1>1, PTL DEF Spec, AdvancesWhenNormal
=============================================================================
