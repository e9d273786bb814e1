SPECIFICATION FairSpec
CONSTANTS
  c1 = c1
  k1 = k1
  k2 = k2
  Client = {c1}
  Nil = Nil
  Group = {1, 2, 3}
  Shard = {0, 1}
  Key = {k1, k2}
  key2shard <- ShardOfKey
  LastNum = 3
  Configs <- AllConfigs
  Program <- Programs
CHECK_DEADLOCK FALSE
INVARIANT OneOwner
INVARIANT NothingLeft
PROPERTY AdvancesWhenNormal
PROPERTY OneStore
 
 
