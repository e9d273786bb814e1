SPECIFICATION Spec
CONSTANTS
  c1 = c1
  c2 = c2
  Client = {c1, c2}
  Nil = Nil
  Server = {0, 1}
  NShards = 5
  Order <- Orders
  Program <- Programs
  Careless = {}
  MaxSeq = 2
  MaxLog = 3
  MaxRestart = 1
CHECK_DEADLOCK FALSE
INVARIANT ConfigsAgree
INVARIANT ShardsOnMembers
INVARIANT ExactlyOnce
INVARIANT QueryFresh
PROPERTY EvenlySpread
PROPERTY FewestMoves
VIEW View
