SPECIFICATION LedSpec
CONSTANTS
  c1 = c1
  c2 = c2
  k = k
  Client = {c1, c2}
  Key = {k}
  Nil = Nil
  Server = {0, 1}
  Program <- Programs
  maxraftstate = 2
  Handover = {}
  MaxSeq = 1
  MaxAttempts <- Attempts
  MaxLog = 3
  MaxTerm = 2
  MaxRestart = 1
VIEW View
CHECK_DEADLOCK FALSE
INVARIANT ReplicasAgree
INVARIANT ApplyNeverBlocks
INVARIANT HistoryAccepted
PROPERTY OneStore
