SPECIFICATION ElectedSpec
CONSTANTS
  s1 = s1
  s2 = s2
  s3 = s3
  c1 = c1
  Server = {s1, s2, s3}
  Nil = Nil
  Command = {c1}
  Bytes = {c1}
  Impatient = {s1, s3}
  Serving = {s1, s2}
  Lagging = {s1}
  Compacting = {s2}
  Crashing = {s2}
  MaxTerm = 3
  MaxLog = 1
  MaxEpoch = 1
VIEW View
CHECK_DEADLOCK FALSE
INVARIANT ElectionSafety
INVARIANT StateMachineSafety
 
INVARIANT ReadsWithinLog
INVARIANT AsleepOnlyWhenIdle
PROPERTY VoteStable
