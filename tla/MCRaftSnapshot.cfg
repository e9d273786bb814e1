SPECIFICATION DeposedSpec
CONSTANTS
  s1 = s1
  s2 = s2
  s3 = s3
  c1 = c1
  Server = {s1, s2, s3}
  Nil = Nil
  Command = {c1}
  Overtaking = {}
  Impatient = {s1}
  MaxTerm = 3
  MaxLog = 2
  MaxEpoch = 0
SYMMETRY Symmetry
VIEW View
CHECK_DEADLOCK FALSE
INVARIANT StateMachineSafety
INVARIANT CommitWithinLog
INVARIANT LeaderNeverPanics
PROPERTY LeaderAppendOnly
