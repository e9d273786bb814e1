SPECIFICATION ElectedSpec
CONSTANTS
  s1 = s1
  s2 = s2
  s3 = s3
  c1 = c1
  Server = {s1, s2, s3}
  Nil = Nil
  Command = {c1}
  Overtaking = {"requests"}
  Impatient = {s1, s2, s3}
  MaxTerm = 3
  MaxLog = 1
  MaxEpoch = 0
SYMMETRY Symmetry
VIEW View
CHECK_DEADLOCK FALSE
INVARIANT StateMachineSafety
