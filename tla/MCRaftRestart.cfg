SPECIFICATION DeposedSpec
CONSTANTS
  s1 = s1
  s2 = s2
  s3 = s3
  c1 = c1
  Server = {s1, s2, s3}
  Nil = Nil
  Command = {c1}
  Overtaking = {}
  Impatient = {s1}
  MaxTerm = 4
  MaxLog = 1
  MaxEpoch = 1
SYMMETRY Symmetry
VIEW View
CHECK_DEADLOCK FALSE
INVARIANT LogMatching
INVARIANT LeaderCompleteness
INVARIANT MatchIndexSound
INVARIANT Durable
PROPERTY CommittedStays
PROPERTY VoteStable
