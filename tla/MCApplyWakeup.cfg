SPECIFICATION Spec
CONSTANTS
  Disturbing = {}
  MaxIndex = 3
  MaxRestart = 0
CHECK_DEADLOCK FALSE
PROPERTY CommittedApplied
