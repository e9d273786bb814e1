SPECIFICATION Spec
CONSTANTS
  Disturbing = {"meanwhile"}
  MaxIndex = 3
  MaxRestart = 1
CHECK_DEADLOCK FALSE
INVARIANT ServiceExact
