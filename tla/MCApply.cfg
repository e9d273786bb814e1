SPECIFICATION Spec
CONSTANTS
  Disturbing = {}
  MaxIndex = 4
  MaxRestart = 1
CHECK_DEADLOCK FALSE
INVARIANT ServiceExact
INVARIANT AppliedIsCommitted
 
 
