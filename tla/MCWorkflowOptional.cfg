CONSTANTS
  NNodes = 4
  NCleanups = 2
  Plans <- FailFast
  MaxCancels = 0
SPECIFICATION Spec
INVARIANTS
  RequiredWorkReported
CHECK_DEADLOCK FALSE
