CONSTANTS
  None = None
  empty = empty
  site = site
  EmptyInput = empty
  Targets <- OneTarget
  Inputs <- TwoInputs
  MaxRuns = 2
  Bounds <- Reported
SPECIFICATION FairSpec
PROPERTIES
  AbortingHeld
  ImplementsSerialExecution
  CancelTakesEffect
  TransitionEnds
CHECK_DEADLOCK FALSE
