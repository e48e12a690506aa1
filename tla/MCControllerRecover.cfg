CONSTANTS
  None = None
  empty = empty
  site = site
  EmptyInput = empty
  Targets <- OneTarget
  Inputs <- OneInput
  MaxRuns = 1
  Bounds <- ReportAndRestart
SPECIFICATION Spec
PROPERTIES
  RecoveredIsLatest
CHECK_DEADLOCK FALSE
