CONSTANTS
  None = None
  empty = empty
  site = site
  EmptyInput = empty
  Targets <- OneTarget
  Inputs <- TwoInputs
  MaxRuns = 2
  Bounds <- Disturbances
SPECIFICATION Spec
INVARIANTS
  TypeOK
  PublicationHonest
  InterruptionLatched
PROPERTIES
  SettlementHonest
CHECK_DEADLOCK FALSE
