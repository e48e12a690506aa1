SPECIFICATION FairSpec
CONSTANTS
  x1 = x1
  Demands <- OperateOrShutdown
  Contexts <- OneContext
  InitialStates = {"OPERATE", "ERROR"}
  RecoverAfter = 2
  RecoveryAttempts = 1
  MaxRequests = 1
  MaxFaults = 2
  MaxQueue = 2
INVARIANTS
  TypeOK
  NothingLeftBehind
  TransitionIsCommanded
PROPERTIES
  DeparturesAreNews
  DemandIsMet
CHECK_DEADLOCK FALSE
