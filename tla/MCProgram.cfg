SPECIFICATION FairSpec
CONSTANTS
  c1 = c1
  c2 = c2
  x1 = x1
  noController = noController
  noContexts = noContexts
  Controllers <- TwoControllers
  Contexts <- OneContext
  NoController <- noController
  NoContexts <- noContexts
  MaxRequests = 3
  MaxTasks = 1
  MaxFaults = 1
INVARIANTS
  TypeOK OneSession WorkIsEnabled StopIsConfirmed
PROPERTIES
  RequestsAnswered
CHECK_DEADLOCK FALSE
