CONSTANTS
  None = None
  c1 = c1
  c2 = c2
  p1 = p1
  p2 = p2
  Controllers = {c1, c2}
  Programs = {p1, p2}
  Tasking <- Shared
  FirstRun <- FirstRunDefault
  Requests <- AllRequests
  MaxRequests = 3
  MaxFaults = 2
  MaxStarts = 2
SPECIFICATION FairSpec
INVARIANTS
  TypeOK
  ConfigurationKept
  AnsweredIsStored
  OperatorFollowsScheduler
PROPERTIES
  RequestsAnswered
CHECK_DEADLOCK FALSE
