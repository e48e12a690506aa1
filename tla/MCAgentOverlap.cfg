CONSTANTS
  None = None
  c1 = c1
  c2 = c2
  p1 = p1
  p2 = p2
  Controllers = {c1}
  Programs = {p1}
  Tasking <- OneEach
  FirstRun <- FirstRunDefault
  Requests <- SomeRequests
  MaxRequests = 1
  MaxFaults = 0
  MaxStarts = 1
SPECIFICATION Spec
INVARIANTS
  OperatingKept
CHECK_DEADLOCK FALSE
