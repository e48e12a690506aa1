SPECIFICATION FairSpec
CONSTANTS
  a = a
  d = d
  n = n
  o = o
  Others <- Other
  Names <- OneName
  Name <- OneService
  None = None
  Services <- One
  Entities <- Shared
  Declared <- OneEach
  MaxLosses = 1
  MaxFaults = 2
  MaxCrashes = 1
INVARIANTS
  TypeOK HoldersServe ReleasedAtEnd
PROPERTIES
  ServiceEnds
CHECK_DEADLOCK FALSE
