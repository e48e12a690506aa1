CONSTANTS
  NNodes = 4
  NCleanups = 2
  Plans <- AllPlans
  MaxCancels = 2
SPECIFICATION FairSpec
INVARIANTS
  TypeOK
  OwnedUntilEnded
  HardIsFinal
  CleanupOwed
  CompletedIsWhole
PROPERTIES
  ImplementsCommandRun
  EveryRunEnds
CHECK_DEADLOCK FALSE
