CONSTANTS
  None = None
  ReplyTimeout = 2
  ReplyMargin = 1
  FirstEventTimeout = 2
  Cadence = 1
  Ttl = 4
  Latency = 1
  MaxTime = 9
  MaxTrouble = 2
SPECIFICATION Spec
INVARIANTS
  FirstEventBound
CHECK_DEADLOCK FALSE
