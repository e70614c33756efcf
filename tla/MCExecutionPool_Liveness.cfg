SPECIFICATION FairSpec
CONSTANTS
  Workers = {w1, w2}
  Starter = start
  Kinds = {"plain", "conditional", "unparseable"}
  MaxConcurrent = 1
  FetchCount = 1
  ClaimCount = 2
  MaxLen = 10
  MaxEntries = 2
  MaxSessions = 1
  MaxFaults = 0
  MaxLosses = 1
PROPERTY EverySettles
CHECK_DEADLOCK FALSE
