SPECIFICATION Spec
CONSTANTS
  Workers = {w1}
  Starter = start
  Kinds = {"conditional", "raising", "unparseable"}
  MaxConcurrent = 10
  FetchCount = 2
  ClaimCount = 2
  MaxLen = 2
  MaxEntries = 3
  MaxSessions = 2
  MaxFaults = 0
  MaxLosses = 0
INVARIANTS TypeOK OneTxPerSession SignedInOrder CompletedWasSent
CHECK_DEADLOCK FALSE
