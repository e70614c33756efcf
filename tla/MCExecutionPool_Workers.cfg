SPECIFICATION Spec
CONSTANTS
  Workers = {w1, w2}
  Starter = start
  Kinds = {"plain", "raising", "unparseable"}
  MaxConcurrent = 2
  FetchCount = 2
  ClaimCount = 1
  MaxLen = 1
  MaxEntries = 2
  MaxSessions = 2
  MaxFaults = 1
  MaxLosses = 1
INVARIANTS ExclusiveHolding AnsweredBeforeAck NonceUnique
PROPERTY LedgerSpec
SYMMETRY WorkerSymmetry
CHECK_DEADLOCK FALSE
