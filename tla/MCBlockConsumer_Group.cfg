SPECIFICATION FairSpec
CONSTANTS
  Roles = {"state", "balance", "vector"}
  Kinds = {"transfers", "plain", "hex"}
  ReadCount = 2
  ClaimCount = 1
  MaxLen = 1
  MaxEntries = 2
  MaxSessions = 3
  MaxFaults = 1
  MaxLosses = 1
INVARIANTS TypeOK AckedIsDecided OncePerSession
PROPERTIES InOrder LedgerSpec EverySettles ShutdownEnds
CHECK_DEADLOCK FALSE
