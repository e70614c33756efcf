SPECIFICATION Spec
CONSTANTS
  Roles = {"vector"}
  Kinds = {"transfers", "plain", "hex"}
  ReadCount = 2
  ClaimCount = 4
  MaxLen = 10
  MaxEntries = 1
  MaxSessions = 1
  MaxFaults = 0
  MaxLosses = 0
INVARIANT ValidatedIsAccepted
CHECK_DEADLOCK FALSE
