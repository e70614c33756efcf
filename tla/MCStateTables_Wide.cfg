SPECIFICATION TablesSpec
CONSTANTS
  Roles = {"balance"}
  Kinds = {"transfers", "plain", "malformed"}
  ReadCount = 2
  ClaimCount = 4
  MaxLen = 10
  MaxEntries = 1
  MaxSessions = 1
  MaxFaults = 0
  MaxLosses = 0
  UserOf <- MCUserOf
  TokenOf <- MCTokenOf
  ZeroAddress = "zero"
  MaxInt = 6
  Nets <- MCNets
  Numbers <- MCNumbers
  Payload <- MCPayload
INVARIANT TransfersAreStorable
CHECK_DEADLOCK FALSE
