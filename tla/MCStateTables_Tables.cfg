SPECIFICATION TablesSpec
CONSTANTS
  Roles = {"state", "balance"}
  Kinds = {"transfers", "plain", "malformed"}
  ReadCount = 2
  ClaimCount = 4
  MaxLen = 10
  MaxEntries = 2
  MaxSessions = 3
  MaxFaults = 1
  MaxLosses = 0
  UserOf <- MCUserOf
  TokenOf <- MCTokenOf
  ZeroAddress = "zero"
  MaxInt = 6
  Nets <- MCNets
  Numbers <- MCNumbers
  Payload <- MCPayload
INVARIANTS TablesTypeOK RowIsNewest BalancesReplayStream FlowIsTransfers
  ClampedExactly
PROPERTIES TotalNeverShrinks Spec RepositorySpec
CHECK_DEADLOCK FALSE
