SPECIFICATION SupervisorSpec
CONSTANTS
  Plans <- MCPlans
  Allowlist = {"transfer"}
  MaxCalls <- MCCalls
  MaxPolls = 2
  MaxRequests = 1
  MaxFaults = 1
  MaxSignals = 2
  MaxFailures = 2
INVARIANTS SupervisorTypeOK StoppedEarlyNeverActs
PROPERTIES ShutdownCompletes
CHECK_DEADLOCK FALSE
