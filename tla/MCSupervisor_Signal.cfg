SPECIFICATION CooperativeSpec
CONSTANTS
  Plans <- MCPlans
  Allowlist = {"transfer"}
  MaxCalls <- MCCalls
  MaxPolls = 2
  MaxRequests = 1
  MaxFaults = 1
  MaxSignals = 2
  MaxFailures = 0
PROPERTIES SignalEndsProcess
CHECK_DEADLOCK FALSE
