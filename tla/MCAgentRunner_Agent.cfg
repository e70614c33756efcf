SPECIFICATION AgentSpec
CONSTANTS
  Plans <- MCPlans
  Allowlist = {"transfer"}
  MaxCalls <- MCCalls
  MaxPolls = 2
  MaxRequests = 1
  MaxFaults = 1
INVARIANTS AgentTypeOK QueuedWasChecked ToldIsQueued ActingSetsThePace
PROPERTIES StopCompletes
CHECK_DEADLOCK FALSE
