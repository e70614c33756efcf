SPECIFICATION TimedSpec
CONSTANTS
  Base = 1
  Cap = 16
  Threshold = 10
  MaxFails = 1
PROPERTIES ResetsAfterStable
CHECK_DEADLOCK FALSE
