SPECIFICATION SubscriptionSpec
CONSTANTS
  Base = 1
  Cap = 16
  Threshold = 10
  MaxFails = 1
  Methods <- MCMethods
  MaxInbox = 2
INVARIANTS SubscriptionTypeOK AttemptBounded SubscribedAsRecorded BlocksAsAnnounced
PROPERTIES Reconnects StopsAfterBackoff
CHECK_DEADLOCK FALSE
