\* Both applications call Connection.Close; as many losses as retries.
CONSTANTS
  Scenarios <- BothClose
  MaxDisconnectRetries = 2
  MaxData = 1
  MaxLosses = 3
SPECIFICATION Spec
INVARIANTS
  OneOnDisconnect
  CloseIsHeard
  NoDeliverAfterRelease
CHECK_DEADLOCK FALSE
