\* Connection.Close against Server.Stop, and Client.Close alone; every packet of
\* a close may be lost.
CONSTANTS
  Scenarios <- CloseAndStop
  MaxDisconnectRetries = 1
  MaxData = 0
  MaxLosses = 2
SPECIFICATION FairSpec
PROPERTIES
  CloseCompletes
  StopReturns
CHECK_DEADLOCK FALSE
