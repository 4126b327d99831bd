\* Two clients of either version, one place in each table, a lost and a
\* duplicated datagram.
CONSTANTS
  c1 = c1
  c2 = c2
  Clients = {c1, c2}
  Versions = {1, 2}
  ProtocolVersion = 1
  MaxConnections = 1
  MaxPending = 1
  MaxTokens = 3
  MaxLosses = 1
  MaxDuplicates = 1
SPECIFICATION FairSpec
INVARIANTS
  OnlyRespondersConnect
  
PROPERTIES
  NoLateInstall
  ConnectEnds
  NoHalfOpenConnection
CHECK_DEADLOCK FALSE
