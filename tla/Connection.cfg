SPECIFICATION FairSpec
CHECK_DEADLOCK FALSE
CONSTANTS
  AckBits = 2
  FieldBits = 2
  MaxReorderWindow = 0
  Nil = Nil
  Empty = Empty
  InitialCwnd = 2
  LossWindowSize = 2
  Group = 2
  Users = {"user"}
  Setups <- AllSetups
  Chan <- TheChan
  Parts <- TheParts
  Size <- TheSize
  MaxBatchQueueSize = 4
  MultiAckRoom = 32
  ReadBufferSize = 18
  MaxRetransmits = 1
  MaxWriteErrors = 1
INVARIANTS
  QueueIsFifo
  WithinWindow
  
  SlicesApart
  NothingVanishes
  
  
  LossIsExact
PROPERTIES
  SendsReachTheWire
