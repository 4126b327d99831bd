\* Three messages one way, a 1-bit ack field and a window of two slots: a packet
\* can fall out of the field, and another one arrive beyond the window.
CONSTANTS
  AckBits = 1
  MaxReorderWindow = 2
  Nil = Nil
  Empty = Empty
  Mode = "ReliableOrdered"
  IsChannelZero = FALSE
  MaxRetransmits = 1
  ClientSends = 3
  ServerSends = 0
  MaxLosses = 0
  MaxDuplicates = 1
  MaxWriteErrors = 1
SPECIFICATION Spec
INVARIANTS
  AcksAreTruthful
  NothingForgotten
  ReorderBufferBounded
PROPERTIES
  DeliversAsPromised
CHECK_DEADLOCK FALSE
