CONSTANTS
  AckBits = 2
  MaxReorderWindow = 5
  Nil = Nil
  Empty = Empty
  Mode = "ReliableOrdered"
  IsChannelZero = FALSE
  MaxRetransmits = 2
  ClientSends = 4
  ServerSends = 0
  MaxLosses = 0
  MaxDuplicates = 0
  MaxWriteErrors = 0
SPECIFICATION Spec
INVARIANT
  RetransmissionCanSucceed
CHECK_DEADLOCK FALSE
