\* Two messages, one lost datagram and one retransmission: enough for a packet
\* to be acked late, to be retransmitted, and to exhaust its retransmissions.
CONSTANTS
  AckBits = 1
  MaxReorderWindow = 2
  Nil = Nil
  Empty = Empty
  Mode = "ReliableOrdered"
  IsChannelZero = TRUE
  MaxRetransmits = 1
  ClientSends = 2
  ServerSends = 0
  MaxLosses = 1
  MaxDuplicates = 0
  MaxWriteErrors = 0
SPECIFICATION FairSpec
PROPERTIES
  EveryPacketSettles
  EventualDelivery
CHECK_DEADLOCK FALSE
