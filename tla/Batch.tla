------------------------------- MODULE Batch --------------------------------
(***************************************************************************)
(* The batch frame (batch.go): a count byte, then a two-byte length and    *)
(* the bytes of each encrypted packet.                                     *)
(***************************************************************************)
EXTENDS Wire

BatchHeaderSize == 1
BatchLenSize    == 2
MaxPerBatch     == ByteBase - 1      \* 255 in the code

BatchEntry(pkt) == LittleEndian(Len(pkt), BatchLenSize) \o pkt

\* The frame of packets: MarshalBatch, the datagrams of flushBatch, sendFramed.
MarshalBatch(packets) ==
  <<Len(packets) % ByteBase>>
    \o FlattenSeq([i \in DOMAIN packets |-> BatchEntry(packets[i])])

BadBatch == [ok |-> FALSE, packets |-> << >>]

RECURSIVE ReadBatchEntries(_, _)
ReadBatchEntries(data, count) ==
  IF count = 0 THEN [ok |-> TRUE, packets |-> << >>]
  ELSE IF Len(data) < BatchLenSize THEN BadBatch
  ELSE LET pktLen == FromLittleEndian(SubSeq(data, 1, BatchLenSize))
           body   == Drop(data, BatchLenSize)
       IN  IF Len(body) < pktLen THEN BadBatch
           ELSE LET rest == ReadBatchEntries(Drop(body, pktLen), count - 1)
                IN  IF ~rest.ok THEN BadBatch
                    ELSE [ ok |-> TRUE,
                           packets |-> <<SubSeq(body, 1, pktLen)>> \o rest.packets ]

UnmarshalBatch(data) ==
  IF data = << >> \/ data[1] = 0 THEN BadBatch
  ELSE ReadBatchEntries(Tail(data), data[1])

\* Whether the packets go into one datagram of flushBatch, none of them being too
\* long for a datagram shared with others.
ShareDatagram(packets, mtu) ==
  /\ Len(packets) <= MaxPerBatch
  /\ Len(MarshalBatch(packets)) <= mtu

\* Mutant: one packet more than the count byte can say.
MutDatagramLen(packets, mtu) ==
  LET fits(n) == /\ n <= ByteBase
                 /\ Len(MarshalBatch(SubSeq(packets, 1, n))) <= mtu
  IN  IF ~fits(1) THEN 1
      ELSE Max({n \in DOMAIN packets : \A k \in 1..n : fits(k)})

\* How many of the packets the next datagram of flushBatch takes: as many as fit,
\* and one that fits in no shared datagram goes alone.
DatagramLen(packets, mtu) ==
  LET fits(n) == ShareDatagram(SubSeq(packets, 1, n), mtu)
  IN  IF ~fits(1) THEN 1
      ELSE Max({n \in DOMAIN packets : \A k \in 1..n : fits(k)})

=============================================================================
