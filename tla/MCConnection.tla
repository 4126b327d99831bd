---------------------------- MODULE MCConnection ----------------------------
(* Connection for TLC: what the connection is set up for.                   *)
EXTENDS Connection

\* Messages 1 to 4 of one short packet, 5 of two, 6 too long to share a datagram;
\* 7 and 8 on the second channel, 8 of two packets.
TheChan  == <<0, 0, 0, 0, 0, 0, 1, 1>>
TheParts == <<1, 1, 1, 1, 2, 1, 1, 2>>
TheSize  == <<2, 2, 2, 2, 6, 15, 2, 2>>

Quiet == [u \in Users |-> << >>]
Asks(s) == [u \in Users |-> s]

\* Ticks against a window of two packets: one message of two packets, two channels,
\* and SendImmediate past the window.
Windowed ==
  [ modes |-> <<"ReliableOrdered", "ReliableUnordered">>, congestion |-> "Conservative",
    batching |-> FALSE, mtu |-> 17, queued |-> <<1, 8, 2>>, immediate |-> Asks(<<7>>),
    arriving |-> {}, closes |-> FALSE ]

\* One reliable channel, and more packets than the loss tracker holds.
Lossy == [Windowed EXCEPT !.modes = <<"ReliableOrdered">>, !.queued = <<1, 2, 3>>,
                         !.immediate = Quiet]

\* Datagrams of several packets, limited by the MTU.
Batched ==
  [Windowed EXCEPT !.congestion = "Aggressive", !.batching = TRUE,
     !.modes = <<"Unreliable", "ReliableUnordered">>, !.queued = <<1, 5, 6>>,
     !.immediate = Quiet]

\* Datagrams limited by the count byte, and more packets than the batch queue takes.
Counted == [Batched EXCEPT !.queued = <<1, 2, 3, 4, 5>>]

\* SendImmediate beside the ticks, and an unreliable channel.
Immediate ==
  [Batched EXCEPT !.modes = <<"ReliableOrdered", "Unreliable">>, !.queued = <<1, 7>>,
     !.immediate = Asks(<<8, 2>>)]

\* The connection is torn down at any time.
Closing == [Immediate EXCEPT !.closes = TRUE, !.queued = <<1, 2>>, !.immediate = Asks(<<7>>)]

\* Packets of the peer on three channels, acked by data packets and by multi-acks.
Acking ==
  [Windowed EXCEPT !.modes = <<"ReliableOrdered", "Unreliable", "ReliableUnordered">>,
     !.queued = <<1, 7>>, !.immediate = Quiet,
     !.arriving = {<<0, 1>>, <<1, 2>>, <<1, 3>>, <<2, 1>>}]

AllSetups == {Windowed, Lossy, Batched, Counted, Immediate, Closing, Acking}
=============================================================================
