----------------------------- MODULE ChannelOps -----------------------------
(***************************************************************************)
(* The methods of fastwire's `channel` type (channel.go), as operators on  *)
(* a channel record.  A method that returns a result and changes its       *)
(* receiver becomes two operators, or one that returns both.               *)
(*                                                                         *)
(* Data abstraction.                                                       *)
(*  - recvAckField, a 32-bit word, is the set of the distances d in        *)
(*    1..AckBits whose bit d - 1 is set: it says recvAck - d was received. *)
(*  - pendingSend, a slice, is a set of records: its order is never used.  *)
(*    A record keeps `packet`, the pre-encryption bytes that every         *)
(*    retransmission sends again, and the retransmission count.            *)
(*  - recvBuffer, a map, is a function on the buffered sequence numbers.   *)
(*  - Time is left out: which pending packets are due is a parameter.      *)
(* Sequence numbers are naturals: a channel sends fewer than 2^32 packets. *)
(***************************************************************************)
EXTENDS Integers, Sequences

CONSTANTS
  AckBits,            \* width of the ack bitfield: 32 in the code
  MaxReorderWindow,   \* Config.MaxReorderWindow; 0 means unbounded
  Nil,                \* a nil payload: the placeholder of a fragment
  Empty               \* a non-nil payload of length 0

ASSUME ChannelOpsAssumption ==
  /\ AckBits \in Nat \ {0}
  /\ MaxReorderWindow \in Nat
  /\ Nil \notin Nat /\ Empty \notin Nat /\ Nil # Empty

ReliableModes   == {"ReliableOrdered", "ReliableUnordered"}
UnreliableModes == {"Unreliable", "UnreliableSequenced"}
Modes           == ReliableModes \union UnreliableModes

Reliable(c) == c.mode \in ReliableModes

\* newChannels: both counters of a channel start so that sequence 1 is first.
NewChannel(mode) ==
  [ mode            |-> mode,
    sendSeq         |-> 0,
    recvAck         |-> 0,
    recvAckField    |-> {},
    pendingSend     |-> {},
    recvBuffer      |-> << >>,
    recvNextDeliver |-> 1,
    lastRecvSeq     |-> 0,
    needsAck        |-> FALSE ]

-----------------------------------------------------------------------------
(* Sending.                                                                *)

NextSequence(c) == [c EXCEPT !.sendSeq = @ + 1]

PendingPacket(packet) == [packet |-> packet, retransmitCount |-> 0]

AddPending(c, packet) ==
  [c EXCEPT !.pendingSend = @ \union {PendingPacket(packet)}]

\* Mutant: the ack taken for a cumulative one.
MutIsAcked(seq, ack, field) == seq <= ack

IsAcked(seq, ack, field) ==
  \/ seq = ack
  \/ seq < ack /\ ack - seq \in field

ProcessAcks(c, ack, field) ==
  [c EXCEPT !.pendingSend =
      {p \in @ : ~(ack # 0 /\ IsAcked(p.packet.seq, ack, field))}]

\* Mutant: retransmissions are not counted.
MutCheckRetransmissions(c, due) == c

\* checkRetransmissions over the packets of `due`: the kill flag, and the
\* channel after a pass that does not kill.
Exhausted(c, due, maxRetries) ==
  \E p \in due : p.retransmitCount + 1 > maxRetries

CheckRetransmissions(c, due) ==
  [c EXCEPT !.pendingSend =
      (@ \ due) \union
      {[p EXCEPT !.retransmitCount = @ + 1] : p \in due}]

\* releasePendingBuffers; the nil recvBuffer is the empty one here.
ReleasePendingBuffers(c) == [c EXCEPT !.pendingSend = {}, !.recvBuffer = << >>]

-----------------------------------------------------------------------------
(* Receiving.                                                              *)

\* Mutant: one slot too many.
MutBeyondWindow(c, seq) ==
  /\ c.mode = "ReliableOrdered"
  /\ MaxReorderWindow > 0
  /\ seq >= c.recvNextDeliver
  /\ seq - c.recvNextDeliver > MaxReorderWindow

BeyondWindow(c, seq) ==
  /\ c.mode = "ReliableOrdered"
  /\ MaxReorderWindow > 0
  /\ seq >= c.recvNextDeliver
  /\ seq - c.recvNextDeliver >= MaxReorderWindow

\* Mutant: the bit of an older packet is not consulted.
MutAccepts(c, seq) ==
  /\ seq # 0
  /\ ~BeyondWindow(c, seq)
  /\ seq > c.recvAck \/ c.recvAck - seq \in 1..AckBits

\* recordReceive returns true.
Accepts(c, seq) ==
  /\ seq # 0
  /\ ~BeyondWindow(c, seq)
  /\ \/ seq > c.recvAck
     \/ /\ seq < c.recvAck
        /\ c.recvAck - seq \in (1..AckBits) \ c.recvAckField

\* Mutant: the shift fills with ones.
MutShiftField(field, diff) ==
  {d \in 1..AckBits : d <= diff \/ d - diff \in field}

\* What recordReceive does to the channel when it returns true.  The shift by
\* diff drops the distances that leave the field; a diff wider than the field
\* leaves none, which is the branch that clears it.
ShiftField(field, diff) ==
  {d \in 1..AckBits : d = diff \/ d - diff \in field}

RecordReceive(c, seq) ==
  IF c.recvAck = 0
  THEN [c EXCEPT !.recvAck = seq, !.recvAckField = {}, !.needsAck = TRUE]
  ELSE IF seq > c.recvAck
  THEN [c EXCEPT !.recvAck = seq,
                 !.recvAckField = ShiftField(@, seq - c.recvAck),
                 !.needsAck = TRUE]
  ELSE [c EXCEPT !.recvAckField = @ \union {c.recvAck - seq},
                 !.needsAck = TRUE]

ClearNeedsAck(c) == [c EXCEPT !.needsAck = FALSE]

\* The copy of a payload that stays buffered: make([]byte, 0) for a nil one.
CopyPayload(payload) == IF payload = Nil THEN Empty ELSE payload

\* The slot the drain loop stops at: the first one that is not buffered.  Only
\* recorded sequences are buffered, so it is at most one past them.
DrainEnd(c, buffer) ==
  CHOOSE n \in c.recvNextDeliver .. (c.recvAck + 1) :
    /\ n \notin DOMAIN buffer
    /\ (c.recvNextDeliver .. (n - 1)) \subseteq DOMAIN buffer

\* Mutant: a packet is delivered as it comes.
MutDeliverEagerly(c, seq, payload) ==
  [channel |-> [c EXCEPT !.recvNextDeliver = seq + 1], msgs |-> <<payload>>]

\* Mutant: an `if` for the drain loop's `for`.
MutDeliverOne(c, seq, payload) ==
  IF seq = c.recvNextDeliver
  THEN [channel |-> [c EXCEPT !.recvNextDeliver = seq + 1], msgs |-> <<payload>>]
  ELSE [channel |-> [c EXCEPT !.recvBuffer =
                       [s \in DOMAIN @ \union {seq} |->
                          IF s = seq THEN payload ELSE @[s]]],
        msgs    |-> << >>]

DeliverReliableOrdered(c, seq, payload) ==
  LET buffer == [s \in DOMAIN c.recvBuffer \union {seq} |->
                   IF s = seq THEN payload ELSE c.recvBuffer[s]]
      end    == DrainEnd(c, buffer)
  IN  [ channel |->
          [c EXCEPT !.recvNextDeliver = end,
                    !.recvBuffer =
                      [s \in DOMAIN buffer \ (c.recvNextDeliver .. (end - 1)) |->
                         IF s = seq THEN CopyPayload(payload) ELSE buffer[s]]],
        msgs    |->
          [i \in 1 .. (end - c.recvNextDeliver) |->
             buffer[c.recvNextDeliver + i - 1]] ]

\* Mutant: an older packet still gets through.
MutDeliverUnreliableSequenced(c, seq, payload) ==
  [channel |-> [c EXCEPT !.lastRecvSeq = seq], msgs |-> <<payload>>]

DeliverUnreliableSequenced(c, seq, payload) ==
  IF seq > c.lastRecvSeq
  THEN [channel |-> [c EXCEPT !.lastRecvSeq = seq], msgs |-> <<payload>>]
  ELSE [channel |-> c, msgs |-> << >>]

\* deliver: the channel afterwards, and the payloads ready for the application.
Deliver(c, seq, payload) ==
  CASE c.mode = "ReliableOrdered"     -> DeliverReliableOrdered(c, seq, payload)
    [] c.mode = "UnreliableSequenced" -> DeliverUnreliableSequenced(c, seq, payload)
    [] OTHER                          -> [channel |-> c, msgs |-> <<payload>>]

=============================================================================
