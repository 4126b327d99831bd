------------------------------ MODULE Channel -------------------------------
(***************************************************************************)
(* One channel between the two ends of a fastwire connection, over UDP.    *)
(*                                                                         *)
(* Each end has the tick goroutine, which receives packets and runs        *)
(* tickConnection in a fixed order (retransmit, drain the send queue,      *)
(* flush acks), and one user goroutine, which may call SendImmediate at    *)
(* any moment.  Both end in sendSinglePacket, which writes the packet and  *)
(* only then, in a second critical section, adds it to pendingSend.        *)
(*                                                                         *)
(* The network may lose, duplicate and reorder packets.  Messages here fit *)
(* one packet; a payload is the sequence number it is first sent under, so *)
(* that no two messages are equal.  Encryption, batching and congestion    *)
(* control only delay or drop a packet, which the network does already.    *)
(***************************************************************************)
EXTENDS ChannelOps, FiniteSets

CONSTANTS
  Mode,             \* the delivery mode of the channel
  IsChannelZero,    \* heartbeats carry the ack state of channel 0 only
  MaxRetransmits,   \* Config.MaxRetransmits
  ClientSends,      \* bound: messages the client sends
  ServerSends,      \* bound: messages the server sends
  MaxLosses,        \* bound: packets the network drops
  MaxDuplicates,    \* bound: packets the network delivers once more
  MaxWriteErrors    \* bound: writes of data packets that fail

ASSUME ChannelAssumption ==
  /\ Mode \in Modes
  /\ IsChannelZero \in BOOLEAN
  /\ MaxRetransmits \in Nat
  /\ ClientSends \in Nat /\ ServerSends \in Nat
  /\ MaxLosses \in Nat /\ MaxDuplicates \in Nat /\ MaxWriteErrors \in Nat

Ends      == {"client", "server"}
Other(e)  == IF e = "client" THEN "server" ELSE "client"
Sends(e)  == IF e = "client" THEN ClientSends ELSE ServerSends
Threads   == {"tick", "user"}

VARIABLES
  conn,        \* conn[e]: "Connected" or "Disconnected"
  ch,          \* ch[e]: the channel record of end e
  pc,          \* pc[e]: where the tick goroutine of e is
  hand,        \* hand[e][t]: the packet thread t is in the middle of, or NoPacket
  net,         \* packets in transit
  lost, duplicated, writeErrors,   \* faults so far
  accepted,    \* history: sequences for which recordReceive returned true
  failed,      \* history: sequences consumed by a write that failed
  delivered    \* history: the payloads of the OnMessage calls, in order

faults == <<lost, duplicated, writeErrors>>
vars   == <<conn, ch, pc, hand, net, faults, accepted, failed, delivered>>

\* A packet on the wire.  Sequence 0 is a control packet, which only acks.
Packet(e, seq) ==
  [from |-> e, seq |-> seq, ack |-> ch[e].recvAck, field |-> ch[e].recvAckField]

NoPacket == [from |-> "none", seq |-> 0, ack |-> 0, field |-> {}]

Init ==
  /\ conn = [e \in Ends |-> "Connected"]
  /\ ch = [e \in Ends |-> NewChannel(Mode)]
  /\ pc = [e \in Ends |-> "incoming"]
  /\ hand = [e \in Ends |-> [t \in Threads |-> NoPacket]]
  /\ net = {}
  /\ lost = 0 /\ duplicated = 0 /\ writeErrors = 0
  /\ accepted = [e \in Ends |-> {}]
  /\ failed = [e \in Ends |-> {}]
  /\ delivered = [e \in Ends |-> << >>]

-----------------------------------------------------------------------------
(* sendSinglePacket, by the tick goroutine draining the send queue or by    *)
(* the user goroutine in SendImmediate.                                     *)

MaySend(e, t) ==
  /\ conn[e] = "Connected"
  /\ hand[e][t] = NoPacket
  /\ t = "tick" => pc[e] = "drain"
  /\ ch[e].sendSeq < Sends(e)

\* nextSequence, ackState and the write.  A reliable packet stays in the
\* thread's hand until addPending.
SendPacket(e, t) ==
  /\ MaySend(e, t)
  /\ LET packet == Packet(e, ch[e].sendSeq + 1) IN
       /\ net' = net \union {packet}
       /\ hand' = IF Reliable(ch[e])
                  THEN [hand EXCEPT ![e][t] = packet]
                  ELSE hand
  /\ ch' = [ch EXCEPT ![e] = NextSequence(@)]
  /\ UNCHANGED <<conn, pc, faults, accepted, failed, delivered>>

\* The write fails: the sequence is consumed, and nothing will retransmit it.
SendPacketFails(e, t) ==
  /\ MaySend(e, t)
  /\ writeErrors < MaxWriteErrors
  /\ writeErrors' = writeErrors + 1
  /\ ch' = [ch EXCEPT ![e] = NextSequence(@)]
  /\ failed' = [failed EXCEPT ![e] = @ \union {ch'[e].sendSeq}]
  /\ UNCHANGED <<conn, pc, hand, net, lost, duplicated, accepted, delivered>>

AddPendingPacket(e, t) ==
  /\ hand[e][t] # NoPacket
  /\ t = "tick" => pc[e] = "drain"
  /\ ch' = [ch EXCEPT ![e] = AddPending(@, hand[e][t])]
  /\ hand' = [hand EXCEPT ![e][t] = NoPacket]
  /\ UNCHANGED <<conn, pc, net, faults, accepted, failed, delivered>>

-----------------------------------------------------------------------------
(* The tick goroutine: incoming packets.                                    *)

\* Taking a packet off the network, which may hand over the same one later.
Take(m) ==
  \/ net' = net \ {m} /\ UNCHANGED duplicated
  \/ /\ duplicated < MaxDuplicates
     /\ duplicated' = duplicated + 1
     /\ UNCHANGED net

\* processPacket up to recordReceive: acks first, for data and control packets.
Receive(e, m) ==
  /\ conn[e] = "Connected"
  /\ pc[e] = "incoming"
  /\ m \in net /\ m.from = Other(e)
  /\ Take(m)
  /\ LET c == ProcessAcks(ch[e], m.ack, m.field) IN
       IF Accepts(c, m.seq)
       THEN /\ ch' = [ch EXCEPT ![e] = RecordReceive(c, m.seq)]
            /\ accepted' = [accepted EXCEPT ![e] = @ \union {m.seq}]
            /\ hand' = [hand EXCEPT ![e]["tick"] = m]
            /\ pc' = [pc EXCEPT ![e] = "deliver"]
       ELSE /\ ch' = [ch EXCEPT ![e] = c]
            /\ UNCHANGED <<accepted, hand, pc>>
  /\ UNCHANGED <<conn, lost, writeErrors, failed, delivered>>

\* deliver, and an OnMessage for every payload it returns.
DeliverPacket(e) ==
  /\ pc[e] = "deliver"
  /\ LET seq == hand[e]["tick"].seq
         r   == Deliver(ch[e], seq, seq)
     IN  /\ ch' = [ch EXCEPT ![e] = r.channel]
         /\ delivered' = [delivered EXCEPT ![e] = @ \o r.msgs]
  /\ hand' = [hand EXCEPT ![e]["tick"] = NoPacket]
  /\ pc' = [pc EXCEPT ![e] = "incoming"]
  /\ UNCHANGED <<conn, net, faults, accepted, failed>>

-----------------------------------------------------------------------------
(* The tick goroutine: tickConnection.                                      *)

\* The retransmission check: the packets of `due` are past nextRetransmit.
Retransmit(e, due) ==
  /\ conn[e] = "Connected"
  /\ pc[e] = "incoming"
  /\ ~Exhausted(ch[e], due, MaxRetransmits)
  /\ ch' = [ch EXCEPT ![e] = CheckRetransmissions(@, due)]
  /\ net' = net \union {p.packet : p \in due}
  /\ pc' = [pc EXCEPT ![e] = "drain"]
  /\ UNCHANGED <<conn, hand, faults, accepted, failed, delivered>>

\* A packet ran out of retransmissions: the connection is torn down.
Kill(e, due) ==
  /\ conn[e] = "Connected"
  /\ pc[e] = "incoming"
  /\ Exhausted(ch[e], due, MaxRetransmits)
  /\ ch' = [ch EXCEPT ![e] = ReleasePendingBuffers(@)]
  /\ conn' = [conn EXCEPT ![e] = "Disconnected"]
  /\ UNCHANGED <<pc, hand, net, faults, accepted, failed, delivered>>

\* The send queue is empty, or the congestion window full.
EndDrain(e) ==
  /\ pc[e] = "drain"
  /\ hand[e]["tick"] = NoPacket
  /\ pc' = [pc EXCEPT ![e] = "flush"]
  /\ UNCHANGED <<conn, ch, hand, net, faults, accepted, failed, delivered>>

\* Pending acks go out in a control packet; so does a heartbeat when one is
\* due, which carries the ack state of channel 0.
FlushAcks(e, heartbeatDue) ==
  /\ pc[e] = "flush"
  /\ ch' = [ch EXCEPT ![e] = ClearNeedsAck(@)]
  /\ net' = IF ch[e].needsAck \/ (heartbeatDue /\ IsChannelZero)
            THEN net \union {Packet(e, 0)}
            ELSE net
  /\ pc' = [pc EXCEPT ![e] = "incoming"]
  /\ UNCHANGED <<conn, hand, faults, accepted, failed, delivered>>

-----------------------------------------------------------------------------

Lose(m) ==
  /\ lost < MaxLosses
  /\ lost' = lost + 1
  /\ net' = net \ {m}
  /\ UNCHANGED <<conn, ch, pc, hand, duplicated, writeErrors,
                 accepted, failed, delivered>>

Tick(e) ==
  \/ \E due \in SUBSET ch[e].pendingSend : Retransmit(e, due) \/ Kill(e, due)
  \/ EndDrain(e)
  \/ \E heartbeatDue \in BOOLEAN : FlushAcks(e, heartbeatDue)

Next ==
  \/ \E e \in Ends :
       \/ \E t \in Threads : \/ SendPacket(e, t)
                             \/ SendPacketFails(e, t)
                             \/ AddPendingPacket(e, t)
       \/ \E m \in net : Receive(e, m)
       \/ DeliverPacket(e)
       \/ Tick(e)
  \/ \E m \in net : Lose(m)

Spec == Init /\ [][Next]_vars

\* The tick loop runs for as long as the connection does, and every pending
\* packet's nextRetransmit passes again and again; the datagrams that are not
\* lost arrive.  Nothing obliges the user to send, or the network to fail.
RetransmitOf(e, s) ==
  \E due \in SUBSET ch[e].pendingSend :
    /\ \E p \in due : p.packet.seq = s
    /\ Retransmit(e, due) \/ Kill(e, due)

Fairness ==
  \A e \in Ends :
    /\ WF_vars(Tick(e))
    /\ WF_vars(DeliverPacket(e))
    /\ \A t \in Threads : WF_vars(AddPendingPacket(e, t))
    /\ \A s \in 1..Sends(e) : SF_vars(RetransmitOf(e, s))
    /\ \A s \in 0..Sends(e) : SF_vars(\E m \in net : m.seq = s /\ Receive(Other(e), m))

FairSpec == Spec /\ Fairness

-----------------------------------------------------------------------------
(* Properties.                                                              *)

MaxSeq == ClientSends + ServerSends

Packets ==
  [from : Ends, seq : 0..MaxSeq, ack : 0..MaxSeq, field : SUBSET (1..AckBits)]

PendingPackets == [packet : Packets, retransmitCount : 0..MaxRetransmits]

Buffers == {[s \in S |-> s] : S \in SUBSET (1..MaxSeq)}

ChannelType ==
  [ mode            : {Mode},
    sendSeq         : 0..MaxSeq,
    recvAck         : 0..MaxSeq,
    recvAckField    : SUBSET (1..AckBits),
    pendingSend     : SUBSET PendingPackets,
    recvBuffer      : Buffers,
    recvNextDeliver : 1..(MaxSeq + 1),
    lastRecvSeq     : 0..MaxSeq,
    needsAck        : BOOLEAN ]

\* Every variable has its type: in particular no packet is ever retransmitted
\* more than MaxRetransmits times, and a buffered payload is the one its
\* sequence was sent with.
TypeOK ==
  /\ conn \in [Ends -> {"Connected", "Disconnected"}]
  /\ ch \in [Ends -> ChannelType]
  /\ pc \in [Ends -> {"incoming", "deliver", "drain", "flush"}]
  /\ hand \in [Ends -> [Threads -> Packets \union {NoPacket}]]
  /\ net \in SUBSET Packets
  /\ lost \in 0..MaxLosses
  /\ duplicated \in 0..MaxDuplicates
  /\ writeErrors \in 0..MaxWriteErrors
  /\ accepted \in [Ends -> SUBSET (1..MaxSeq)]
  /\ failed \in [Ends -> SUBSET (1..MaxSeq)]
  /\ delivered \in [Ends -> Seq(1..MaxSeq)]

\* A channel implements the promise of its delivery mode: every step of the
\* protocol is a send, a permitted delivery, a close, or invisible.
Promise == INSTANCE Delivery WITH
  open     <- [e \in Ends |-> conn[e] = "Connected"],
  sent     <- [e \in Ends |-> ch[e].sendSeq],
  received <- delivered

DeliversAsPromised == Promise!AbsSpec

PendingSeqs(e) == {p.packet.seq : p \in ch[e].pendingSend}

\* Sequences that are written but not yet in pendingSend.
InHand(e) ==
  {hand[e][t].seq : t \in {u \in Threads : u = "tick" => pc[e] = "drain"}}

\* Payloads the receiving end r still has or has passed to the application.
Kept(r) ==
  {delivered[r][i] : i \in DOMAIN delivered[r]}
    \union DOMAIN ch[r].recvBuffer
    \union (IF pc[r] = "deliver" THEN {hand[r]["tick"].seq} ELSE {})

\* No message reaches the application twice, whatever the network duplicates
\* and the sender retransmits: recordReceive refuses every sequence it took.
AtMostOnce ==
  \A e \in Ends : \A i, j \in DOMAIN delivered[e] :
    delivered[e][i] = delivered[e][j] => i = j

\* A ReliableOrdered channel delivers the messages of the other end in the
\* order they were sent, without a gap.
OrderedDelivery ==
  Mode = "ReliableOrdered" =>
    \A e \in Ends : \A i \in DOMAIN delivered[e] : delivered[e][i] = i

\* An UnreliableSequenced channel never delivers a message that is older than
\* one it delivered before.
SequencedDelivery ==
  Mode = "UnreliableSequenced" =>
    \A e \in Ends : \A i, j \in DOMAIN delivered[e] :
      i < j => delivered[e][i] < delivered[e][j]

\* An ack in transit, however old, names only sequences that its sender took:
\* the shifts of the bitfield never invent one.
AcksAreTruthful ==
  \A m \in net : \A s \in 1..ch[Other(m.from)].sendSeq :
    m.ack # 0 /\ IsAcked(s, m.ack, m.field) => s \in accepted[m.from]

\* While both ends are connected, a reliable message whose write succeeded is
\* never in nobody's care: the sender will retransmit it, or is about to make
\* it pending, or the receiver has it.
NothingForgotten ==
  Mode \in ReliableModes =>
    \A e \in Ends : \A s \in (1..ch[e].sendSeq) \ failed[e] :
      \/ s \in PendingSeqs(e) \union InHand(e) \union Kept(Other(e))
      \/ \E d \in Ends : conn[d] = "Disconnected"

\* The reorder buffer of an ordered channel stays below the receive window,
\* and only holds sequences after the next one to deliver.
ReorderBufferBounded ==
  MaxReorderWindow > 0 =>
    \A e \in Ends : \A s \in DOMAIN ch[e].recvBuffer :
      ch[e].recvNextDeliver < s /\ s < ch[e].recvNextDeliver + MaxReorderWindow

\* The sender's retransmissions of a packet the receiver has not taken can
\* still succeed: recordReceive would take it, were it to arrive now, unless it
\* lies beyond the receive window.
RetransmissionCanSucceed ==
  \A e \in Ends : \A s \in PendingSeqs(e) \ accepted[Other(e)] :
    \/ Accepts(ch[Other(e)], s)
    \/ BeyondWindow(ch[Other(e)], s)
    \/ conn[Other(e)] = "Disconnected"

\* No packet of a live connection stays pending for ever: it is acked, or it
\* exhausts its retransmissions and the connection is torn down.
EveryPacketSettles ==
  \A e \in Ends : \A s \in 1..Sends(e) :
    s \in PendingSeqs(e) ~> s \notin PendingSeqs(e) \/ conn[e] = "Disconnected"

\* Every reliable message that is written reaches the application, unless an
\* end is torn down.
EventualDelivery ==
  \A e \in Ends : \A s \in 1..Sends(e) :
    (Mode \in ReliableModes /\ s \in (1..ch[e].sendSeq) \ failed[e]) ~>
      \/ \E i \in DOMAIN delivered[Other(e)] : delivered[Other(e)][i] = s
      \/ \E d \in Ends : conn[d] = "Disconnected"

-----------------------------------------------------------------------------
(* What the code does not satisfy; no configuration checks it.              *)

\* The packet an ordered receiver holds others back for can still come: the
\* sender has it pending or is about to, or the receiver is delivering it.
GapWillClose ==
  \A e \in Ends :
    DOMAIN ch[e].recvBuffer # {} =>
      \/ ch[e].recvNextDeliver \in PendingSeqs(Other(e)) \union InHand(Other(e))
      \/ ch[e].recvNextDeliver \in Kept(e)
      \/ \E d \in Ends : conn[d] = "Disconnected"

\* Teardown leaves no packet pending, once the threads that were sending at
\* the time have finished: nothing would ever return its buffer to the pool.
TeardownReleasesPending ==
  \A e \in Ends :
    conn[e] = "Disconnected" /\ (\A t \in Threads : hand[e][t] = NoPacket)
      => ch[e].pendingSend = {}
=============================================================================
