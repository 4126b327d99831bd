-------------------------- MODULE ChannelInvariant --------------------------
(***************************************************************************)
(* The inductive invariant behind the safety properties of Channel.  It    *)
(* ties the ack state of an end to the history of what it accepted, every  *)
(* ack snapshot that is still around to that history, and the delivery     *)
(* state of an end to both.                                                *)
(***************************************************************************)
EXTENDS Channel

\* The sequence the tick goroutine has recorded but not yet delivered.
InDelivery(e) == IF pc[e] = "deliver" THEN {hand[e]["tick"].seq} ELSE {}

\* A packet of end e, wherever it is: its sequence was assigned, and its acks
\* name accepted sequences only.
Sound(m) ==
  /\ m.seq <= ch[m.from].sendSeq
  /\ m.ack # 0 => m.ack \in accepted[m.from]
  /\ \A d \in m.field : m.ack - d \in accepted[m.from]

\* Each thread's hand: the tick goroutine holds a packet of the other end while
\* it delivers, and any thread holds one of its own end while it sends.
HandsOK(e) ==
  /\ pc[e] = "deliver" => /\ hand[e]["tick"] # NoPacket
                          /\ hand[e]["tick"].from = Other(e)
                          /\ hand[e]["tick"].seq \in accepted[e]
  /\ pc[e] \in {"incoming", "flush"} => hand[e]["tick"] = NoPacket
  /\ \A t \in Threads :
       hand[e][t] # NoPacket /\ ~(t = "tick" /\ pc[e] = "deliver") =>
         hand[e][t].from = e /\ Sound(hand[e][t])
  /\ conn[e] = "Disconnected" => pc[e] = "incoming"

\* recvAck and recvAckField are the accepted sequences, as far as they reach.
AckStateOK(e) ==
  /\ accepted[e] \subseteq 1..ch[e].recvAck
  /\ ch[e].recvAck # 0 => ch[e].recvAck \in accepted[e]
  /\ ch[e].recvAck <= ch[Other(e)].sendSeq
  /\ \A d \in 1..AckBits :
       d \in ch[e].recvAckField <=> ch[e].recvAck - d \in accepted[e]

PacketsOK ==
  /\ \A m \in net : Sound(m)
  /\ \A e \in Ends : \A p \in ch[e].pendingSend :
       p.packet.from = e /\ Sound(p.packet)

\* An ordered channel has delivered exactly 1..recvNextDeliver - 1, and holds
\* everything else it accepted.
OrderedOK(e) ==
  /\ Len(delivered[e]) = ch[e].recvNextDeliver - 1
  /\ \A i \in 1..Len(delivered[e]) : delivered[e][i] = i
  /\ 1..(ch[e].recvNextDeliver - 1) \subseteq accepted[e]
  /\ DOMAIN ch[e].recvBuffer \subseteq accepted[e]
  /\ \A s \in DOMAIN ch[e].recvBuffer :
       /\ ch[e].recvNextDeliver < s
       /\ MaxReorderWindow > 0 => s < ch[e].recvNextDeliver + MaxReorderWindow
  /\ \A s \in InDelivery(e) :
       /\ ch[e].recvNextDeliver <= s
       /\ s \notin DOMAIN ch[e].recvBuffer
       /\ MaxReorderWindow > 0 => s < ch[e].recvNextDeliver + MaxReorderWindow
  /\ conn[e] = "Connected" =>
       accepted[e] \subseteq 1..(ch[e].recvNextDeliver - 1)
                               \union DOMAIN ch[e].recvBuffer \union InDelivery(e)

\* The other modes deliver a sequence at most once, right after accepting it;
\* the sequenced one in increasing order, and maybe never.
UnorderedOK(e) ==
  /\ DOMAIN ch[e].recvBuffer = {}
  /\ \A i \in 1..Len(delivered[e]) : delivered[e][i] \in accepted[e] \ InDelivery(e)
  /\ \A i, j \in 1..Len(delivered[e]) : delivered[e][i] = delivered[e][j] => i = j
  /\ Mode # "UnreliableSequenced" =>
       \A s \in accepted[e] \ InDelivery(e) :
         \E i \in 1..Len(delivered[e]) : delivered[e][i] = s
  /\ Mode = "UnreliableSequenced" =>
       /\ \A i \in 1..Len(delivered[e]) : delivered[e][i] <= ch[e].lastRecvSeq
       /\ \A i, j \in 1..Len(delivered[e]) : i < j => delivered[e][i] < delivered[e][j]

DeliveryOK(e) == IF Mode = "ReliableOrdered" THEN OrderedOK(e) ELSE UnorderedOK(e)

\* Nothing written and not accepted is forgotten by a connected sender.
CareOK(e) ==
  Mode \in ReliableModes /\ conn[e] = "Connected" =>
    \A s \in (1..ch[e].sendSeq) \ failed[e] :
      s \in PendingSeqs(e) \union InHand(e) \union accepted[Other(e)]

\* The inductive invariant: preserved by every step, and it implies the safety
\* properties of Channel.
IInv ==
  /\ TypeOK
  /\ PacketsOK
  /\ \A e \in Ends : HandsOK(e) /\ AckStateOK(e) /\ DeliveryOK(e) /\ CareOK(e)
=============================================================================
