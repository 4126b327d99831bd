--------------------------- MODULE ChannelProofs ----------------------------
(***************************************************************************)
(* The receiving side of Channel preserves the inductive invariant: taking *)
(* a packet off the network, recording it and delivering it.  From that    *)
(* and ChannelSendProofs follow the safety theorems, for every mode, ack   *)
(* width, window, number of messages and number of faults.                 *)
(*                                                                         *)
(* Channel implements Delivery: the initial states map to initial states,  *)
(* and by the inductive invariant every step is a send, a permitted        *)
(* delivery, a close, or invisible.                                        *)
(***************************************************************************)
EXTENDS ChannelSendProofs

-----------------------------------------------------------------------------
(* Receiving.                                                               *)

\* The acks of a received packet take out of pendingSend only what the other
\* end has accepted.
LEMMA ReceiveAcks ==
  ASSUME IInv, NEW e \in Ends, NEW m \in net, m.from = Other(e),
         NEW c, c = ProcessAcks(ch[e], m.ack, m.field)
  PROVE  /\ c \in ChannelType /\ Agree(c, ch[e])
         /\ c.pendingSend \subseteq ch[e].pendingSend
         /\ \A p \in ch[e].pendingSend :
              p \in c.pendingSend \/ p.packet.seq \in accepted[Other(e)]
<1>1. ch[e] \in ChannelType /\ m \in Packets /\ Sound(m)
  BY EndTypes, NetSound DEF IInv
<1>2. \A p \in ch[e].pendingSend : p.packet.seq \in Nat
  BY <1>1, FieldTypes, PacketTypes
<1>3. \A p \in ch[e].pendingSend :
         p \in c.pendingSend \/ (m.ack # 0 /\ IsAcked(p.packet.seq, m.ack, m.field))
  BY <1>1, ProcessAcksFacts
<1>4. \A p \in ch[e].pendingSend :
         m.ack # 0 /\ IsAcked(p.packet.seq, m.ack, m.field) =>
           p.packet.seq \in accepted[Other(e)]
  BY <1>1, <1>2, AckedAccepted
<1>5. QED BY <1>1, <1>3, <1>4, ProcessAcksFacts

\* A packet that recordReceive refuses: only its acks count.
LEMMA ReceiveRefused ==
  ASSUME IInv, NEW e \in Ends, NEW m \in net, m.from = Other(e),
         NEW c, c = ProcessAcks(ch[e], m.ack, m.field),
         ch' = [ch EXCEPT ![e] = c],
         net' \subseteq net, duplicated' \in 0..MaxDuplicates,
         UNCHANGED <<conn, pc, hand, lost, writeErrors, accepted, failed, delivered>>
  PROVE  IInv'
<1>1. /\ c \in ChannelType /\ Agree(c, ch[e])
      /\ c.pendingSend \subseteq ch[e].pendingSend
      /\ \A p \in ch[e].pendingSend :
           p \in c.pendingSend \/ p.packet.seq \in accepted[Other(e)]
  BY ReceiveAcks
<1>2. TypeOK'
  <2>1. ch' \in [Ends -> ChannelType]
    BY <1>1 DEF IInv, TypeOK
  <2>2. net' \in SUBSET Packets
    BY DEF IInv, TypeOK
  <2> QED BY <2>1, <2>2 DEF IInv, TypeOK
<1>3. /\ \A k \in Packets : Sound(k) => Sound(k)'
      /\ \A f \in Ends : /\ AckStateOK(f)'
                         /\ f # e => ch'[f] = ch[f]
                         /\ ch'[f].sendSeq = ch[f].sendSeq
      /\ \A f \in Ends : InDelivery(f)' = InDelivery(f) => DeliveryOK(f)'
      /\ ch'[e] = c
  <2>1. UNCHANGED <<conn, accepted, delivered>>
    OBVIOUS
  <2> QED BY <1>1, <1>2, <2>1, AgreeFrame, ZenonT(30)
<1>4. \A f \in Ends : InDelivery(f)' = InDelivery(f) /\ InHand(f)' = InHand(f)
  BY DEF InDelivery, InHand
<1>5. PacketsOK'
  <2>1. \A f \in Ends : ch'[f].pendingSend \subseteq ch[f].pendingSend
    BY <1>1, <1>3
  <2> QED BY <2>1, <1>3, NetSound, PendingSound, PacketsFrame
<1>6. \A f \in Ends : HandsOK(f)'
  BY <1>3, HandsFrame DEF IInv
<1>7. ASSUME NEW f \in Ends
      PROVE  CareOK(f)'
  <2>1. PendingSeqs(f) \subseteq PendingSeqs(f)' \union accepted[Other(f)]
    <3>1. CASE f # e
      BY <3>1, <1>3 DEF PendingSeqs
    <3>2. CASE f = e
      BY <3>2, <1>1, <1>3 DEF PendingSeqs
    <3> QED BY <3>1, <3>2
  <2> QED BY <2>1, <1>3, <1>4, CareFrame DEF IInv
<1>8. QED BY <1>2, <1>3, <1>4, <1>5, <1>6, <1>7 DEF IInv

\* A packet that recordReceive takes: the tick goroutine is about to deliver it.
LEMMA ReceiveTaken ==
  ASSUME IInv, NEW e \in Ends, NEW m \in net, m.from = Other(e),
         conn[e] = "Connected", pc[e] = "incoming",
         NEW c, c = ProcessAcks(ch[e], m.ack, m.field), Accepts(c, m.seq),
         ch' = [ch EXCEPT ![e] = RecordReceive(c, m.seq)],
         accepted' = [accepted EXCEPT ![e] = @ \union {m.seq}],
         hand' = [hand EXCEPT ![e]["tick"] = m],
         pc' = [pc EXCEPT ![e] = "deliver"],
         net' \subseteq net, duplicated' \in 0..MaxDuplicates,
         UNCHANGED <<conn, lost, writeErrors, failed, delivered>>
  PROVE  IInv'
<1>1. /\ c \in ChannelType /\ Agree(c, ch[e])
      /\ c.pendingSend \subseteq ch[e].pendingSend
      /\ \A p \in ch[e].pendingSend :
           p \in c.pendingSend \/ p.packet.seq \in accepted[Other(e)]
  BY ReceiveAcks
<1>2. /\ m \in Packets /\ Sound(m) /\ m # NoPacket
      /\ m.seq \in Nat /\ m.seq <= MaxSeq /\ MaxSeq \in Nat
      /\ Other(e) \in Ends /\ Other(e) # e
  BY NetSound, PacketTypes, Basics
<1>3. Describes(c, accepted[e])
  <2>1. AckStateOK(e)
    BY DEF IInv
  <2> QED BY <2>1, <1>1, AckStateDescribes DEF Describes, Agree
<1>4. m.seq \notin accepted[e] /\ m.seq \in 1..MaxSeq
  BY <1>1, <1>2, <1>3, AcceptsFresh
<1>5. PICK d : d = RecordReceive(c, m.seq)
  OBVIOUS
<1>6. /\ d \in ChannelType
      /\ Describes(d, accepted[e] \union {m.seq})
      /\ d.recvAck = m.seq \/ d.recvAck = ch[e].recvAck
      /\ d.sendSeq = ch[e].sendSeq
      /\ d.pendingSend = c.pendingSend
      /\ d.recvBuffer = ch[e].recvBuffer
      /\ d.recvNextDeliver = ch[e].recvNextDeliver
      /\ d.lastRecvSeq = ch[e].lastRecvSeq
  <2>1. /\ d \in ChannelType
        /\ Describes(d, accepted[e] \union {m.seq})
        /\ d.recvAck = m.seq \/ d.recvAck = c.recvAck
        /\ d.sendSeq = c.sendSeq
        /\ d.pendingSend = c.pendingSend
        /\ d.recvBuffer = c.recvBuffer
        /\ d.recvNextDeliver = c.recvNextDeliver
        /\ d.lastRecvSeq = c.lastRecvSeq
    BY <1>1, <1>3, <1>4, <1>5, RecordReceiveFacts, SMTT(30)
  <2>2. /\ c.recvAck = ch[e].recvAck /\ c.sendSeq = ch[e].sendSeq
        /\ c.recvBuffer = ch[e].recvBuffer
        /\ c.recvNextDeliver = ch[e].recvNextDeliver
        /\ c.lastRecvSeq = ch[e].lastRecvSeq
    BY <1>1 DEF Agree
  <2> QED BY <2>1, <2>2, ZenonT(30)
<1>7. \A f \in Ends :
        /\ ch'[f] = IF f = e THEN d ELSE ch[f]
        /\ accepted'[f] = IF f = e THEN accepted[f] \union {m.seq} ELSE accepted[f]
        /\ pc'[f] = IF f = e THEN "deliver" ELSE pc[f]
        /\ f # e => hand'[f] = hand[f]
  BY <1>5, ZenonT(30) DEF IInv, TypeOK
<1>8. /\ ch'[e] = d /\ accepted'[e] = accepted[e] \union {m.seq}
      /\ delivered'[e] = delivered[e]
  BY <1>7, ZenonT(30)
<1>h. hand'[e]["tick"] = m /\ hand'[e]["user"] = hand[e]["user"]
  BY DEF IInv, TypeOK, Threads
<1>9. TypeOK'
  <2>1. ch' \in [Ends -> ChannelType]
    BY <1>5, <1>6 DEF IInv, TypeOK
  <2>2. accepted' \in [Ends -> SUBSET (1..MaxSeq)]
    BY <1>4 DEF IInv, TypeOK
  <2>3. hand' \in [Ends -> [Threads -> Packets \union {NoPacket}]]
    BY <1>2, ZenonT(30) DEF IInv, TypeOK
  <2>4. pc' \in [Ends -> {"incoming", "deliver", "drain", "flush"}]
    BY DEF IInv, TypeOK
  <2>5. net' \in SUBSET Packets
    BY DEF IInv, TypeOK
  <2> QED BY <2>1, <2>2, <2>3, <2>4, <2>5 DEF IInv, TypeOK
<1>10. \A f \in Ends : /\ ch[f].sendSeq <= ch'[f].sendSeq
                       /\ ch[f].sendSeq = ch'[f].sendSeq
                       /\ accepted[f] \subseteq accepted'[f]
                       /\ ch'[f].pendingSend \subseteq ch[f].pendingSend
  <2>1. \A f \in Ends : ch'[f].sendSeq = ch[f].sendSeq /\ ch[f].sendSeq \in Nat
    <3>1. \A f \in Ends : ch[f].sendSeq \in Nat
      BY EndTypes, FieldTypes DEF IInv
    <3>2. \A f \in Ends : f # e => ch'[f] = ch[f]
      BY <1>7
    <3> QED BY <3>1, <3>2, <1>6, <1>8
  <2>2. \A f \in Ends : /\ accepted[f] \subseteq accepted'[f]
                        /\ ch'[f].pendingSend \subseteq ch[f].pendingSend
    <3>1. /\ accepted[e] \subseteq accepted'[e]
          /\ ch'[e].pendingSend \subseteq ch[e].pendingSend
      BY <1>1, <1>6, <1>8
    <3>2. \A f \in Ends : f # e => accepted'[f] = accepted[f] /\ ch'[f] = ch[f]
      BY <1>7
    <3> QED BY <3>1, <3>2
  <2> QED BY <2>1, <2>2
<1>11. \A k \in Packets : Sound(k) => Sound(k)'
  BY <1>9, <1>10, SoundFrame DEF IInv
<1>12. PacketsOK'
  BY <1>10, <1>11, NetSound, PendingSound, PacketsFrame
<1>13. ASSUME NEW f \in Ends
       PROVE  HandsOK(f)'
  <2>1. CASE f # e
    BY <2>1, <1>7, <1>10, <1>11, HandsFrame DEF IInv
  <2>2. CASE f = e
    <3>1. HandsOK(e) /\ \A u \in Threads : hand[e][u] \in Packets \union {NoPacket}
      BY EndTypes DEF IInv
    <3>2. /\ pc'[e] = "deliver" /\ conn'[e] # "Disconnected"
          /\ m.from = Other(e) /\ m.seq \in accepted'[e]
      BY <1>2, <1>7, <1>8
    <3>3. PICK k : k = hand[e]["user"]
      OBVIOUS
    <3>4. k # NoPacket => k.from = e /\ Sound(k)'
      BY <3>1, <3>3, <1>11 DEF HandsOK, Threads
    <3> QED BY <2>2, <3>2, <3>3, <3>4, <1>2, <1>h DEF HandsOK, Threads
  <2> QED BY <2>1, <2>2
<1>14. ASSUME NEW f \in Ends
       PROVE  AckStateOK(f)'
  <2>1. AckStateOK(f)
    BY DEF IInv
  <2>2. CASE f # e
    <3>1. TypeOK /\ ch'[f] = ch[f] /\ accepted'[f] = accepted[f]
      BY <2>2, <1>7 DEF IInv
    <3>2. ch[Other(f)].sendSeq <= ch'[Other(f)].sendSeq
      BY <1>10, Basics
    <3> QED BY <2>1, <3>1, <3>2, <1>9, AckStateFrame, ZenonT(30)
  <2>3. CASE f = e
    <3>1. m.seq <= ch[Other(e)].sendSeq /\ ch[e].recvAck <= ch[Other(e)].sendSeq
      BY <2>1, <2>3, <1>2 DEF Sound, AckStateOK
    <3>2. d.recvAck <= ch'[Other(e)].sendSeq
      BY <3>1, <1>2, <1>6, <1>7
    <3> QED BY <2>3, <3>2, <1>6, <1>8 DEF AckStateOK, Describes
  <2> QED BY <2>2, <2>3
<1>15. ASSUME NEW f \in Ends
       PROVE  DeliveryOK(f)'
  <2>1. DeliveryOK(f)
    BY DEF IInv
  <2>2. CASE f # e
    <3>1. InDelivery(f)' = InDelivery(f)
      BY <2>2, <1>7 DEF InDelivery
    <3> QED BY <2>1, <2>2, <3>1, <1>7, DeliveryFrame
  <2>3. CASE f = e
    <3>1. InDelivery(e) = {} /\ InDelivery(e)' = {m.seq}
      BY <1>7, <1>h DEF InDelivery
    <3>2. CASE Mode = "ReliableOrdered"
      <4>1. OrderedOK(e) /\ ch[e].recvNextDeliver \in Nat
        BY <2>1, <2>3, <3>2, EndTypes, FieldTypes DEF DeliveryOK, IInv
      <4>2. m.seq >= ch[e].recvNextDeliver /\ m.seq \notin DOMAIN ch[e].recvBuffer
        BY <4>1, <1>2, <1>4 DEF OrderedOK
      <4>3. MaxReorderWindow > 0 => m.seq < ch[e].recvNextDeliver + MaxReorderWindow
        <5>1. c.mode = "ReliableOrdered" /\ c.recvNextDeliver = ch[e].recvNextDeliver
          BY <1>1, <3>2, FieldTypes DEF Agree
        <5>2. ~BeyondWindow(c, m.seq)
          BY DEF Accepts
        <5> QED BY <4>1, <4>2, <5>1, <5>2, <1>2, ChannelOpsAssumption DEF BeyondWindow
      <4>4. OrderedOK(e)'
        BY <4>1, <4>2, <4>3, <3>1, <1>6, <1>8 DEF OrderedOK
      <4> QED BY <2>3, <3>2, <4>4 DEF DeliveryOK
    <3>3. CASE Mode # "ReliableOrdered"
      BY <2>1, <2>3, <3>1, <3>3, <1>4, <1>6, <1>8, SMTT(30) DEF DeliveryOK, UnorderedOK
    <3> QED BY <3>2, <3>3
  <2> QED BY <2>2, <2>3
<1>16. ASSUME NEW f \in Ends
       PROVE  CareOK(f)'
  <2>1. PendingSeqs(f) \subseteq PendingSeqs(f)' \union accepted[Other(f)]
    <3>1. CASE f # e
      BY <3>1, <1>7 DEF PendingSeqs
    <3>2. CASE f = e
      <4>1. ch'[e].pendingSend = c.pendingSend
        BY <1>6, <1>8
      <4> QED BY <3>2, <4>1, <1>1 DEF PendingSeqs
    <3> QED BY <3>1, <3>2
  <2>2. InHand(f)' = InHand(f)
    BY <1>7, <1>h DEF InHand, Threads
  <2>3. accepted[Other(f)] \subseteq accepted'[Other(f)]
    BY <1>10, Basics
  <2> QED BY <2>1, <2>2, <2>3, <1>10, CareFrame DEF IInv
<1>17. QED BY <1>9, <1>12, <1>13, <1>14, <1>15, <1>16 DEF IInv

\* processPacket up to recordReceive preserves the invariant.
LEMMA ReceiveStep ==
  ASSUME IInv, NEW e \in Ends, NEW m \in net, Receive(e, m)
  PROVE  IInv'
<1>1. PICK c : c = ProcessAcks(ch[e], m.ack, m.field)
  OBVIOUS
<1>2. /\ conn[e] = "Connected" /\ pc[e] = "incoming" /\ m.from = Other(e)
      /\ UNCHANGED <<conn, lost, writeErrors, failed, delivered>>
  BY DEF Receive
<1>3. net' \subseteq net /\ duplicated' \in 0..MaxDuplicates
  BY ChannelAssumption DEF Receive, Take, IInv, TypeOK
<1>4. CASE Accepts(c, m.seq)
  <2>1. /\ ch' = [ch EXCEPT ![e] = RecordReceive(c, m.seq)]
        /\ accepted' = [accepted EXCEPT ![e] = @ \union {m.seq}]
        /\ hand' = [hand EXCEPT ![e]["tick"] = m]
        /\ pc' = [pc EXCEPT ![e] = "deliver"]
    BY <1>1, <1>4 DEF Receive
  <2> QED BY <2>1, <1>1, <1>2, <1>3, <1>4, ReceiveTaken, ZenonT(30)
<1>5. CASE ~Accepts(c, m.seq)
  <2>1. ch' = [ch EXCEPT ![e] = c] /\ UNCHANGED <<accepted, hand, pc>>
    BY <1>1, <1>5 DEF Receive
  <2>2. UNCHANGED <<conn, pc, hand, lost, writeErrors, accepted, failed, delivered>>
    BY <2>1, <1>2
  <2> QED BY <2>1, <2>2, <1>1, <1>2, <1>3, ReceiveRefused, ZenonT(30)
<1>6. QED BY <1>4, <1>5

-----------------------------------------------------------------------------
(* Delivering.                                                              *)

\* What deliver leaves alone, in every mode.
DeliverKeeps(c, r) ==
  /\ r.channel \in ChannelType
  /\ r.channel.sendSeq = c.sendSeq
  /\ r.channel.recvAck = c.recvAck
  /\ r.channel.recvAckField = c.recvAckField
  /\ r.channel.pendingSend = c.pendingSend
  /\ r.msgs \in Seq(1..MaxSeq)

\* deliver on an ordered channel: the counters, the ack state and the pending
\* packets stay, and what was delivered is again a prefix of what was sent.
LEMMA DeliverOrderedStep ==
  ASSUME TypeOK, NEW e \in Ends, Mode = "ReliableOrdered", AckStateOK(e), OrderedOK(e),
         conn[e] = "Connected", NEW seq, InDelivery(e) = {seq}, seq \in accepted[e],
         NEW r, r = Deliver(ch[e], seq, seq),
         ch'[e] = r.channel, delivered'[e] = delivered[e] \o r.msgs,
         accepted'[e] = accepted[e], InDelivery(e)' = {}
  PROVE  DeliverKeeps(ch[e], r) /\ OrderedOK(e)'
<1>1. PICK c \in ChannelType : c = ch[e]
  BY EndTypes
<1>2. /\ c.recvAck \in Nat /\ c.recvNextDeliver \in Nat /\ c.recvNextDeliver >= 1
      /\ c.mode = Mode /\ MaxSeq \in Nat /\ delivered[e] \in Seq(1..MaxSeq)
  BY FieldTypes, Basics, EndTypes
<1>3. accepted[e] \subseteq 1..c.recvAck /\ seq \in 1..c.recvAck
  BY <1>1 DEF AckStateOK
<1>4. c.recvNextDeliver <= c.recvAck + 1
  <2>1. 1..(c.recvNextDeliver - 1) \subseteq accepted[e]
    BY <1>1 DEF OrderedOK
  <2>2. c.recvNextDeliver - 1 = 0 \/ c.recvNextDeliver - 1 \in 1..(c.recvNextDeliver - 1)
    BY <1>2
  <2>3. c.recvNextDeliver - 1 = 0 \/ c.recvNextDeliver - 1 \in 1..c.recvAck
    BY <2>1, <2>2, <1>3
  <2> QED BY <2>3, <1>2
<1>5. DOMAIN c.recvBuffer \subseteq accepted[e] /\ DOMAIN c.recvBuffer \subseteq 1..c.recvAck
  BY <1>1, <1>3 DEF OrderedOK
<1>6. r = DeliverReliableOrdered(c, seq, seq)
  BY <1>1, <1>2 DEF Deliver
<1>7. PICK d, ms, next, end, held :
        /\ d = r.channel /\ ms = r.msgs
        /\ next = c.recvNextDeliver /\ end = r.channel.recvNextDeliver
        /\ held = DOMAIN c.recvBuffer \union {seq}
  BY ZenonT(30)
<1>8. /\ d = [c EXCEPT !.recvNextDeliver = end, !.recvBuffer = d.recvBuffer]
      /\ d \in ChannelType
      /\ end \in next .. (c.recvAck + 1)
      /\ next .. (end - 1) \subseteq held
      /\ end \notin held
      /\ DOMAIN d.recvBuffer = held \ (next .. (end - 1))
      /\ ms \in Seq(1..MaxSeq)
      /\ Len(ms) = end - next
      /\ \A i \in 1..Len(ms) : ms[i] = next + i - 1
  <2>1. DrainsTo(c, r, next, end, held)
    BY <1>3, <1>4, <1>5, <1>6, <1>7, DeliverOrderedFacts, ZenonT(30)
  <2> QED BY <2>1, <1>7 DEF DrainsTo
<1>9. /\ d.sendSeq = c.sendSeq /\ d.recvAck = c.recvAck
      /\ d.recvAckField = c.recvAckField /\ d.pendingSend = c.pendingSend
  BY <1>8, ZenonT(30) DEF ChannelType
<1>10. /\ held \subseteq accepted[e]
       /\ next \in Nat /\ end \in Nat /\ next >= 1 /\ next <= end /\ c.recvAck \in Nat
       /\ Len(delivered[e]) = next - 1
       /\ d.recvNextDeliver = end
  <2>1. held \subseteq accepted[e]
    BY <1>1, <1>5, <1>7
  <2>2. Len(delivered[e]) = next - 1
    BY <1>1, <1>7 DEF OrderedOK
  <2>3. next \in Nat /\ next >= 1 /\ c.recvAck \in Nat
    BY <1>2, <1>7
  <2>4. end \in Nat /\ next <= end
    BY <2>3, <1>8
  <2>5. d.recvNextDeliver = end
    BY <1>7
  <2> QED BY <2>1, <2>2, <2>3, <2>4, <2>5
<1>11. \A s \in held : /\ s \in Nat /\ next <= s
                       /\ MaxReorderWindow > 0 => s < next + MaxReorderWindow
  BY <1>1, <1>2, <1>3, <1>5, <1>7, SMTT(30) DEF OrderedOK
<1>12. /\ Len(delivered[e] \o ms) = end - 1
       /\ \A i \in 1..(end - 1) : (delivered[e] \o ms)[i] = i
  <2>1. /\ Len(delivered[e] \o ms) = (next - 1) + (end - next)
        /\ \A i \in 1..((next - 1) + (end - next)) :
             (delivered[e] \o ms)[i] =
               IF i <= next - 1 THEN delivered[e][i] ELSE ms[i - (next - 1)]
    <3>1. /\ Len(delivered[e] \o ms) = Len(delivered[e]) + Len(ms)
          /\ \A i \in 1..(Len(delivered[e]) + Len(ms)) :
               (delivered[e] \o ms)[i] =
                 IF i <= Len(delivered[e]) THEN delivered[e][i]
                                           ELSE ms[i - Len(delivered[e])]
      <4>1. delivered[e] \in Seq(1..MaxSeq) /\ ms \in Seq(1..MaxSeq)
        BY <1>2, <1>8
      <4> QED BY <4>1
    <3>2. Len(delivered[e]) = next - 1 /\ Len(ms) = end - next
      BY <1>8, <1>10
    <3> QED BY <3>1, <3>2
  <2>2. (next - 1) + (end - next) = end - 1
    BY <1>10
  <2>3. \A i \in 1..(next - 1) : delivered[e][i] = i
    BY <1>10 DEF OrderedOK
  <2>4. ASSUME NEW i \in 1..(end - 1), ~(i <= next - 1)
        PROVE  ms[i - (next - 1)] = i
    <3>1. i - (next - 1) \in 1..Len(ms) /\ next + (i - (next - 1)) - 1 = i
      <4>1. Len(ms) = end - next
        BY <1>8
      <4> QED BY <2>4, <4>1, <1>10
    <3> QED BY <3>1, <1>8
  <2>5. ASSUME NEW i \in 1..(end - 1)
        PROVE  (delivered[e] \o ms)[i] = i
    <3>1. CASE i <= next - 1
      BY <2>1, <2>2, <2>3, <3>1, <1>10, SMTT(30)
    <3>2. CASE ~(i <= next - 1)
      BY <2>1, <2>2, <2>4, <3>2
    <3> QED BY <3>1, <3>2, ZenonT(30)
  <2> QED BY <2>1, <2>2, <2>5
<1>13. 1..(end - 1) \subseteq accepted[e]
  <2>1. 1..(next - 1) \subseteq accepted[e]
    BY <1>1, <1>7 DEF OrderedOK
  <2>2. 1..(end - 1) \subseteq (1..(next - 1)) \union (next .. (end - 1))
    BY <1>10
  <2> QED BY <2>1, <2>2, <1>8, <1>10
<1>14. \A s \in DOMAIN d.recvBuffer :
         /\ end < s
         /\ MaxReorderWindow > 0 => s < end + MaxReorderWindow
  BY <1>8, <1>10, <1>11, ChannelOpsAssumption
<1>15. accepted[e] \subseteq 1..(end - 1) \union DOMAIN d.recvBuffer
  <2>1. accepted[e] \subseteq 1..(next - 1) \union held
    BY <1>1, <1>7 DEF OrderedOK
  <2> QED BY <2>1, <1>8, <1>10
<1>16. OrderedOK(e)'
  <2>1. /\ ch'[e] = d /\ delivered'[e] = delivered[e] \o ms
        /\ accepted'[e] = accepted[e] /\ InDelivery(e)' = {}
    BY <1>7
  <2>2. DOMAIN d.recvBuffer \subseteq accepted[e]
    BY <1>8, <1>10
  <2> QED BY <2>1, <2>2, <1>10, <1>12, <1>13, <1>14, <1>15 DEF OrderedOK
<1>17. QED BY <1>1, <1>7, <1>8, <1>9, <1>16 DEF DeliverKeeps

\* deliver on a channel of another mode: the packet goes to the application, or
\* is dropped as out of date, and was never delivered before.
LEMMA DeliverUnorderedStep ==
  ASSUME TypeOK, NEW e \in Ends, Mode # "ReliableOrdered", UnorderedOK(e),
         NEW seq \in 1..MaxSeq, InDelivery(e) = {seq}, seq \in accepted[e],
         NEW r, r = Deliver(ch[e], seq, seq),
         ch'[e] = r.channel, delivered'[e] = delivered[e] \o r.msgs,
         accepted'[e] = accepted[e], InDelivery(e)' = {}
  PROVE  DeliverKeeps(ch[e], r) /\ UnorderedOK(e)'
<1>1. PICK c \in ChannelType : c = ch[e]
  BY EndTypes
<1>2. PICK D \in Seq(1..MaxSeq) : D = delivered[e]
  BY EndTypes
<1>3. /\ Len(D) \in Nat /\ seq \in Nat /\ MaxSeq \in Nat
      /\ c.lastRecvSeq \in Nat /\ c.mode = Mode
      /\ \A i \in 1..Len(D) : D[i] \in Nat
  BY <1>1, <1>2, FieldTypes, Basics
<1>4. \A i \in 1..Len(D) : D[i] # seq
  BY <1>2 DEF UnorderedOK
<1>5. /\ <<seq>> \in Seq(1..MaxSeq)
      /\ Len(D \o <<seq>>) = Len(D) + 1
      /\ \A i \in 1..Len(D) : (D \o <<seq>>)[i] = D[i]
      /\ (D \o <<seq>>)[Len(D) + 1] = seq
  BY <1>2, <1>3
<1>6. ASSUME r.msgs = <<seq>>, r.channel.recvBuffer = c.recvBuffer,
             Mode = "UnreliableSequenced" =>
               c.lastRecvSeq < seq /\ r.channel.lastRecvSeq = seq
      PROVE  UnorderedOK(e)'
  <2>1. delivered'[e] = D \o <<seq>>
    BY <1>2, <1>6
  <2>2. PICK E : E = D \o <<seq>>
    BY ZenonT(30)
  <2>3. /\ Len(E) = Len(D) + 1
        /\ \A i \in 1..Len(E) : (i \in 1..Len(D) /\ E[i] = D[i]) \/ (i = Len(D) + 1 /\ E[i] = seq)
        /\ \A i \in 1..Len(D) : i \in 1..Len(E) /\ E[i] = D[i]
        /\ Len(E) \in 1..Len(E) /\ E[Len(E)] = seq
    BY <2>2, <1>3, <1>5
  <2>4. /\ DOMAIN c.recvBuffer = {}
        /\ \A i \in 1..Len(D) : D[i] \in accepted[e] \ {seq}
        /\ \A i, j \in 1..Len(D) : D[i] = D[j] => i = j
        /\ Mode # "UnreliableSequenced" =>
             \A s \in accepted[e] \ {seq} : \E i \in 1..Len(D) : D[i] = s
        /\ Mode = "UnreliableSequenced" =>
             /\ \A i \in 1..Len(D) : D[i] <= c.lastRecvSeq
             /\ \A i, j \in 1..Len(D) : i < j => D[i] < D[j]
    BY <1>1, <1>2 DEF UnorderedOK
  <2>5. \A i \in 1..Len(E) : E[i] \in accepted[e]
    BY <2>3, <2>4
  <2>6. \A i, j \in 1..Len(E) : E[i] = E[j] => i = j
    BY <2>3, <2>4
  <2>7. Mode # "UnreliableSequenced" =>
          \A s \in accepted[e] : \E i \in 1..Len(E) : E[i] = s
    BY <2>3, <2>4
  <2>8. Mode = "UnreliableSequenced" =>
          /\ \A i \in 1..Len(E) : E[i] <= seq
          /\ \A i, j \in 1..Len(E) : i < j => E[i] < E[j]
    <3>1. SUFFICES ASSUME Mode = "UnreliableSequenced"
                   PROVE  /\ \A i \in 1..Len(E) : E[i] <= seq
                          /\ \A i, j \in 1..Len(E) : i < j => E[i] < E[j]
      OBVIOUS
    <3>2. c.lastRecvSeq < seq /\ \A i \in 1..Len(D) : D[i] <= c.lastRecvSeq
      BY <3>1, <1>6, <2>4
    <3>3. \A i \in 1..Len(D) : D[i] < seq
      BY <3>2, <1>3
    <3>4. \A i, j \in 1..Len(D) : i < j => D[i] < D[j]
      BY <3>1, <2>4
    <3>5. \A i \in 1..Len(E) : E[i] <= seq
      BY <3>3, <2>3, <1>3, SMTT(30)
    <3>6. ASSUME NEW i \in 1..Len(E), NEW j \in 1..Len(E), i < j
          PROVE  E[i] < E[j]
      <4>1. i \in 1..Len(D) /\ E[i] = D[i]
        BY <3>6, <2>3, <1>3
      <4>2. CASE j \in 1..Len(D)
        BY <3>4, <3>6, <4>1, <4>2, <2>3
      <4>3. CASE j = Len(D) + 1
        BY <3>3, <4>1, <4>3, <2>3
      <4> QED BY <4>2, <4>3, <2>3
    <3> QED BY <3>5, <3>6
  <2>9. UnorderedOK(e)'
    <3>1. /\ delivered'[e] = E /\ accepted'[e] = accepted[e] /\ InDelivery(e)' = {}
          /\ DOMAIN ch'[e].recvBuffer = {}
          /\ Mode = "UnreliableSequenced" => ch'[e].lastRecvSeq = seq
      BY <2>1, <2>2, <2>4, <1>6
    <3>2. /\ \A i \in 1..Len(delivered'[e]) : delivered'[e][i] \in accepted'[e] \ InDelivery(e)'
          /\ \A i, j \in 1..Len(delivered'[e]) : delivered'[e][i] = delivered'[e][j] => i = j
      BY <3>1, <2>5, <2>6
    <3>3. Mode # "UnreliableSequenced" =>
            \A s \in accepted'[e] \ InDelivery(e)' :
              \E i \in 1..Len(delivered'[e]) : delivered'[e][i] = s
      BY <3>1, <2>7
    <3>4. Mode = "UnreliableSequenced" =>
            /\ \A i \in 1..Len(delivered'[e]) : delivered'[e][i] <= ch'[e].lastRecvSeq
            /\ \A i, j \in 1..Len(delivered'[e]) :
                 i < j => delivered'[e][i] < delivered'[e][j]
      BY <3>1, <2>8
    <3>5. DOMAIN ch'[e].recvBuffer = {}
      BY <3>1
    <3> QED BY <3>2, <3>3, <3>4, <3>5, ZenonT(30) DEF UnorderedOK
  <2> QED BY <2>9
<1>7. CASE Mode = "UnreliableSequenced" /\ seq > c.lastRecvSeq
  <2>1. /\ r.msgs = <<seq>>
        /\ r.channel = [c EXCEPT !.lastRecvSeq = seq]
    BY <1>1, <1>3, <1>7 DEF Deliver, DeliverUnreliableSequenced
  <2>2. /\ r.channel \in ChannelType
        /\ r.channel.lastRecvSeq = seq
        /\ r.channel.recvBuffer = c.recvBuffer
        /\ r.channel.sendSeq = c.sendSeq
        /\ r.channel.recvAck = c.recvAck
        /\ r.channel.recvAckField = c.recvAckField
        /\ r.channel.pendingSend = c.pendingSend
    <3>1. seq \in 0..MaxSeq
      BY <1>3
    <3> QED BY <2>1, <3>1, ZenonT(30) DEF ChannelType
  <2>3. UnorderedOK(e)'
    BY <2>1, <2>2, <1>3, <1>6, <1>7
  <2> QED BY <2>1, <2>2, <2>3, <1>1, <1>5 DEF DeliverKeeps
<1>8. CASE Mode = "UnreliableSequenced" /\ ~(seq > c.lastRecvSeq)
  <2>1. r.msgs = << >> /\ r.channel = c
    BY <1>1, <1>3, <1>8 DEF Deliver, DeliverUnreliableSequenced
  <2>2. delivered'[e] = D
    BY <2>1, <1>2
  <2>3. UnorderedOK(e)'
    BY <2>1, <2>2, <1>1, <1>2, <1>8 DEF UnorderedOK
  <2> QED BY <2>1, <2>3, <1>1 DEF DeliverKeeps
<1>9. CASE Mode # "UnreliableSequenced"
  <2>1. r.msgs = <<seq>> /\ r.channel = c
    BY <1>1, <1>3, <1>9 DEF Deliver
  <2>2. UnorderedOK(e)'
    BY <2>1, <1>6, <1>9
  <2> QED BY <2>1, <2>2, <1>1, <1>5 DEF DeliverKeeps
<1>10. QED BY <1>7, <1>8, <1>9

\* deliver and its OnMessage calls preserve the invariant.
LEMMA DeliverPacketStep ==
  ASSUME IInv, NEW e \in Ends, DeliverPacket(e)
  PROVE  IInv'
<1>1. PICK seq, r : seq = hand[e]["tick"].seq /\ r = Deliver(ch[e], seq, seq)
  OBVIOUS
<1>2. /\ pc[e] = "deliver"
      /\ ch' = [ch EXCEPT ![e] = r.channel]
      /\ delivered' = [delivered EXCEPT ![e] = @ \o r.msgs]
      /\ hand' = [hand EXCEPT ![e]["tick"] = NoPacket]
      /\ pc' = [pc EXCEPT ![e] = "incoming"]
      /\ UNCHANGED <<conn, net, faults, accepted, failed>>
  BY <1>1 DEF DeliverPacket
<1>3. /\ seq \in accepted[e] /\ seq \in 1..MaxSeq
      /\ conn[e] = "Connected"
      /\ AckStateOK(e) /\ DeliveryOK(e)
  <2>1. HandsOK(e) /\ accepted[e] \in SUBSET (1..MaxSeq)
        /\ conn[e] \in {"Connected", "Disconnected"}
    BY EndTypes DEF IInv
  <2>2. AckStateOK(e) /\ DeliveryOK(e)
    BY DEF IInv
  <2> QED BY <2>1, <2>2, <1>1, <1>2 DEF HandsOK
<1>4. \A f \in Ends : /\ ch'[f] = IF f = e THEN r.channel ELSE ch[f]
                      /\ delivered'[f] = IF f = e THEN delivered[f] \o r.msgs ELSE delivered[f]
                      /\ pc'[f] = IF f = e THEN "incoming" ELSE pc[f]
                      /\ f # e => hand'[f] = hand[f]
  BY <1>2 DEF IInv, TypeOK
<1>5. hand'[e]["tick"] = NoPacket /\ hand'[e]["user"] = hand[e]["user"]
  BY <1>2 DEF IInv, TypeOK, Threads
<1>6. InDelivery(e) = {seq} /\ InDelivery(e)' = {}
  <2>1. InDelivery(e) = {seq}
    BY <1>1, <1>2 DEF InDelivery
  <2>2. pc'[e] = "incoming"
    BY <1>4
  <2>3. InDelivery(e)' = {}
    BY <2>2 DEF InDelivery
  <2> QED BY <2>1, <2>3
<1>7. DeliverKeeps(ch[e], r) /\ DeliveryOK(e)'
  <2>1. /\ ch'[e] = r.channel /\ delivered'[e] = delivered[e] \o r.msgs
        /\ accepted'[e] = accepted[e] /\ TypeOK
    BY <1>2, <1>4, ZenonT(30) DEF IInv
  <2>2. CASE Mode = "ReliableOrdered"
    <3>1. OrderedOK(e)
      BY <2>2, <1>3 DEF DeliveryOK
    <3> QED BY <2>1, <2>2, <3>1, <1>1, <1>3, <1>6, DeliverOrderedStep, ZenonT(30) DEF DeliveryOK
  <2>3. CASE Mode # "ReliableOrdered"
    <3>1. UnorderedOK(e)
      BY <2>3, <1>3 DEF DeliveryOK
    <3> QED BY <2>1, <2>3, <3>1, <1>1, <1>3, <1>6, DeliverUnorderedStep, ZenonT(30) DEF DeliveryOK
  <2> QED BY <2>2, <2>3
<1>8. TypeOK'
  <2>1. ch' \in [Ends -> ChannelType]
    BY <1>2, <1>7 DEF IInv, TypeOK, DeliverKeeps
  <2>2. delivered[e] \o r.msgs \in Seq(1..MaxSeq)
    <3>1. delivered[e] \in Seq(1..MaxSeq)
      BY EndTypes DEF IInv
    <3> QED BY <3>1, <1>7 DEF DeliverKeeps
  <2>3. delivered' \in [Ends -> Seq(1..MaxSeq)]
    BY <1>2, <2>2 DEF IInv, TypeOK
  <2>4. hand' \in [Ends -> [Threads -> Packets \union {NoPacket}]]
    BY <1>2, ZenonT(30) DEF IInv, TypeOK
  <2> QED BY <1>2, <2>1, <2>3, <2>4 DEF IInv, TypeOK, faults
<1>9. \A f \in Ends : /\ ch[f].sendSeq <= ch'[f].sendSeq
                      /\ ch'[f].sendSeq = ch[f].sendSeq
                      /\ ch'[f].recvAck = ch[f].recvAck
                      /\ ch'[f].recvAckField = ch[f].recvAckField
                      /\ ch'[f].pendingSend = ch[f].pendingSend
                      /\ accepted'[f] = accepted[f]
  <2>1. \A f \in Ends : ch[f].sendSeq \in Nat
    BY EndTypes, FieldTypes DEF IInv
  <2>2. \A f \in Ends : /\ ch'[f].sendSeq = ch[f].sendSeq
                        /\ ch'[f].recvAck = ch[f].recvAck
                        /\ ch'[f].recvAckField = ch[f].recvAckField
                        /\ ch'[f].pendingSend = ch[f].pendingSend
    BY <1>4, <1>7 DEF DeliverKeeps
  <2> QED BY <2>1, <2>2, <1>2
<1>10. \A m \in Packets : Sound(m) => Sound(m)'
  BY <1>8, <1>9, SoundFrame DEF IInv
<1>11. \A f \in Ends : AckStateOK(f)'
  BY <1>8, <1>9, AckStateFrame, Basics DEF IInv
<1>12. PacketsOK'
  BY <1>2, <1>9, <1>10, NetSound, PendingSound, PacketsFrame
<1>13. ASSUME NEW f \in Ends
       PROVE  HandsOK(f)'
  <2>1. CASE f # e
    BY <2>1, <1>2, <1>4, <1>10, HandsFrame DEF IInv
  <2>2. CASE f = e
    <3>1. HandsOK(e) /\ \A u \in Threads : hand[e][u] \in Packets \union {NoPacket}
      BY EndTypes DEF IInv
    <3> QED BY <2>2, <3>1, <1>2, <1>4, <1>5, <1>10, SMTT(30) DEF HandsOK, Threads
  <2> QED BY <2>1, <2>2
<1>14. ASSUME NEW f \in Ends, f # e
       PROVE  DeliveryOK(f)'
  <2>1. InDelivery(f)' = InDelivery(f)
    BY <1>4, <1>14 DEF InDelivery
  <2> QED BY <2>1, <1>2, <1>4, <1>14, DeliveryFrame DEF IInv
<1>15. ASSUME NEW f \in Ends
       PROVE  CareOK(f)'
  <2>1. PendingSeqs(f)' = PendingSeqs(f)
    BY <1>9 DEF PendingSeqs
  <2>2. InHand(f)' = InHand(f)
    BY <1>2, <1>4, <1>5 DEF InHand, Threads
  <2> QED BY <2>1, <2>2, <1>2, <1>9, CareFrame DEF IInv
<1>16. QED BY <1>7, <1>8, <1>11, <1>12, <1>13, <1>14, <1>15 DEF IInv

-----------------------------------------------------------------------------
(* The inductive invariant.                                                 *)

\* A new connection satisfies the invariant.
LEMMA InitIInv == Init => IInv
<1> SUFFICES ASSUME Init PROVE IInv OBVIOUS
<1>1. NewChannel(Mode) \in ChannelType
  <2>1. << >> \in Buffers
    <3>1. << >> = [s \in {} |-> s] OBVIOUS
    <3> QED BY ZenonT(30), <3>1 DEF Buffers
  <2> QED BY <2>1, Basics, ChannelAssumption DEF NewChannel, ChannelType
<1>2. TypeOK
  BY <1>1, ChannelAssumption DEF Init, TypeOK
<1>3. PacketsOK
  BY DEF Init, PacketsOK, NewChannel
<1>4. ASSUME NEW e \in Ends
      PROVE  HandsOK(e) /\ AckStateOK(e) /\ DeliveryOK(e) /\ CareOK(e)
  <2>0. /\ conn[e] = "Connected" /\ pc[e] = "incoming"
        /\ \A t \in Threads : hand[e][t] = NoPacket
        /\ ch[e] = NewChannel(Mode) /\ ch[Other(e)] = NewChannel(Mode)
        /\ accepted[e] = {} /\ delivered[e] = << >>
    BY Basics DEF Init
  <2>1. HandsOK(e)
    BY <2>0 DEF HandsOK, Threads
  <2>2. AckStateOK(e)
    BY <2>0, ChannelOpsAssumption DEF AckStateOK, NewChannel
  <2>3. DeliveryOK(e)
    BY <2>0 DEF DeliveryOK, OrderedOK, UnorderedOK, InDelivery, NewChannel
  <2>4. CareOK(e)
    BY <2>0 DEF CareOK, NewChannel
  <2> QED BY <2>1, <2>2, <2>3, <2>4
<1>5. QED BY <1>2, <1>3, <1>4 DEF IInv

\* Every step of the channel preserves the invariant.
LEMMA NextIInv == IInv /\ [Next]_vars => IInv'
<1> SUFFICES ASSUME IInv, [Next]_vars PROVE IInv'
  OBVIOUS
<1>1. ASSUME NEW e \in Ends, NEW t \in Threads, SendPacket(e, t) PROVE IInv'
  BY <1>1, SendPacketStep
<1>2. ASSUME NEW e \in Ends, NEW t \in Threads, SendPacketFails(e, t) PROVE IInv'
  BY <1>2, SendPacketFailsStep
<1>3. ASSUME NEW e \in Ends, NEW t \in Threads, AddPendingPacket(e, t) PROVE IInv'
  BY <1>3, AddPendingStep
<1>4. ASSUME NEW e \in Ends, NEW m \in net, Receive(e, m) PROVE IInv'
  BY <1>4, ReceiveStep
<1>5. ASSUME NEW e \in Ends, DeliverPacket(e) PROVE IInv'
  BY <1>5, DeliverPacketStep
<1>6. ASSUME NEW e \in Ends, Tick(e) PROVE IInv'
  <2>1. ASSUME NEW due \in SUBSET ch[e].pendingSend, Retransmit(e, due) PROVE IInv'
    BY <2>1, RetransmitStep
  <2>2. ASSUME NEW due \in SUBSET ch[e].pendingSend, Kill(e, due) PROVE IInv'
    BY <2>2, KillStep
  <2>3. CASE EndDrain(e)
    BY <2>3, EndDrainStep
  <2>4. ASSUME NEW heartbeatDue \in BOOLEAN, FlushAcks(e, heartbeatDue) PROVE IInv'
    BY <2>4, FlushAcksStep
  <2> QED BY <1>6, <2>1, <2>2, <2>3, <2>4 DEF Tick
<1>7. ASSUME NEW m \in net, Lose(m) PROVE IInv'
  BY <1>7, LoseStep
<1>8. CASE UNCHANGED vars
  <2>1. UNCHANGED <<conn, ch, pc, hand, net, lost, duplicated, writeErrors,
                    accepted, failed, delivered>>
    BY <1>8 DEF vars, faults
  <2>2. TypeOK'
    BY <2>1 DEF IInv, TypeOK
  <2>3. PacketsOK'
    BY <2>1 DEF IInv, PacketsOK, Sound
  <2>4. ASSUME NEW e \in Ends
        PROVE  (HandsOK(e) /\ AckStateOK(e) /\ DeliveryOK(e) /\ CareOK(e))'
    <3>1. HandsOK(e)'
      BY ZenonT(30), <2>1 DEF IInv, HandsOK, Sound
    <3>2. AckStateOK(e)'
      BY <2>1 DEF IInv, AckStateOK
    <3>3. DeliveryOK(e)'
      <4>1. InDelivery(e)' = InDelivery(e)
        BY <2>1 DEF InDelivery
      <4>2. DeliveryOK(e)
        BY DEF IInv
      <4> QED BY <2>1, <4>1, <4>2, DeliveryFrame
    <3>4. CareOK(e)'
      BY <2>1 DEF IInv, CareOK, PendingSeqs, InHand
    <3> QED BY <3>1, <3>2, <3>3, <3>4
  <2> QED BY <2>2, <2>3, <2>4 DEF IInv
<1>9. QED
  BY <1>1, <1>2, <1>3, <1>4, <1>5, <1>6, <1>7, <1>8 DEF Next

-----------------------------------------------------------------------------
(* What the invariant implies.                                              *)

\* The accepted sequences of a connected end of a reliable channel are all
\* still there: delivered, buffered, or about to be delivered.
LEMMA AcceptedKept ==
  ASSUME IInv, NEW e \in Ends, Mode \in ReliableModes, conn[e] = "Connected"
  PROVE  accepted[e] \subseteq Kept(e)
<1>1. DeliveryOK(e) /\ delivered[e] \in Seq(1..MaxSeq)
  BY EndTypes DEF IInv
<1>2. DOMAIN delivered[e] = 1..Len(delivered[e]) /\ Len(delivered[e]) \in Nat
  BY <1>1
<1>3. InDelivery(e) \subseteq Kept(e) /\ DOMAIN ch[e].recvBuffer \subseteq Kept(e)
  BY DEF InDelivery, Kept
<1>4. \A i \in 1..Len(delivered[e]) : delivered[e][i] \in Kept(e)
  BY <1>2 DEF Kept
<1>5. CASE Mode = "ReliableOrdered"
  <2>1. OrderedOK(e)
    BY <1>1, <1>5 DEF DeliveryOK
  <2>2. 1..(ch[e].recvNextDeliver - 1) \subseteq Kept(e)
    BY <1>4, <2>1 DEF OrderedOK
  <2> QED BY <1>3, <2>1, <2>2 DEF OrderedOK
<1>6. CASE Mode = "ReliableUnordered"
  <2>1. \A s \in accepted[e] \ InDelivery(e) :
          \E i \in 1..Len(delivered[e]) : delivered[e][i] = s
    BY <1>1, <1>6 DEF DeliveryOK, UnorderedOK
  <2> QED BY <1>3, <1>4, <2>1
<1>7. QED BY <1>5, <1>6 DEF ReliableModes

\* The invariant implies every safety property of the channel.
LEMMA IInvImplies ==
  ASSUME IInv
  PROVE  /\ TypeOK /\ AtMostOnce /\ OrderedDelivery /\ SequencedDelivery
         /\ AcksAreTruthful /\ NothingForgotten /\ ReorderBufferBounded
<1>1. \A e \in Ends : /\ DeliveryOK(e)
                      /\ DOMAIN delivered[e] = 1..Len(delivered[e])
  BY EndTypes DEF IInv
<1>2. TypeOK
  BY DEF IInv
<1>3. AtMostOnce
  <2> SUFFICES ASSUME NEW e \in Ends, NEW i \in DOMAIN delivered[e],
                      NEW j \in DOMAIN delivered[e], delivered[e][i] = delivered[e][j]
               PROVE  i = j
    BY DEF AtMostOnce
  <2>1. i \in 1..Len(delivered[e]) /\ j \in 1..Len(delivered[e])
    BY <1>1
  <2>2. CASE Mode = "ReliableOrdered"
    <3>1. \A k \in 1..Len(delivered[e]) : delivered[e][k] = k
      BY <1>1, <2>2 DEF DeliveryOK, OrderedOK
    <3> QED BY <2>1, <3>1
  <2>3. CASE Mode # "ReliableOrdered"
    <3>1. \A k, l \in 1..Len(delivered[e]) : delivered[e][k] = delivered[e][l] => k = l
      BY <1>1, <2>3 DEF DeliveryOK, UnorderedOK
    <3> QED BY <2>1, <3>1
  <2> QED BY <2>2, <2>3
<1>4. OrderedDelivery
  BY <1>1 DEF OrderedDelivery, DeliveryOK, OrderedOK
<1>5. SequencedDelivery
  BY ZenonT(30), <1>1 DEF SequencedDelivery, DeliveryOK, UnorderedOK
<1>6. AcksAreTruthful
  <2>1. SUFFICES ASSUME NEW m \in net, NEW s \in 1..ch[Other(m.from)].sendSeq,
                        m.ack # 0, IsAcked(s, m.ack, m.field)
                 PROVE  s \in accepted[m.from]
    BY DEF AcksAreTruthful
  <2>2. m \in Packets /\ Sound(m)
    BY NetSound
  <2>3. s \in Nat
    BY <2>2, EndTypes, FieldTypes, PacketTypes, Basics DEF IInv
  <2> QED BY <2>1, <2>2, <2>3, AckedAccepted
<1>7. NothingForgotten
  <2>1. SUFFICES ASSUME Mode \in ReliableModes, NEW e \in Ends,
                        NEW s \in (1..ch[e].sendSeq) \ failed[e],
                        \A d \in Ends : conn[d] # "Disconnected"
                 PROVE  s \in PendingSeqs(e) \union InHand(e) \union Kept(Other(e))
    BY DEF NothingForgotten
  <2>2. conn[e] = "Connected" /\ conn[Other(e)] = "Connected" /\ Other(e) \in Ends
    BY <2>1, EndTypes, Basics DEF IInv
  <2>3. accepted[Other(e)] \subseteq Kept(Other(e))
    BY <2>1, <2>2, AcceptedKept
  <2>4. CareOK(e)
    BY DEF IInv
  <2> QED BY <2>1, <2>2, <2>3, <2>4 DEF CareOK
<1>8. ReorderBufferBounded
  BY <1>1 DEF ReorderBufferBounded, DeliveryOK, OrderedOK, UnorderedOK
<1>9. QED BY <1>2, <1>3, <1>4, <1>5, <1>6, <1>7, <1>8

-----------------------------------------------------------------------------
(* The theorems.                                                            *)

\* The inductive invariant holds in every reachable state, for every mode, ack
\* width, window and number of messages and faults.
THEOREM Invariance == Spec => []IInv
<1>1. QED BY InitIInv, NextIInv, PTL DEF Spec

\* Every variable keeps its type; no packet exceeds its retransmissions.
THEOREM TypeCorrectness == Spec => []TypeOK
<1>1. IInv => TypeOK
  BY DEF IInv
<1>2. QED BY <1>1, Invariance, PTL

\* No message is delivered twice, in any mode.
THEOREM NoDuplicateDelivery == Spec => []AtMostOnce
<1>1. IInv => AtMostOnce
  BY IInvImplies
<1>2. QED BY <1>1, Invariance, PTL

\* An ordered channel delivers a prefix of what was sent, in order.
THEOREM InOrderDelivery == Spec => []OrderedDelivery
<1>1. IInv => OrderedDelivery
  BY IInvImplies
<1>2. QED BY <1>1, Invariance, PTL

\* A sequenced channel never goes back to an older message.
THEOREM MonotoneDelivery == Spec => []SequencedDelivery
<1>1. IInv => SequencedDelivery
  BY IInvImplies
<1>2. QED BY <1>1, Invariance, PTL

\* An ack names only what its sender took, however late it arrives.
THEOREM TruthfulAcks == Spec => []AcksAreTruthful
<1>1. IInv => AcksAreTruthful
  BY IInvImplies
<1>2. QED BY <1>1, Invariance, PTL

\* A reliable message stays in somebody's care while both ends are connected.
THEOREM NothingIsForgotten == Spec => []NothingForgotten
<1>1. IInv => NothingForgotten
  BY IInvImplies
<1>2. QED BY <1>1, Invariance, PTL

\* The reorder buffer stays within the receive window.
THEOREM BoundedReorderBuffer == Spec => []ReorderBufferBounded
<1>1. IInv => ReorderBufferBounded
  BY IInvImplies
<1>2. QED BY <1>1, Invariance, PTL

-----------------------------------------------------------------------------
(* The refinement mapping.                                                  *)

\* The ends of the two specifications are the same.
LEMMA SameEnds ==
  Promise!Peers = Ends /\ \A e \in Ends : Promise!PeerOf(e) = Other(e)
BY DEF Promise!Peers, Promise!PeerOf, Ends, Other

\* A step that leaves the connections, the send counters and the deliveries
\* alone is invisible.
LEMMA Invisible ==
  ASSUME UNCHANGED <<conn, delivered>>,
         \A f \in Ends : ch'[f].sendSeq = ch[f].sendSeq
  PROVE  UNCHANGED Promise!absVars
BY DEF Promise!absVars

\* A new channel is in an initial state of the promise.
LEMMA InitMaps == Init => Promise!AbsInit
<1> SUFFICES ASSUME Init PROVE Promise!AbsInit OBVIOUS
<1>1. \A e \in Ends : conn[e] = "Connected" /\ ch[e].sendSeq = 0
  BY DEF Init, NewChannel
<1>2. delivered = [e \in Ends |-> << >>]
  BY DEF Init
<1> QED BY ZenonT(30), <1>1, <1>2, SameEnds DEF Promise!AbsInit

-----------------------------------------------------------------------------
(* The steps.                                                               *)

\* A sequence number taken, whether the write succeeds or not, is a send.
LEMMA SendMaps ==
  ASSUME IInv, NEW e \in Ends, conn[e] = "Connected", ch[e].sendSeq < Sends(e),
         ch' = [ch EXCEPT ![e] = NextSequence(@)], UNCHANGED <<conn, delivered>>
  PROVE  Promise!AbsNext
<1>1. ch[e] \in ChannelType /\ ch \in [Ends -> ChannelType]
  BY EndTypes DEF IInv, TypeOK
<1>2. ch[e].sendSeq < MaxSeq
  BY <1>1, FieldTypes, Basics
<1>3. \A f \in Ends : ch'[f].sendSeq = IF f = e THEN ch[f].sendSeq + 1 ELSE ch[f].sendSeq
  BY <1>1, <1>2, NextSequenceFacts
<1>4. Promise!AbsSend(e)
  BY ZenonT(30), <1>3 DEF Promise!AbsSend
<1> QED BY <1>4, SameEnds DEF Promise!AbsNext

\* The teardown of an end closes it.
LEMMA KillMaps ==
  ASSUME IInv, NEW e \in Ends, NEW due, Kill(e, due)
  PROVE  Promise!AbsNext
<1>1. /\ ch' = [ch EXCEPT ![e] = ReleasePendingBuffers(@)]
      /\ conn' = [conn EXCEPT ![e] = "Disconnected"]
      /\ UNCHANGED delivered
  BY DEF Kill
<1>2. ch \in [Ends -> ChannelType] /\ conn \in [Ends -> {"Connected", "Disconnected"}]
  BY DEF IInv, TypeOK
<1>3. \A f \in Ends : ch'[f].sendSeq = ch[f].sendSeq
  <2>1. ReleasePendingBuffers(ch[e]).sendSeq = ch[e].sendSeq
    BY <1>2 DEF ReleasePendingBuffers, ChannelType
  <2>2. \A f \in Ends : ch'[f] = IF f = e THEN ReleasePendingBuffers(ch[e]) ELSE ch[f]
    BY <1>1, <1>2
  <2> QED BY <2>1, <2>2
<1>4. \A f \in Ends : conn'[f] = IF f = e THEN "Disconnected" ELSE conn[f]
  BY <1>1, <1>2
<1>5. Promise!AbsClose(e)
  <2>1. \A f \in Ends : (conn'[f] = "Connected") = (f # e /\ conn[f] = "Connected")
    BY <1>4
  <2>2. [f \in Ends |-> conn'[f] = "Connected"]
          = [[f \in Ends |-> conn[f] = "Connected"] EXCEPT ![e] = FALSE]
    <3>1. [f \in Ends |-> conn'[f] = "Connected"]
            = [f \in Ends |-> f # e /\ conn[f] = "Connected"]
      BY <2>1, Zenon
    <3>2. [f \in Ends |-> f # e /\ conn[f] = "Connected"]
            = [[f \in Ends |-> conn[f] = "Connected"] EXCEPT ![e] = FALSE]
      BY Zenon
    <3> QED BY <3>1, <3>2, Zenon
  <2>3. [f \in Ends |-> ch'[f].sendSeq] = [f \in Ends |-> ch[f].sendSeq]
    BY <1>3
  <2> QED BY <2>2, <2>3, <1>1, Zenon DEF Promise!AbsClose
<1> QED BY <1>5, SameEnds DEF Promise!AbsNext

\* What deliver passes on: messages that were sent, as many as were accepted at
\* most, and in the order that the mode asks for.
LEMMA DeliveredMaps ==
  ASSUME IInv, NEW e \in Ends, conn[e] = "Connected", UNCHANGED conn,
         \A f \in Ends : ch'[f].sendSeq = ch[f].sendSeq,
         NEW msgs \in Seq(1..MaxSeq), msgs # << >>,
         delivered' = [delivered EXCEPT ![e] = @ \o msgs],
         Len(msgs) <= ch[Other(e)].sendSeq,
         \A i \in 1..Len(msgs) : msgs[i] \in 1..ch[Other(e)].sendSeq,
         Mode = "ReliableOrdered" =>
           \A i \in 1..Len(msgs) : msgs[i] = Len(delivered[e]) + i,
         Mode # "ReliableOrdered" =>
           /\ Len(msgs) = 1
           /\ \A i \in 1..Len(delivered[e]) : delivered[e][i] # msgs[1],
         Mode = "UnreliableSequenced" =>
           \A i \in 1..Len(delivered[e]) : delivered[e][i] < msgs[1]
  PROVE  Promise!AbsNext
<1>1. /\ Len(msgs) \in Nat /\ DOMAIN msgs = 1..Len(msgs) /\ Len(msgs) # 0
      /\ DOMAIN delivered[e] = 1..Len(delivered[e])
  <2>1. TypeOK
    BY Zenon DEF IInv
  <2>2. DOMAIN delivered[e] = 1..Len(delivered[e])
    BY <2>1, EndTypes
  <2> QED BY <2>2, SeqFacts, Zenon
<1>2. PICK sent : sent = ch[Other(e)].sendSeq
  OBVIOUS
<1>3. Len(msgs) \in 1..sent
  <2>1. sent \in Nat
    BY <1>2, Basics, EndTypes, FieldTypes DEF IInv
  <2> QED BY <1>1, <1>2, <2>1
<1>4. msgs \in [1..Len(msgs) -> 1..sent]
  <2>1. \A i \in 1..Len(msgs) : msgs[i] \in 1..sent
    BY <1>2
  <2>2. msgs = [i \in 1..Len(msgs) |-> msgs[i]]
    BY <1>1
  <2> QED BY <2>1, <2>2
<1>5. sent = [f \in Ends |-> ch[f].sendSeq][Promise!PeerOf(e)]
  BY <1>2, SameEnds, Basics
<1>6. Promise!MayFollow(e, msgs)
  BY ZenonT(30), <1>1, <1>2, <1>5 DEF Promise!MayFollow
<1>7. Promise!AbsDeliver(e)
  BY ZenonT(30), <1>3, <1>4, <1>5, <1>6 DEF Promise!AbsDeliver
<1> QED BY <1>7, SameEnds DEF Promise!AbsNext

\* deliver either keeps everything back or passes on what the promise permits.
LEMMA DeliverPacketMaps ==
  ASSUME IInv, IInv', NEW e \in Ends, DeliverPacket(e)
  PROVE  Promise!AbsNext \/ UNCHANGED Promise!absVars
<1>1. PICK seq, r, ms, D, sent :
        /\ seq = hand[e]["tick"].seq /\ r = Deliver(ch[e], seq, seq)
        /\ ms = r.msgs /\ D = delivered[e] /\ sent = ch[Other(e)].sendSeq
  OBVIOUS
<1>2. /\ pc[e] = "deliver"
      /\ ch' = [ch EXCEPT ![e] = r.channel]
      /\ delivered' = [delivered EXCEPT ![e] = @ \o ms]
      /\ pc' = [pc EXCEPT ![e] = "incoming"]
      /\ UNCHANGED <<conn, accepted>>
  BY ZenonT(30), <1>1 DEF DeliverPacket
<1>3. /\ TypeOK /\ HandsOK(e) /\ AckStateOK(e) /\ DeliveryOK(e) /\ DeliveryOK(e)'
      /\ accepted[e] \in SUBSET (1..MaxSeq) /\ D \in Seq(1..MaxSeq)
      /\ conn[e] \in {"Connected", "Disconnected"}
  BY <1>1, EndTypes DEF IInv
<1>4. conn[e] = "Connected" /\ seq \in accepted[e] /\ seq \in 1..MaxSeq
  BY ZenonT(30), <1>1, <1>2, <1>3 DEF HandsOK
<1>5. /\ \A f \in Ends : ch'[f] = IF f = e THEN r.channel ELSE ch[f]
      /\ delivered'[e] = D \o ms /\ pc'[e] = "incoming"
  BY ZenonT(30), <1>1, <1>2, <1>3 DEF TypeOK
<1>6. InDelivery(e) = {seq} /\ InDelivery(e)' = {}
  BY ZenonT(30), <1>1, <1>2, <1>5 DEF InDelivery
<1>7. DeliverKeeps(ch[e], r)
  <2>1. /\ ch'[e] = r.channel /\ delivered'[e] = delivered[e] \o r.msgs
        /\ accepted'[e] = accepted[e]
    BY ZenonT(30), <1>1, <1>2, <1>5
  <2>2. CASE Mode = "ReliableOrdered"
    <3>1. OrderedOK(e)
      BY <2>2, <1>3 DEF DeliveryOK
    <3> QED BY ZenonT(30), <2>1, <2>2, <3>1, <1>1, <1>3, <1>4, <1>6, DeliverOrderedStep
  <2>3. CASE Mode # "ReliableOrdered"
    <3>1. UnorderedOK(e)
      BY <2>3, <1>3 DEF DeliveryOK
    <3> QED BY ZenonT(30), <2>1, <2>3, <3>1, <1>1, <1>3, <1>4, <1>6, DeliverUnorderedStep
  <2> QED BY <2>2, <2>3
<1>8. /\ ms \in Seq(1..MaxSeq) /\ Len(ms) \in Nat /\ Len(D) \in Nat
      /\ \A f \in Ends : ch'[f].sendSeq = ch[f].sendSeq
  <2>1. ms \in Seq(1..MaxSeq) /\ D \in Seq(1..MaxSeq)
    BY ZenonT(30), <1>1, <1>3, <1>7 DEF DeliverKeeps
  <2>2. \A f \in Ends : ch'[f].sendSeq = ch[f].sendSeq
    BY <1>5, <1>7 DEF DeliverKeeps
  <2> QED BY <2>1, <2>2
<1>9. accepted[e] \subseteq 1..sent /\ sent \in Nat
  <2>1. /\ sent \in Nat /\ ch[e].recvAck \in Nat
        /\ accepted[e] \subseteq 1..ch[e].recvAck /\ ch[e].recvAck <= sent
    BY <1>1, <1>3, Basics, EndTypes, FieldTypes DEF AckStateOK
  <2> QED BY <2>1
<1>10. CASE ms = << >>
  <2>1. delivered' = delivered
    <3>1. D \o ms = D
      BY <1>3, <1>10
    <3> QED BY ZenonT(30), <3>1, <1>1, <1>2, <1>3 DEF TypeOK
  <2> QED BY <2>1, <1>2, <1>8, Invisible
<1>11. ASSUME ms # << >>
       PROVE  /\ Len(ms) <= sent
              /\ \A i \in 1..Len(ms) : ms[i] \in 1..sent
              /\ Mode = "ReliableOrdered" => \A i \in 1..Len(ms) : ms[i] = Len(D) + i
              /\ Mode # "ReliableOrdered" =>
                   Len(ms) = 1 /\ \A i \in 1..Len(D) : D[i] # ms[1]
              /\ Mode = "UnreliableSequenced" => \A i \in 1..Len(D) : D[i] < ms[1]
  <2>1. /\ Len(D \o ms) = Len(D) + Len(ms)
        /\ \A i \in 1..(Len(D) + Len(ms)) :
             (D \o ms)[i] = IF i <= Len(D) THEN D[i] ELSE ms[i - Len(D)]
    BY <1>3, <1>8
  <2>2. /\ Len(ms) >= 1
        /\ \A i \in 1..Len(D) : i \in 1..(Len(D) + Len(ms))
        /\ \A i \in 1..Len(ms) : /\ Len(D) + i \in 1..(Len(D) + Len(ms))
                                  /\ ~(Len(D) + i <= Len(D))
                                  /\ (Len(D) + i) - Len(D) = i
    BY <1>8, <1>11
  <2>3. /\ \A i \in 1..Len(D) : (D \o ms)[i] = D[i]
        /\ \A i \in 1..Len(ms) : (D \o ms)[Len(D) + i] = ms[i]
    BY <1>8, <2>1, <2>2
  <2>4. CASE Mode = "ReliableOrdered"
    <3>1. OrderedOK(e)'
      BY <1>3, <2>4 DEF DeliveryOK
    <3>2. /\ Len(D \o ms) = ch'[e].recvNextDeliver - 1
          /\ \A i \in 1..Len(D \o ms) : (D \o ms)[i] = i
          /\ 1..(ch'[e].recvNextDeliver - 1) \subseteq accepted[e]
      BY ZenonT(30), <3>1, <1>2, <1>5 DEF OrderedOK
    <3>3. \A i \in 1..(Len(D) + Len(ms)) : (D \o ms)[i] = i /\ i \in 1..sent
      BY <3>2, <2>1, <1>9
    <3>4. Len(D) + Len(ms) <= sent
      BY <3>3, <2>2, <1>8, <1>9
    <3>5. \A i \in 1..Len(ms) : ms[i] = Len(D) + i /\ Len(D) + i \in 1..sent
      BY <3>3, <2>2, <2>3
    <3> QED BY <3>4, <3>5, <2>4, <1>8, <1>9
  <2>5. CASE Mode # "ReliableOrdered"
    <3>1. UnorderedOK(e)'
      BY <1>3, <2>5 DEF DeliveryOK
    <3>2. ms = <<seq>>
      <4>1. ch[e].mode = Mode
        BY <1>3, EndTypes, FieldTypes
      <4> QED BY <4>1, <1>1, <1>11, <2>5 DEF Deliver, DeliverUnreliableSequenced
    <3>3. /\ \A i, j \in 1..Len(D \o ms) : (D \o ms)[i] = (D \o ms)[j] => i = j
          /\ Mode = "UnreliableSequenced" =>
               \A i, j \in 1..Len(D \o ms) : i < j => (D \o ms)[i] < (D \o ms)[j]
      BY <3>1, <1>5 DEF UnorderedOK
    <3>4. /\ Len(ms) = 1 /\ ms[1] = seq
          /\ Len(D \o ms) = Len(D) + 1
          /\ (D \o ms)[Len(D) + 1] = seq
      BY <3>2, <2>1, <2>3
    <3>5. \A i \in 1..Len(D) : i # Len(D) + 1 /\ i < Len(D) + 1
                              /\ i \in 1..(Len(D) + 1) /\ Len(D) + 1 \in 1..(Len(D) + 1)
      BY <1>8
    <3>6. \A i \in 1..Len(D) : D[i] # seq
      BY <3>3, <3>4, <3>5, <2>3
    <3>7. Mode = "UnreliableSequenced" => \A i \in 1..Len(D) : D[i] < seq
      BY <3>3, <3>4, <3>5, <2>3
    <3>8. seq \in 1..sent
      BY <1>4, <1>9
    <3> QED BY <3>4, <3>6, <3>7, <3>8, <2>5, <1>9
  <2> QED BY <2>4, <2>5
<1>12. CASE ms # << >>
  <2>1. /\ conn[e] = "Connected" /\ UNCHANGED conn
        /\ delivered' = [delivered EXCEPT ![e] = @ \o ms]
    BY <1>1, <1>2, <1>3, <1>4
  <2>2. /\ Len(ms) <= ch[Other(e)].sendSeq
        /\ \A i \in 1..Len(ms) : ms[i] \in 1..ch[Other(e)].sendSeq
        /\ Mode = "ReliableOrdered" =>
             \A i \in 1..Len(ms) : ms[i] = Len(delivered[e]) + i
        /\ Mode # "ReliableOrdered" =>
             Len(ms) = 1 /\ \A i \in 1..Len(delivered[e]) : delivered[e][i] # ms[1]
        /\ Mode = "UnreliableSequenced" =>
             \A i \in 1..Len(delivered[e]) : delivered[e][i] < ms[1]
    BY ZenonT(30), <1>1, <1>11, <1>12
  <2>3. ms \in Seq(1..MaxSeq) /\ \A f \in Ends : ch'[f].sendSeq = ch[f].sendSeq
    BY <1>8
  <2> QED BY <2>1, <2>2, <2>3, <1>12, DeliveredMaps, ZenonT(30)
<1>13. QED BY <1>10, <1>12

\* Every step maps to a step of the promise, or to a stutter.
LEMMA NextMaps ==
  ASSUME IInv, IInv', [Next]_vars
  PROVE  [Promise!AbsNext]_(Promise!absVars)
<1>0. ch \in [Ends -> ChannelType]
  BY DEF IInv, TypeOK
<1>1. ASSUME NEW e \in Ends, NEW t \in Threads, SendPacket(e, t) \/ SendPacketFails(e, t)
      PROVE  Promise!AbsNext
  BY <1>1, SendMaps DEF SendPacket, SendPacketFails, MaySend
<1>2. ASSUME NEW e \in Ends, NEW d, ch' = [ch EXCEPT ![e] = d],
             d.sendSeq = ch[e].sendSeq, UNCHANGED <<conn, delivered>>
      PROVE  UNCHANGED Promise!absVars
  <2>1. \A f \in Ends : ch'[f] = IF f = e THEN d ELSE ch[f]
    BY <1>0, <1>2
  <2> QED BY <2>1, <1>2, Invisible
<1>3. ASSUME NEW e \in Ends, NEW t \in Threads, AddPendingPacket(e, t)
      PROVE  UNCHANGED Promise!absVars
  <2>1. AddPending(ch[e], hand[e][t]).sendSeq = ch[e].sendSeq
    BY <1>0 DEF AddPending, ChannelType
  <2> QED BY ZenonT(30), <2>1, <1>2, <1>3 DEF AddPendingPacket
<1>4. ASSUME NEW e \in Ends, NEW m \in net, Receive(e, m)
      PROVE  UNCHANGED Promise!absVars
  <2>1. PICK c : c = ProcessAcks(ch[e], m.ack, m.field)
    OBVIOUS
  <2>2. c \in ChannelType /\ c.sendSeq = ch[e].sendSeq
    BY <1>0, <2>1, ProcessAcksFacts DEF Agree
  <2>3. RecordReceive(c, m.seq).sendSeq = c.sendSeq
    BY <2>2 DEF RecordReceive, ChannelType
  <2>4. /\ UNCHANGED <<conn, delivered>>
        /\ \/ ch' = [ch EXCEPT ![e] = RecordReceive(c, m.seq)]
           \/ ch' = [ch EXCEPT ![e] = c]
    BY <1>4, <2>1 DEF Receive
  <2> QED BY <2>2, <2>3, <2>4, <1>2
<1>5. ASSUME NEW e \in Ends, DeliverPacket(e)
      PROVE  Promise!AbsNext \/ UNCHANGED Promise!absVars
  BY <1>5, DeliverPacketMaps
<1>6. ASSUME NEW e \in Ends, Tick(e)
      PROVE  Promise!AbsNext \/ UNCHANGED Promise!absVars
  <2>1. ASSUME NEW due \in SUBSET ch[e].pendingSend, Retransmit(e, due)
        PROVE  UNCHANGED Promise!absVars
    <3>1. CheckRetransmissions(ch[e], due).sendSeq = ch[e].sendSeq
      BY <1>0 DEF CheckRetransmissions, ChannelType
    <3> QED BY ZenonT(30), <3>1, <2>1, <1>2 DEF Retransmit
  <2>2. ASSUME NEW due \in SUBSET ch[e].pendingSend, Kill(e, due)
        PROVE  Promise!AbsNext
    BY <2>2, KillMaps
  <2>3. CASE EndDrain(e)
    BY <2>3, Invisible DEF EndDrain
  <2>4. ASSUME NEW heartbeatDue \in BOOLEAN, FlushAcks(e, heartbeatDue)
        PROVE  UNCHANGED Promise!absVars
    <3>1. ClearNeedsAck(ch[e]).sendSeq = ch[e].sendSeq
      BY <1>0 DEF ClearNeedsAck, ChannelType
    <3> QED BY ZenonT(30), <3>1, <2>4, <1>2 DEF FlushAcks
  <2> QED BY <1>6, <2>1, <2>2, <2>3, <2>4 DEF Tick
<1>7. ASSUME NEW m \in net, Lose(m)
      PROVE  UNCHANGED Promise!absVars
  BY <1>7, Invisible DEF Lose
<1>8. CASE UNCHANGED vars
  BY <1>8, Invisible DEF vars
<1>9. QED BY <1>1, <1>3, <1>4, <1>5, <1>6, <1>7, <1>8 DEF Next

-----------------------------------------------------------------------------
(* The theorem.                                                             *)

\* A channel keeps the promise of its delivery mode: whatever the network
\* loses, duplicates and reorders, all that an application can see of it is
\* sends, permitted deliveries and closes.
THEOREM Refinement == Spec => DeliversAsPromised
<1>1. IInv /\ IInv' /\ [Next]_vars => [Promise!AbsNext]_(Promise!absVars)
  BY NextMaps
<1>2. QED
  BY <1>1, InitMaps, Invariance, PTL DEF Spec, DeliversAsPromised, Promise!AbsSpec
=============================================================================
