------------------------- MODULE ChannelSendProofs --------------------------
(***************************************************************************)
(* Lemmas for the proofs about Channel: what the operators of ChannelOps   *)
(* compute, and what each conjunct of the inductive invariant depends on.  *)
(* Then the sending side and the tick loop preserve that invariant: one    *)
(* lemma per action.                                                       *)
(***************************************************************************)
EXTENDS ChannelInvariant, TLAPS, WellFoundedInduction

-----------------------------------------------------------------------------
(* Sequences and numbers.                                                   *)

\* A non-empty set of naturals has a least element.
LEMMA LeastNat ==
  ASSUME NEW T \in SUBSET Nat, T # {}
  PROVE  \E x \in T : \A y \in T : x <= y
<1> DEFINE R == {ss \in Nat \X Nat : ss[1] < ss[2]}
<1>1. IsWellFoundedOn(R, Nat)
  BY NatLessThanWellFounded DEF OpToRel
<1>2. \E x \in T : \A y \in T : <<y, x>> \notin R
  <2> HIDE DEF R
  <2> QED BY ZenonT(30), <1>1, WFMin
<1>3. \A x, y \in Nat : <<y, x>> \notin R => x <= y
  OBVIOUS
<1>4. QED BY ZenonT(30), <1>2, <1>3

\* A function on 1..k is a sequence of length k.
LEMMA FunIsSeq ==
  ASSUME NEW S, NEW k \in Nat, NEW f \in [1..k -> S]
  PROVE  f \in Seq(S) /\ Len(f) = k
<1>1. f \in Seq(S)
  OBVIOUS
<1>2. Len(f) \in Nat /\ DOMAIN f = 1..Len(f)
  BY <1>1
<1>3. 1..k = 1..Len(f)
  BY <1>2
<1>4. QED BY <1>1, <1>2, <1>3

\* The length and the domain of a sequence.
LEMMA SeqFacts ==
  ASSUME NEW S, NEW s \in Seq(S)
  PROVE  /\ Len(s) \in Nat /\ DOMAIN s = 1..Len(s)
         /\ s # << >> => Len(s) # 0
OBVIOUS

-----------------------------------------------------------------------------
(* Types.                                                                   *)

\* The two ends, and the bounds on what they send.
LEMMA Basics ==
  /\ MaxSeq \in Nat
  /\ \A e \in Ends : /\ Other(e) \in Ends /\ Other(e) # e /\ Other(Other(e)) = e
                     /\ Sends(e) \in 0..MaxSeq
                     /\ \A f \in Ends : f = e \/ f = Other(e)
  /\ NoPacket \notin Packets
  /\ Mode \in Modes
  BY ChannelAssumption DEF MaxSeq, Ends, Other, Sends, NoPacket, Packets

\* The types of the fields of a channel record.
LEMMA FieldTypes ==
  ASSUME NEW c \in ChannelType
  PROVE  /\ c.mode = Mode
         /\ c.sendSeq \in 0..MaxSeq /\ c.sendSeq \in Nat
         /\ c.recvAck \in 0..MaxSeq /\ c.recvAck \in Nat
         /\ c.recvAckField \in SUBSET (1..AckBits)
         /\ \A p \in c.pendingSend : /\ p = [packet |-> p.packet,
                                             retransmitCount |-> p.retransmitCount]
                                     /\ p.packet \in Packets
                                     /\ p.retransmitCount \in 0..MaxRetransmits
         /\ c.recvBuffer \in Buffers
         /\ c.recvNextDeliver \in 1..(MaxSeq + 1) /\ c.recvNextDeliver \in Nat
         /\ c.lastRecvSeq \in 0..MaxSeq
         /\ c.needsAck \in BOOLEAN
         /\ c.pendingSend \in SUBSET PendingPackets
  BY Basics DEF ChannelType, PendingPackets

\* Replacing the pending packets of a channel changes nothing else of it.
LEMMA WithPending ==
  ASSUME NEW c \in ChannelType, NEW P \in SUBSET PendingPackets
  PROVE  LET d == [c EXCEPT !.pendingSend = P]
         IN  /\ d \in ChannelType
             /\ d.pendingSend = P
             /\ d.mode = c.mode
             /\ d.sendSeq = c.sendSeq
             /\ d.recvAck = c.recvAck
             /\ d.recvAckField = c.recvAckField
             /\ d.recvBuffer = c.recvBuffer
             /\ d.recvNextDeliver = c.recvNextDeliver
             /\ d.lastRecvSeq = c.lastRecvSeq
  BY DEF ChannelType

\* The types of the fields of a packet.
LEMMA PacketTypes ==
  ASSUME NEW m \in Packets
  PROVE  /\ m # NoPacket
         /\ m.from \in Ends
         /\ m.seq \in 0..MaxSeq /\ m.seq \in Nat
         /\ m.ack \in 0..MaxSeq /\ m.ack \in Nat
         /\ m.field \in SUBSET (1..AckBits) /\ m.field \in SUBSET Nat
  BY Basics, ChannelOpsAssumption DEF Packets

\* The types of what belongs to one end.
LEMMA EndTypes ==
  ASSUME TypeOK, NEW e \in Ends
  PROVE  /\ conn[e] \in {"Connected", "Disconnected"}
         /\ ch[e] \in ChannelType
         /\ pc[e] \in {"incoming", "deliver", "drain", "flush"}
         /\ hand[e] \in [Threads -> Packets \union {NoPacket}]
         /\ accepted[e] \in SUBSET (1..MaxSeq)
         /\ failed[e] \in SUBSET (1..MaxSeq)
         /\ delivered[e] \in Seq(1..MaxSeq)
  BY DEF TypeOK

-----------------------------------------------------------------------------
(* The operators of ChannelOps.                                             *)

\* The drain loop stops: there is a first slot that is not buffered.
LEMMA DrainEndFacts ==
  ASSUME NEW c, NEW buffer,
         c.recvNextDeliver \in Nat, c.recvAck \in Nat,
         c.recvNextDeliver <= c.recvAck + 1,
         \A s \in DOMAIN buffer : s <= c.recvAck
  PROVE  /\ DrainEnd(c, buffer) \in c.recvNextDeliver .. (c.recvAck + 1)
         /\ DrainEnd(c, buffer) \notin DOMAIN buffer
         /\ (c.recvNextDeliver .. (DrainEnd(c, buffer) - 1)) \subseteq DOMAIN buffer
<1> DEFINE T == {n \in c.recvNextDeliver .. (c.recvAck + 1) : n \notin DOMAIN buffer}
<1>1. T \in SUBSET Nat OBVIOUS
<1>2. c.recvAck + 1 \in T OBVIOUS
<1>3. PICK n \in T : \A y \in T : n <= y
  BY ZenonT(30), <1>1, <1>2, LeastNat
<1>4. (c.recvNextDeliver .. (n - 1)) \subseteq DOMAIN buffer
  BY <1>1, <1>3
<1>5. QED BY <1>3, <1>4 DEF DrainEnd

\* r is c after a drain from slot next to slot end, of the slots held.
DrainsTo(c, r, next, end, held) ==
  /\ r.channel = [c EXCEPT !.recvNextDeliver = end,
                           !.recvBuffer = r.channel.recvBuffer]
  /\ r.channel \in ChannelType
  /\ end \in next .. (c.recvAck + 1)
  /\ next .. (end - 1) \subseteq held
  /\ end \notin held
  /\ DOMAIN r.channel.recvBuffer = held \ (next .. (end - 1))
  /\ r.msgs \in Seq(1..MaxSeq)
  /\ Len(r.msgs) = end - next
  /\ \A i \in 1..Len(r.msgs) : r.msgs[i] = next + i - 1

\* What deliverReliableOrdered does with a recorded sequence: it moves
\* recvNextDeliver to the first slot that is missing, and returns the payloads
\* of the slots it passed, in order.
LEMMA DeliverOrderedFacts ==
  ASSUME NEW c \in ChannelType, NEW seq \in 1..c.recvAck,
         c.recvNextDeliver <= c.recvAck + 1,
         DOMAIN c.recvBuffer \subseteq 1..c.recvAck,
         NEW r, r = DeliverReliableOrdered(c, seq, seq),
         NEW next, next = c.recvNextDeliver,
         NEW end, end = r.channel.recvNextDeliver,
         NEW held, held = DOMAIN c.recvBuffer \union {seq}
  PROVE  DrainsTo(c, r, next, end, held)
<1> DEFINE b0   == [s \in held |-> IF s = seq THEN seq ELSE c.recvBuffer[s]]
           stop == DrainEnd(c, b0)
           b1   == [s \in held \ (next .. (stop - 1)) |->
                      IF s = seq THEN CopyPayload(seq) ELSE b0[s]]
           ms   == [i \in 1 .. (stop - next) |-> b0[next + i - 1]]
           c1   == [c EXCEPT !.recvNextDeliver = stop, !.recvBuffer = b1]
<1>0. MaxSeq \in Nat
  BY ChannelAssumption DEF MaxSeq
<1>1. /\ next \in 1..(MaxSeq + 1) /\ c.recvAck \in 0..MaxSeq
      /\ seq \in 1..MaxSeq
      /\ held \subseteq 1..c.recvAck
  BY <1>0 DEF ChannelType
<1>2. PICK S \in SUBSET (1..MaxSeq) : c.recvBuffer = [s \in S |-> s]
  BY DEF ChannelType, Buffers
<1>3. DOMAIN b0 = held /\ \A s \in held : b0[s] = s
  BY <1>2
<1>4. /\ stop \in next .. (c.recvAck + 1)
      /\ stop \notin held
      /\ next .. (stop - 1) \subseteq held
  <2>1. /\ next \in Nat /\ c.recvAck \in Nat
        /\ \A s \in DOMAIN b0 : s <= c.recvAck
    BY <1>0, <1>1, <1>3
  <2> HIDE DEF b0
  <2> QED BY <2>1, <1>3, DrainEndFacts
<1>5. DeliverReliableOrdered(c, seq, seq) = [channel |-> c1, msgs |-> ms]
  BY <1>3 DEF DeliverReliableOrdered
<1> HIDE DEF stop
<1>6. CopyPayload(seq) = seq
  BY <1>0, <1>1, ChannelOpsAssumption DEF CopyPayload
<1>7. b1 = [s \in held \ (next .. (stop - 1)) |-> s]
  BY ZenonT(30), <1>3, <1>6
<1>8. b1 \in Buffers /\ DOMAIN b1 = held \ (next .. (stop - 1))
  <2> DEFINE T == held \ (next .. (stop - 1))
  <2>1. T \in SUBSET (1..MaxSeq)
    BY <1>0, <1>1
  <2>2. b1 = [s \in T |-> s]
    BY ZenonT(30), <1>7
  <2> HIDE DEF T, b1
  <2>3. b1 \in Buffers /\ DOMAIN b1 = T
    BY <2>1, <2>2 DEF Buffers
  <2> QED BY <2>3 DEF T
<1>9. /\ c1 \in ChannelType
      /\ c1.recvNextDeliver = stop
      /\ c1.recvBuffer = b1
  <2>1. stop \in 1..(MaxSeq + 1)
    BY <1>0, <1>1, <1>4
  <2> HIDE DEF b1
  <2> QED BY ZenonT(30), <2>1, <1>8 DEF ChannelType
<1>10. /\ ms \in Seq(1..MaxSeq)
       /\ Len(ms) = stop - next
       /\ \A i \in 1..Len(ms) : ms[i] = next + i - 1
  <2>1. stop - next \in Nat
    BY <1>0, <1>1, <1>4
  <2>2. ASSUME NEW i \in 1..(stop - next)
        PROVE  b0[next + i - 1] = next + i - 1 /\ next + i - 1 \in 1..MaxSeq
    <3>1. next + i - 1 \in next .. (stop - 1) /\ next + i - 1 \in 1..MaxSeq
      BY <1>0, <1>1, <1>4
    <3>2. next + i - 1 \in held
      BY <3>1, <1>4
    <3> QED BY ZenonT(30), <3>1, <3>2, <1>3
  <2>3. ms \in [1..(stop - next) -> 1..MaxSeq]
    BY <2>2
  <2>4. ms \in Seq(1..MaxSeq) /\ Len(ms) = stop - next
    <3> HIDE DEF ms
    <3> QED BY ZenonT(30), <2>1, <2>3, FunIsSeq
  <2> QED BY ZenonT(30), <2>2, <2>4
<1>11. QED
  <2> HIDE DEF b1, ms
  <2>1. c1 = [c EXCEPT !.recvNextDeliver = c1.recvNextDeliver,
                       !.recvBuffer = c1.recvBuffer]
    BY <1>9
  <2> HIDE DEF c1
  <2>2. r.channel = c1 /\ r.msgs = ms /\ end = stop
    BY <1>5, <1>9
  <2> QED BY <2>1, <2>2, <1>4, <1>8, <1>9, <1>10 DEF DrainsTo

\* nextSequence changes the send counter only.
LEMMA NextSequenceFacts ==
  ASSUME NEW c \in ChannelType, c.sendSeq < MaxSeq
  PROVE  /\ NextSequence(c) \in ChannelType
         /\ NextSequence(c) = [c EXCEPT !.sendSeq = c.sendSeq + 1]
         /\ NextSequence(c).sendSeq = c.sendSeq + 1
         /\ NextSequence(c).recvAck = c.recvAck
         /\ NextSequence(c).recvAckField = c.recvAckField
         /\ NextSequence(c).pendingSend = c.pendingSend
         /\ NextSequence(c).recvBuffer = c.recvBuffer
         /\ NextSequence(c).recvNextDeliver = c.recvNextDeliver
         /\ NextSequence(c).lastRecvSeq = c.lastRecvSeq
  BY Basics DEF ChannelType, NextSequence

\* Channel d agrees with channel c on the counters, the ack state and the
\* delivery state.
Agree(d, c) ==
  /\ d.sendSeq = c.sendSeq
  /\ d.recvAck = c.recvAck
  /\ d.recvAckField = c.recvAckField
  /\ d.recvBuffer = c.recvBuffer
  /\ d.recvNextDeliver = c.recvNextDeliver
  /\ d.lastRecvSeq = c.lastRecvSeq

\* processAcks only takes acked packets out of pendingSend.
LEMMA ProcessAcksFacts ==
  ASSUME NEW c \in ChannelType, NEW ack, NEW field, NEW d,
         d = ProcessAcks(c, ack, field)
  PROVE  /\ d \in ChannelType /\ Agree(d, c)
         /\ d.pendingSend \subseteq c.pendingSend
         /\ \A p \in c.pendingSend :
              p \in d.pendingSend \/ (ack # 0 /\ IsAcked(p.packet.seq, ack, field))
<1>1. PICK P : P = {p \in c.pendingSend : ~(ack # 0 /\ IsAcked(p.packet.seq, ack, field))}
  BY ZenonT(30)
<1>2. P \in SUBSET PendingPackets
  BY <1>1, FieldTypes
<1>3. d = [c EXCEPT !.pendingSend = P]
  BY <1>1 DEF ProcessAcks
<1>4. d \in ChannelType /\ Agree(d, c) /\ d.pendingSend = P
  BY <1>2, <1>3, WithPending DEF Agree
<1>5. QED BY <1>1, <1>4

\* What a sound packet acks, its sender has accepted.
LEMMA AckedAccepted ==
  ASSUME NEW m \in Packets, Sound(m), m.ack # 0, NEW s \in Nat,
         IsAcked(s, m.ack, m.field)
  PROVE  s \in accepted[m.from]
<1>1. m.ack \in Nat /\ m.field \in SUBSET Nat
  BY PacketTypes
<1>2. CASE s = m.ack
  BY <1>2 DEF Sound
<1>3. CASE s < m.ack /\ m.ack - s \in m.field
  <2>1. m.ack - (m.ack - s) = s
    BY <1>1
  <2>2. m.ack - (m.ack - s) \in accepted[m.from]
    BY <1>3 DEF Sound
  <2> QED BY <2>1, <2>2
<1>4. QED BY <1>2, <1>3 DEF IsAcked

\* The ack state of channel c describes the accepted sequences A.
Describes(c, A) ==
  /\ A \subseteq 1..c.recvAck
  /\ c.recvAck # 0 => c.recvAck \in A
  /\ \A k \in 1..AckBits : k \in c.recvAckField <=> c.recvAck - k \in A

\* recordReceive never takes a sequence twice: it knows every accepted sequence
\* that the field still covers, and refuses all the older ones.
LEMMA AcceptsFresh ==
  ASSUME NEW c \in ChannelType, NEW A, Describes(c, A), NEW seq \in Nat,
         Accepts(c, seq)
  PROVE  seq \notin A /\ seq >= 1
<1>1. c.recvAck \in Nat
  BY FieldTypes
<1>2. CASE seq > c.recvAck
  BY <1>1, <1>2 DEF Describes
<1>3. CASE seq < c.recvAck /\ c.recvAck - seq \in (1..AckBits) \ c.recvAckField
  <2>1. c.recvAck - (c.recvAck - seq) = seq
    BY <1>1
  <2> QED BY <1>3, <2>1 DEF Describes, Accepts
<1>4. QED BY <1>2, <1>3 DEF Accepts

\* recordReceive keeps the ack state in step with what was accepted, whether
\* the sequence is the first, a newer or an older one.
LEMMA RecordReceiveFacts ==
  ASSUME NEW c \in ChannelType, NEW A, Describes(c, A), NEW seq \in 1..MaxSeq,
         Accepts(c, seq), NEW d, d = RecordReceive(c, seq)
  PROVE  /\ d \in ChannelType
         /\ Describes(d, A \union {seq})
         /\ d.recvAck = seq \/ d.recvAck = c.recvAck
         /\ d.sendSeq = c.sendSeq
         /\ d.pendingSend = c.pendingSend
         /\ d.recvBuffer = c.recvBuffer
         /\ d.recvNextDeliver = c.recvNextDeliver
         /\ d.lastRecvSeq = c.lastRecvSeq
<1>0. /\ c.recvAck \in 0..MaxSeq /\ c.recvAckField \in SUBSET (1..AckBits)
      /\ MaxSeq \in Nat /\ AckBits \in Nat /\ seq \in Nat
      /\ c.recvAck \in Nat
  BY FieldTypes, Basics, ChannelOpsAssumption
<1>1. seq \in 0..MaxSeq
  BY <1>0
<1>2. {} \in SUBSET (1..AckBits)
  OBVIOUS
<1>3. CASE c.recvAck = 0
  <2>1. d = [c EXCEPT !.recvAck = seq, !.recvAckField = {}, !.needsAck = TRUE]
    BY <1>3 DEF RecordReceive
  <2>2. /\ d \in ChannelType /\ d.recvAck = seq /\ d.recvAckField = {}
        /\ d.sendSeq = c.sendSeq /\ d.pendingSend = c.pendingSend
        /\ d.recvBuffer = c.recvBuffer /\ d.recvNextDeliver = c.recvNextDeliver
        /\ d.lastRecvSeq = c.lastRecvSeq
    BY ZenonT(30), <2>1, <1>1, <1>2 DEF ChannelType
  <2>3. A = {}
    BY <1>3, <1>0 DEF Describes
  <2>4. Describes(d, A \union {seq})
    BY <2>2, <2>3, <1>0 DEF Describes
  <2> QED BY <2>2, <2>4
<1>4. CASE c.recvAck # 0 /\ seq > c.recvAck
  <2>1. PICK F : F = ShiftField(c.recvAckField, seq - c.recvAck)
    OBVIOUS
  <2>2. d = [c EXCEPT !.recvAck = seq, !.recvAckField = F, !.needsAck = TRUE]
    BY <1>4, <2>1 DEF RecordReceive
  <2>3. F \in SUBSET (1..AckBits)
    BY <2>1 DEF ShiftField
  <2>4. /\ d \in ChannelType /\ d.recvAck = seq /\ d.recvAckField = F
        /\ d.sendSeq = c.sendSeq /\ d.pendingSend = c.pendingSend
        /\ d.recvBuffer = c.recvBuffer /\ d.recvNextDeliver = c.recvNextDeliver
        /\ d.lastRecvSeq = c.lastRecvSeq
    BY ZenonT(30), <2>2, <2>3, <1>1 DEF ChannelType
  <2>5. ASSUME NEW k \in 1..AckBits
        PROVE  k \in F <=> seq - k \in A \union {seq}
    <3>1. seq - k # seq
      BY <1>0
    <3>2. k \in F <=> k = seq - c.recvAck \/ k - (seq - c.recvAck) \in c.recvAckField
      BY <2>1 DEF ShiftField
    <3>3. CASE k = seq - c.recvAck
      <4>1. seq - k = c.recvAck
        BY <3>3, <1>0
      <4> QED BY <3>2, <3>3, <4>1, <1>4 DEF Describes
    <3>4. CASE k < seq - c.recvAck
      <4>1. k - (seq - c.recvAck) \notin 1..AckBits /\ seq - k > c.recvAck
        BY <3>4, <1>0
      <4>2. seq - k \notin A
        BY <4>1, <1>0 DEF Describes
      <4> QED BY <3>1, <3>2, <3>4, <4>1, <4>2, <1>0
    <3>5. CASE k > seq - c.recvAck
      <4>1. PICK j : j = k - (seq - c.recvAck)
        OBVIOUS
      <4>2. j \in 1..AckBits /\ c.recvAck - j = seq - k
        BY <3>5, <4>1, <1>0, <1>4
      <4>3. j \in c.recvAckField <=> seq - k \in A
        BY <4>2 DEF Describes
      <4> QED BY <3>1, <3>2, <3>5, <4>1, <4>3, <1>0
    <3> QED BY <3>3, <3>4, <3>5, <1>0
  <2>6. Describes(d, A \union {seq})
    <3>1. A \subseteq 1..seq
      BY <1>0, <1>4 DEF Describes
    <3> QED BY <2>4, <2>5, <3>1, <1>0 DEF Describes
  <2> QED BY <2>4, <2>6
<1>5. CASE c.recvAck # 0 /\ ~(seq > c.recvAck)
  <2>1. /\ d = [c EXCEPT !.recvAckField = @ \union {c.recvAck - seq}, !.needsAck = TRUE]
        /\ seq < c.recvAck /\ c.recvAck - seq \in 1..AckBits
    BY <1>5 DEF RecordReceive, Accepts
  <2>2. /\ d \in ChannelType /\ d.recvAck = c.recvAck
        /\ d.recvAckField = c.recvAckField \union {c.recvAck - seq}
        /\ d.sendSeq = c.sendSeq /\ d.pendingSend = c.pendingSend
        /\ d.recvBuffer = c.recvBuffer /\ d.recvNextDeliver = c.recvNextDeliver
        /\ d.lastRecvSeq = c.lastRecvSeq
    <3>1. PICK F : F = c.recvAckField \union {c.recvAck - seq}
      BY ZenonT(30)
    <3>2. F \in SUBSET (1..AckBits)
      BY <3>1, <2>1, <1>0
    <3>3. d = [c EXCEPT !.recvAckField = F, !.needsAck = TRUE]
      BY <3>1, <2>1
    <3>4. /\ d \in ChannelType /\ d.recvAck = c.recvAck /\ d.recvAckField = F
          /\ d.sendSeq = c.sendSeq /\ d.pendingSend = c.pendingSend
          /\ d.recvBuffer = c.recvBuffer /\ d.recvNextDeliver = c.recvNextDeliver
          /\ d.lastRecvSeq = c.lastRecvSeq
      BY ZenonT(30), <3>2, <3>3 DEF ChannelType
    <3> QED BY <3>1, <3>4
  <2>3. ASSUME NEW k \in 1..AckBits
        PROVE  k \in d.recvAckField <=> c.recvAck - k \in A \union {seq}
    <3>1. k = c.recvAck - seq <=> c.recvAck - k = seq
      BY <1>0
    <3> QED BY <2>2, <3>1 DEF Describes
  <2>4. A \union {seq} \subseteq 1..c.recvAck
    BY <2>1, <1>0 DEF Describes
  <2>5. Describes(d, A \union {seq})
    BY <2>2, <2>3, <2>4, <1>5 DEF Describes
  <2> QED BY <2>2, <2>5
<1>6. QED BY <1>3, <1>4, <1>5

-----------------------------------------------------------------------------
(* What each conjunct of the invariant depends on.                          *)

\* Sequences are only ever assigned and accepted, so a sound packet stays sound.
LEMMA SoundFrame ==
  ASSUME TypeOK, TypeOK',
         \A f \in Ends : /\ ch[f].sendSeq <= ch'[f].sendSeq
                         /\ accepted[f] \subseteq accepted'[f],
         NEW m \in Packets, Sound(m)
  PROVE  Sound(m)'
<1>1. m.from \in Ends /\ m.seq \in Nat
  BY PacketTypes
<1>2. ch[m.from].sendSeq \in Nat /\ ch'[m.from].sendSeq \in Nat
  BY <1>1, FieldTypes DEF TypeOK
<1>3. QED BY <1>1, <1>2 DEF Sound

\* The hands of an end stay right while it keeps them and its place in the
\* code, and what it accepted grows.
LEMMA HandsFrame ==
  ASSUME NEW f \in Ends, TypeOK, HandsOK(f),
         conn'[f] = conn[f], pc'[f] = pc[f], hand'[f] = hand[f],
         accepted[f] \subseteq accepted'[f],
         \A m \in Packets : Sound(m) => Sound(m)'
  PROVE  HandsOK(f)'
<1>1. \A t \in Threads : hand[f][t] \in Packets \union {NoPacket}
  BY EndTypes
<1>2. QED BY <1>1 DEF HandsOK

\* The ack state of an end stays right while it is left alone and the other
\* end sends more.
LEMMA AckStateFrame ==
  ASSUME NEW f \in Ends, TypeOK, TypeOK', AckStateOK(f),
         ch'[f].recvAck = ch[f].recvAck,
         ch'[f].recvAckField = ch[f].recvAckField,
         accepted'[f] = accepted[f],
         ch[Other(f)].sendSeq <= ch'[Other(f)].sendSeq
  PROVE  AckStateOK(f)'
<1>1. /\ ch[f].recvAck \in Nat
      /\ ch[Other(f)].sendSeq \in Nat /\ ch'[Other(f)].sendSeq \in Nat
  BY Basics, FieldTypes DEF TypeOK
<1>2. QED BY <1>1 DEF AckStateOK

\* The delivery state of an end stays right while nothing of it changes.
LEMMA DeliveryFrame ==
  ASSUME NEW f \in Ends, DeliveryOK(f),
         ch'[f].recvNextDeliver = ch[f].recvNextDeliver,
         ch'[f].recvBuffer = ch[f].recvBuffer,
         ch'[f].lastRecvSeq = ch[f].lastRecvSeq,
         delivered'[f] = delivered[f], accepted'[f] = accepted[f],
         conn'[f] = conn[f],
         InDelivery(f)' = InDelivery(f)
  PROVE  DeliveryOK(f)'
<1>1. CASE Mode = "ReliableOrdered"
  BY <1>1 DEF DeliveryOK, OrderedOK
<1>2. CASE Mode # "ReliableOrdered"
  BY <1>2 DEF DeliveryOK, UnorderedOK
<1>3. QED BY <1>1, <1>2

\* A sender forgets nothing when what leaves pendingSend and the hands was
\* accepted by the other end.
LEMMA CareFrame ==
  ASSUME NEW f \in Ends, CareOK(f),
         conn'[f] = "Connected" => conn[f] = "Connected",
         ch'[f].sendSeq = ch[f].sendSeq,
         failed'[f] = failed[f],
         (PendingSeqs(f) \union InHand(f)) \ {0} \subseteq
            PendingSeqs(f)' \union InHand(f)' \union accepted'[Other(f)],
         accepted[Other(f)] \subseteq accepted'[Other(f)]
  PROVE  CareOK(f)'
  BY DEF CareOK

\* A step that leaves the counters, the ack state and the delivery state of
\* every channel alone.
LEMMA ChannelFrame ==
  ASSUME IInv, TypeOK',
         \A f \in Ends : /\ ch'[f].sendSeq = ch[f].sendSeq
                         /\ ch'[f].recvAck = ch[f].recvAck
                         /\ ch'[f].recvAckField = ch[f].recvAckField
                         /\ ch'[f].recvBuffer = ch[f].recvBuffer
                         /\ ch'[f].recvNextDeliver = ch[f].recvNextDeliver
                         /\ ch'[f].lastRecvSeq = ch[f].lastRecvSeq,
         UNCHANGED <<conn, accepted, delivered>>
  PROVE  /\ \A m \in Packets : Sound(m) => Sound(m)'
         /\ \A f \in Ends : AckStateOK(f)'
         /\ \A f \in Ends : InDelivery(f)' = InDelivery(f) => DeliveryOK(f)'
<1>1. \A f \in Ends : ch[f].sendSeq <= ch'[f].sendSeq
  BY EndTypes, FieldTypes DEF IInv
<1>2. \A m \in Packets : Sound(m) => Sound(m)'
  BY <1>1, SoundFrame DEF IInv
<1>3. \A f \in Ends : AckStateOK(f)'
  BY <1>1, AckStateFrame, Basics DEF IInv
<1>4. \A f \in Ends : InDelivery(f)' = InDelivery(f) => DeliveryOK(f)'
  BY DeliveryFrame DEF IInv
<1>5. QED BY <1>2, <1>3, <1>4

\* A step of end e that only changes its pending packets and its ack flag.
LEMMA AgreeFrame ==
  ASSUME IInv, TypeOK', NEW e \in Ends, NEW d, ch' = [ch EXCEPT ![e] = d],
         Agree(d, ch[e]), UNCHANGED <<conn, accepted, delivered>>
  PROVE  /\ \A m \in Packets : Sound(m) => Sound(m)'
         /\ \A f \in Ends : /\ AckStateOK(f)'
                            /\ f # e => ch'[f] = ch[f]
                            /\ ch'[f].sendSeq = ch[f].sendSeq
         /\ \A f \in Ends : InDelivery(f)' = InDelivery(f) => DeliveryOK(f)'
         /\ ch'[e] = d
<1>1. \A f \in Ends : ch'[f] = IF f = e THEN d ELSE ch[f]
  BY DEF IInv, TypeOK
<1>2. QED BY <1>1, ChannelFrame DEF Agree

\* A packet with the current ack state of its end is sound.
LEMMA SnapshotSound ==
  ASSUME IInv, NEW e \in Ends
  PROVE  Packet(e, 0) \in Packets /\ Sound(Packet(e, 0))
<1>1. AckStateOK(e) /\ ch[e] \in ChannelType
  BY EndTypes DEF IInv
<1>2. PICK m : m = Packet(e, 0)
  OBVIOUS
<1>3. /\ m \in Packets /\ m.from = e /\ m.seq = 0
      /\ m.ack = ch[e].recvAck /\ m.field = ch[e].recvAckField
  BY <1>1, <1>2, FieldTypes, Basics DEF Packet, Packets
<1>4. Sound(m)
  BY <1>1, <1>3, FieldTypes DEF Sound, AckStateOK
<1>5. QED BY <1>2, <1>3, <1>4

\* Packets that were sound and known stay so; here for the usual case, in which
\* a step adds known packets to the network and takes pending ones away.
LEMMA PacketsFrame ==
  ASSUME IInv, \A m \in Packets : Sound(m) => Sound(m)',
         \A m \in net' : m \in Packets /\ Sound(m),
         \A f \in Ends : \A p \in ch'[f].pendingSend :
           p.packet \in Packets /\ p.packet.from = f /\ Sound(p.packet)
  PROVE  PacketsOK'
  BY DEF PacketsOK

\* The packets of an end's pendingSend are its own, and sound.
LEMMA PendingSound ==
  ASSUME IInv, NEW f \in Ends, NEW p \in ch[f].pendingSend
  PROVE  p.packet \in Packets /\ p.packet.from = f /\ Sound(p.packet)
<1>1. ch[f] \in ChannelType /\ PacketsOK
  BY EndTypes DEF IInv
<1>2. QED BY <1>1, FieldTypes DEF PacketsOK

\* The packets in transit are sound.
LEMMA NetSound ==
  ASSUME IInv, NEW m \in net
  PROVE  m \in Packets /\ Sound(m)
  BY DEF IInv, TypeOK, PacketsOK

\* The ack state of an end describes what it accepted.
LEMMA AckStateDescribes ==
  ASSUME NEW e \in Ends
  PROVE  AckStateOK(e) <=> /\ Describes(ch[e], accepted[e])
                           /\ ch[e].recvAck <= ch[Other(e)].sendSeq
  BY DEF AckStateOK, Describes

-----------------------------------------------------------------------------
(* The sending side and the tick loop.                                      *)

\* What a send leaves behind, whether the write succeeds or fails.
LEMMA SendFrame ==
  ASSUME IInv, NEW e \in Ends, NEW t \in Threads, MaySend(e, t),
         ch' = [ch EXCEPT ![e] = NextSequence(@)],
         UNCHANGED <<conn, pc, accepted, delivered>>, TypeOK'
  PROVE  /\ \A m \in Packets : Sound(m) => Sound(m)'
         /\ \A f \in Ends : /\ ch'[f].pendingSend = ch[f].pendingSend
                            /\ PendingSeqs(f)' = PendingSeqs(f)
                            /\ AckStateOK(f)'
                            /\ f # e => ch'[f] = ch[f]
         /\ ch'[e].sendSeq = ch[e].sendSeq + 1
         /\ \A f \in Ends : InDelivery(f)' = InDelivery(f) => DeliveryOK(f)'
<1>1. ch[e] \in ChannelType /\ ch[e].sendSeq < MaxSeq
  <2>1. ch[e] \in ChannelType
    BY EndTypes DEF IInv
  <2>2. ch[e].sendSeq < Sends(e)
    BY DEF MaySend
  <2> QED BY <2>1, <2>2, Basics, FieldTypes
<1>2. \A f \in Ends : ch'[f] = IF f = e THEN NextSequence(ch[e]) ELSE ch[f]
  BY DEF IInv, TypeOK
<1>3. \A f \in Ends : ch[f] \in ChannelType
  BY EndTypes DEF IInv
<1>4. \A f \in Ends : /\ ch[f].sendSeq <= ch'[f].sendSeq
                      /\ ch'[f].recvAck = ch[f].recvAck
                      /\ ch'[f].recvAckField = ch[f].recvAckField
                      /\ ch'[f].pendingSend = ch[f].pendingSend
                      /\ ch'[f].recvBuffer = ch[f].recvBuffer
                      /\ ch'[f].recvNextDeliver = ch[f].recvNextDeliver
                      /\ ch'[f].lastRecvSeq = ch[f].lastRecvSeq
  BY <1>1, <1>2, <1>3, NextSequenceFacts, FieldTypes
<1>5. \A m \in Packets : Sound(m) => Sound(m)'
  BY <1>4, SoundFrame DEF IInv
<1>6. \A f \in Ends : AckStateOK(f)'
  BY <1>4, AckStateFrame, Basics DEF IInv
<1>7. \A f \in Ends : InDelivery(f)' = InDelivery(f) => DeliveryOK(f)'
  BY <1>4, DeliveryFrame DEF IInv
<1>8. \A f \in Ends : PendingSeqs(f)' = PendingSeqs(f)
  BY <1>4 DEF PendingSeqs
<1>9. QED
  BY <1>1, <1>2, <1>4, <1>5, <1>6, <1>7, <1>8, NextSequenceFacts

\* Sending a packet: its acks are a snapshot of the sender's ack state, and it
\* is in the hand of the sending thread.
LEMMA SendPacketStep ==
  ASSUME IInv, NEW e \in Ends, NEW t \in Threads, SendPacket(e, t)
  PROVE  IInv'
<1>0. PICK packet : packet = Packet(e, ch[e].sendSeq + 1)
  OBVIOUS
<1>1. /\ net' = net \union {packet}
      /\ hand' = IF Reliable(ch[e]) THEN [hand EXCEPT ![e][t] = packet] ELSE hand
      /\ ch' = [ch EXCEPT ![e] = NextSequence(@)]
      /\ UNCHANGED <<conn, pc, faults, accepted, failed, delivered>>
      /\ MaySend(e, t)
  BY <1>0 DEF SendPacket
<1>2. ch[e] \in ChannelType /\ ch[e].sendSeq < MaxSeq /\ ch[e].sendSeq + 1 \in 1..MaxSeq
  <2>1. ch[e] \in ChannelType
    BY EndTypes DEF IInv
  <2>2. ch[e].sendSeq < Sends(e)
    BY <1>1 DEF MaySend
  <2> QED BY <2>1, <2>2, Basics, FieldTypes
<1>3. /\ packet \in Packets
      /\ packet.from = e /\ packet.seq = ch[e].sendSeq + 1
      /\ packet.ack = ch[e].recvAck /\ packet.field = ch[e].recvAckField
  BY <1>0, <1>2, FieldTypes DEF Packet, Packets
<1>4. TypeOK'
  <2>1. NextSequence(ch[e]) \in ChannelType
    BY <1>2, NextSequenceFacts
  <2>2. hand' \in [Ends -> [Threads -> Packets \union {NoPacket}]]
    BY <1>1, <1>3 DEF IInv, TypeOK
  <2> QED BY <1>1, <1>3, <2>1, <2>2 DEF IInv, TypeOK, faults
<1>5. UNCHANGED <<conn, pc, accepted, delivered>>
  BY <1>1
<1>6. /\ \A m \in Packets : Sound(m) => Sound(m)'
      /\ \A f \in Ends : /\ ch'[f].pendingSend = ch[f].pendingSend
                         /\ PendingSeqs(f)' = PendingSeqs(f)
                         /\ AckStateOK(f)'
                         /\ f # e => ch'[f] = ch[f]
      /\ ch'[e].sendSeq = ch[e].sendSeq + 1
      /\ \A f \in Ends : InDelivery(f)' = InDelivery(f) => DeliveryOK(f)'
  BY <1>1, <1>4, <1>5, SendFrame, ZenonT(30)
<1>7. Sound(packet)'
  <2>1. AckStateOK(e)
    BY DEF IInv
  <2>2. /\ ch[e].recvAck # 0 => ch[e].recvAck \in accepted[e]
        /\ \A d \in ch[e].recvAckField : ch[e].recvAck - d \in accepted[e]
    BY <2>1, <1>2, FieldTypes DEF AckStateOK
  <2> QED BY <2>2, <1>2, <1>3, <1>5, <1>6, FieldTypes DEF Sound
<1>8. PacketsOK'
  <2>1. net \subseteq Packets /\ \A f \in Ends : ch[f] \in ChannelType
    BY EndTypes DEF IInv, TypeOK
  <2>2. \A f \in Ends : \A p \in ch[f].pendingSend : p.packet \in Packets
    BY <2>1, FieldTypes
  <2>3. PacketsOK
    BY DEF IInv
  <2> QED BY <1>1, <1>6, <1>7, <2>1, <2>2, <2>3 DEF PacketsOK
<1>9. /\ \A f \in Ends : f # e => hand'[f] = hand[f]
      /\ \A u \in Threads : u # t => hand'[e][u] = hand[e][u]
      /\ Reliable(ch[e]) => hand'[e][t] = packet
      /\ ~Reliable(ch[e]) => hand'[e][t] = hand[e][t]
  BY <1>1 DEF IInv, TypeOK
<1>10. t = "tick" => pc[e] = "drain"
  BY <1>1 DEF MaySend
<1>11. ASSUME NEW f \in Ends
       PROVE  InDelivery(f)' = InDelivery(f)
  BY <1>5, <1>9, <1>10 DEF InDelivery, Threads
<1>12. ASSUME NEW f \in Ends
       PROVE  HandsOK(f)'
  <2>1. CASE f # e
    BY ZenonT(30), <2>1, <1>5, <1>6, <1>9, HandsFrame DEF IInv
  <2>2. CASE f = e
    <3>1. HandsOK(e) /\ \A u \in Threads : hand[e][u] \in Packets \union {NoPacket}
      BY EndTypes DEF IInv
    <3>2. ASSUME NEW u \in Threads, hand'[e][u] # NoPacket,
                 ~(u = "tick" /\ pc[e] = "deliver")
          PROVE  hand'[e][u].from = e /\ Sound(hand[e][u])'
      <4>1. CASE hand'[e][u] = packet
        BY <4>1, <1>3, <1>6, <1>7
      <4>2. CASE hand'[e][u] = hand[e][u]
        <5>1. PICK k : k = hand[e][u]
          OBVIOUS
        <5>2. k \in Packets /\ k.from = e /\ Sound(k)
          BY <3>1, <3>2, <4>2, <5>1 DEF HandsOK
        <5>3. Sound(k)'
          BY <5>2, <1>6
        <5> QED BY <5>1, <5>2, <5>3, <4>2
      <4> QED BY <4>1, <4>2, <1>9
    <3>3. hand'[e]["tick"] = hand[e]["tick"] \/ pc[e] = "drain"
      BY <1>9, <1>10 DEF Threads
    <3> QED BY <2>2, <3>1, <3>2, <3>3, <1>5 DEF HandsOK
  <2> QED BY <2>1, <2>2
<1>13. ASSUME NEW f \in Ends
       PROVE  CareOK(f)'
  <2>1. CASE f # e
    <3>1. InHand(f)' = InHand(f)
      BY <2>1, <1>5, <1>9 DEF InHand
    <3> QED BY <2>1, <3>1, <1>1, <1>5, <1>6, CareFrame DEF IInv
  <2>2. CASE f = e
    <3>1. SUFFICES ASSUME Mode \in ReliableModes, conn[e] = "Connected",
                          NEW s \in (1..(ch[e].sendSeq + 1)) \ failed[e]
                   PROVE  s \in PendingSeqs(e) \union InHand(e)' \union accepted[Other(e)]
      BY <2>2, <1>1, <1>5, <1>6 DEF CareOK
    <3>2. hand'[e][t] = packet /\ hand[e][t] = NoPacket
      BY <3>1, <1>1, <1>2, <1>9, FieldTypes DEF Reliable, MaySend
    <3>3. CASE s = ch[e].sendSeq + 1
      BY <3>2, <3>3, <1>3, <1>5, <1>10 DEF InHand
    <3>4. CASE s \in 1..ch[e].sendSeq
      <4>1. s \in PendingSeqs(e) \union InHand(e) \union accepted[Other(e)]
        BY <3>1, <3>4 DEF IInv, CareOK
      <4>2. s # 0 /\ NoPacket.seq = 0
        BY <3>4, <1>2, FieldTypes DEF NoPacket
      <4>3. s \in InHand(e) => s \in InHand(e)'
        BY <4>2, <3>2, <1>5, <1>9 DEF InHand
      <4> QED BY <4>1, <4>3
    <3> QED BY <3>3, <3>4, <1>2, FieldTypes
  <2> QED BY <2>1, <2>2
<1>14. QED BY <1>4, <1>6, <1>8, <1>11, <1>12, <1>13 DEF IInv

\* The write fails: the sequence is consumed and recorded as failed.
LEMMA SendPacketFailsStep ==
  ASSUME IInv, NEW e \in Ends, NEW t \in Threads, SendPacketFails(e, t)
  PROVE  IInv'
<1>1. /\ writeErrors' = writeErrors + 1 /\ writeErrors < MaxWriteErrors
      /\ ch' = [ch EXCEPT ![e] = NextSequence(@)]
      /\ failed' = [failed EXCEPT ![e] = @ \union {ch'[e].sendSeq}]
      /\ UNCHANGED <<conn, pc, hand, net, lost, duplicated, accepted, delivered>>
      /\ MaySend(e, t)
  BY DEF SendPacketFails
<1>2. ch[e] \in ChannelType /\ ch[e].sendSeq < MaxSeq /\ ch[e].sendSeq + 1 \in 1..MaxSeq
  <2>1. ch[e] \in ChannelType
    BY EndTypes DEF IInv
  <2>2. ch[e].sendSeq < Sends(e)
    BY <1>1 DEF MaySend
  <2> QED BY <2>1, <2>2, Basics, FieldTypes
<1>3. ch'[e].sendSeq = ch[e].sendSeq + 1
  BY <1>1, <1>2, NextSequenceFacts DEF IInv, TypeOK
<1>4. TypeOK'
  <2>1. NextSequence(ch[e]) \in ChannelType
    BY <1>2, NextSequenceFacts
  <2>2. writeErrors' \in 0..MaxWriteErrors
    BY <1>1, ChannelAssumption DEF IInv, TypeOK
  <2>3. failed' \in [Ends -> SUBSET (1..MaxSeq)]
    BY <1>1, <1>2, <1>3 DEF IInv, TypeOK
  <2>4. ch' \in [Ends -> ChannelType]
    BY <1>1, <2>1 DEF IInv, TypeOK
  <2> QED BY <1>1, <2>2, <2>3, <2>4 DEF IInv, TypeOK
<1>5. UNCHANGED <<conn, pc, accepted, delivered>>
  BY <1>1
<1>6. /\ \A m \in Packets : Sound(m) => Sound(m)'
      /\ \A f \in Ends : /\ ch'[f].pendingSend = ch[f].pendingSend
                         /\ PendingSeqs(f)' = PendingSeqs(f)
                         /\ AckStateOK(f)'
                         /\ f # e => ch'[f] = ch[f]
      /\ \A f \in Ends : InDelivery(f)' = InDelivery(f) => DeliveryOK(f)'
  BY <1>1, <1>4, <1>5, SendFrame, ZenonT(30)
<1>7. PacketsOK'
  <2>1. net \subseteq Packets /\ \A f \in Ends : ch[f] \in ChannelType
    BY EndTypes DEF IInv, TypeOK
  <2>2. \A f \in Ends : \A p \in ch[f].pendingSend : p.packet \in Packets
    BY <2>1, FieldTypes
  <2>3. PacketsOK
    BY DEF IInv
  <2> QED BY <1>1, <1>6, <2>1, <2>2, <2>3 DEF PacketsOK
<1>8. \A f \in Ends : HandsOK(f)'
  BY <1>1, <1>6, HandsFrame DEF IInv
<1>9. \A f \in Ends : InDelivery(f)' = InDelivery(f) /\ InHand(f)' = InHand(f)
  BY <1>1 DEF InDelivery, InHand
<1>10. ASSUME NEW f \in Ends
       PROVE  CareOK(f)'
  <2>1. CASE f # e
    <3>1. failed'[f] = failed[f]
      BY <2>1, <1>1 DEF IInv, TypeOK
    <3> QED BY <2>1, <3>1, <1>5, <1>6, <1>9, CareFrame DEF IInv
  <2>2. CASE f = e
    <3>1. failed'[e] = failed[e] \union {ch[e].sendSeq + 1}
      BY <1>1, <1>3 DEF IInv, TypeOK
    <3>2. (1..ch'[e].sendSeq) \ failed'[e] \subseteq (1..ch[e].sendSeq) \ failed[e]
      BY <3>1, <1>2, <1>3, FieldTypes
    <3>3. CareOK(e)
      BY DEF IInv
    <3> QED BY <2>2, <3>2, <3>3, <1>1, <1>6, <1>9 DEF CareOK
  <2> QED BY <2>1, <2>2
<1>11. QED BY <1>4, <1>6, <1>7, <1>8, <1>9, <1>10 DEF IInv

\* addPending moves a packet from the thread's hand to pendingSend.
LEMMA AddPendingStep ==
  ASSUME IInv, NEW e \in Ends, NEW t \in Threads, AddPendingPacket(e, t)
  PROVE  IInv'
<1>0. PICK packet : packet = hand[e][t]
  OBVIOUS
<1>1. /\ packet # NoPacket
      /\ t = "tick" => pc[e] = "drain"
      /\ ch' = [ch EXCEPT ![e] = AddPending(@, packet)]
      /\ hand' = [hand EXCEPT ![e][t] = NoPacket]
      /\ UNCHANGED <<conn, pc, net, faults, accepted, failed, delivered>>
  BY <1>0 DEF AddPendingPacket
<1>2. packet \in Packets /\ packet.from = e /\ Sound(packet)
  <2>1. packet \in Packets
    BY <1>0, <1>1, EndTypes DEF IInv
  <2>2. HandsOK(e)
    BY DEF IInv
  <2> QED BY <1>0, <1>1, <2>1, <2>2 DEF HandsOK
<1>3. /\ PendingPacket(packet) \in PendingPackets
      /\ PendingPacket(packet).packet = packet
  BY <1>2, ChannelAssumption DEF PendingPacket, PendingPackets
<1>4. /\ AddPending(ch[e], packet) \in ChannelType
      /\ \A f \in Ends : /\ f # e => ch'[f] = ch[f]
                         /\ ch'[f].sendSeq = ch[f].sendSeq
                         /\ ch'[f].recvAck = ch[f].recvAck
                         /\ ch'[f].recvAckField = ch[f].recvAckField
                         /\ ch'[f].recvBuffer = ch[f].recvBuffer
                         /\ ch'[f].recvNextDeliver = ch[f].recvNextDeliver
                         /\ ch'[f].lastRecvSeq = ch[f].lastRecvSeq
      /\ ch'[e].pendingSend = ch[e].pendingSend \union {PendingPacket(packet)}
  <2>1. ch[e] \in ChannelType /\ ch[e].pendingSend \in SUBSET PendingPackets
    BY EndTypes, FieldTypes DEF IInv
  <2>2. \A f \in Ends : ch'[f] = IF f = e THEN AddPending(ch[e], packet) ELSE ch[f]
    BY <1>1 DEF IInv, TypeOK
  <2>3. PICK P \in SUBSET PendingPackets :
          P = ch[e].pendingSend \union {PendingPacket(packet)}
    BY <1>3, <2>1, ZenonT(30)
  <2>4. AddPending(ch[e], packet) = [ch[e] EXCEPT !.pendingSend = P]
    BY <2>3 DEF AddPending
  <2>5. PICK d : d = AddPending(ch[e], packet)
    OBVIOUS
  <2>6. /\ d \in ChannelType
        /\ d.pendingSend = P
        /\ d.sendSeq = ch[e].sendSeq
        /\ d.recvAck = ch[e].recvAck
        /\ d.recvAckField = ch[e].recvAckField
        /\ d.recvBuffer = ch[e].recvBuffer
        /\ d.recvNextDeliver = ch[e].recvNextDeliver
        /\ d.lastRecvSeq = ch[e].lastRecvSeq
    BY <2>1, <2>4, <2>5, WithPending
  <2> QED BY <2>2, <2>3, <2>5, <2>6
<1>5. /\ \A f \in Ends : f # e => hand'[f] = hand[f]
      /\ \A u \in Threads : u # t => hand'[e][u] = hand[e][u]
      /\ hand'[e][t] = NoPacket
  BY <1>1 DEF IInv, TypeOK
<1>6. TypeOK'
  <2>1. hand' \in [Ends -> [Threads -> Packets \union {NoPacket}]]
    BY <1>1 DEF IInv, TypeOK
  <2> QED BY <1>1, <1>4, <2>1 DEF IInv, TypeOK, faults
<1>7. /\ \A m \in Packets : Sound(m) => Sound(m)'
      /\ \A f \in Ends : AckStateOK(f)'
      /\ \A f \in Ends : InDelivery(f)' = InDelivery(f) => DeliveryOK(f)'
  BY <1>1, <1>4, <1>6, ChannelFrame
<1>8. \A f \in Ends : InDelivery(f)' = InDelivery(f)
  BY <1>1, <1>5 DEF InDelivery, Threads
<1>9. PacketsOK'
  <2>1. net \subseteq Packets /\ \A f \in Ends : ch[f] \in ChannelType
    BY EndTypes DEF IInv, TypeOK
  <2>2. \A f \in Ends : \A p \in ch[f].pendingSend : p.packet \in Packets
    BY <2>1, FieldTypes
  <2>3. PacketsOK
    BY DEF IInv
  <2> QED BY <1>1, <1>2, <1>3, <1>4, <1>7, <2>1, <2>2, <2>3 DEF PacketsOK
<1>10. ASSUME NEW f \in Ends
       PROVE  HandsOK(f)'
  <2>1. CASE f # e
    BY <2>1, <1>1, <1>5, <1>7, HandsFrame DEF IInv
  <2>2. CASE f = e
    <3>1. HandsOK(e) /\ \A u \in Threads : hand[e][u] \in Packets \union {NoPacket}
      BY EndTypes DEF IInv
    <3>2. ASSUME NEW u \in Threads, hand'[e][u] # NoPacket,
                 ~(u = "tick" /\ pc[e] = "deliver")
          PROVE  hand'[e][u].from = e /\ Sound(hand[e][u])'
      BY <3>1, <3>2, <1>5, <1>7 DEF HandsOK
    <3>3. hand'[e]["tick"] = hand[e]["tick"] \/ pc[e] = "drain"
      BY <1>1, <1>5 DEF Threads
    <3> QED BY <2>2, <3>1, <3>2, <3>3, <1>1 DEF HandsOK
  <2> QED BY <2>1, <2>2
<1>11. ASSUME NEW f \in Ends
       PROVE  CareOK(f)'
  <2>1. PendingSeqs(f) \union InHand(f) \subseteq
          PendingSeqs(f)' \union InHand(f)' \union accepted'[Other(f)]
    <3>1. CASE f # e
      BY <3>1, <1>1, <1>4, <1>5 DEF PendingSeqs, InHand
    <3>2. CASE f = e
      <4>1. PendingSeqs(e) \union {packet.seq} \subseteq PendingSeqs(e)'
        BY <1>3, <1>4 DEF PendingSeqs
      <4>2. InHand(e) \subseteq InHand(e)' \union {packet.seq}
        BY <1>0, <1>1, <1>5 DEF InHand
      <4> QED BY <3>2, <4>1, <4>2
    <3> QED BY <3>1, <3>2
  <2> QED BY <2>1, <1>1, <1>4, CareFrame DEF IInv
<1>12. QED BY <1>6, <1>7, <1>8, <1>9, <1>10, <1>11 DEF IInv

\* The end of the drain loop preserves the invariant.
LEMMA EndDrainStep ==
  ASSUME IInv, NEW e \in Ends, EndDrain(e)
  PROVE  IInv'
<1>1. /\ pc[e] = "drain" /\ hand[e]["tick"] = NoPacket
      /\ pc' = [pc EXCEPT ![e] = "flush"]
      /\ UNCHANGED <<conn, ch, hand, net, faults, accepted, failed, delivered>>
  BY DEF EndDrain
<1>2. TypeOK'
  BY <1>1 DEF IInv, TypeOK, faults
<1>3. \A f \in Ends : pc'[f] = IF f = e THEN "flush" ELSE pc[f]
  BY <1>1 DEF IInv, TypeOK
<1>4. /\ \A m \in Packets : Sound(m) => Sound(m)'
      /\ \A f \in Ends : AckStateOK(f)'
      /\ \A f \in Ends : InDelivery(f)' = InDelivery(f) => DeliveryOK(f)'
  BY <1>1, <1>2, ChannelFrame
<1>5. \A f \in Ends : InDelivery(f)' = InDelivery(f)
  BY <1>1, <1>3 DEF InDelivery
<1>6. PacketsOK'
  BY <1>1, <1>4, NetSound, PendingSound, PacketsFrame
<1>7. ASSUME NEW f \in Ends
      PROVE  HandsOK(f)'
  <2>1. CASE f # e
    BY ZenonT(30), <2>1, <1>1, <1>3, <1>4, HandsFrame DEF IInv
  <2>2. CASE f = e
    <3>1. HandsOK(e) /\ \A u \in Threads : hand[e][u] \in Packets \union {NoPacket}
      BY EndTypes DEF IInv
    <3>2. pc'[e] = "flush" /\ hand'[e] = hand[e] /\ conn'[e] # "Disconnected"
      BY <3>1, <1>1, <1>3 DEF HandsOK
    <3>3. ASSUME NEW u \in Threads, hand[e][u] # NoPacket
          PROVE  hand[e][u].from = e /\ Sound(hand[e][u])'
      BY <3>1, <3>3, <1>1, <1>4 DEF HandsOK
    <3> QED BY <2>2, <3>2, <3>3, <1>1 DEF HandsOK
  <2> QED BY <2>1, <2>2
<1>8. ASSUME NEW f \in Ends
      PROVE  CareOK(f)'
  <2>1. PendingSeqs(f)' = PendingSeqs(f)
    BY <1>1 DEF PendingSeqs
  <2>2. InHand(f) \ {0} \subseteq InHand(f)'
    <3> SUFFICES ASSUME NEW u \in Threads, u = "tick" => pc[f] = "drain",
                        hand[f][u].seq # 0
                 PROVE  hand[f][u].seq \in InHand(f)'
      BY DEF InHand
    <3>1. u = "tick" => pc'[f] = "drain"
      BY <1>1, <1>3 DEF NoPacket
    <3> QED BY <3>1, <1>1 DEF InHand
  <2> QED BY <2>1, <2>2, <1>1, CareFrame DEF IInv
<1>9. QED BY <1>2, <1>4, <1>5, <1>6, <1>7, <1>8 DEF IInv

\* Losing a packet preserves the invariant.
LEMMA LoseStep ==
  ASSUME IInv, NEW m \in net, Lose(m)
  PROVE  IInv'
<1>1. /\ lost < MaxLosses /\ lost' = lost + 1 /\ net' = net \ {m}
      /\ UNCHANGED <<conn, ch, pc, hand, duplicated, writeErrors,
                     accepted, failed, delivered>>
  BY DEF Lose
<1>2. TypeOK'
  <2>1. lost' \in 0..MaxLosses
    BY <1>1, ChannelAssumption DEF IInv, TypeOK
  <2> QED BY <1>1, <2>1 DEF IInv, TypeOK
<1>3. /\ \A k \in Packets : Sound(k) => Sound(k)'
      /\ \A f \in Ends : AckStateOK(f)'
      /\ \A f \in Ends : InDelivery(f)' = InDelivery(f) => DeliveryOK(f)'
  BY <1>1, <1>2, ChannelFrame
<1>4. \A f \in Ends : /\ InDelivery(f)' = InDelivery(f)
                      /\ InHand(f)' = InHand(f)
                      /\ PendingSeqs(f)' = PendingSeqs(f)
  BY <1>1 DEF InDelivery, InHand, PendingSeqs
<1>5. PacketsOK'
  BY <1>1, <1>3, NetSound, PendingSound, PacketsFrame
<1>6. \A f \in Ends : HandsOK(f)' /\ CareOK(f)'
  BY <1>1, <1>3, <1>4, HandsFrame, CareFrame, ZenonT(30) DEF IInv
<1>7. QED BY <1>2, <1>3, <1>4, <1>5, <1>6 DEF IInv

\* An ack or heartbeat is a snapshot of the ack state: flushing acks preserves
\* the invariant.
LEMMA FlushAcksStep ==
  ASSUME IInv, NEW e \in Ends, NEW heartbeatDue \in BOOLEAN,
         FlushAcks(e, heartbeatDue)
  PROVE  IInv'
<1>0. PICK d : d = ClearNeedsAck(ch[e])
  OBVIOUS
<1>1. /\ pc[e] = "flush"
      /\ ch' = [ch EXCEPT ![e] = d]
      /\ net' \subseteq net \union {Packet(e, 0)}
      /\ pc' = [pc EXCEPT ![e] = "incoming"]
      /\ UNCHANGED <<conn, hand, faults, accepted, failed, delivered>>
  BY <1>0 DEF FlushAcks
<1>2. d \in ChannelType /\ Agree(d, ch[e]) /\ d.pendingSend = ch[e].pendingSend
  <2>1. ch[e] \in ChannelType
    BY EndTypes DEF IInv
  <2> QED BY <1>0, <2>1, ZenonT(30) DEF ClearNeedsAck, ChannelType, Agree
<1>3. \A m \in net' : m \in Packets /\ Sound(m)
  BY <1>1, NetSound, SnapshotSound
<1>4. TypeOK'
  <2>1. net' \in SUBSET Packets
    BY <1>3
  <2>2. ch' \in [Ends -> ChannelType]
    BY <1>1, <1>2 DEF IInv, TypeOK
  <2> QED BY <1>1, <2>1, <2>2 DEF IInv, TypeOK, faults
<1>5. \A f \in Ends : pc'[f] = IF f = e THEN "incoming" ELSE pc[f]
  BY <1>1 DEF IInv, TypeOK
<1>6. /\ \A m \in Packets : Sound(m) => Sound(m)'
      /\ \A f \in Ends : /\ AckStateOK(f)'
                         /\ f # e => ch'[f] = ch[f]
                         /\ ch'[f].sendSeq = ch[f].sendSeq
      /\ \A f \in Ends : InDelivery(f)' = InDelivery(f) => DeliveryOK(f)'
      /\ ch'[e] = d
  BY <1>1, <1>2, <1>4, AgreeFrame, ZenonT(30)
<1>7. \A f \in Ends : ch'[f].pendingSend = ch[f].pendingSend
  BY <1>2, <1>6
<1>8. \A f \in Ends : /\ InDelivery(f)' = InDelivery(f)
                      /\ InHand(f)' = InHand(f)
                      /\ PendingSeqs(f)' = PendingSeqs(f)
  <2> TAKE f \in Ends
  <2>1. InDelivery(f)' = InDelivery(f)
    BY <1>1, <1>5 DEF InDelivery
  <2>2. InHand(f)' = InHand(f)
    <3>1. /\ hand' = hand
          /\ \A u \in Threads : (u = "tick" => pc'[f] = "drain") <=> (u = "tick" => pc[f] = "drain")
      BY <1>1, <1>5
    <3> QED BY <3>1, Zenon DEF InHand
  <2>3. PendingSeqs(f)' = PendingSeqs(f)
    BY <1>7 DEF PendingSeqs
  <2> QED BY <2>1, <2>2, <2>3
<1>9. PacketsOK'
  BY <1>3, <1>6, <1>7, PendingSound, PacketsFrame, ZenonT(30)
<1>10. ASSUME NEW f \in Ends
       PROVE  HandsOK(f)'
  <2>1. CASE f # e
    BY <2>1, <1>1, <1>5, <1>6, HandsFrame, ZenonT(30) DEF IInv
  <2>2. CASE f = e
    <3>1. HandsOK(e) /\ \A u \in Threads : hand[e][u] \in Packets \union {NoPacket}
      BY EndTypes DEF IInv
    <3>2. pc'[e] = "incoming" /\ hand'[e] = hand[e] /\ hand[e]["tick"] = NoPacket
      BY <3>1, <1>1, <1>5 DEF HandsOK
    <3>3. ASSUME NEW u \in Threads, hand[e][u] # NoPacket
          PROVE  hand[e][u].from = e /\ Sound(hand[e][u])'
      BY <3>1, <3>2, <3>3, <1>6 DEF HandsOK
    <3> QED BY <2>2, <3>2, <3>3 DEF HandsOK
  <2> QED BY <2>1, <2>2
<1>11. \A f \in Ends : CareOK(f)'
  BY <1>1, <1>6, <1>8, CareFrame, ZenonT(30) DEF IInv
<1>12. QED BY <1>4, <1>6, <1>8, <1>9, <1>10, <1>11, ZenonT(30) DEF IInv

\* A retransmission sends packets again that were sound when they were made.
LEMMA RetransmitStep ==
  ASSUME IInv, NEW e \in Ends, NEW due \in SUBSET ch[e].pendingSend,
         Retransmit(e, due)
  PROVE  IInv'
<1>0. PICK d : d = CheckRetransmissions(ch[e], due)
  OBVIOUS
<1>1. /\ pc[e] = "incoming"
      /\ ~Exhausted(ch[e], due, MaxRetransmits)
      /\ ch' = [ch EXCEPT ![e] = d]
      /\ net' = net \union {p.packet : p \in due}
      /\ pc' = [pc EXCEPT ![e] = "drain"]
      /\ UNCHANGED <<conn, hand, faults, accepted, failed, delivered>>
  BY <1>0 DEF Retransmit
<1>2. ch[e] \in ChannelType
  BY EndTypes DEF IInv
<1>3. PICK P : P = (ch[e].pendingSend \ due) \union
                   {[p EXCEPT !.retransmitCount = @ + 1] : p \in due}
  BY ZenonT(30)
<1>4. \A p \in due : /\ [p EXCEPT !.retransmitCount = @ + 1] \in PendingPackets
                     /\ [p EXCEPT !.retransmitCount = @ + 1].packet = p.packet
  <2>1. \A p \in due : p \in PendingPackets /\ p.retransmitCount + 1 <= MaxRetransmits
    <3>1. \A p \in due : p \in PendingPackets
      BY <1>2, FieldTypes
    <3>2. \A p \in due : ~(p.retransmitCount + 1 > MaxRetransmits)
      BY <1>1 DEF Exhausted
    <3> QED BY <3>1, <3>2, ChannelAssumption DEF PendingPackets
  <2> QED BY <2>1, ChannelAssumption DEF PendingPackets
<1>5. /\ P \in SUBSET PendingPackets
      /\ \A p \in P : \E q \in ch[e].pendingSend : p.packet = q.packet
      /\ \A q \in ch[e].pendingSend : \E p \in P : p.packet = q.packet
  <2>1. ch[e].pendingSend \in SUBSET PendingPackets
    BY <1>2, FieldTypes
  <2>2. P \in SUBSET PendingPackets
    BY <1>3, <1>4, <2>1
  <2>3. ASSUME NEW p \in P
        PROVE  \E q \in ch[e].pendingSend : p.packet = q.packet
    <3>1. p \in ch[e].pendingSend \/ \E r \in due : p = [r EXCEPT !.retransmitCount = @ + 1]
      BY <1>3
    <3> QED BY <3>1, <1>1, <1>4, ZenonT(30)
  <2>4. ASSUME NEW q \in ch[e].pendingSend
        PROVE  \E p \in P : p.packet = q.packet
    <3>1. CASE q \in due
      BY <3>1, <1>3, <1>4, ZenonT(30)
    <3>2. CASE q \notin due
      BY <3>2, <1>3
    <3> QED BY <3>1, <3>2
  <2> QED BY <2>2, <2>3, <2>4
<1>6. d \in ChannelType /\ Agree(d, ch[e]) /\ d.pendingSend = P
  <2>1. d = [ch[e] EXCEPT !.pendingSend = P]
    BY <1>0, <1>3 DEF CheckRetransmissions
  <2>2. d \in ChannelType /\ d.pendingSend = P
    BY <1>2, <1>5, <2>1, WithPending, ZenonT(30)
  <2>3. Agree(d, ch[e])
    BY <1>2, <1>5, <2>1, WithPending DEF Agree
  <2> QED BY <2>2, <2>3
<1>7. \A m \in net' : m \in Packets /\ Sound(m)
  BY <1>1, NetSound, PendingSound
<1>8. TypeOK'
  <2>1. net' \in SUBSET Packets
    BY <1>7
  <2>2. ch' \in [Ends -> ChannelType]
    BY ZenonT(30), <1>1, <1>6 DEF IInv, TypeOK
  <2> QED BY <1>1, <2>1, <2>2 DEF IInv, TypeOK, faults
<1>9. \A f \in Ends : pc'[f] = IF f = e THEN "drain" ELSE pc[f]
  BY <1>1 DEF IInv, TypeOK
<1>10. /\ \A m \in Packets : Sound(m) => Sound(m)'
       /\ \A f \in Ends : /\ AckStateOK(f)'
                          /\ f # e => ch'[f] = ch[f]
                          /\ ch'[f].sendSeq = ch[f].sendSeq
       /\ \A f \in Ends : InDelivery(f)' = InDelivery(f) => DeliveryOK(f)'
       /\ ch'[e] = d
  BY <1>1, <1>6, <1>8, AgreeFrame, ZenonT(30)
<1>11. PacketsOK'
  <2>1. \A f \in Ends : \A p \in ch'[f].pendingSend :
           p.packet \in Packets /\ p.packet.from = f /\ Sound(p.packet)
    <3>1. \A p \in P : p.packet \in Packets /\ p.packet.from = e /\ Sound(p.packet)
      BY <1>5, PendingSound
    <3>2. \A f \in Ends : f # e => ch'[f] = ch[f]
      BY <1>10
    <3>3. ch'[e].pendingSend = P
      BY <1>6, <1>10
    <3> QED BY <3>1, <3>2, <3>3, PendingSound
  <2> QED BY <2>1, <1>7, <1>10, PacketsFrame, ZenonT(30)
<1>12. \A f \in Ends : InDelivery(f)' = InDelivery(f)
  <2>1. hand' = hand /\ pc[e] = "incoming"
    BY <1>1
  <2> QED BY <2>1, <1>9 DEF InDelivery
<1>13. ASSUME NEW f \in Ends
       PROVE  HandsOK(f)'
  <2>1. CASE f # e
    BY ZenonT(30), <2>1, <1>1, <1>9, <1>10, HandsFrame DEF IInv
  <2>2. CASE f = e
    <3>1. HandsOK(e) /\ \A u \in Threads : hand[e][u] \in Packets \union {NoPacket}
      BY ZenonT(30), EndTypes DEF IInv
    <3>2. conn[e] = "Connected"
      BY DEF Retransmit
    <3>3. hand' = hand /\ conn' = conn /\ accepted' = accepted /\ pc[e] = "incoming"
      BY <1>1
    <3>4. pc'[e] = "drain"
      BY <1>9
    <3>5. \A m \in Packets : Sound(m) => Sound(m)'
      BY <1>10
    <3> QED BY <2>2, <3>1, <3>2, <3>3, <3>4, <3>5 DEF HandsOK
  <2> QED BY <2>1, <2>2
<1>14. ASSUME NEW f \in Ends
       PROVE  CareOK(f)'
  <2>1. InHand(f) \subseteq InHand(f)'
    BY <1>1, <1>9 DEF InHand
  <2>2. PendingSeqs(f) \subseteq PendingSeqs(f)'
    <3>1. CASE f # e
      BY <3>1, <1>10 DEF PendingSeqs
    <3>2. CASE f = e
      <4>1. ASSUME NEW q \in ch[e].pendingSend
            PROVE  q.packet.seq \in {p.packet.seq : p \in P}
        BY <1>5
      <4> QED BY <3>2, <4>1, <1>6, <1>10 DEF PendingSeqs
    <3> QED BY <3>1, <3>2
  <2> QED BY <2>1, <2>2, <1>1, <1>10, CareFrame, ZenonT(30) DEF IInv
<1>15. QED BY <1>8, <1>10, <1>11, <1>12, <1>13, <1>14, ZenonT(30) DEF IInv

\* Teardown: the pending packets and the reorder buffer are dropped.
LEMMA KillStep ==
  ASSUME IInv, NEW e \in Ends, NEW due \in SUBSET ch[e].pendingSend, Kill(e, due)
  PROVE  IInv'
<1>0. PICK d : d = ReleasePendingBuffers(ch[e])
  OBVIOUS
<1>1. /\ pc[e] = "incoming"
      /\ ch' = [ch EXCEPT ![e] = d]
      /\ conn' = [conn EXCEPT ![e] = "Disconnected"]
      /\ UNCHANGED <<pc, hand, net, faults, accepted, failed, delivered>>
  BY <1>0 DEF Kill
<1>2. ch[e] \in ChannelType
  BY EndTypes DEF IInv
<1>3. /\ d \in ChannelType
      /\ d.pendingSend = {} /\ d.recvBuffer = << >>
      /\ d.sendSeq = ch[e].sendSeq
      /\ d.recvAck = ch[e].recvAck
      /\ d.recvAckField = ch[e].recvAckField
      /\ d.recvNextDeliver = ch[e].recvNextDeliver
      /\ d.lastRecvSeq = ch[e].lastRecvSeq
  <2>1. << >> \in Buffers
    <3>1. << >> = [s \in {} |-> s] OBVIOUS
    <3> QED BY <3>1 DEF Buffers
  <2> QED BY <1>0, <1>2, <2>1, ZenonT(30) DEF ReleasePendingBuffers, ChannelType
<1>4. TypeOK'
  <2>1. conn' \in [Ends -> {"Connected", "Disconnected"}]
    BY <1>1 DEF IInv, TypeOK
  <2>2. ch' \in [Ends -> ChannelType]
    BY ZenonT(30), <1>1, <1>3 DEF IInv, TypeOK
  <2> QED BY <1>1, <2>1, <2>2 DEF IInv, TypeOK, faults
<1>5. \A f \in Ends : /\ ch'[f] = IF f = e THEN d ELSE ch[f]
                      /\ conn'[f] = IF f = e THEN "Disconnected" ELSE conn[f]
  BY <1>1 DEF IInv, TypeOK
<1>6. \A f \in Ends : /\ ch[f].sendSeq <= ch'[f].sendSeq
                      /\ ch'[f].sendSeq = ch[f].sendSeq
                      /\ ch'[f].recvAck = ch[f].recvAck
                      /\ ch'[f].recvAckField = ch[f].recvAckField
                      /\ ch'[f].pendingSend \subseteq ch[f].pendingSend
  BY <1>2, <1>3, <1>5, EndTypes, FieldTypes DEF IInv
<1>7. \A m \in Packets : Sound(m) => Sound(m)'
  BY <1>1, <1>4, <1>6, SoundFrame DEF IInv
<1>8. \A f \in Ends : AckStateOK(f)'
  BY ZenonT(30), <1>1, <1>4, <1>6, AckStateFrame, Basics DEF IInv
<1>9. PacketsOK'
  BY <1>1, <1>6, <1>7, NetSound, PendingSound, PacketsFrame
<1>10. ASSUME NEW f \in Ends
       PROVE  HandsOK(f)'
  <2>1. CASE f # e
    BY <2>1, <1>1, <1>5, <1>7, HandsFrame DEF IInv
  <2>2. CASE f = e
    <3>1. HandsOK(e) /\ \A u \in Threads : hand[e][u] \in Packets \union {NoPacket}
      BY EndTypes DEF IInv
    <3> QED BY <2>2, <3>1, <1>1, <1>5, <1>7, ZenonT(30) DEF HandsOK
  <2> QED BY <2>1, <2>2
<1>11. ASSUME NEW f \in Ends
       PROVE  DeliveryOK(f)'
  <2>1. InDelivery(f)' = InDelivery(f) /\ DeliveryOK(f)
    BY <1>1, ZenonT(30) DEF InDelivery, IInv
  <2>2. CASE f # e
    BY <2>1, <2>2, <1>1, <1>5, DeliveryFrame, ZenonT(30)
  <2>3. CASE f = e
    <3>1. InDelivery(e) = {} /\ DOMAIN d.recvBuffer = {}
      <4>1. InDelivery(e) = {}
        BY <1>1 DEF InDelivery
      <4>2. DOMAIN << >> = {}
        OBVIOUS
      <4>3. d.recvBuffer = << >>
        BY <1>3
      <4> QED BY <4>1, <4>2, <4>3, Zenon
    <3>2. /\ ch'[e].recvNextDeliver = ch[e].recvNextDeliver
          /\ ch'[e].lastRecvSeq = ch[e].lastRecvSeq
          /\ DOMAIN ch'[e].recvBuffer = {}
          /\ conn'[e] = "Disconnected"
      BY <3>1, <1>3, <1>5
    <3>3. delivered' = delivered /\ accepted' = accepted /\ InDelivery(e)' = {}
      BY <2>1, <2>3, <3>1, <1>1
    <3>4. CASE Mode = "ReliableOrdered"
      BY ZenonT(30), <2>1, <2>3, <3>2, <3>3, <3>4 DEF DeliveryOK, OrderedOK
    <3>5. CASE Mode # "ReliableOrdered"
      <4>1. UnorderedOK(e)
        BY <2>1, <2>3, <3>5 DEF DeliveryOK
      <4>2. UnorderedOK(e)'
        BY <4>1, <3>1, <3>2, <3>3 DEF UnorderedOK
      <4> QED BY <4>2, <2>3, <3>5 DEF DeliveryOK
    <3> QED BY <3>4, <3>5
  <2> QED BY <2>2, <2>3
<1>12. ASSUME NEW f \in Ends
       PROVE  CareOK(f)'
  <2>1. CASE f # e
    <3>1. InHand(f)' = InHand(f) /\ PendingSeqs(f)' = PendingSeqs(f)
      BY <2>1, <1>1, <1>5, ZenonT(30) DEF InHand, PendingSeqs
    <3> QED BY <2>1, <3>1, <1>1, <1>5, CareFrame DEF IInv
  <2>2. CASE f = e
    BY <2>2, <1>5 DEF CareOK
  <2> QED BY <2>1, <2>2
<1>13. QED BY <1>4, <1>8, <1>9, <1>10, <1>11, <1>12 DEF IInv
=============================================================================
