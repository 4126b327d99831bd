----------------------------- MODULE Connection -----------------------------
(***************************************************************************)
(* One end of a connection over all its channels: the send queue, the      *)
(* congestion window, the batch buffer, the acks and the loss tracker      *)
(* (connection.go, batch.go and the tickConnection of server.go and        *)
(* client.go).                                                             *)
(*                                                                         *)
(* The threads are the tick goroutine, user goroutines in Send and         *)
(* SendImmediate, and a goroutine that tears the connection down.  A step  *)
(* is what a thread does between two points where another thread can see   *)
(* or change what it works on: a lock, an atomic, a write to the socket.   *)
(*                                                                         *)
(* The peer and the network are the environment: the peer acks packets     *)
(* that were written, any of them and at any time, and sends packets of    *)
(* its own.  What the peer gets from a datagram is what UnmarshalBatch,    *)
(* UnmarshalHeader and UnmarshalMultiAck make of its bytes.                *)
(***************************************************************************)
EXTENDS ChannelOps, Congestion, LossTracker, Batch

CONSTANTS
  Users,            \* goroutines that call SendImmediate
  Setups,           \* what a connection may be set up for: see SetupOK
  Chan,             \* Chan[m]: the channel of message m
  Parts,            \* Parts[m]: the number of its packets
  Size,             \* Size[m]: the encrypted size of each of them
  MaxBatchQueueSize,\* maxBatchQueueSize: 256 in the code
  MultiAckRoom,     \* the size of ctrlBuf: 256 in the code
  ReadBufferSize,   \* what a read loop takes from a datagram
  MaxRetransmits,   \* Config.MaxRetransmits
  MaxWriteErrors    \* bound: failed writes to the socket

Messages == DOMAIN Chan

\* The modes of the channels, the congestion mode, whether batching was negotiated,
\* the MTU, the messages of Send and of each SendImmediate goroutine, the data
\* packets <<channel, sequence>> the peer sends, and whether somebody closes.
SetupOK(s) ==
  /\ s.modes \in Seq(Modes)
  /\ s.congestion \in {"Conservative", "Aggressive"}
  /\ s.batching \in BOOLEAN /\ s.closes \in BOOLEAN
  /\ s.mtu \in Nat \ {0}
  /\ s.queued \in Seq(Messages)
  /\ s.immediate \in [Users -> Seq(Messages)]
  /\ \A m \in ToSet(s.queued) \union UNION {ToSet(s.immediate[u]) : u \in Users} :
       Chan[m] < Len(s.modes)
  /\ \A a \in s.arriving : a \in (0..(Len(s.modes) - 1)) \X (Nat \ {0})

ASSUME ConnectionAssumption ==
  /\ \A s \in Setups : SetupOK(s)
  /\ \A m \in Messages : Chan[m] \in Nat /\ Parts[m] \in Nat \ {0} /\ Size[m] \in Nat
  /\ FieldBits = AckBits
  /\ "tick" \notin Users
  /\ MaxBatchQueueSize \in Nat /\ MultiAckRoom \in Nat /\ ReadBufferSize \in Nat
  /\ MaxRetransmits \in Nat /\ MaxWriteErrors \in Nat

Threads == Users \union {"tick"}

VARIABLES
  setup,       \* the set-up, which no step changes
  state,       \* the connection state
  sends,       \* how many of setup.queued were passed to Send so far
  immediate,   \* immediate[u]: what u has still to pass to SendImmediate
  sendQueue,
  msgs,        \* what the tick goroutine drained and has not sent yet
  channels,    \* channels[c]: the channel record of channel c
  cc,          \* the congestion controller
  loss,        \* the loss tracker
  skipBatch,
  batchBuf, batchIdle,   \* [array, packets] and an array: see below
  pending,     \* the batch the tick goroutine flushes: [array, all, rest]
  pc,          \* pc[t]: where thread t is
  hand,        \* hand[t]: the message t sends, how many of its packets, the last one
  closing,     \* where the goroutine that closes is
  sent,        \* history: sent[c][seq] is the message the sequence was used for
  written,     \* history: the packets <<channel, sequence>> the peer can read
  failed,      \* history: those whose write or flush was reported to fail
  returned,    \* history: the buffers handed back to the pool
  announced,   \* history: announced[c], sequences of the peer an ack has named
  widest       \* history: the widest window so far

connVars  == <<state, sendQueue, sends>>
sendVars  == <<channels, loss, hand, sent>>
batchVars == <<batchBuf, batchIdle, pending>>
wireVars  == <<written, failed, returned, announced>>
vars == <<setup, connVars, immediate, msgs, cc, skipBatch, pc, closing, widest,
          sendVars, batchVars, wireVars>>

Channels == 0..(Len(setup.modes) - 1)

\* The backing arrays of the batch slices, by number; 0 is the nil slice.  Three
\* slices are ever held at a time, so a fresh array is one of three.
Arrays == 0..3
FreshArray ==
  Min(Arrays \ {0, batchBuf.array, batchIdle, pending.array})

NoPacket == [ch |-> 0, seq |-> 0, size |-> 0, ack |-> 0, field |-> {}]
IdleHand == [msg |-> 0, part |-> 0, packet |-> NoPacket, batch |-> FALSE]
NoBatch  == [array |-> 0, packets |-> << >>]
NoFlush  == [array |-> 0, all |-> << >>, rest |-> << >>]

Init ==
  /\ setup \in Setups
  /\ state = "Connected"
  /\ sends = 0
  /\ immediate = setup.immediate
  /\ sendQueue = << >>
  /\ msgs = << >>
  /\ channels = [c \in Channels |-> NewChannel(setup.modes[c + 1])]
  /\ cc = NewController(setup.congestion)
  /\ loss = NewLossTracker
  /\ skipBatch = FALSE
  /\ batchBuf = NoBatch
  /\ batchIdle = 0
  /\ pending = NoFlush
  /\ pc = [t \in Threads |-> IF t = "tick" THEN "incoming" ELSE "idle"]
  /\ hand = [t \in Threads |-> IdleHand]
  /\ closing = "no"
  /\ sent = [c \in Channels |-> << >>]
  /\ written = {}
  /\ failed = {}
  /\ returned = {}
  /\ announced = [c \in Channels |-> {}]
  /\ widest = Window(cc)

Goto(t, label) == pc' = [pc EXCEPT ![t] = label]

-----------------------------------------------------------------------------
(* What the peer reads.                                                    *)

Id(p) == <<p.ch, p.seq>>

PlainBuf(p)     == <<"plain", p.ch, p.seq>>
EncryptedBuf(p) == <<"encrypted", p.ch, p.seq>>

\* The bytes of an encrypted packet mean nothing before it is decrypted.
Encrypted(p) == [i \in 1..p.size |-> 100 * (p.ch + 1) + p.seq]

\* sendFramed for one packet and flushBatch for several: the datagram.
Datagram(packets) ==
  IF setup.batching THEN MarshalBatch([i \in DOMAIN packets |-> Encrypted(packets[i])])
  ELSE Encrypted(packets[1])

\* The packets a peer can take out of a datagram, as its read buffer holds it.
Readable(packets) ==
  LET data == SubSeq(Datagram(packets), 1, Min({Len(Datagram(packets)), ReadBufferSize}))
      got  == IF setup.batching THEN ToSet(UnmarshalBatch(data).packets) ELSE {data}
  IN  {p \in ToSet(packets) : Encrypted(p) \in got}

\* The header of a data packet as the peer decodes it.
OnWire(p) ==
  UnmarshalHeader(MarshalHeader(
    [flags |-> 0, channel |-> p.ch, seq |-> p.seq, ack |-> p.ack, field |-> p.field]))

\* The sequences an ack names.
Named(ack, field) == IF ack = 0 THEN {} ELSE {ack} \union {ack - d : d \in field}

\* What was announced before, and what the given ack states add.
Announcing(acks) ==
  [c \in Channels |->
     announced[c] \union
     UNION {Named(a.ack, a.field) : a \in {b \in acks : b.channel = c}}]

\* A write of the packets to the socket, as far as the peer is concerned.
PeerReads(packets) ==
  LET headers == {h \in {OnWire(p) : p \in Readable(packets)} : h.ok}
  IN  /\ written' = written \union {<<h.channel, h.seq>> : h \in headers}
      /\ announced' = Announcing(headers)

-----------------------------------------------------------------------------
(* A thread sends a message packet by packet: sendSinglePacket, and the    *)
(* loop of sendFragmented.                                                 *)

InFlightCount ==
  MapThenSumSet(LAMBDA c : Cardinality(channels[c].pendingSend), Channels)

Sending(t, label) == pc[t] = label /\ hand[t].msg # 0

\* The message of t ends here: back in the drain loop, or out of sendMessage.
EndMessage(t) ==
  /\ hand' = [hand EXCEPT ![t] = IdleHand]
  /\ Goto(t, IF t = "tick" THEN "window" ELSE "unskip")

\* On to the next packet of the message, if it has one.
NextPacket(t) ==
  IF hand[t].part < Parts[hand[t].msg]
  THEN UNCHANGED hand /\ Goto(t, "prepare")
  ELSE EndMessage(t)

\* nextSequence, ackState, MarshalHeader and Encrypt, up to the load of skipBatch.
Prepare(t) ==
  LET m == hand[t].msg
      c == Chan[m]
      next == NextSequence(channels[c])
      p == [ ch |-> c, seq |-> next.sendSeq, size |-> Size[m],
             ack |-> next.recvAck, field |-> next.recvAckField ]
  IN  /\ Sending(t, "prepare")
      /\ channels' = [channels EXCEPT ![c] = next]
      /\ hand' = [hand EXCEPT ![t].part = @ + 1, ![t].packet = p,
                                ![t].batch = setup.batching /\ ~skipBatch]
      /\ sent' = [sent EXCEPT ![c] = Append(@, m)]
      /\ Goto(t, "write")
      /\ UNCHANGED <<setup, connVars, immediate, msgs, cc, loss, skipBatch, closing,
                     widest, batchVars, wireVars>>

\* The branch of writeEncrypted that appends to the batch buffer.
Batches(t) == hand[t].batch /\ Len(batchBuf.packets) < MaxBatchQueueSize

Enqueue(t) ==
  /\ Sending(t, "write")
  /\ Batches(t)
  /\ batchBuf' = [ array   |-> IF batchBuf.array = 0 THEN FreshArray ELSE batchBuf.array,
                   packets |-> Append(batchBuf.packets, hand[t].packet) ]
  /\ Goto(t, "pending")
  /\ UNCHANGED <<setup, connVars, immediate, msgs, cc, skipBatch, closing, widest,
                 sendVars, batchIdle, pending, wireVars>>

WriteNow(t) ==
  /\ Sending(t, "write")
  /\ ~Batches(t)
  /\ PeerReads(<<hand[t].packet>>)
  /\ returned' = returned \union {EncryptedBuf(hand[t].packet)}
  /\ Goto(t, "pending")
  /\ UNCHANGED <<setup, connVars, immediate, msgs, cc, skipBatch, closing, widest,
                 sendVars, batchVars, failed>>

\* The error ends the message: its later packets are never sent.
WriteFails(t) ==
  /\ Sending(t, "write")
  /\ ~Batches(t)
  /\ Cardinality(failed) < MaxWriteErrors
  /\ failed' = failed \union {Id(hand[t].packet)}
  /\ returned' = returned \union {EncryptedBuf(hand[t].packet), PlainBuf(hand[t].packet)}
  /\ EndMessage(t)
  /\ UNCHANGED <<setup, connVars, immediate, msgs, cc, skipBatch, closing, widest,
                 channels, loss, sent, batchVars, written, announced>>

\* addPending for a reliable channel; the buffer goes back to the pool otherwise.
AddToPending(t) ==
  LET p == hand[t].packet
  IN  /\ Sending(t, "pending")
      /\ IF Reliable(channels[p.ch])
         THEN /\ channels' = [channels EXCEPT ![p.ch] = AddPending(@, p)]
              /\ Goto(t, "record")
              /\ UNCHANGED <<hand, returned>>
         ELSE /\ returned' = returned \union {PlainBuf(p)}
              /\ NextPacket(t)
              /\ UNCHANGED channels
      /\ UNCHANGED <<setup, connVars, immediate, msgs, cc, skipBatch, closing, widest,
                     loss, sent, batchVars, written, failed, announced>>

RecordLoss(t) ==
  /\ Sending(t, "record")
  /\ loss' = RecordSend(loss, hand[t].packet.seq)
  /\ NextPacket(t)
  /\ UNCHANGED <<setup, connVars, immediate, msgs, cc, skipBatch, closing, widest,
                 channels, sent, batchVars, wireVars>>

SendStep(t) ==
  Prepare(t) \/ Enqueue(t) \/ WriteNow(t) \/ WriteFails(t) \/ AddToPending(t) \/ RecordLoss(t)

-----------------------------------------------------------------------------
(* The application.                                                        *)

\* Send and SendOwned.
Send ==
  /\ state = "Connected"
  /\ sends < Len(setup.queued)
  /\ sends' = sends + 1
  /\ sendQueue' = Append(sendQueue, setup.queued[sends + 1])
  /\ UNCHANGED <<setup, state, immediate, msgs, cc, skipBatch, pc, closing, widest,
                 sendVars, batchVars, wireVars>>

\* Mutant: the flag is not stored.
MutSendImmediate(u) ==
  /\ pc[u] = "idle"
  /\ state = "Connected"
  /\ immediate[u] # << >>
  /\ hand' = [hand EXCEPT ![u].msg = Head(immediate[u])]
  /\ immediate' = [immediate EXCEPT ![u] = Tail(@)]
  /\ Goto(u, "prepare")
  /\ UNCHANGED <<setup, connVars, msgs, cc, skipBatch, closing, widest, channels, loss, sent,
                 batchVars, wireVars>>

\* SendImmediate up to sendMessage, and its deferred store.
SendImmediate(u) ==
  /\ pc[u] = "idle"
  /\ state = "Connected"
  /\ immediate[u] # << >>
  /\ skipBatch' = TRUE
  /\ hand' = [hand EXCEPT ![u].msg = Head(immediate[u])]
  /\ immediate' = [immediate EXCEPT ![u] = Tail(@)]
  /\ Goto(u, "prepare")
  /\ UNCHANGED <<setup, connVars, msgs, cc, closing, widest, channels, loss, sent,
                 batchVars, wireVars>>

Unskip(u) ==
  /\ pc[u] = "unskip"
  /\ skipBatch' = FALSE
  /\ Goto(u, "idle")
  /\ UNCHANGED <<setup, connVars, immediate, msgs, cc, closing, widest, sendVars,
                 batchVars, wireVars>>

-----------------------------------------------------------------------------
(* The tick goroutine: the packets that came in.                           *)

Incoming == pc["tick"] = "incoming" /\ state # "Disconnected"

\* processAcks for the ack of a header, or for one entry of a multi-ack, and what
\* follows it.  Acks that name no pending packet change nothing.
ReceiveAck(c, ack, field) ==
  LET next  == ProcessAcks(channels[c], ack, field)
      acked == {p.packet.seq : p \in channels[c].pendingSend \ next.pendingSend}
  IN  /\ Incoming
      /\ acked # {}
      /\ channels' = [channels EXCEPT ![c] = next]
      /\ cc' = OnAck(cc, Cardinality(acked))
      /\ widest' = Max({widest, Window(cc')})
      /\ loss' = FoldSet(LAMBDA seq, lt : RecordAck(lt, seq), loss, acked)
      /\ returned' = returned \union {PlainBuf([ch |-> c, seq |-> s]) : s \in acked}
      /\ UNCHANGED <<setup, connVars, immediate, msgs, skipBatch, pc, hand, closing, sent,
                     batchVars, written, failed, announced>>

WrittenOn(c) == {id[2] : id \in {w \in written : w[1] = c}}

AckArrives ==
  \E c \in Channels : \E ack \in WrittenOn(c) :
    \E field \in SUBSET {d \in 1..AckBits : ack - d \in WrittenOn(c)} :
      ReceiveAck(c, ack, field)

\* A data packet of the peer: recordReceive and deliver.
DataArrives ==
  \E a \in setup.arriving :
    LET c == a[1]
        s == a[2]
    IN  /\ Incoming
        /\ Accepts(channels[c], s)
        /\ channels' =
             [channels EXCEPT ![c] = Deliver(RecordReceive(@, s), s, s).channel]
        /\ UNCHANGED <<setup, connVars, immediate, msgs, cc, loss, skipBatch, pc, hand,
                       closing, sent, widest, batchVars, wireVars>>

-----------------------------------------------------------------------------
(* The tick goroutine: tickConnection.                                     *)

Due == {<<c, p>> \in Channels \X UNION {channels[c].pendingSend : c \in Channels} :
          p \in channels[c].pendingSend}

DueOn(due, c) == {d[2] : d \in {e \in due : e[1] = c}}

\* checkRetransmissions on every channel, the retransmissions written at once by
\* sendFramed; a write that fails is as good as a datagram lost.
CheckDue(due) ==
  /\ pc["tick"] = "incoming"
  /\ state = "Connected"
  /\ \A c \in Channels : ~Exhausted(channels[c], DueOn(due, c), MaxRetransmits)
  /\ channels' = [c \in Channels |-> CheckRetransmissions(channels[c], DueOn(due, c))]
  /\ cc' = FoldSet(LAMBDA d, x : OnLoss(x), cc, due)
  /\ LET headers == UNION {{OnWire(p) : p \in Readable(<<d[2].packet>>)} : d \in due}
     IN  /\ written' = written \union {<<h.channel, h.seq>> : h \in headers}
         /\ announced' = Announcing(headers)
  /\ Goto("tick", "drain")
  /\ UNCHANGED <<setup, connVars, immediate, msgs, loss, skipBatch, hand, closing, sent,
                 widest, batchVars, failed, returned>>

Retransmit == \E due \in SUBSET Due : CheckDue(due)

\* The two reasons for which tickConnection gives the connection up.
GiveUp(reason) ==
  /\ pc["tick"] = "incoming"
  /\ state = "Connected"
  /\ reason
  /\ Goto("tick", "release")
  /\ UNCHANGED <<setup, connVars, immediate, msgs, cc, skipBatch, closing, widest,
                 sendVars, batchVars, wireVars>>

TimedOut == GiveUp(setup.closes)

Kill ==
  GiveUp(\E c \in Channels :
           Exhausted(channels[c], channels[c].pendingSend, MaxRetransmits))

DrainSendQueue ==
  /\ pc["tick"] = "drain"
  /\ msgs' = sendQueue
  /\ sendQueue' = << >>
  /\ Goto("tick", "window")
  /\ UNCHANGED <<setup, state, sends, immediate, cc, skipBatch, closing, widest,
                 sendVars, batchVars, wireVars>>

StartMessage ==
  /\ pc["tick"] = "window"
  /\ msgs # << >>
  /\ CanSend(cc, InFlightCount)
  /\ hand' = [hand EXCEPT !["tick"].msg = Head(msgs)]
  /\ msgs' = Tail(msgs)
  /\ Goto("tick", "prepare")
  /\ UNCHANGED <<setup, connVars, immediate, cc, skipBatch, closing, widest, channels,
                 loss, sent, batchVars, wireVars>>

\* Mutant: the rest of the queue goes behind what was queued since.
MutRequeue ==
  /\ pc["tick"] = "window"
  /\ msgs = << >> \/ ~CanSend(cc, InFlightCount)
  /\ sendQueue' = sendQueue \o msgs
  /\ msgs' = << >>
  /\ Goto("tick", "flush")
  /\ UNCHANGED <<setup, state, sends, immediate, cc, skipBatch, closing, widest,
                 sendVars, batchVars, wireVars>>

\* Mutant: the loop is left without a requeue.
MutBreak ==
  /\ pc["tick"] = "window"
  /\ msgs = << >> \/ ~CanSend(cc, InFlightCount)
  /\ msgs' = << >>
  /\ Goto("tick", "flush")
  /\ UNCHANGED <<setup, connVars, immediate, cc, skipBatch, closing, widest,
                 sendVars, batchVars, wireVars>>

\* The end of the drain loop: what does not fit in the window waits in front.
Requeue ==
  /\ pc["tick"] = "window"
  /\ msgs = << >> \/ ~CanSend(cc, InFlightCount)
  /\ sendQueue' = msgs \o sendQueue
  /\ msgs' = << >>
  /\ Goto("tick", "flush")
  /\ UNCHANGED <<setup, state, sends, immediate, cc, skipBatch, closing, widest,
                 sendVars, batchVars, wireVars>>

-----------------------------------------------------------------------------
(* The tick goroutine: flushBatch.                                         *)

NothingToFlush ==
  /\ pc["tick"] = "flush"
  /\ batchBuf.packets = << >>
  /\ Goto("tick", "acks")
  /\ UNCHANGED <<setup, connVars, immediate, msgs, cc, skipBatch, closing, widest,
                 sendVars, batchVars, wireVars>>

\* Mutant: the buffer being flushed is at once the idle one.
MutSwapBatch ==
  /\ pc["tick"] = "flush"
  /\ batchBuf.packets # << >>
  /\ pending' = [array |-> batchBuf.array, all |-> batchBuf.packets, rest |-> batchBuf.packets]
  /\ batchBuf' = [array |-> batchIdle, packets |-> << >>]
  /\ batchIdle' = batchBuf.array
  /\ Goto("tick", "datagram")
  /\ UNCHANGED <<setup, connVars, immediate, msgs, cc, skipBatch, closing, widest,
                 sendVars, wireVars>>

SwapBatch ==
  /\ pc["tick"] = "flush"
  /\ batchBuf.packets # << >>
  /\ pending' = [array |-> batchBuf.array, all |-> batchBuf.packets, rest |-> batchBuf.packets]
  /\ batchBuf' = [array |-> batchIdle, packets |-> << >>]
  /\ batchIdle' = 0
  /\ Goto("tick", "datagram")
  /\ UNCHANGED <<setup, connVars, immediate, msgs, cc, skipBatch, closing, widest,
                 sendVars, wireVars>>

\* The next datagram.  When its write fails the rest of the batch is dropped.
SendDatagram ==
  LET n == DatagramLen([i \in DOMAIN pending.rest |-> Encrypted(pending.rest[i])], setup.mtu)
  IN  /\ pc["tick"] = "datagram"
      /\ pending.rest # << >>
      /\ \/ /\ PeerReads(SubSeq(pending.rest, 1, n))
            /\ pending' = [pending EXCEPT !.rest = Drop(@, n)]
            /\ UNCHANGED failed
         \/ /\ Cardinality(failed) < MaxWriteErrors
            /\ failed' = failed \union {Id(p) : p \in ToSet(pending.rest)}
            /\ pending' = [pending EXCEPT !.rest = << >>]
            /\ UNCHANGED <<written, announced>>
      /\ UNCHANGED <<setup, connVars, immediate, msgs, cc, skipBatch, pc, closing, widest,
                     sendVars, batchBuf, batchIdle, returned>>

\* The deferred function: the packets go back to the pool and the slice, which is
\* larger than the nil one left by the swap, becomes the idle one.
FlushReturns ==
  /\ pc["tick"] = "datagram"
  /\ pending.rest = << >>
  /\ returned' = returned \union {EncryptedBuf(p) : p \in ToSet(pending.all)}
  /\ batchIdle' = pending.array
  /\ pending' = NoFlush
  /\ Goto("tick", "acks")
  /\ UNCHANGED <<setup, connVars, immediate, msgs, cc, skipBatch, closing, widest,
                 sendVars, batchBuf, written, failed, announced>>

-----------------------------------------------------------------------------
(* The tick goroutine: acks.                                               *)

\* What the peer decodes from a sendMultiChannelHeartbeat for the channels.
MultiAckRead(ids) ==
  LET entry(c) == [ channel |-> c, ack |-> channels[c].recvAck,
                    field |-> channels[c].recvAckField ]
      order    == SetToSortSeq(ids, <)
      packet   == MarshalMultiAck([i \in DOMAIN order |-> entry(order[i])], MultiAckRoom)
  IN  IF packet.ok THEN ToSet(UnmarshalMultiAck(Tail(packet.buf)).entries) ELSE {}

\* Mutant: the acks of all channels, but the packet of sendHeartbeat.
MutFlushAcks ==
  /\ pc["tick"] = "acks"
  /\ channels' = [c \in Channels |-> ClearNeedsAck(channels[c])]
  /\ announced' = Announcing(MultiAckRead({0}))
  /\ Goto("tick", "heartbeat")
  /\ UNCHANGED <<setup, connVars, immediate, msgs, cc, loss, skipBatch, hand, closing, sent,
                 widest, batchVars, written, failed, returned>>

\* clearNeedsAck on every channel, and one multi-ack for those that needed it.
FlushAcks ==
  LET ids == {c \in Channels : channels[c].needsAck}
  IN  /\ pc["tick"] = "acks"
      /\ channels' = [c \in Channels |-> ClearNeedsAck(channels[c])]
      /\ announced' = Announcing(MultiAckRead(ids))
      /\ Goto("tick", "heartbeat")
      /\ UNCHANGED <<setup, connVars, immediate, msgs, cc, loss, skipBatch, hand, closing,
                     sent, widest, batchVars, written, failed, returned>>

\* sendHeartbeat, when one is due: the ack state of channel 0.
Heartbeat ==
  \E due \in BOOLEAN :
    /\ pc["tick"] = "heartbeat"
    /\ announced' = IF due THEN Announcing(MultiAckRead({0})) ELSE announced
    /\ Goto("tick", "incoming")
    /\ UNCHANGED <<setup, connVars, immediate, msgs, cc, skipBatch, closing, widest,
                   sendVars, batchVars, written, failed, returned>>

-----------------------------------------------------------------------------
(* releasePendingBuffers, by the tick goroutine that gives up or beside it *)
(* by Client.Close: first the channels, then the batch buffer.             *)

ReleaseChannels ==
  /\ returned' = returned \union
       UNION {{PlainBuf(p.packet) : p \in channels[c].pendingSend} : c \in Channels}
  /\ channels' = [c \in Channels |-> ReleasePendingBuffers(channels[c])]
  /\ UNCHANGED <<setup, connVars, immediate, msgs, cc, loss, skipBatch, hand, sent, widest,
                 batchVars, written, failed, announced>>

\* Mutant: the packets of the flush are returned too.
MutReleaseBatch ==
  /\ returned' = returned \union
       {EncryptedBuf(p) : p \in ToSet(batchBuf.packets \o pending.all)}
  /\ batchBuf' = NoBatch
  /\ batchIdle' = 0
  /\ state' = "Disconnected"
  /\ UNCHANGED <<setup, sends, sendQueue, immediate, msgs, cc, skipBatch, widest, sendVars,
                 pending, written, failed, announced>>

\* The idle slice is the caller's to drop, the one being flushed is not.
ReleaseBatch ==
  /\ returned' = returned \union {EncryptedBuf(p) : p \in ToSet(batchBuf.packets)}
  /\ batchBuf' = NoBatch
  /\ batchIdle' = 0
  /\ state' = "Disconnected"
  /\ UNCHANGED <<setup, sends, sendQueue, immediate, msgs, cc, skipBatch, widest, sendVars,
                 pending, written, failed, announced>>

TickRelease ==
  \/ /\ pc["tick"] = "release" /\ Goto("tick", "releaseBatch")
     /\ ReleaseChannels /\ UNCHANGED closing
  \/ /\ pc["tick"] = "releaseBatch" /\ Goto("tick", "incoming")
     /\ ReleaseBatch /\ UNCHANGED closing

CloseBegins ==
  /\ setup.closes
  /\ closing = "no"
  /\ state = "Connected"
  /\ state' = "Disconnecting"
  /\ closing' = "release"
  /\ UNCHANGED <<setup, sends, sendQueue, immediate, msgs, cc, skipBatch, pc, widest,
                 sendVars, batchVars, wireVars>>

CloseRelease ==
  \/ /\ closing = "release" /\ closing' = "releaseBatch"
     /\ ReleaseChannels /\ UNCHANGED pc
  \/ /\ closing = "releaseBatch" /\ closing' = "done"
     /\ ReleaseBatch /\ UNCHANGED pc

-----------------------------------------------------------------------------
\* What the tick goroutine is sure to do next, unless it has to wait for a packet.
Tick ==
  \/ SendStep("tick") \/ Retransmit \/ DrainSendQueue \/ StartMessage \/ Requeue
  \/ NothingToFlush \/ SwapBatch \/ SendDatagram \/ FlushReturns
  \/ FlushAcks \/ Heartbeat \/ TickRelease

User(u) == SendImmediate(u) \/ SendStep(u) \/ Unskip(u)

Next ==
  \/ Tick \/ TimedOut \/ Kill \/ AckArrives \/ DataArrives
  \/ Send \/ \E u \in Users : User(u)
  \/ CloseBegins \/ CloseRelease

Spec == Init /\ [][Next]_vars

(* Fairness, in terms that TLC evaluates fast enough: when the tick         *)
(* goroutine can go on and how a step of it shows, when it looks for due    *)
(* packets and how a tick that finds one shows.                             *)

TickCanRun == pc["tick"] # "incoming" \/ state = "Connected"
TickRuns   == pc'["tick"] # pc["tick"] \/ pending' # pending

LooksForDue == pc["tick"] = "incoming" /\ state = "Connected" /\ InFlightCount > 0
FindsDue ==
  /\ LooksForDue
  /\ pc'["tick"] = "release" \/ (pc'["tick"] = "drain" /\ channels' # channels)

\* The tick goroutine keeps running (weak fairness), and while packets are pending
\* some of them are due again and again (strong fairness), because the time of the
\* next retransmission comes.  Nothing is assumed of the peer and of the others.
Fairness ==
  /\ <>[]TickCanRun => []<><<TickRuns>>_vars
  /\ []<>LooksForDue => []<><<FindsDue>>_vars

FairSpec == Spec /\ Fairness

-----------------------------------------------------------------------------
(* Properties.                                                             *)

Sent == SubSeq(setup.queued, 1, sends)

\* The sequence numbers a message was given.
SeqsOf(m) ==
  {s \in UNION {DOMAIN sent[c] : c \in Channels \intersect {Chan[m]}} : sent[Chan[m]][s] = m}

\* drainSendQueue and requeue lose no message, send none twice and keep the order
\* of the Send calls: what waits is the end of what was sent, in that order, and
\* of two messages of one channel the earlier has the lower sequence numbers.
QueueIsFifo ==
  LET waiting == msgs \o sendQueue
  IN  /\ waiting = Drop(Sent, sends - Len(waiting))
      /\ \A i, j \in 1..sends :
           i < j /\ Chan[Sent[i]] = Chan[Sent[j]] =>
             \A s \in SeqsOf(Sent[i]), t \in SeqsOf(Sent[j]) : s < t
      /\ \A i \in 1..sends : Cardinality(SeqsOf(Sent[i])) <= Parts[Sent[i]]

\* tickConnection keeps to the congestion window: the packets in flight over all
\* channels are at most as many as the widest window so far, and the rest of the
\* last message it let through, and what SendImmediate sent past the window.
WithinWindow ==
  LET queued  == ToSet(setup.queued)
      past(c) == {s \in DOMAIN sent[c] : sent[c][s] \notin queued}
      rest    == Max({0} \union {Parts[m] - 1 : m \in queued})
  IN  setup.congestion = "Conservative" =>
        InFlightCount <=
          widest + rest + MapThenSumSet(LAMBDA c : Cardinality(past(c)), Channels)

\* Every pooled buffer has one owner from the moment it is taken: the thread that
\* sends, the channel that may retransmit, the batch, the flush, or the pool.
OneOwner ==
  \A c \in Channels : \A s \in DOMAIN sent[c] :
    LET id        == [ch |-> c, seq |-> s]
        at(pcs)   == {t \in Threads : Id(hand[t].packet) = <<c, s>> /\ pc[t] \in pcs}
        in(q)     == {i \in DOMAIN q : Id(q[i]) = <<c, s>>}
        pooled(b) == returned \intersect {b}
    IN  /\ Cardinality(at({"write", "pending"}))
           + Cardinality({p \in channels[c].pendingSend : p.packet.seq = s})
           + Cardinality(pooled(PlainBuf(id))) = 1
        /\ Cardinality(at({"write"})) + Cardinality(in(batchBuf.packets))
           + Cardinality(in(pending.all)) + Cardinality(pooled(EncryptedBuf(id))) = 1

\* The double buffering of flushBatch: no two of the slice that is appended to, the
\* one that is flushed without the lock and the idle one share an array.
SlicesApart ==
  \A a \in Arrays \ {0} :
    Cardinality({x \in {<<"buf", batchBuf.array>>, <<"idle", batchIdle>>,
                        <<"flush", pending.array>>} : x[2] = a}) <= 1

\* An encrypted packet is not given up before the peer could read it from a
\* datagram, or the write was reported to fail, or the connection was torn down.
NothingVanishes ==
  state # "Disconnected" =>
    \A b \in returned : b[1] = "encrypted" => <<b[2], b[3]>> \in written \union failed

\* SendImmediate "bypasses the batch buffer", also while the tick goroutine fills
\* and flushes it, with one SendImmediate at a time.
ImmediateBypasses ==
  \A p \in ToSet(batchBuf.packets \o pending.all) :
    sent[p.ch][p.seq] \in ToSet(setup.queued)

\* needsAck is not cleared before the peer could read the ack: of what a channel
\* received and can still name, everything was announced or will be.
AcksAnnounced ==
  \A c \in Channels :
    ~channels[c].needsAck =>
      Named(channels[c].recvAck, channels[c].recvAckField) \subseteq announced[c]

\* ConnectionStats.PacketLoss of a connection with one reliable channel counts, of
\* the last LossWindowSize packets, exactly those not acked.
LossIsExact ==
  LET recorded == {s \in DOMAIN sent[0] : <<0, s>> \notin failed}
      last     == {s \in recorded :
                     Cardinality({r \in recorded : r > s}) < LossWindowSize}
      unacked  == {p.packet.seq : p \in channels[0].pendingSend}
  IN  /\ Len(setup.modes) = 1 /\ Reliable(channels[0]) /\ ~setup.batching
      /\ \A u \in Users : setup.immediate[u] = << >>
      /\ pc["tick"] = "incoming" /\ state = "Connected"
      => /\ loss.count = Cardinality(last)
         /\ loss.ackCount = Cardinality(last \ unacked)

\* The packets of the message reached the wire, or the write of one of them failed.
OnTheWire(m) ==
  \/ Cardinality({s \in SeqsOf(m) : <<Chan[m], s>> \in written}) = Parts[m]
  \/ \E s \in SeqsOf(m) : <<Chan[m], s>> \in failed

\* Every message passed to Send gets all its packets to the peer, whatever the
\* window, the losses and the batches, unless a write fails or the connection ends.
SendsReachTheWire ==
  []<>(state # "Connected" \/ \A i \in 1..sends : OnTheWire(Sent[i]))

=============================================================================
