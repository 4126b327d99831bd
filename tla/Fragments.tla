----------------------------- MODULE Fragments ------------------------------
(***************************************************************************)
(* Messages of several packets on one channel: sendMessage and             *)
(* sendFragmented at one end, the receive pipeline (processPacket of the   *)
(* client, handleDecrypted of the server) at the other.                    *)
(*                                                                         *)
(* The sending threads are the tick goroutine, which drains the send queue *)
(* in order, and user goroutines in SendImmediate; a thread writes the     *)
(* packets of its message one by one.  The receiver is the tick goroutine. *)
(* A packet that was written may arrive at any time, any number of times:  *)
(* module Channel has the acks and the retransmissions that make it so.    *)
(* The time is counted in units that only the fragment timeout sees.       *)
(*                                                                         *)
(* A message m is sent as one plain packet when Parts[m] = 0 and as        *)
(* Parts[m] fragments otherwise.  A payload is <<m, i>>, its i-th part.    *)
(***************************************************************************)
EXTENDS ChannelOps, Reassembly

CONSTANTS
  Threads,        \* the sending threads
  Plans,          \* what a connection may be set up for: see PlanOK
  Parts,          \* Parts[m]: the number of fragments of message m
  Compressed,     \* the messages that are sent compressed
  Undecodable,    \* compressed messages that expand past MaxDecompressedSize
  MaxFragments,   \* 255 in the code
  Lifetime,       \* a packet arrives within this time, or never
  ReuseAfter      \* environment: an ID is not reused sooner than this

Messages == DOMAIN Parts

\* The mode of the channel, the messages each thread sends on it, the caps of the
\* reassembly store, the number of fragment IDs (2^16 in the code), and a bound on
\* the time.
PlanOK(p) ==
  /\ p.mode \in Modes
  /\ p.queue \in [Threads -> Seq(Messages)]
  /\ p.maxBuffers \in Nat /\ p.maxBytes \in Nat
  /\ p.idSpace \in Nat \ {0} /\ p.maxTime \in Nat

ASSUME FragmentsAssumption ==
  /\ \A p \in Plans : PlanOK(p)
  /\ \A m \in Messages : Parts[m] \in Nat
  /\ Undecodable \subseteq Compressed /\ Compressed \subseteq Messages
  /\ \A m \in Compressed : Parts[m] > 0
  /\ MaxFragments \in Nat /\ Lifetime \in Nat /\ ReuseAfter \in Nat

VARIABLES
  plan,        \* the set-up, which no step changes
  now,
  queue,       \* queue[t]: the messages t has still to send
  sending,     \* sending[t]: the fragmented message t is in the middle of
  sendSeq,     \* the channel's sequence counter at the sender
  fragmentID,  \* the connection's fragment ID counter
  usedAt,      \* usedAt[id]: when the ID was last taken or written
  net,         \* the packets written so far
  rejected,    \* messages refused with ErrMessageTooLarge
  ch,          \* the channel record of the receiver
  reassembly,  \* its reassembly store
  taken,       \* history: sequences for which recordReceive returned true
  output       \* history: the OnMessage calls

senderVars   == <<queue, sending, sendSeq, fragmentID, usedAt, net, rejected>>
receiverVars == <<ch, reassembly, taken, output>>
vars         == <<plan, now, senderVars, receiverVars>>

Idle == [msg |-> 0, id |-> 0, next |-> 0]

Init ==
  /\ plan \in Plans
  /\ now = 0
  /\ sending = [t \in Threads |-> Idle]
  /\ sendSeq = 0
  /\ fragmentID = 0
  /\ usedAt = [id \in 0..(plan.idSpace - 1) |-> 0 - ReuseAfter]
  /\ net = {}
  /\ rejected = {}
  /\ queue = plan.queue
  /\ ch = NewChannel(plan.mode)
  /\ reassembly = NewReassemblyStore(plan.maxBuffers, plan.maxBytes)
  /\ taken = {}
  /\ output = << >>

-----------------------------------------------------------------------------
(* Sending.                                                                *)

Starts(t) == sending[t] = Idle /\ queue[t] # << >>

\* sendSinglePacket.
SendSingle(t) ==
  /\ Starts(t)
  /\ Parts[Head(queue[t])] = 0
  /\ sendSeq' = sendSeq + 1
  /\ net' = net \union {[seq |-> sendSeq', fragment |-> FALSE, sentAt |-> now,
                         payload |-> <<Head(queue[t]), 0>>]}
  /\ queue' = [queue EXCEPT ![t] = Tail(@)]
  /\ UNCHANGED <<now, sending, fragmentID, usedAt, rejected, receiverVars>>

NextFragmentID == (fragmentID + 1) % plan.idSpace

\* Environment: the counter does not come round to an ID within ReuseAfter, nor
\* to that of a message that is still being sent.
ReusesLate(id) ==
  /\ now - usedAt[id] >= ReuseAfter
  /\ \A t \in Threads : sending[t] = Idle \/ sending[t].id # id

\* sendFragmented up to its loop: the ID is taken before splitMessage refuses.
StartFragmented(t) ==
  LET m == Head(queue[t]) IN
  /\ Starts(t)
  /\ Parts[m] > 0
  /\ ReusesLate(NextFragmentID)
  /\ fragmentID' = NextFragmentID
  /\ usedAt' = [usedAt EXCEPT ![NextFragmentID] = now]
  /\ IF Parts[m] > MaxFragments
     THEN rejected' = rejected \union {m} /\ UNCHANGED sending
     ELSE /\ sending' = [sending EXCEPT ![t] =
                           [msg |-> m, id |-> NextFragmentID, next |-> 0]]
          /\ UNCHANGED rejected
  /\ queue' = [queue EXCEPT ![t] = Tail(@)]
  /\ UNCHANGED <<now, sendSeq, net, receiverVars>>

\* One turn of its loop.
SendFragment(t) ==
  LET s == sending[t] IN
  /\ s # Idle
  /\ sendSeq' = sendSeq + 1
  /\ net' = net \union
       {[ seq     |-> sendSeq', fragment |-> TRUE, sentAt |-> now,
          id      |-> s.id,
          index   |-> s.next,
          count   |-> Parts[s.msg],
          flags   |-> s.msg \in Compressed,
          payload |-> <<s.msg, s.next>> ]}
  /\ sending' = [sending EXCEPT ![t] =
                   IF s.next + 1 < Parts[s.msg] THEN [s EXCEPT !.next = @ + 1]
                                                ELSE Idle]
  /\ usedAt' = [usedAt EXCEPT ![s.id] = now]
  /\ UNCHANGED <<now, queue, fragmentID, rejected, receiverVars>>

-----------------------------------------------------------------------------
(* Receiving.                                                              *)

\* OnMessage is called for the payloads that are not nil.
OnMessages(msgs) == SelectSeq(msgs, LAMBDA p : p # Nil)

DecompressFails(f, assembled) ==
  f.flags /\ \E i \in DOMAIN assembled : assembled[i][1] \in Undecodable

\* The pipeline after recordReceive took the packet, for channel c.
HandlePlain(c, p) ==
  LET r == Deliver(c, p.seq, <<p.payload>>) IN
  /\ ch' = r.channel
  /\ output' = output \o OnMessages(r.msgs)
  /\ UNCHANGED reassembly

\* Mutant: a fragment that completes nothing leaves its slot open.
MutHandleFragment(c, p) ==
  LET a == AddFragment(reassembly, p, now) IN
  /\ reassembly' = a.store
  /\ IF ~a.complete
     THEN ch' = c /\ UNCHANGED output
     ELSE LET r == Deliver(c, p.seq, a.assembled) IN
          ch' = r.channel /\ output' = output \o OnMessages(r.msgs)

\* What deliver returns for a fragment that completes no message is dropped;
\* after an error deliver is not called at all.
HandleFragment(c, p) ==
  LET a == AddFragment(reassembly, p, now) IN
  /\ reassembly' = a.store
  /\ IF a.err \/ (a.complete /\ DecompressFails(p, a.assembled))
     THEN ch' = c /\ UNCHANGED output
     ELSE IF ~a.complete
     THEN ch' = Deliver(c, p.seq, Nil).channel /\ UNCHANGED output
     ELSE LET r == Deliver(c, p.seq, a.assembled) IN
          ch' = r.channel /\ output' = output \o OnMessages(r.msgs)

Receive(p) ==
  /\ p \in net
  /\ now - p.sentAt < Lifetime
  /\ Accepts(ch, p.seq)
  /\ taken' = taken \union {p.seq}
  /\ LET c == RecordReceive(ch, p.seq) IN
       IF p.fragment THEN HandleFragment(c, p) ELSE HandlePlain(c, p)
  /\ UNCHANGED <<now, senderVars>>

\* The end of tickConnection.
CleanupStore ==
  /\ reassembly' = Cleanup(reassembly, now)
  /\ UNCHANGED <<now, senderVars, ch, taken, output>>

AdvanceTime ==
  /\ now < plan.maxTime
  /\ now' = now + 1
  /\ UNCHANGED <<senderVars, receiverVars>>

Next ==
  /\ UNCHANGED plan
  /\ \/ \E t \in Threads : SendSingle(t) \/ StartFragmented(t) \/ SendFragment(t)
     \/ \E p \in net : Receive(p)
     \/ CleanupStore
     \/ AdvanceTime

Spec == Init /\ [][Next]_vars

-----------------------------------------------------------------------------
(* Properties.                                                             *)

\* The message as the application of the sender passed it to Send.
Whole(m) ==
  IF Parts[m] = 0 THEN <<<<m, 0>>>> ELSE [i \in 1..Parts[m] |-> <<m, i - 1>>]

Delivered == {output[i] : i \in DOMAIN output}

SeqsOf(m) == {p.seq : p \in {q \in net : q.payload[1] = m}}

\* Messages all of whose packets are written.
Sent == {m \in Messages : SeqsOf(m) # {} /\ \A t \in Threads : sending[t].msg # m}

\* The store stays within its caps, and the bytes it accounts for are exactly
\* those of the fragments it holds, through completions, evictions and cleanup.
StoreAccounts ==
  /\ reassembly.totalBytes =
       MapThenSumSet(LAMBDA id : BufferBytes(reassembly.buffers[id]),
                     DOMAIN reassembly.buffers)
  /\ plan.maxBuffers > 0 =>
       Cardinality(DOMAIN reassembly.buffers) <= plan.maxBuffers
  /\ plan.maxBytes > 0 => reassembly.totalBytes <= plan.maxBytes

\* A message that reaches the application is one that was sent: all the parts
\* of it, in order, and no part of another message that had the same fragment
\* ID before.  (An empty payload may be the placeholder of a
\* fragment, which deliverReliableOrdered buffers as an empty slice.)
WholeMessages ==
  \A x \in Delivered \ {Empty} : \E m \in Messages : x = Whole(m)

\* No message reaches the application twice, as a whole or in parts.
MessagesAtMostOnce ==
  \A i, j \in DOMAIN output :
    i # j /\ output[i] # Empty => output[i] # output[j]

\* On an ordered or sequenced channel a message whose packets all come before
\* those of another is delivered first, if both are, wherever the fragments
\* were reordered.
MessagesInOrder ==
  ch.mode \in {"ReliableOrdered", "UnreliableSequenced"} =>
    \A k, m \in Sent : \A i, j \in DOMAIN output :
      /\ output[i] = Whole(k) /\ output[j] = Whole(m)
      /\ \A a \in SeqsOf(k) : \A b \in SeqsOf(m) : a < b
      => i < j

\* A reliable channel hands a message to the application as soon as the
\* receiver took all of it, and on an ordered channel all that came before,
\* unless it cannot be decompressed.
TakenIsDelivered ==
  ch.mode \in ReliableModes =>
    \A m \in Sent \ Undecodable :
      LET needed == IF ch.mode = "ReliableOrdered" THEN 1 .. Max(SeqsOf(m))
                                                ELSE SeqsOf(m)
      IN  needed \subseteq taken => Whole(m) \in Delivered

\* A packet that an ordered channel took, and acks, fills its slot: it was
\* delivered, or is buffered until the slots before it are filled.  (This
\* needs every message to decompress.)
TakenFillsItsSlot ==
  ch.mode = "ReliableOrdered" =>
    \A s \in taken : s < ch.recvNextDeliver \/ s \in DOMAIN ch.recvBuffer

-----------------------------------------------------------------------------
(* What the code does not satisfy; no configuration checks it.              *)

\* Every OnMessage call carries something that was sent: the placeholder that
\* keeps the slot of a fragment never reaches the application.
OnlyRealMessages ==
  \A x \in Delivered : \E m \in Messages : x = Whole(m)
=============================================================================
