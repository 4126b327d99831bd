-------------------------------- MODULE Wire --------------------------------
(***************************************************************************)
(* The encodings of fastwire's plaintext (wire.go, packet.go and the       *)
(* multi-ack of handshake.go) on sequences of bytes.  A byte is a number   *)
(* below ByteBase and a VarInt byte carries a number below Group: 256 and  *)
(* 128 in the code, scaled down together so that the values of a small     *)
(* model need one byte and more.  A reader returns [ok, ...]; ok = FALSE   *)
(* stands for its error.                                                   *)
(***************************************************************************)
EXTENDS Integers, Sequences, SequencesExt

CONSTANTS
  Group,       \* numbers a VarInt byte carries: 128 in the code
  FieldBits    \* bits of an ack field that are used: 32 in the code

ASSUME WireAssumption == Group \in Nat \ {0, 1} /\ FieldBits \in Nat \ {0}

ByteBase       == 2 * Group
MaxVarIntBytes == 5
WordBytes      == 4         \* an ack field on the wire
MinHeaderBytes == 8
ControlMultiAck == 9

Drop(buf, n) == SubSeq(buf, n + 1, Len(buf))

\* A number in w bytes, little endian, and back.
LittleEndian(v, w) == [i \in 1..w |-> (v \div ByteBase^(i - 1)) % ByteBase]

FromLittleEndian(buf) ==
  MapThenSumSet(LAMBDA i : buf[i] * ByteBase^(i - 1), DOMAIN buf)

\* recvAckField is a set of distances here (see ChannelOps); the word has bit
\* d - 1 set for the distance d.
FieldWord(field) == MapThenSumSet(LAMBDA d : 2^(d - 1), field)
WordField(word)  == {d \in 1..FieldBits : (word \div 2^(d - 1)) % 2 = 1}

-----------------------------------------------------------------------------
VarIntLen(v) == Min({n \in 1..MaxVarIntBytes : v < Group^n})

PutVarInt(v) ==
  [i \in 1..VarIntLen(v) |->
     ((v \div Group^(i - 1)) % Group) + (IF i < VarIntLen(v) THEN Group ELSE 0)]

ReadVarInt(buf) ==
  LET ends == {i \in 1..Min({MaxVarIntBytes, Len(buf)}) : buf[i] < Group}
      n    == IF ends = {} THEN 0 ELSE Min(ends)
  IN  [ ok |-> n > 0, n |-> n,
        val |-> MapThenSumSet(LAMBDA i : (buf[i] % Group) * Group^(i - 1), 1..n) ]

-----------------------------------------------------------------------------
(* The packet header: flags, channel, sequence, ack and ack field.         *)

MarshalHeader(h) ==
  <<h.flags, h.channel>> \o PutVarInt(h.seq) \o PutVarInt(h.ack)
    \o LittleEndian(FieldWord(h.field), WordBytes)

BadHeader == [ok |-> FALSE]

UnmarshalHeader(buf) ==
  IF Len(buf) < MinHeaderBytes THEN BadHeader ELSE
  LET seq  == ReadVarInt(Drop(buf, 2))
      ack  == ReadVarInt(Drop(buf, 2 + seq.n))
      word == Drop(buf, 2 + seq.n + ack.n)
  IN  IF ~seq.ok \/ ~ack.ok \/ Len(word) < WordBytes THEN BadHeader
      ELSE [ ok |-> TRUE, flags |-> buf[1], channel |-> buf[2],
             seq |-> seq.val, ack |-> ack.val,
             field |-> WordField(FromLittleEndian(SubSeq(word, 1, WordBytes))),
             n |-> 2 + seq.n + ack.n + WordBytes ]

-----------------------------------------------------------------------------
(* The multi-ack: the ack state of several channels in one control packet. *)

MaxAckEntryBytes == 1 + MaxVarIntBytes + WordBytes

AckEntry(e) ==
  <<e.channel>> \o PutVarInt(e.ack) \o LittleEndian(FieldWord(e.field), WordBytes)

\* What marshalMultiAck leaves in a buffer of `room` bytes.  Before each entry it
\* asks for the room of the longest one.
MarshalMultiAck(entries, room) ==
  LET before(i) == <<ControlMultiAck, Len(entries) % ByteBase>> \o
                     FlattenSeq([j \in 1..(i - 1) |-> AckEntry(entries[j])])
  IN  [ ok  |-> \A i \in DOMAIN entries : Len(before(i)) + MaxAckEntryBytes <= room,
        buf |-> before(Len(entries) + 1) ]

BadEntries == [ok |-> FALSE, entries |-> << >>]

RECURSIVE ReadAckEntries(_, _)
ReadAckEntries(data, count) ==
  IF count = 0 THEN [ok |-> TRUE, entries |-> << >>]
  ELSE IF data = << >> THEN BadEntries
  ELSE LET ack  == ReadVarInt(Tail(data))
           word == Drop(data, 1 + ack.n)
           rest == ReadAckEntries(Drop(word, WordBytes), count - 1)
       IN  IF ~ack.ok \/ Len(word) < WordBytes \/ ~rest.ok THEN BadEntries
           ELSE [ ok |-> TRUE,
                  entries |->
                    << [ channel |-> data[1], ack |-> ack.val,
                         field |-> WordField(FromLittleEndian(SubSeq(word, 1, WordBytes))) ] >>
                    \o rest.entries ]

\* data starts at the count byte.
UnmarshalMultiAck(data) ==
  IF data = << >> THEN BadEntries ELSE ReadAckEntries(Tail(data), data[1])

=============================================================================
