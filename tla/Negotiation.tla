---------------------------- MODULE Negotiation -----------------------------
(***************************************************************************)
(* What the handshake negotiates, and the framing and the compression that *)
(* the two ends of a connection then use.                                  *)
(*                                                                         *)
(* The fields of a handshake packet are cells <<name, value>> of a         *)
(* sequence, read back by position.  A challenge number stands for the     *)
(* challenge token, for the keys both ends derive from it and for the      *)
(* migration token made with it.  The network may lose, repeat and reorder *)
(* handshake packets: one that was sent stays in `net`.                    *)
(*                                                                         *)
(* A payload is one of four kinds: too small to be compressed, one that    *)
(* does not shrink, one that does, and one that shrinks but is larger than *)
(* MaxDecompressedSize.  A dictionary stands for its bytes and its hash.   *)
(***************************************************************************)
EXTENDS Naturals, Sequences

CONSTANTS
  Dictionaries,
  NoDict,            \* no dictionary is configured
  Ciphers,
  Versions,          \* the protocol versions of the clients
  ProtocolVersion,   \* the server's
  MaxChallenges      \* bound: challenges the server issues

ASSUME NegotiationAssumption ==
  /\ NoDict \notin Dictionaries /\ ProtocolVersion \in Versions
  /\ MaxChallenges \in Nat

VARIABLES
  config,      \* config[e]: what the application configured
  version,     \* the protocol version of the client
  phase,       \* of Connect: "idle", "waiting", "connected" or "failed"
  conn,        \* conn[e]: the connection of e, or NoConn
  pending,     \* the server's pending handshake, or NoConn
  tokens,      \* the migration tokens in the server's token table
  issued,      \* how many challenges the server issued
  net,         \* handshake packets that were sent
  wire,        \* the datagram under way, and who sent it
  last         \* history: the last datagram received and what became of it

vars == <<config, version, phase, conn, pending, tokens, issued, net, wire, last>>

End   == {"client", "server"}
Other(e) == CHOOSE f \in End : f # e
Kind  == {"small", "dense", "text", "huge"}

Batching  == "batching"    \* FeatureSendBatching
Migration == "migration"   \* FeatureConnectionMigration

Uncompressed == [algorithm |-> "none", dict |-> NoDict]
Compression ==
  {Uncompressed, [algorithm |-> "lz4", dict |-> NoDict]}
    \union [algorithm : {"zstd"}, dict : Dictionaries \union {NoDict}]

\* featuresFromConfig: the bits of the features byte are a set.
Config == [compression : Compression, features : SUBSET {Batching, Migration}, cipher : Ciphers]

NoConn == [key |-> 0, cipher |-> "none", features |-> {}, token |-> 0,
           compression |-> Uncompressed]

NoDatagram == [from |-> "none", data |-> << >>]
Nothing    == [to |-> "none", as |-> "none", packet |-> << >>]

Init ==
  /\ config \in [End -> Config] /\ version \in Versions
  /\ phase = "idle" /\ issued = 0 /\ net = {} /\ tokens = {}
  /\ conn = [e \in End |-> NoConn] /\ pending = NoConn
  /\ wire = NoDatagram /\ last = Nothing

-----------------------------------------------------------------------------
(* The packets.                                                             *)

Value(data, n) == data[n][2]
Is(data, type) == Len(data) > 0 /\ Value(data, 1) = type

MarshalConnect(cp) ==
  << <<"type", "connect">>, <<"version", cp.version>>,
     <<"cipher", cp.cipher>>, <<"compression", cp.algorithm>> >>
  \o (IF cp.hash # NoDict THEN << <<"present", 1>>, <<"hash", cp.hash>> >>
      ELSE << <<"present", 0>> >>)
  \o << <<"features", cp.features>> >>

\* connectMinSize, and connectWithDictSize once the flag says so.
ConnectReadable(data) ==
  Is(data, "connect") /\ Len(data) >= 6 /\ (Value(data, 5) = 1 => Len(data) >= 7)

UnmarshalConnect(data) ==
  LET present == Value(data, 5) = 1
  IN  [version   |-> Value(data, 2),
       cipher    |-> Value(data, 3),
       algorithm |-> Value(data, 4),
       hash      |-> IF present THEN Value(data, 6) ELSE NoDict,
       features  |-> Value(data, IF present THEN 7 ELSE 6)]

MarshalChallenge(cp) ==
  << <<"type", "challenge">>, <<"version", cp.version>>, <<"key", cp.key>>,
     <<"cipher", cp.cipher>>, <<"ack", cp.ack>>, <<"features", cp.features>> >>
  \o (IF Migration \in cp.features THEN << <<"token", cp.token>> >> ELSE << >>)

\* challengeMinSize, and challengeWithMigration once the features say so.
ChallengeReadable(data) ==
  Is(data, "challenge") /\ Len(data) >= 6 /\ (Migration \in Value(data, 6) => Len(data) >= 7)

UnmarshalChallenge(data) ==
  [version  |-> Value(data, 2), key |-> Value(data, 3), cipher |-> Value(data, 4),
   ack      |-> Value(data, 5), features |-> Value(data, 6),
   token    |-> IF Migration \in Value(data, 6) THEN Value(data, 7) ELSE 0]

\* The RESPONSE, encrypted under the keys of the challenge it repeats.
MarshalResponse(key) == << <<"type", "response">>, <<"challenge", key>> >>

-----------------------------------------------------------------------------
(* The handshake.                                                           *)

\* The CONNECT of Client.Connect: the hash goes with it if there is a dictionary.
Hello ==
  LET mine == config["client"]
  IN  [version |-> version, cipher |-> mine.cipher, features |-> mine.features,
       algorithm |-> mine.compression.algorithm, hash |-> mine.compression.dict]

\* Client.Connect.
Connect ==
  /\ phase = "idle"
  /\ phase' = "waiting"
  /\ net' = net \union {MarshalConnect(Hello)}
  /\ UNCHANGED <<config, version, conn, pending, tokens, issued, wire, last>>

CompAck(mine, cp) ==
  IF \/ cp.algorithm \notin {"none", mine.algorithm}
     \/ cp.algorithm = "zstd" /\ cp.hash # NoDict /\ cp.hash # mine.dict
  THEN "mismatch" ELSE "ok"

Negotiated(mine, cp) ==
  IF cp.algorithm # "none" /\ CompAck(mine, cp) = "ok" THEN mine ELSE Uncompressed

Common(mine, theirs) == theirs \intersect mine

\* A CONNECT from an address without a connection and without a pending handshake.
Unknown == conn["server"] = NoConn /\ pending = NoConn

\* serverProcessConnect for another version of the protocol.
RefuseVersion(data) ==
  /\ data \in net /\ ConnectReadable(data) /\ Unknown
  /\ UnmarshalConnect(data).version # ProtocolVersion
  /\ net' = net \union {<< <<"type", "versionMismatch">> >>}
  /\ UNCHANGED <<config, version, phase, conn, pending, tokens, issued, wire, last>>

\* The migration token, made with the challenge of that number.
TokenFor(features, key) == IF Migration \in features THEN key ELSE 0

\* The challenge that answers a CONNECT.
ChallengeFor(cp, key) ==
  LET mine     == config["server"]
      features == Common(mine.features, cp.features)
  IN  [version |-> ProtocolVersion, key |-> key, cipher |-> cp.cipher,
       ack |-> CompAck(mine.compression, cp), features |-> features,
       token |-> TokenFor(features, key)]

\* The pending handshake keeps what was negotiated.
PendingFor(cp, key) ==
  LET mine     == config["server"]
      features == Common(mine.features, cp.features)
  IN  [key |-> key, cipher |-> cp.cipher, features |-> features,
       token |-> TokenFor(features, key),
       compression |-> Negotiated(mine.compression, cp)]

\* serverProcessConnect.
ServerProcessConnect(data) ==
  LET cp == UnmarshalConnect(data)
  IN  /\ data \in net /\ ConnectReadable(data) /\ Unknown
      /\ cp.version = ProtocolVersion
      /\ issued < MaxChallenges
      /\ issued' = issued + 1
      /\ pending' = PendingFor(cp, issued + 1)
      /\ net' = net \union {MarshalChallenge(ChallengeFor(cp, issued + 1))}
      /\ UNCHANGED <<config, version, phase, conn, tokens, wire, last>>

\* Mutant: the client keeps to the features it asked for.
MutAgreed(cp) == config["client"].features

Agreed(cp) == cp.features

\* The connection the client makes of a challenge: it takes the features and the
\* token from it, does not look at the ack, and keeps its own compression.
ConnFor(cp) ==
  [key |-> cp.key, cipher |-> cp.cipher, features |-> Agreed(cp), token |-> cp.token,
   compression |-> config["client"].compression]

\* handleChallenge, until Connect takes the connection over.  A server of another
\* version sent no challenge.
HandleChallenge(data) ==
  LET cp == UnmarshalChallenge(data)
  IN  /\ data \in net /\ ChallengeReadable(data) /\ phase = "waiting"
      /\ cp.version = version
      /\ conn' = [conn EXCEPT !["client"] = ConnFor(cp)]
      /\ net' = net \union {MarshalResponse(cp.key)}
      /\ UNCHANGED <<config, version, phase, pending, tokens, issued, wire, last>>

ConnectReturns ==
  /\ phase = "waiting" /\ conn["client"] # NoConn
  /\ phase' = "connected"
  /\ UNCHANGED <<config, version, conn, pending, tokens, issued, net, wire, last>>

HandleVersionMismatch ==
  /\ phase = "waiting" /\ << <<"type", "versionMismatch">> >> \in net
  /\ phase' = "failed"
  /\ UNCHANGED <<config, version, conn, pending, tokens, issued, net, wire, last>>

\* processIncoming: serverProcessResponse decrypts under the keys of the pending
\* handshake only, and the new connection enters the tables.
ServerProcessResponse ==
  /\ conn["server"] = NoConn /\ pending # NoConn
  /\ MarshalResponse(pending.key) \in net
  /\ conn' = [conn EXCEPT !["server"] = pending]
  /\ tokens' = IF Migration \in pending.features THEN {pending.token} ELSE {}
  /\ pending' = NoConn
  /\ UNCHANGED <<config, version, phase, issued, net, wire, last>>

\* The pending handshake expires.
PendingExpires ==
  /\ pending # NoConn
  /\ pending' = NoConn
  /\ UNCHANGED <<config, version, phase, conn, tokens, issued, net, wire, last>>

-----------------------------------------------------------------------------
(* The connection.                                                          *)

\* compressPayload: a small payload, and one that would not shrink, go as they
\* are.
CompressPayload(cfg, kind) ==
  IF kind \in {"text", "huge"} THEN cfg ELSE Uncompressed

\* The send function of the client writes the token first, and a connection with
\* batching writes batches.
Frame(e, c, packet) ==
  (IF e = "client" /\ Migration \in c.features THEN << <<"token", c.token>> >> ELSE << >>)
  \o (IF Batching \in c.features THEN << <<"count", 1>> >> ELSE << >>)
  \o << <<"packet", packet>> >>

Running(e) == conn[e] # NoConn /\ (e = "client" => phase = "connected")

\* A packet of connection c, sealed with its keys.
Packet(c, kind) ==
  [key |-> c.key, cipher |-> c.cipher, kind |-> kind,
   with |-> CompressPayload(c.compression, kind)]

\* One datagram is under way at a time; a huge payload that is not compressed is
\* refused as too large.
Send(e, kind) ==
  LET c == conn[e]
  IN  /\ Running(e) /\ wire = NoDatagram
      /\ kind = "huge" => c.compression.algorithm # "none"
      /\ wire' = [from |-> e, data |-> Frame(e, c, Packet(c, kind))]
      /\ UNCHANGED <<config, version, phase, conn, pending, tokens, issued, net, last>>

Lose ==
  /\ wire # NoDatagram
  /\ wire' = NoDatagram
  /\ UNCHANGED <<config, version, phase, conn, pending, tokens, issued, net, last>>

\* processConnData: the server strips the token, and an end with batching unpacks.
Unprefixed(e, c, data) ==
  IF e = "server" /\ Migration \in c.features THEN Tail(data) ELSE data

Unpacked(c, data) ==
  IF Batching \notin c.features THEN data
  ELSE IF Len(data) > 0 /\ data[1] = <<"count", 1>> THEN Tail(data) ELSE << >>

\* The packet that decrypts under the keys of the connection.
Reads(e, c, data) ==
  LET d == Unpacked(c, Unprefixed(e, c, data))
  IN  /\ Len(d) = 1 /\ d[1][1] = "packet"
      /\ d[1][2].key = c.key /\ d[1][2].cipher = c.cipher

\* Mutant: the decoder of the connection is made without its dictionary.
MutDecoderDict(cfg) == NoDict

\* The dictionary of the decoder for zstd frames: that of the connection's own
\* compressor, if it is one for zstd.
DecoderDict(cfg) == IF cfg.algorithm = "zstd" THEN cfg.dict ELSE NoDict

\* decompressPayload: the flags of the payload choose the algorithm.
Decompresses(cfg, p) ==
  /\ p.kind = "huge" => p.with.algorithm = "none"
  /\ p.with.algorithm = "zstd" => p.with.dict \in {NoDict, DecoderDict(cfg)}

\* A datagram for an end without a connection is dropped as no handshake packet.
Receive ==
  LET to == Other(wire.from)
      c  == conn[to]
      p  == wire.data[Len(wire.data)][2]
  IN  /\ wire # NoDatagram
      /\ wire' = NoDatagram
      /\ last' = [to |-> to, packet |-> p,
                  as |-> IF ~Running(to) THEN "dropped"
                         ELSE IF ~Reads(to, c, wire.data) THEN "garbled"
                         ELSE IF Decompresses(c.compression, p) THEN "delivered"
                         ELSE "refused"]
      /\ UNCHANGED <<config, version, phase, conn, pending, tokens, issued, net>>

Next ==
  \/ Connect \/ ConnectReturns \/ HandleVersionMismatch
  \/ ServerProcessResponse \/ PendingExpires
  \/ \E data \in net :
       RefuseVersion(data) \/ ServerProcessConnect(data) \/ HandleChallenge(data)
  \/ \E e \in End, kind \in Kind : Send(e, kind)
  \/ Lose \/ Receive

Spec == Init /\ [][Next]_vars

-----------------------------------------------------------------------------
(* Properties.                                                              *)

\* Whatever features the two ends ask for, a packet under the keys of the
\* receiver's connection is framed as the receiver expects it, token and batch
\* included.
FramingUnderstood ==
  last.as = "garbled" => last.packet.key # conn[last.to].key

\* Two ends that are configured alike understand all that they send each
\* other, except for payloads beyond MaxDecompressedSize.
SameConfigUnderstands ==
  /\ config["client"].compression = config["server"].compression
  /\ last.as = "refused"
  => last.packet.kind = "huge"

-----------------------------------------------------------------------------
(* The inductive invariant: all that is sent follows from the two           *)
(* configurations and the number of the challenge.                          *)

\* Every variable keeps to its type; what the client's connection may be, and
\* what the server's, follows from the one CONNECT the client sends.
ClientConns == {NoConn} \union {ConnFor(ChallengeFor(Hello, k)) : k \in 1..issued}
ServerConns == {NoConn} \union {PendingFor(Hello, k) : k \in 1..issued}

TypeOK ==
  /\ config \in [End -> Config] /\ version \in Versions
  /\ phase \in {"idle", "waiting", "connected", "failed"}
  /\ issued \in Nat
  /\ conn \in [End -> ClientConns \union ServerConns]
  /\ conn["client"] \in ClientConns /\ conn["server"] \in ServerConns
  /\ pending \in ServerConns

\* The handshake packets that can have been sent.
Sent ==
  {MarshalConnect(Hello), << <<"type", "versionMismatch">> >>}
    \union {MarshalChallenge(ChallengeFor(Hello, k)) : k \in 1..issued}
    \union {MarshalResponse(k) : k \in 1..issued}

\* The datagram under way was framed for the connection its sender still has.
WireOK ==
  wire = NoDatagram \/
    \E e \in End, kind \in Kind :
      Running(e) /\ wire = [from |-> e, data |-> Frame(e, conn[e], Packet(conn[e], kind))]

\* A datagram that was not understood met a connection that is still there.
GarbledOK ==
  last.as = "garbled" =>
    last.to \in End /\ Running(last.to) /\ last.packet.key # conn[last.to].key

\* The token of the server's connection is in the token table.
TokensOK ==
  conn["server"] # NoConn /\ Migration \in conn["server"].features =>
    tokens = {conn["server"].token}

IInv ==
  /\ TypeOK /\ net \subseteq Sent /\ TokensOK
  /\ WireOK /\ GarbledOK /\ SameConfigUnderstands

\* The two ends of a connection agree on the cipher and the features; under the
\* same keys, on the migration token, which is in the token table of the server.
EndsAgree ==
  conn["client"] # NoConn /\ conn["server"] # NoConn =>
    /\ conn["client"].cipher = conn["server"].cipher
    /\ conn["client"].features = conn["server"].features
    /\ conn["client"].key = conn["server"].key /\ Migration \in conn["client"].features
         => tokens = {conn["client"].token}

-----------------------------------------------------------------------------
(* What the code does not satisfy; no configuration checks it.              *)

\* When the hashes of the dictionaries differ, no payload is compressed with
\* one.
MismatchDropsDictionary ==
  /\ config["client"].compression.dict # config["server"].compression.dict
  /\ last # Nothing
  => last.packet.with.dict = NoDict
=============================================================================
