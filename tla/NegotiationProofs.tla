------------------------- MODULE NegotiationProofs --------------------------
(***************************************************************************)
(* Proofs about Negotiation, for any dictionaries, ciphers, versions and   *)
(* number of challenges.                                                   *)
(*                                                                         *)
(* The packets of the handshake are read back as they were written, so all *)
(* that either end keeps follows from the two configurations and from the  *)
(* number of the challenge it was made with.                               *)
(***************************************************************************)
EXTENDS Negotiation, TLAPS

-----------------------------------------------------------------------------
(* What is written is read back.                                            *)

\* The two ends are each other's peer.
LEMMA EndsFacts ==
  /\ Other("client") = "server" /\ Other("server") = "client"
  /\ End = {"client", "server"}
BY DEF Other, End

\* UnmarshalConnect is the inverse of MarshalConnect, with and without the hash of
\* a dictionary.
LEMMA ConnectRoundTrip ==
  ASSUME NEW v, NEW c, NEW a, NEW h, NEW f
  PROVE  LET cp == [version |-> v, cipher |-> c, algorithm |-> a, hash |-> h, features |-> f]
         IN  /\ Is(MarshalConnect(cp), "connect") /\ ~Is(MarshalConnect(cp), "challenge")
             /\ UnmarshalConnect(MarshalConnect(cp)) = cp
BY DEF MarshalConnect, Is, Value, UnmarshalConnect

\* UnmarshalChallenge is the inverse of MarshalChallenge, for a challenge that has
\* no token where it does not offer migration.
LEMMA ChallengeRoundTrip ==
  ASSUME NEW v, NEW k, NEW c, NEW a, NEW f, NEW t, Migration \notin f => t = 0
  PROVE  LET cp == [version |-> v, key |-> k, cipher |-> c, ack |-> a, features |-> f,
                    token |-> t]
         IN  /\ Is(MarshalChallenge(cp), "challenge") /\ ~Is(MarshalChallenge(cp), "connect")
             /\ UnmarshalChallenge(MarshalChallenge(cp)) = cp
BY DEF MarshalChallenge, Is, Value, UnmarshalChallenge

\* The other packets are neither.
LEMMA OtherPackets ==
  ASSUME NEW k, NEW data, data \in {MarshalResponse(k), << <<"type", "versionMismatch">> >>}
  PROVE  ~Is(data, "connect") /\ ~Is(data, "challenge")
BY DEF MarshalResponse, Is, Value

\* A packet is the last cell of its datagram, and the only one that a peer with
\* the same features is left with.
LEMMA FrameRead ==
  ASSUME NEW e \in End, NEW c, NEW d, d.features = c.features, NEW p, NEW data,
         data = Frame(e, c, p)
  PROVE  /\ data[Len(data)][2] = p
         /\ Len(Unpacked(d, Unprefixed(Other(e), d, data))) = 1
         /\ Unpacked(d, Unprefixed(Other(e), d, data))[1] = <<"packet", p>>
<1> DEFINE hasToken == e = "client" /\ Migration \in c.features
           body == Unprefixed(Other(e), d, data)
<1>1. data[Len(data)][2] = p
  BY DEF Frame
<1>2. CASE Batching \in c.features
  <2>1. Len(body) = 2 /\ body[1] = <<"count", 1>> /\ body[2] = <<"packet", p>>
    <3>1. CASE hasToken
      BY <1>2, <3>1, EndsFacts DEF Frame, Unprefixed
    <3>2. CASE ~hasToken
      BY <1>2, <3>2, EndsFacts DEF Frame, Unprefixed
    <3> QED BY <3>1, <3>2
  <2>2. Unpacked(d, body) = Tail(body)
    BY <1>2, <2>1 DEF Unpacked
  <2> DEFINE Cells == {<<"token", c.token>>, <<"count", 1>>, <<"packet", p>>}
  <2>3. body \in Seq(Cells)
    <3>1. CASE hasToken
      BY <1>2, <3>1, EndsFacts DEF Frame, Unprefixed
    <3>2. CASE ~hasToken
      <4>1. body = (<< >> \o << <<"count", 1>> >>) \o << <<"packet", p>> >>
        BY <1>2, <3>2, EndsFacts DEF Frame, Unprefixed
      <4>2. << >> \in Seq(Cells) /\ << <<"count", 1>> >> \in Seq(Cells)
            /\ << <<"packet", p>> >> \in Seq(Cells)
        OBVIOUS
      <4> HIDE DEF body, Cells
      <4> QED BY <4>1, <4>2
    <3> QED BY <3>1, <3>2
  <2> HIDE DEF body, Cells
  <2>4. Len(Tail(body)) = 1 /\ Tail(body)[1] = <<"packet", p>>
    BY <2>1, <2>3
  <2> QED BY <1>1, <2>2, <2>4 DEF body, Cells
<1>3. CASE Batching \notin c.features
  <2>1. Len(body) = 1 /\ body[1] = <<"packet", p>>
    <3>1. CASE hasToken
      BY <1>3, <3>1, EndsFacts DEF Frame, Unprefixed
    <3>2. CASE ~hasToken
      BY <1>3, <3>2, EndsFacts DEF Frame, Unprefixed
    <3> QED BY <3>1, <3>2
  <2>2. Unpacked(d, body) = body
    BY <1>3 DEF Unpacked
  <2> QED BY <1>1, <2>1, <2>2
<1> QED BY <1>2, <1>3

-----------------------------------------------------------------------------
(* What is sent and kept.                                                   *)

\* A step that leaves the configurations alone takes nothing from what may be sent
\* or kept.
LEMMA Grows ==
  ASSUME issued \in Nat, issued' \in {issued, issued + 1}, config' = config,
         version' = version
  PROVE  /\ issued' \in Nat /\ 1..issued \subseteq 1..issued'
         /\ Hello' = Hello /\ Sent \subseteq Sent'
         /\ ClientConns \subseteq ClientConns' /\ ServerConns \subseteq ServerConns'
<1>1. issued' \in Nat /\ 1..issued \subseteq 1..issued'
  OBVIOUS
<1>2. Hello' = Hello
  BY DEF Hello
<1>3. ASSUME NEW k
      PROVE  /\ ChallengeFor(Hello, k)' = ChallengeFor(Hello, k)
             /\ PendingFor(Hello, k)' = PendingFor(Hello, k)
             /\ ConnFor(ChallengeFor(Hello, k))' = ConnFor(ChallengeFor(Hello, k))
  BY <1>2 DEF ChallengeFor, PendingFor, ConnFor, Agreed
<1>4. Sent \subseteq Sent'
  BY <1>1, <1>2, <1>3 DEF Sent
<1>5. ClientConns \subseteq ClientConns' /\ ServerConns \subseteq ServerConns'
  BY <1>1, <1>3 DEF ClientConns, ServerConns
<1> QED BY <1>1, <1>2, <1>4, <1>5

\* A step that issues no challenge leaves all of it as it is.
LEMMA SameSets ==
  ASSUME UNCHANGED <<issued, config, version>>
  PROVE  Hello' = Hello /\ Sent' = Sent /\ ClientConns' = ClientConns /\ ServerConns' = ServerConns
<1>1. Hello' = Hello
  BY DEF Hello
<1>2. ASSUME NEW k
      PROVE  /\ ChallengeFor(Hello, k)' = ChallengeFor(Hello, k)
             /\ PendingFor(Hello, k)' = PendingFor(Hello, k)
             /\ ConnFor(ChallengeFor(Hello, k))' = ConnFor(ChallengeFor(Hello, k))
  BY <1>1 DEF ChallengeFor, PendingFor, ConnFor, Agreed
<1> QED BY <1>1, <1>2 DEF Sent, ClientConns, ServerConns

\* What the client asks for is what the server reads.
LEMMA ReadConnect ==
  ASSUME NEW data \in Sent, ConnectReadable(data)
  PROVE  UnmarshalConnect(data) = Hello
<1>1. Is(data, "connect")
  BY DEF ConnectReadable
<1>2. ASSUME NEW k \in 1..issued, data = MarshalChallenge(ChallengeFor(Hello, k))
      PROVE  FALSE
  BY <1>1, <1>2, ChallengeRoundTrip DEF ChallengeFor, TokenFor
<1>3. data = MarshalConnect(Hello)
  BY <1>1, <1>2, OtherPackets DEF Sent
<1> QED BY <1>3, ConnectRoundTrip DEF Hello

\* What the server answers is what the client reads.
LEMMA ReadChallenge ==
  ASSUME NEW data \in Sent, ChallengeReadable(data)
  PROVE  \E k \in 1..issued : UnmarshalChallenge(data) = ChallengeFor(Hello, k)
<1>1. Is(data, "challenge")
  BY DEF ChallengeReadable
<1>2. data # MarshalConnect(Hello)
  BY <1>1, ConnectRoundTrip DEF Hello
<1>3. PICK k \in 1..issued : data = MarshalChallenge(ChallengeFor(Hello, k))
  BY <1>1, <1>2, OtherPackets DEF Sent
<1>4. UnmarshalChallenge(data) = ChallengeFor(Hello, k)
  BY <1>3, ChallengeRoundTrip DEF ChallengeFor, TokenFor
<1> QED BY <1>4

\* The connections of the two ends follow from the configurations and the key.
LEMMA ConnFacts ==
  ASSUME TypeOK, NEW e \in End, conn[e] # NoConn
  PROVE  /\ conn[e].features =
              Common(config["server"].features, config["client"].features)
         /\ conn[e].cipher = config["client"].cipher
         /\ conn[e].key \in 1..issued
         /\ conn[e].token = TokenFor(conn[e].features, conn[e].key)
         /\ conn[e].compression = IF e = "client" THEN config["client"].compression
                                  ELSE Negotiated(config["server"].compression, Hello)
<1>1. CASE e = "client"
  <2>1. PICK k \in 1..issued : conn[e] = ConnFor(ChallengeFor(Hello, k))
    BY <1>1 DEF TypeOK, ClientConns
  <2> QED BY <1>1, <2>1 DEF ConnFor, ChallengeFor, Agreed, Hello
<1>2. CASE e = "server"
  <2>1. PICK k \in 1..issued : conn[e] = PendingFor(Hello, k)
    BY <1>2 DEF TypeOK, ServerConns
  <2> QED BY <1>2, <2>1 DEF PendingFor, Hello
<1> QED BY <1>1, <1>2, EndsFacts

\* With one compression configured at both ends, both use it.
LEMMA SameCompression ==
  ASSUME TypeOK, config["client"].compression = config["server"].compression,
         NEW e \in End, conn[e] # NoConn
  PROVE  conn[e].compression = config["client"].compression
<1> DEFINE mine == config["server"].compression
<1>1. mine \in Compression
  BY EndsFacts DEF TypeOK, Config
<1>2. Hello.algorithm = mine.algorithm /\ Hello.hash = mine.dict
  BY DEF Hello
<1>3. CompAck(mine, Hello) = "ok"
  BY <1>2 DEF CompAck
<1>4. mine.algorithm = "none" => mine = Uncompressed
  BY <1>1 DEF Compression, Uncompressed
<1>5. Negotiated(mine, Hello) = mine
  BY <1>2, <1>3, <1>4 DEF Negotiated
<1> QED BY <1>5, ConnFacts

-----------------------------------------------------------------------------
(* The steps.                                                               *)

\* A step that leaves alone the connections in use hurts no datagram.
LEMMA Settled ==
  ASSUME IInv, config' = config, last' = last, wire' \in {wire, NoDatagram},
         \A e \in End : Running(e) => Running(e)' /\ conn'[e] = conn[e]
  PROVE  WireOK' /\ GarbledOK' /\ SameConfigUnderstands'
<1>1. WireOK'
  <2>1. CASE wire' = NoDatagram
    BY <2>1 DEF WireOK
  <2>2. CASE wire' = wire /\ wire # NoDatagram
    <3>1. PICK e \in End, kind \in Kind :
            Running(e) /\ wire = [from |-> e, data |-> Frame(e, conn[e], Packet(conn[e], kind))]
      BY <2>2 DEF IInv, WireOK
    <3>2. Running(e)' /\ conn'[e] = conn[e]
      BY <3>1
    <3>3. wire' = [from |-> e, data |-> Frame(e, conn'[e], Packet(conn'[e], kind))]
      BY <2>2, <3>1, <3>2
    <3> QED BY <3>2, <3>3 DEF WireOK
  <2> QED BY <2>1, <2>2
<1>2. GarbledOK'
  BY DEF IInv, GarbledOK
<1>3. SameConfigUnderstands'
  BY DEF IInv, SameConfigUnderstands
<1> QED BY <1>1, <1>2, <1>3

\* The client opens the handshake; Connect returns, or fails on the version.
LEMMA ClientStep ==
  ASSUME IInv, Connect \/ ConnectReturns \/ HandleVersionMismatch
  PROVE  IInv'
<1>0. TypeOK /\ net \subseteq Sent
  BY DEF IInv
<1>1. /\ UNCHANGED <<config, version, conn, pending, tokens, issued, wire, last>>
      /\ phase \in {"idle", "waiting"} /\ phase' \in {"waiting", "connected", "failed"}
      /\ net' \subseteq net \union {MarshalConnect(Hello)}
  BY DEF Connect, ConnectReturns, HandleVersionMismatch
<1>2. /\ Hello' = Hello /\ Sent \subseteq Sent'
      /\ ClientConns \subseteq ClientConns' /\ ServerConns \subseteq ServerConns'
  BY <1>0, <1>1, Grows DEF TypeOK
<1>3. TypeOK'
  BY <1>0, <1>1, <1>2 DEF TypeOK
<1>4. net' \subseteq Sent'
  BY <1>0, <1>1, <1>2 DEF Sent
<1>5. WireOK' /\ GarbledOK' /\ SameConfigUnderstands'
  <2>1. \A e \in End : Running(e) => Running(e)' /\ conn'[e] = conn[e]
    BY <1>1 DEF Running
  <2> QED BY <1>1, <2>1, Settled
<1>6. TokensOK'
  BY <1>1 DEF IInv, TokensOK
<1> QED BY <1>3, <1>4, <1>5, <1>6 DEF IInv

\* The server refuses a version, or answers a CONNECT.
LEMMA AnswerStep ==
  ASSUME IInv, NEW data \in net, RefuseVersion(data) \/ ServerProcessConnect(data)
  PROVE  IInv'
<1>0. TypeOK /\ net \subseteq Sent /\ issued \in Nat
  BY DEF IInv, TypeOK
<1>1. UNCHANGED <<config, version, phase, conn, tokens, wire, last>>
  BY DEF RefuseVersion, ServerProcessConnect
<1>2. UnmarshalConnect(data) = Hello
  BY <1>0, ReadConnect DEF RefuseVersion, ServerProcessConnect
<1>3. issued' \in {issued, issued + 1}
  BY DEF RefuseVersion, ServerProcessConnect
<1>4. /\ issued' \in Nat /\ Hello' = Hello /\ Sent \subseteq Sent'
      /\ ClientConns \subseteq ClientConns' /\ ServerConns \subseteq ServerConns'
  BY <1>0, <1>1, <1>3, Grows
<1>5. pending' \in ServerConns' /\ net' \subseteq Sent'
  <2>1. CASE RefuseVersion(data)
    <3>1. pending' = pending /\ net' = net \union {<< <<"type", "versionMismatch">> >>}
      BY <2>1 DEF RefuseVersion
    <3> QED BY <1>0, <1>4, <3>1 DEF TypeOK, Sent
  <2>2. CASE ServerProcessConnect(data)
    <3>1. /\ issued' = issued + 1 /\ pending' = PendingFor(Hello, issued + 1)
          /\ net' = net \union {MarshalChallenge(ChallengeFor(Hello, issued + 1))}
      BY <1>2, <2>2 DEF ServerProcessConnect
    <3>2. issued + 1 \in 1..issued'
      BY <1>0, <3>1
    <3>3. /\ PendingFor(Hello, issued + 1) \in ServerConns'
          /\ MarshalChallenge(ChallengeFor(Hello, issued + 1)) \in Sent'
      <4>1. ASSUME NEW k
            PROVE  /\ ChallengeFor(Hello, k)' = ChallengeFor(Hello, k)
                   /\ PendingFor(Hello, k)' = PendingFor(Hello, k)
        BY <1>1, <1>4 DEF ChallengeFor, PendingFor
      <4>2. PICK n \in 1..issued' : n = issued + 1
        BY <3>2
      <4> QED BY <4>1, <4>2 DEF ServerConns, Sent
    <3> QED BY <1>0, <1>4, <3>1, <3>3
  <2> QED BY <2>1, <2>2
<1>6. TypeOK'
  BY <1>0, <1>1, <1>4, <1>5 DEF TypeOK
<1>7. WireOK' /\ GarbledOK' /\ SameConfigUnderstands'
  <2>1. \A e \in End : Running(e) => Running(e)' /\ conn'[e] = conn[e]
    BY <1>1 DEF Running
  <2> QED BY <1>1, <2>1, Settled
<1>8. TokensOK'
  BY <1>1 DEF IInv, TokensOK
<1> QED BY <1>5, <1>6, <1>7, <1>8 DEF IInv

\* The client takes a challenge: not once Connect has returned.
LEMMA HandleChallengeStep ==
  ASSUME IInv, NEW data \in net, HandleChallenge(data)
  PROVE  IInv'
<1>0. TypeOK /\ net \subseteq Sent
  BY DEF IInv
<1>1. PICK k \in 1..issued : UnmarshalChallenge(data) = ChallengeFor(Hello, k)
  BY <1>0, ReadChallenge DEF HandleChallenge
<1>2. /\ UNCHANGED <<config, version, phase, pending, tokens, issued, wire, last>>
      /\ phase = "waiting"
      /\ conn' = [conn EXCEPT !["client"] = ConnFor(ChallengeFor(Hello, k))]
      /\ net' = net \union {MarshalResponse(k)}
  BY <1>1 DEF HandleChallenge, ChallengeFor
<1>3. /\ Hello' = Hello /\ Sent \subseteq Sent'
      /\ ClientConns \subseteq ClientConns' /\ ServerConns \subseteq ServerConns'
  BY <1>0, <1>2, Grows DEF TypeOK
<1>4. ConnFor(ChallengeFor(Hello, k)) \in ClientConns /\ MarshalResponse(k) \in Sent
  BY DEF ClientConns, Sent
<1>5. TypeOK'
  <2>1. /\ conn' \in [End -> ClientConns \union ServerConns]
        /\ conn'["client"] \in ClientConns /\ conn'["server"] \in ServerConns
    BY <1>0, <1>2, <1>4, EndsFacts DEF TypeOK
  <2>2. /\ conn' \in [End -> ClientConns' \union ServerConns']
        /\ conn'["client"] \in ClientConns' /\ conn'["server"] \in ServerConns'
    BY <1>3, <2>1
  <2> QED BY <1>0, <1>2, <1>3, <2>2 DEF TypeOK
<1>6. net' \subseteq Sent'
  BY <1>0, <1>2, <1>3, <1>4
<1>7. conn'["server"] = conn["server"]
  BY <1>0, <1>2, EndsFacts DEF TypeOK
<1>8. WireOK' /\ GarbledOK' /\ SameConfigUnderstands'
  <2>1. \A e \in End : Running(e) => Running(e)' /\ conn'[e] = conn[e]
    BY <1>2, <1>7, EndsFacts DEF Running
  <2> QED BY <1>2, <2>1, Settled
<1>9. TokensOK'
  BY <1>2, <1>7 DEF IInv, TokensOK
<1> QED BY <1>5, <1>6, <1>8, <1>9 DEF IInv

\* The server takes the response, or forgets the pending handshake.
LEMMA PendingStep ==
  ASSUME IInv, ServerProcessResponse \/ PendingExpires
  PROVE  IInv'
<1>0. TypeOK /\ net \subseteq Sent
  BY DEF IInv
<1>1. /\ UNCHANGED <<config, version, phase, issued, net, wire, last>>
      /\ pending' = NoConn
  BY DEF ServerProcessResponse, PendingExpires
<1>2. /\ Hello' = Hello /\ Sent \subseteq Sent'
      /\ ClientConns \subseteq ClientConns' /\ ServerConns \subseteq ServerConns'
  BY <1>0, <1>1, Grows DEF TypeOK
<1>3. \/ UNCHANGED <<conn, tokens>>
      \/ /\ conn["server"] = NoConn /\ conn' = [conn EXCEPT !["server"] = pending]
         /\ tokens' = IF Migration \in pending.features THEN {pending.token} ELSE {}
  BY DEF ServerProcessResponse, PendingExpires
<1>4. /\ conn' \in [End -> ClientConns \union ServerConns]
      /\ conn'["client"] \in ClientConns /\ conn'["server"] \in ServerConns
      /\ conn'["client"] = conn["client"]
      /\ conn["server"] # NoConn => conn'["server"] = conn["server"]
  BY <1>0, <1>3, EndsFacts DEF TypeOK
<1>5. TypeOK'
  <2>1. /\ conn' \in [End -> ClientConns' \union ServerConns']
        /\ conn'["client"] \in ClientConns' /\ conn'["server"] \in ServerConns'
    BY <1>2, <1>4
  <2>2. NoConn \in ServerConns'
    BY DEF ServerConns
  <2> QED BY <1>0, <1>1, <2>1, <2>2 DEF TypeOK
<1>6. WireOK' /\ GarbledOK' /\ SameConfigUnderstands'
  <2>1. \A e \in End : Running(e) => Running(e)' /\ conn'[e] = conn[e]
    BY <1>1, <1>4, EndsFacts DEF Running
  <2> QED BY <1>1, <2>1, Settled
<1>7. TokensOK'
  <2>1. CASE UNCHANGED <<conn, tokens>>
    BY <2>1 DEF IInv, TokensOK
  <2>2. CASE conn' = [conn EXCEPT !["server"] = pending]
             /\ tokens' = IF Migration \in pending.features THEN {pending.token} ELSE {}
    <3>1. conn'["server"] = pending
      BY <1>0, <2>2, EndsFacts DEF TypeOK
    <3> QED BY <2>2, <3>1 DEF TokensOK
  <2> QED BY <1>3, <2>1, <2>2
<1> QED BY <1>0, <1>1, <1>2, <1>5, <1>6, <1>7 DEF IInv

\* A connection sends a datagram, and one is lost.
LEMMA SendStep ==
  ASSUME IInv, Lose \/ \E e \in End, kind \in Kind : Send(e, kind)
  PROVE  IInv'
<1>0. TypeOK /\ net \subseteq Sent
  BY DEF IInv
<1>1. UNCHANGED <<config, version, phase, conn, pending, tokens, issued, net, last>>
  BY DEF Lose, Send
<1>2. Hello' = Hello /\ Sent' = Sent /\ ClientConns' = ClientConns /\ ServerConns' = ServerConns
  BY <1>1, SameSets
<1>3. TypeOK' /\ net' \subseteq Sent' /\ TokensOK' /\ GarbledOK' /\ SameConfigUnderstands'
  BY <1>0, <1>1, <1>2
     DEF IInv, TypeOK, TokensOK, GarbledOK, SameConfigUnderstands, Running
<1>4. WireOK'
  <2>1. CASE Lose
    BY <2>1 DEF Lose, WireOK
  <2>2. ASSUME NEW e \in End, NEW kind \in Kind, Send(e, kind) PROVE WireOK'
    BY <1>1, <2>2 DEF Send, WireOK, Running
  <2> QED BY <2>1, <2>2
<1> QED BY <1>3, <1>4 DEF IInv

\* A datagram is received: a packet under the keys of the receiver is read, and a
\* payload from an end configured alike is decompressed unless it is too large.
LEMMA ReceiveStep ==
  ASSUME IInv, Receive
  PROVE  IInv'
<1>0. TypeOK /\ net \subseteq Sent
  BY DEF IInv
<1>1. UNCHANGED <<config, version, phase, conn, pending, tokens, issued, net>>
  BY DEF Receive
<1>2. Hello' = Hello /\ Sent' = Sent /\ ClientConns' = ClientConns /\ ServerConns' = ServerConns
  BY <1>1, SameSets
<1>3. TypeOK' /\ net' \subseteq Sent' /\ TokensOK'
  BY <1>0, <1>1, <1>2 DEF IInv, TypeOK, TokensOK
<1>4. WireOK'
  BY DEF Receive, WireOK
<1>5. PICK e \in End, kind \in Kind :
        Running(e) /\ wire = [from |-> e, data |-> Frame(e, conn[e], Packet(conn[e], kind))]
  BY DEF IInv, WireOK, Receive
<1> DEFINE to == Other(e)
           c  == conn[to]
           p  == Packet(conn[e], kind)
<1>6. to \in End /\ conn[e] # NoConn
  BY <1>5, EndsFacts DEF Running
<1>7. wire.data[Len(wire.data)][2] = p
  <2>1. wire.data = Frame(e, conn[e], p)
    BY <1>5
  <2> HIDE DEF p
  <2>2. PICK mine, data, q : mine = conn[e] /\ data = wire.data /\ q = p
    OBVIOUS
  <2>3. data[Len(data)][2] = q
    BY <2>1, <2>2, FrameRead
  <2> QED BY <2>2, <2>3
<1>8. last' = [to |-> to, packet |-> p,
               as |-> IF ~Running(to) THEN "dropped"
                      ELSE IF ~Reads(to, c, wire.data) THEN "garbled"
                      ELSE IF Decompresses(c.compression, p) THEN "delivered"
                      ELSE "refused"]
  BY <1>5, <1>7 DEF Receive
<1>9. ASSUME Running(to), p.key = c.key PROVE Reads(to, c, wire.data)
  <2>1. c # NoConn
    BY <1>9 DEF Running
  <2>2. c.features = conn[e].features /\ c.cipher = conn[e].cipher
    BY <1>0, <1>6, <2>1, ConnFacts
  <2>3. /\ Len(Unpacked(c, Unprefixed(to, c, wire.data))) = 1
        /\ Unpacked(c, Unprefixed(to, c, wire.data))[1] = <<"packet", p>>
    BY <1>5, <2>2, FrameRead
  <2>4. p.cipher = c.cipher
    BY <2>2 DEF Packet
  <2> QED BY <1>9, <2>3, <2>4 DEF Reads
<1>10. GarbledOK'
  <2>1. last'.to = to /\ last'.packet = p
    BY <1>8
  <2>2. last'.as = "garbled" => Running(to) /\ p.key # c.key
    BY <1>8, <1>9
  <2>3. Running(to) => conn'[to] # NoConn /\ (to = "client" => phase' = "connected")
    BY <1>1 DEF Running
  <2> HIDE DEF to, p
  <2> QED BY <1>1, <1>6, <2>1, <2>2, <2>3 DEF GarbledOK, Running
<1>11. SameConfigUnderstands'
  <2> SUFFICES ASSUME config["client"].compression = config["server"].compression,
                      last'.as = "refused", kind # "huge"
               PROVE  FALSE
    BY <1>1, <1>8 DEF SameConfigUnderstands, Packet
  <2>1. Running(to) /\ ~Decompresses(c.compression, p)
    BY <1>8
  <2>2. /\ c.compression = config["client"].compression
        /\ conn[e].compression = config["client"].compression
    BY <1>0, <1>6, <2>1, SameCompression DEF Running
  <2>3. p.kind = kind /\ p.with \in {c.compression, Uncompressed}
    BY <2>2 DEF Packet, CompressPayload
  <2>4. p.with.algorithm = "zstd" => p.with.dict \in {NoDict, DecoderDict(c.compression)}
    BY <2>3 DEF DecoderDict, Uncompressed
  <2> QED BY <2>1, <2>3, <2>4 DEF Decompresses
<1> QED BY <1>3, <1>4, <1>10, <1>11 DEF IInv

-----------------------------------------------------------------------------
(* The theorems.                                                            *)

\* Nothing is sent or kept at the start.
LEMMA InitIInv == Init => IInv
<1> SUFFICES ASSUME Init PROVE IInv OBVIOUS
<1>1. TypeOK
  BY DEF Init, TypeOK, ClientConns, ServerConns, End
<1>2. net \subseteq Sent /\ WireOK
  BY DEF Init, WireOK
<1>3. TokensOK
  BY DEF Init, TokensOK, End
<1>4. GarbledOK /\ SameConfigUnderstands
  BY DEF Init, Nothing, GarbledOK, SameConfigUnderstands
<1> QED BY <1>1, <1>2, <1>3, <1>4 DEF IInv

\* Every step keeps the invariant.
LEMMA NextIInv == IInv /\ [Next]_vars => IInv'
<1> SUFFICES ASSUME IInv, [Next]_vars PROVE IInv' OBVIOUS
<1>1. CASE UNCHANGED vars
  <2>1. Sent' = Sent /\ ClientConns' = ClientConns /\ ServerConns' = ServerConns
    BY <1>1, SameSets DEF vars
  <2>2. TypeOK' /\ net' \subseteq Sent' /\ TokensOK'
    BY <1>1, <2>1 DEF vars, IInv, TypeOK, TokensOK
  <2>3. WireOK' /\ GarbledOK' /\ SameConfigUnderstands'
    BY <1>1, Settled DEF vars, Running
  <2> QED BY <2>2, <2>3 DEF IInv
<1> QED BY <1>1, ClientStep, AnswerStep, HandleChallengeStep, PendingStep, SendStep, ReceiveStep
        DEF Next

\* In every reachable state what was sent and what is kept follows from the two
\* configurations and the number of the challenge.
THEOREM Invariance == Spec => []IInv
BY InitIInv, NextIInv, PTL DEF Spec

\* A packet under the receiver's keys is framed as the receiver expects it, for
\* every pair of configurations.
THEOREM FramingUnderstoodAlways == Spec => []FramingUnderstood
<1>1. IInv => FramingUnderstood
  BY DEF IInv, GarbledOK, FramingUnderstood
<1> QED BY <1>1, Invariance, PTL

\* Two ends configured alike understand each other's payloads, whatever the
\* algorithm and the dictionary, up to MaxDecompressedSize.
THEOREM SameConfigUnderstandsAlways == Spec => []SameConfigUnderstands
<1>1. IInv => SameConfigUnderstands
  BY DEF IInv
<1> QED BY <1>1, Invariance, PTL

\* However often CONNECTs and challenges are repeated, the two ends of a
\* connection have the same cipher and features; under the same keys the token
\* the client prefixes is the one in the token table.
THEOREM EndsAgreeAlways == Spec => []EndsAgree
<1>1. IInv => EndsAgree
  <2> SUFFICES ASSUME IInv, conn["client"] # NoConn, conn["server"] # NoConn
               PROVE  EndsAgree
    BY DEF EndsAgree
  <2>1. /\ conn["client"].features = conn["server"].features
        /\ conn["client"].cipher = conn["server"].cipher
        /\ conn["client"].token = TokenFor(conn["client"].features, conn["client"].key)
        /\ conn["server"].token = TokenFor(conn["server"].features, conn["server"].key)
    BY ConnFacts, EndsFacts DEF IInv
  <2> QED BY <2>1 DEF IInv, TokensOK, EndsAgree
<1> QED BY <1>1, Invariance, PTL
=============================================================================
