-------------------------- MODULE HandshakeProofs ---------------------------
(***************************************************************************)
(* The safety theorems of Handshake, for every set of clients, all caps of *)
(* the tables and every number of challenges, losses and duplicates.       *)
(***************************************************************************)
EXTENDS Handshake, FiniteSetTheorems, TLAPS

-----------------------------------------------------------------------------
(* The tables and the network.                                              *)

\* What a removal leaves of a table.
LEMMA WithoutFacts ==
  ASSUME NEW f, f \in [DOMAIN f -> Nat], NEW c
  PROVE  /\ DOMAIN Without(f, c) = DOMAIN f \ {c}
         /\ Without(f, c) \in [DOMAIN Without(f, c) -> Nat]
         /\ \A x \in DOMAIN f : x # c => Without(f, c)[x] = f[x]
BY DEF Without

\* The tables are finite, and so their sizes are natural numbers.
LEMMA TablesFinite ==
  ASSUME TypeOK
  PROVE  /\ IsFiniteSet(DOMAIN pending) /\ Cardinality(DOMAIN pending) \in Nat
         /\ IsFiniteSet(DOMAIN conns) /\ Cardinality(DOMAIN conns) \in Nat
<1>1. IsFiniteSet(DOMAIN pending) /\ IsFiniteSet(DOMAIN conns)
  BY HandshakeAssumption, FS_Subset DEF TypeOK
<1> QED BY <1>1, FS_CardinalityType

\* A datagram that is read, lost or repeated adds only what is sent in answer.
LEMMA ExchangeFacts ==
  ASSUME NEW m, NEW out, Exchange(m, out)
  PROVE  net' \subseteq net \union out /\ (out = {} => net' \subseteq net)
BY DEF Exchange

\* Datagrams without responses enter the network.
LEMMA NetStays ==
  ASSUME IInv, NEW out \in SUBSET Messages, net' \subseteq net \union out,
         \A m \in out : m.kind # "RESPONSE", UNCHANGED answered
  PROVE  net' \subseteq Messages /\ ResponsesAreAnswers'
<1>1. net \subseteq Messages /\ ResponsesAreAnswers
  BY DEF IInv, TypeOK
<1> QED BY <1>1 DEF ResponsesAreAnswers

\* Datagrams leave the network.
LEMMA NetShrinks ==
  ASSUME IInv, net' \subseteq net, UNCHANGED answered
  PROVE  net' \subseteq Messages /\ ResponsesAreAnswers'
<1>1. net \subseteq Messages /\ ResponsesAreAnswers
  BY DEF IInv, TypeOK
<1> QED BY <1>1 DEF ResponsesAreAnswers

\* A message is what it says.
LEMMA MsgFacts ==
  ASSUME NEW kind, NEW c, NEW v
  PROVE  /\ Msg(kind, c, v).kind = kind /\ Msg(kind, c, v).client = c
         /\ Msg(kind, c, v).value = v
BY DEF Msg

\* The messages that the handlers send have the type.
LEMMA MsgTypes ==
  ASSUME NEW c \in Clients
  PROVE  /\ \A v \in Versions : Msg("CONNECT", c, v) \in Messages
         /\ \A v \in Nat, k \in {"CHALLENGE", "RESPONSE", "REJECT", "VERSION_MISMATCH"} :
              Msg(k, c, v) \in Messages
BY DEF Msg, Messages

\* A message in the network is from or for a client.
LEMMA NetFacts ==
  ASSUME IInv, NEW m \in net
  PROVE  /\ m.client \in Clients
         /\ m.kind \in {"CHALLENGE", "RESPONSE", "REJECT", "VERSION_MISMATCH"} => m.value \in Nat
<1>1. m \in Messages
  BY DEF IInv, TypeOK
<1> QED BY <1>1 DEF Messages

-----------------------------------------------------------------------------
(* The client.                                                              *)

\* A step that leaves the server and the answers alone and keeps the client's
\* own part of the invariant.
LEMMA ClientStep ==
  ASSUME IInv, UNCHANGED <<tables, answered>>, ConnectsToAnswered',
         net' \subseteq Messages, ResponsesAreAnswers',
         phase' \in [Clients -> Phases], installing' \in [Clients -> Nat],
         server' \in [Clients -> ConnType], given' \in [Clients -> ConnType],
         objects' \in [Clients -> Nat],
         connected' \in [Clients -> BOOLEAN], done' \in [Clients -> BOOLEAN],
         connectErr' \in [Clients -> BOOLEAN], aborted' \in [Clients -> BOOLEAN]
  PROVE  IInv'
<1>1. UNCHANGED <<pending, conns, issued, verified>>
  BY DEF tables
<1>2. TypeOK'
  BY <1>1 DEF IInv, TypeOK
<1>3. OnlyRespondersConnect' /\ TokensApart' /\ TablesAreBounded'
  BY <1>1 DEF IInv, OnlyRespondersConnect, Waiting, TokensApart, TablesAreBounded
<1> QED BY <1>2, <1>3 DEF IInv

\* Connect sends a CONNECT and waits.
LEMMA ConnectStep ==
  ASSUME IInv, NEW c \in Clients, Connect(c)
  PROVE  IInv'
<1>1. PICK v \in Versions : net' = net \union {Msg("CONNECT", c, v)}
  BY DEF Connect
<1>2. /\ phase[c] = "idle" /\ phase' = [phase EXCEPT ![c] = "waiting"]
      /\ UNCHANGED <<installing, server, given, objects, connected, done,
                     connectErr, aborted, answered, tables>>
  BY DEF Connect
<1>3. net' \subseteq Messages /\ ResponsesAreAnswers'
  <2>1. {Msg("CONNECT", c, v)} \in SUBSET Messages
    BY MsgTypes
  <2>2. \A m \in {Msg("CONNECT", c, v)} : m.kind # "RESPONSE"
    BY MsgFacts
  <2> QED BY <1>1, <1>2, <2>1, <2>2, NetStays
<1>4. phase' \in [Clients -> Phases]
  BY <1>2 DEF IInv, TypeOK, Phases
<1>5. ConnectsToAnswered'
  BY <1>2 DEF IInv, TypeOK, ConnectsToAnswered
<1> QED BY <1>2, <1>3, <1>4, <1>5, ClientStep DEF IInv, TypeOK

\* Connect ends: the handshake is done, or the timer fired, or Connect returns, or
\* the connection timed out later.
LEMMA ConnectEndsStep ==
  ASSUME IInv, NEW c \in Clients,
         ConnectDone(c) \/ ConnectTimeout(c) \/ ConnectReturns(c) \/ ClientTimesOut(c)
  PROVE  IInv'
<1>1. UNCHANGED <<installing, objects, done, connectErr, answered, tables, net>>
  BY DEF ConnectDone, ConnectTimeout, ConnectReturns, ClientTimesOut
<1>2. net' \subseteq Messages /\ ResponsesAreAnswers'
  BY <1>1 DEF IInv, TypeOK, ResponsesAreAnswers
<1>3. phase[c] # "failed" /\ \E p \in Phases : phase' = [phase EXCEPT ![c] = p]
  BY DEF ConnectDone, ConnectTimeout, ConnectReturns, ClientTimesOut, Phases
<1>4. given' = given \/ given' = [given EXCEPT ![c] = server[c]]
  BY DEF ConnectDone, ConnectTimeout, ConnectReturns, ClientTimesOut
<1>5. server' = server \/ server' = [server EXCEPT ![c] = NoConn]
  BY DEF ConnectDone, ConnectTimeout, ConnectReturns, ClientTimesOut
<1>6. \/ connected' = connected
      \/ connected' = [connected EXCEPT ![c] = TRUE]
      \/ connected' = [connected EXCEPT ![c] = FALSE]
  BY DEF ConnectDone, ConnectTimeout, ConnectReturns, ClientTimesOut
<1>7. \/ aborted' = aborted
      \/ /\ aborted' = [aborted EXCEPT ![c] = TRUE]
         /\ phase' = [phase EXCEPT ![c] = "failed"]
  BY DEF ConnectDone, ConnectTimeout, ConnectReturns, ClientTimesOut
<1>8. /\ phase' \in [Clients -> Phases] /\ given' \in [Clients -> ConnType]
      /\ server' \in [Clients -> ConnType]
  <2>1. NoConn \in ConnType
    BY DEF NoConn, ConnType
  <2>2. phase' \in [Clients -> Phases]
    BY <1>3 DEF IInv, TypeOK
  <2>3. given' \in [Clients -> ConnType]
    BY <1>4 DEF IInv, TypeOK
  <2>4. server' \in [Clients -> ConnType]
    BY <1>5, <2>1 DEF IInv, TypeOK
  <2> QED BY <2>2, <2>3, <2>4
<1>9. connected' \in [Clients -> BOOLEAN] /\ aborted' \in [Clients -> BOOLEAN]
  BY <1>6, <1>7 DEF IInv, TypeOK
<1>10. ConnectsToAnswered'
  BY <1>1, <1>3, <1>5, <1>7 DEF IInv, TypeOK, ConnectsToAnswered
<1> QED BY <1>1, <1>2, <1>8, <1>9, <1>10, ClientStep DEF IInv, TypeOK

\* A refusal ends the wait of Connect.
LEMMA ReadRefusalStep ==
  ASSUME IInv, NEW c \in Clients, NEW m \in net, ReadRefusal(c, m)
  PROVE  IInv'
<1>1. /\ UNCHANGED <<phase, installing, server, given, objects, connected,
                     aborted, answered, tables>>
      /\ Exchange(m, {})
  BY DEF ReadRefusal
<1>2. net' \subseteq Messages /\ ResponsesAreAnswers'
  BY <1>1, ExchangeFacts, NetShrinks
<1>3. connectErr' \in [Clients -> BOOLEAN] /\ done' \in [Clients -> BOOLEAN]
  BY DEF ReadRefusal, IInv, TypeOK
<1>4. ConnectsToAnswered'
  BY <1>1 DEF IInv, ConnectsToAnswered
<1> QED BY <1>1, <1>2, <1>3, <1>4, ClientStep DEF IInv, TypeOK

\* The rest of handleChallenge: an aborted attempt installs nothing.
LEMMA InstallStep ==
  ASSUME IInv, NEW c \in Clients, Install(c)
  PROVE  IInv'
<1>1. /\ installing[c] # 0 /\ objects' = [objects EXCEPT ![c] = @ + 1]
      /\ installing' = [installing EXCEPT ![c] = 0]
      /\ UNCHANGED <<phase, given, connected, connectErr, aborted, answered, tables, net>>
  BY DEF Install
<1>2. net' \subseteq Messages /\ ResponsesAreAnswers'
  BY <1>1 DEF IInv, TypeOK, ResponsesAreAnswers
<1>3. objects' \in [Clients -> Nat] /\ installing' \in [Clients -> Nat]
  BY <1>1 DEF IInv, TypeOK
<1>4. \/ server' = server
      \/ server' = [server EXCEPT ![c] = [object |-> objects'[c], token |-> installing[c]]]
  BY DEF Install
<1>5. [object |-> objects'[c], token |-> installing[c]] \in ConnType
  BY <1>3 DEF IInv, TypeOK, ConnType
<1>6. server' \in [Clients -> ConnType]
  BY <1>4, <1>5 DEF IInv, TypeOK
<1>7. done' \in [Clients -> BOOLEAN]
  BY DEF Install, IInv, TypeOK
<1>8. installing[c] \in answered[c]
  BY <1>1 DEF IInv, ConnectsToAnswered
<1>9. ConnectsToAnswered'
  BY <1>1, <1>4, <1>8 DEF IInv, TypeOK, ConnectsToAnswered
<1> QED BY <1>1, <1>2, <1>3, <1>6, <1>7, <1>9, ClientStep DEF IInv, TypeOK

\* handleChallenge up to the RESPONSE: the client has answered the challenge before
\* anyone can see its response.
LEMMA ReadChallengeStep ==
  ASSUME IInv, NEW c \in Clients, NEW m \in net, ReadChallenge(c, m)
  PROVE  IInv'
<1>1. /\ m.client = c /\ m.kind = "CHALLENGE" /\ m.value \in Nat
      /\ UNCHANGED <<phase, server, given, objects, connected, done, connectErr,
                     aborted, pending, conns, issued, verified>>
  BY NetFacts DEF ReadChallenge, tables
<1>2. CASE connected[c]
  <2>1. Exchange(m, {}) /\ UNCHANGED <<installing, answered>>
    BY <1>2 DEF ReadChallenge
  <2>2. net' \subseteq Messages /\ ResponsesAreAnswers'
    BY <2>1, ExchangeFacts, NetShrinks
  <2>3. ConnectsToAnswered'
    BY <1>1, <2>1 DEF IInv, ConnectsToAnswered
  <2> QED BY <1>1, <2>1, <2>2, <2>3, ClientStep DEF IInv, TypeOK, tables
<1>3. CASE ~connected[c]
  <2>1. /\ Exchange(m, {Msg("RESPONSE", c, m.value)})
        /\ installing' = [installing EXCEPT ![c] = m.value]
        /\ answered' = [answered EXCEPT ![c] = @ \union {m.value}]
    BY <1>3 DEF ReadChallenge
  <2>2. /\ answered' \in [Clients -> SUBSET Nat] /\ m.value \in answered'[c]
        /\ \A d \in Clients : answered[d] \subseteq answered'[d]
    BY <1>1, <2>1 DEF IInv, TypeOK
  <2>3. net' \subseteq net \union {Msg("RESPONSE", c, m.value)}
    BY <2>1, ExchangeFacts
  <2>4. net' \subseteq Messages
    BY <1>1, <2>3, MsgTypes DEF IInv, TypeOK
  <2>5. ResponsesAreAnswers'
    BY <2>2, <2>3, MsgFacts, NetFacts DEF IInv, ResponsesAreAnswers
  <2>6. installing' \in [Clients -> Nat]
    BY <1>1, <2>1 DEF IInv, TypeOK
  <2>7. TypeOK'
    BY <1>1, <2>2, <2>4, <2>6 DEF IInv, TypeOK
  <2>8. OnlyRespondersConnect'
    BY <1>1, <2>2 DEF IInv, TypeOK, OnlyRespondersConnect, Waiting
  <2>9. TokensApart' /\ TablesAreBounded'
    BY <1>1 DEF IInv, TokensApart, TablesAreBounded
  <2>10. ConnectsToAnswered'
    BY <1>1, <2>1, <2>2 DEF IInv, TypeOK, ConnectsToAnswered
  <2> QED BY <2>5, <2>7, <2>8, <2>9, <2>10 DEF IInv
<1> QED BY <1>2, <1>3

-----------------------------------------------------------------------------
(* The server.                                                              *)

\* A step of the server or of the network that leaves the tables alone.
LEMMA TablesStay ==
  ASSUME IInv, UNCHANGED <<client, tables>>, net' \subseteq Messages, ResponsesAreAnswers'
  PROVE  IInv'
<1>1. UNCHANGED <<phase, installing, server, given, objects,
                  connected, done, connectErr, aborted, answered>>
  BY DEF client
<1>2. ConnectsToAnswered'
  BY <1>1 DEF IInv, ConnectsToAnswered
<1> QED BY <1>1, <1>2, ClientStep DEF IInv, TypeOK

\* A datagram is dropped.
LEMMA DropStep ==
  ASSUME IInv, NEW m \in net, ServerDrops(m) \/ Lose(m)
  PROVE  IInv'
<1>1. UNCHANGED <<client, tables>>
  BY DEF ServerDrops, Lose
<1>2. UNCHANGED answered
  BY <1>1 DEF client
<1>3. net' \subseteq net
  <2>1. CASE ServerDrops(m)
    BY <2>1, ExchangeFacts DEF ServerDrops
  <2>2. CASE Lose(m)
    BY <2>2 DEF Lose
  <2> QED BY <2>1, <2>2
<1>4. net' \subseteq Messages /\ ResponsesAreAnswers'
  BY <1>2, <1>3, NetShrinks
<1> QED BY <1>1, <1>4, TablesStay

\* A CONNECT is refused.
LEMMA RefuseConnectStep ==
  ASSUME IInv, NEW m \in net, RefuseConnect(m)
  PROVE  IInv'
<1>1. PICK k \in {"REJECT", "VERSION_MISMATCH"} : Exchange(m, {Msg(k, m.client, 0)})
  BY DEF RefuseConnect
<1>2. UNCHANGED <<client, tables, answered>>
  BY DEF RefuseConnect, client
<1>3. {Msg(k, m.client, 0)} \in SUBSET Messages
  BY NetFacts, MsgTypes
<1>4. \A a \in {Msg(k, m.client, 0)} : a.kind # "RESPONSE"
  BY MsgFacts
<1>5. net' \subseteq Messages /\ ResponsesAreAnswers'
  BY <1>1, <1>2, <1>3, <1>4, ExchangeFacts, NetStays
<1> QED BY <1>2, <1>5, TablesStay

\* A step of the server that changes its tables and may send challenges.
LEMMA TablesStep ==
  ASSUME IInv, UNCHANGED client, net' \subseteq Messages, ResponsesAreAnswers',
         DOMAIN pending' \subseteq Clients, pending' \in [DOMAIN pending' -> Nat],
         DOMAIN conns' \subseteq Clients, conns' \in [DOMAIN conns' -> Nat],
         issued' \in Nat, verified' \subseteq Nat,
         OnlyRespondersConnect', TokensApart', TablesAreBounded'
  PROVE  IInv'
<1>1. UNCHANGED <<phase, installing, server, given, objects,
                  connected, done, connectErr, aborted, answered>>
  BY DEF client
<1>2. TypeOK'
  BY <1>1 DEF IInv, TypeOK
<1>3. ConnectsToAnswered'
  BY <1>1 DEF IInv, ConnectsToAnswered
<1> QED BY <1>2, <1>3 DEF IInv

\* serverProcessResponse: the handshake leaves the pending table and its connection,
\* under the token the client answered, enters the other one.
LEMMA ProcessResponseStep ==
  ASSUME IInv, NEW m \in net, ProcessResponse(m)
  PROVE  IInv'
<1> DEFINE c == m.client
<1>1. /\ c \notin DOMAIN conns /\ c \in DOMAIN pending
      /\ m = Msg("RESPONSE", c, pending[c])
      /\ conns' = With(conns, c, m.value) /\ pending' = Without(pending, c)
      /\ verified' = verified \union {m.value} /\ Exchange(m, {})
      /\ UNCHANGED <<client, issued, answered>>
  BY DEF ProcessResponse, Known, Waiting, client
<1>2. m.kind = "RESPONSE" /\ m.value = pending[c]
  BY <1>1, MsgFacts
<1>3. m.value \in answered[c] /\ c \in Clients /\ m.value \in Nat
  BY <1>2, NetFacts DEF IInv, ResponsesAreAnswers
<1>4. /\ conns \in [DOMAIN conns -> Nat] /\ pending \in [DOMAIN pending -> Nat]
      /\ DOMAIN conns \subseteq Clients /\ DOMAIN pending \subseteq Clients
      /\ verified \subseteq Nat /\ issued \in Nat
  BY DEF IInv, TypeOK
<1>5. /\ DOMAIN conns' = DOMAIN conns \union {c} /\ conns' \in [DOMAIN conns' -> Nat]
      /\ conns'[c] = pending[c] /\ \A x \in DOMAIN conns : conns'[x] = conns[x]
  <2>1. /\ DOMAIN With(conns, c, m.value) = DOMAIN conns \union {c}
        /\ With(conns, c, m.value) \in [DOMAIN With(conns, c, m.value) -> Nat]
        /\ With(conns, c, m.value)[c] = m.value
        /\ \A x \in DOMAIN conns : x # c => With(conns, c, m.value)[x] = conns[x]
    BY <1>3, <1>4 DEF With
  <2> QED BY <1>1, <1>2, <2>1
<1>6. /\ DOMAIN pending' = DOMAIN pending \ {c} /\ pending' \in [DOMAIN pending' -> Nat]
      /\ \A x \in DOMAIN pending' : pending'[x] = pending[x]
  <2>1. /\ DOMAIN Without(pending, c) = DOMAIN pending \ {c}
        /\ Without(pending, c) \in [DOMAIN Without(pending, c) -> Nat]
        /\ \A x \in DOMAIN pending : x # c => Without(pending, c)[x] = pending[x]
    BY <1>4, WithoutFacts
  <2> QED BY <1>1, <2>1
<1>7. net' \subseteq Messages /\ ResponsesAreAnswers'
  BY <1>1, ExchangeFacts, NetShrinks
<1>8. OnlyRespondersConnect'
  BY <1>1, <1>2, <1>3, <1>5, <1>6 DEF IInv, OnlyRespondersConnect, Waiting
<1>9. TokensApart'
  BY <1>1, <1>5, <1>6 DEF IInv, TokensApart
<1>10. TablesAreBounded'
  <2>1. /\ Cardinality(DOMAIN conns') = Cardinality(DOMAIN conns) + 1
        /\ Cardinality(DOMAIN pending') = Cardinality(DOMAIN pending) - 1
    <3>1. IsFiniteSet(DOMAIN conns) /\ IsFiniteSet(DOMAIN pending)
      BY TablesFinite DEF IInv
    <3>2. Cardinality(DOMAIN conns \union {c}) = Cardinality(DOMAIN conns) + 1
      BY <1>1, <3>1, FS_AddElement
    <3>3. Cardinality(DOMAIN pending \ {c}) = Cardinality(DOMAIN pending) - 1
      BY <1>1, <3>1, FS_RemoveElement
    <3> QED BY <1>5, <1>6, <3>2, <3>3
  <2>2. Cardinality(DOMAIN conns) \in Nat /\ Cardinality(DOMAIN pending) \in Nat
    BY TablesFinite DEF IInv
  <2> QED BY <2>1, <2>2, HandshakeAssumption DEF IInv, TablesAreBounded
<1> QED BY <1>1, <1>3, <1>4, <1>5, <1>6, <1>7, <1>8, <1>9, <1>10, TablesStep

\* handleHandshake: the new handshake has a token that was never issued before.
LEMMA AcceptConnectStep ==
  ASSUME IInv, NEW m \in net, AcceptConnect(m)
  PROVE  IInv'
<1> DEFINE c == m.client
<1>1. /\ c \notin DOMAIN conns /\ c \notin DOMAIN pending
      /\ ~Full /\ issued' = issued + 1
      /\ UNCHANGED <<client, conns, verified, answered>>
  BY DEF AcceptConnect, Fresh, Known, Waiting, client
<1>2. /\ conns \in [DOMAIN conns -> Nat] /\ pending \in [DOMAIN pending -> Nat]
      /\ DOMAIN conns \subseteq Clients /\ DOMAIN pending \subseteq Clients
      /\ verified \subseteq Nat /\ issued \in Nat /\ c \in Clients
  BY NetFacts DEF IInv, TypeOK
<1>3. issued' \in Nat
  BY <1>1, <1>2
<1>4. CASE PendingFull
  <2>1. Exchange(m, {}) /\ UNCHANGED pending
    BY <1>4 DEF AcceptConnect
  <2>2. net' \subseteq Messages /\ ResponsesAreAnswers'
    BY <1>1, <2>1, ExchangeFacts, NetShrinks
  <2>3. OnlyRespondersConnect' /\ TablesAreBounded'
    BY <1>1, <2>1 DEF IInv, OnlyRespondersConnect, Waiting, TablesAreBounded
  <2>4. TokensApart'
    BY <1>1, <1>2, <2>1 DEF IInv, TokensApart
  <2> QED BY <1>1, <1>2, <1>3, <2>1, <2>2, <2>3, <2>4, TablesStep
<1>5. CASE ~PendingFull
  <2>1. /\ pending' = With(pending, c, issued')
        /\ Exchange(m, {Msg("CHALLENGE", c, issued')})
    BY <1>5 DEF AcceptConnect
  <2>2. PICK t \in Nat : t = issued'
    BY <1>3
  <2>3. {Msg("CHALLENGE", c, t)} \in SUBSET Messages
    BY <1>2, MsgTypes
  <2>4. \A a \in {Msg("CHALLENGE", c, t)} : a.kind # "RESPONSE"
    BY MsgFacts
  <2>5. net' \subseteq Messages /\ ResponsesAreAnswers'
    BY <1>1, <2>1, <2>2, <2>3, <2>4, ExchangeFacts, NetStays
  <2>6. /\ DOMAIN pending' = DOMAIN pending \union {c}
        /\ pending' \in [DOMAIN pending' -> Nat]
        /\ pending'[c] = t /\ \A x \in DOMAIN pending : pending'[x] = pending[x]
    <3>1. /\ DOMAIN With(pending, c, t) = DOMAIN pending \union {c}
          /\ With(pending, c, t) \in [DOMAIN With(pending, c, t) -> Nat]
          /\ With(pending, c, t)[c] = t
          /\ \A x \in DOMAIN pending : x # c => With(pending, c, t)[x] = pending[x]
      BY <1>2 DEF With
    <3> QED BY <1>1, <2>1, <2>2, <3>1
  <2>7. OnlyRespondersConnect'
    BY <1>1, <2>6 DEF IInv, OnlyRespondersConnect, Waiting
  <2>8. TokensApart'
    BY <1>1, <1>2, <2>2, <2>6 DEF IInv, TokensApart
  <2>9. TablesAreBounded'
    <3>1. Cardinality(DOMAIN pending') = Cardinality(DOMAIN pending) + 1
      BY <1>1, <2>6, TablesFinite, FS_AddElement DEF IInv
    <3>2. Cardinality(DOMAIN conns) \in Nat /\ Cardinality(DOMAIN pending) \in Nat
      BY TablesFinite DEF IInv
    <3>3. /\ Cardinality(DOMAIN conns) < MaxConnections
          /\ MaxPending > 0 => Cardinality(DOMAIN pending) < MaxPending
      BY <1>1, <1>5, <3>2, HandshakeAssumption DEF Full, PendingFull
    <3> QED BY <1>1, <3>1, <3>2, <3>3, HandshakeAssumption DEF TablesAreBounded
  <2> QED BY <1>1, <1>2, <1>3, <2>5, <2>6, <2>7, <2>8, <2>9, TablesStep
<1> QED BY <1>4, <1>5

\* tick removes pending handshakes, and removeConnection a connection.
LEMMA RemovalStep ==
  ASSUME IInv,
         \/ \E expired \in SUBSET DOMAIN pending : CleanupPending(expired)
         \/ \E c \in Clients : RemoveConnection(c)
  PROVE  IInv'
<1>1. UNCHANGED <<client, answered, issued, verified, net>>
  BY DEF CleanupPending, RemoveConnection, client
<1>2. /\ conns \in [DOMAIN conns -> Nat] /\ pending \in [DOMAIN pending -> Nat]
      /\ DOMAIN conns \subseteq Clients /\ DOMAIN pending \subseteq Clients
      /\ verified \subseteq Nat /\ issued \in Nat
  BY DEF IInv, TypeOK
<1> DEFINE Shrinks(f, g) == /\ DOMAIN g \subseteq DOMAIN f /\ g \in [DOMAIN g -> Nat]
                            /\ \A x \in DOMAIN g : g[x] = f[x]
<1>3. Shrinks(pending, pending') /\ Shrinks(conns, conns')
  <2>1. ASSUME NEW expired \in SUBSET DOMAIN pending, CleanupPending(expired)
        PROVE  Shrinks(pending, pending') /\ Shrinks(conns, conns')
    BY <1>2, <2>1 DEF CleanupPending
  <2>2. ASSUME NEW c \in Clients, RemoveConnection(c)
        PROVE  Shrinks(pending, pending') /\ Shrinks(conns, conns')
    BY <1>2, <2>2 DEF RemoveConnection, Without
  <2> QED BY <2>1, <2>2
<1>4. net' \subseteq Messages /\ ResponsesAreAnswers'
  BY <1>1, NetShrinks
<1>5. OnlyRespondersConnect'
  BY <1>1, <1>3 DEF IInv, OnlyRespondersConnect, Waiting
<1>6. TokensApart'
  BY <1>1, <1>3 DEF IInv, TokensApart
<1>7. TablesAreBounded'
  <2>1. /\ IsFiniteSet(DOMAIN conns) /\ IsFiniteSet(DOMAIN pending)
        /\ Cardinality(DOMAIN conns) \in Nat /\ Cardinality(DOMAIN pending) \in Nat
    BY TablesFinite DEF IInv
  <2>2. /\ IsFiniteSet(DOMAIN conns') /\ Cardinality(DOMAIN conns') <= Cardinality(DOMAIN conns)
        /\ IsFiniteSet(DOMAIN pending')
        /\ Cardinality(DOMAIN pending') <= Cardinality(DOMAIN pending)
    BY <1>3, <2>1, FS_Subset
  <2>3. Cardinality(DOMAIN conns') \in Nat /\ Cardinality(DOMAIN pending') \in Nat
    BY <2>2, FS_CardinalityType
  <2> QED BY <2>1, <2>2, <2>3, HandshakeAssumption DEF IInv, TablesAreBounded
<1> QED BY <1>1, <1>2, <1>3, <1>4, <1>5, <1>6, <1>7, TablesStep

-----------------------------------------------------------------------------
(* The theorems.                                                            *)

\* Before any Connect the invariant holds.
LEMMA InitIInv == Init => IInv
<1> SUFFICES ASSUME Init PROVE IInv OBVIOUS
<1>1. /\ DOMAIN pending = {} /\ DOMAIN conns = {}
      /\ pending = [x \in {} |-> x] /\ conns = [x \in {} |-> x]
  BY DEF Init
<1>2. TypeOK
  BY <1>1 DEF Init, TypeOK, Phases, ConnType, NoConn
<1>3. OnlyRespondersConnect /\ TokensApart /\ ResponsesAreAnswers /\ ConnectsToAnswered
  BY <1>1 DEF Init, OnlyRespondersConnect, TokensApart, ResponsesAreAnswers,
              ConnectsToAnswered
<1>4. TablesAreBounded
  BY <1>1, FS_EmptySet, HandshakeAssumption DEF TablesAreBounded
<1> QED BY <1>2, <1>3, <1>4 DEF IInv

\* Every step of the clients, the server and the network preserves the invariant.
LEMMA NextIInv == IInv /\ [Next]_vars => IInv'
<1> SUFFICES ASSUME IInv, [Next]_vars PROVE IInv'
  OBVIOUS
<1>1. ASSUME NEW c \in Clients, Connect(c) PROVE IInv'
  BY <1>1, ConnectStep
<1>2. ASSUME NEW c \in Clients,
             ConnectDone(c) \/ ConnectTimeout(c) \/ ConnectReturns(c) \/ ClientTimesOut(c)
      PROVE  IInv'
  BY <1>2, ConnectEndsStep
<1>3. ASSUME NEW c \in Clients, NEW m \in net, ClientReads(c, m) PROVE IInv'
  BY <1>3, ReadChallengeStep, ReadRefusalStep DEF ClientReads
<1>4. ASSUME NEW c \in Clients, Install(c) PROVE IInv'
  BY <1>4, InstallStep
<1>5. ASSUME NEW m \in net, ServerReads(m) PROVE IInv'
  BY <1>5, DropStep, ProcessResponseStep, RefuseConnectStep, AcceptConnectStep DEF ServerReads
<1>6. ASSUME NEW m \in net, Lose(m) PROVE IInv'
  BY <1>6, DropStep
<1>7. ASSUME \/ \E expired \in SUBSET DOMAIN pending : CleanupPending(expired)
             \/ \E c \in Clients : RemoveConnection(c)
      PROVE  IInv'
  BY <1>7, RemovalStep
<1>8. CASE UNCHANGED vars
  <2>1. UNCHANGED <<client, tables, answered, net>>
    BY <1>8 DEF vars, client
  <2>2. net' \subseteq Messages /\ ResponsesAreAnswers'
    BY <2>1, NetShrinks
  <2> QED BY <2>1, <2>2, TablesStay
<1> QED BY <1>1, <1>2, <1>3, <1>4, <1>5, <1>6, <1>7, <1>8 DEF Next

\* The inductive invariant holds in every reachable state.
THEOREM Invariance == Spec => []IInv
<1>1. QED BY InitIInv, NextIInv, PTL DEF Spec

\* Only a client that answered the challenge is connected under it, and its address
\* is not pending any more.
THEOREM OnlyRespondersConnectAlways == Spec => []OnlyRespondersConnect
<1>1. IInv => OnlyRespondersConnect
  BY DEF IInv
<1>2. QED BY <1>1, Invariance, PTL

\* No two handshakes and no two connections of the server share their keys.
THEOREM TokensApartAlways == Spec => []TokensApart
<1>1. IInv => TokensApart
  BY DEF IInv
<1>2. QED BY <1>1, Invariance, PTL

\* The connections overrun MaxConnections by less than the cap of the pending table.
THEOREM OverrunIsBoundedAlways == Spec => []OverrunIsBounded
<1>1. IInv => OverrunIsBounded
  <2>1. TypeOK => Cardinality(DOMAIN conns) \in Nat /\ Cardinality(DOMAIN pending) \in Nat
    BY TablesFinite
  <2> QED BY <2>1, HandshakeAssumption DEF IInv, TablesAreBounded, OverrunIsBounded
<1>2. QED BY <1>1, Invariance, PTL

\* A challenge that is read after Connect timed out installs no connection.
THEOREM NoLateInstallAlways == Spec => NoLateInstall
<1> DEFINE Keeps == \A c \in Clients : phase[c] = "failed" /\ aborted[c] => server'[c] = server[c]
<1>1. IInv /\ [Next]_vars => [Keeps]_vars
  <2> SUFFICES ASSUME IInv, Next, NEW c \in Clients, phase[c] = "failed", aborted[c]
               PROVE  server'[c] = server[c]
    OBVIOUS
  <2>1. server \in [Clients -> ConnType]
    BY DEF IInv, TypeOK
  <2>2. ASSUME NEW d \in Clients, Install(d) PROVE server'[c] = server[c]
    BY <2>1, <2>2 DEF Install
  <2>3. ASSUME NEW d \in Clients, ClientTimesOut(d) PROVE server'[c] = server[c]
    BY <2>1, <2>3 DEF ClientTimesOut
  <2>4. ASSUME NEW d \in Clients,
               \/ Connect(d) \/ ConnectDone(d) \/ ConnectTimeout(d) \/ ConnectReturns(d)
               \/ \E m \in net : ClientReads(d, m)
               \/ RemoveConnection(d)
        PROVE  server'[c] = server[c]
    BY <2>4 DEF Connect, ConnectDone, ConnectTimeout, ConnectReturns, ClientReads,
                ReadChallenge, ReadRefusal, RemoveConnection, client
  <2>5. ASSUME \/ \E m \in net : ServerReads(m) \/ Lose(m)
               \/ \E expired \in SUBSET DOMAIN pending : CleanupPending(expired)
        PROVE  server'[c] = server[c]
    BY <2>5 DEF ServerReads, ServerDrops, ProcessResponse, RefuseConnect, AcceptConnect,
                Lose, CleanupPending, client
  <2> QED BY <2>2, <2>3, <2>4, <2>5 DEF Next
<1>2. QED BY <1>1, Invariance, PTL DEF Spec, NoLateInstall

=============================================================================
