----------------------------- MODULE Handshake ------------------------------
(***************************************************************************)
(* The three-way handshake: Client.Connect with its read loop, and the     *)
(* server's tables of pending handshakes and connections.                  *)
(*                                                                         *)
(* Every client calls Connect once, from a socket of its own; so a client  *)
(* is its address.  Connect and readLoop are two goroutines, whose         *)
(* critical sections are separate steps.  The server handles one datagram  *)
(* at a time, on its tick goroutine.                                       *)
(*                                                                         *)
(* A challenge token stands for the keys both ends derive from it: a       *)
(* RESPONSE decrypts only under the handshake it answers.  Time is left    *)
(* out: the timers may fire whenever they are armed.  A datagram that the  *)
(* per-IP limiter turns away is one the network lost.                      *)
(***************************************************************************)
EXTENDS Integers, FiniteSets

CONSTANTS
  Clients,
  Versions,          \* the protocol versions of the clients
  ProtocolVersion,   \* the server's
  MaxConnections,    \* ServerConfig.MaxConnections
  MaxPending,        \* cap of the pending table; 0 means unbounded
  MaxTokens,         \* bound: challenges the server issues
  MaxLosses,         \* bound: datagrams the network drops
  MaxDuplicates      \* bound: datagrams the network delivers once more

ASSUME HandshakeAssumption ==
  /\ IsFiniteSet(Clients) /\ ProtocolVersion \in Versions
  /\ MaxConnections \in Nat /\ MaxPending \in Nat /\ MaxTokens \in Nat
  /\ MaxLosses \in Nat /\ MaxDuplicates \in Nat

VARIABLES
  phase,        \* phase[c]: where Connect is, or what became of it
  installing,   \* installing[c]: the token readLoop makes a connection for, or 0
  server,       \* server[c]: c.server, a connection object, or NoConn
  given,        \* given[c]: the object Connect set up and gave to OnConnect
  objects,      \* objects[c]: how many connection objects were made
  connected, done, connectErr, aborted,   \* fields of the client
  pending,      \* the server's pending handshakes: address -> token
  conns,        \* the server's connections: address -> token
  issued,       \* how many challenge tokens the server issued
  verified,     \* history: the tokens of the responses it verified
  answered,     \* history: the challenges each client answered
  net, lost, duplicated

client == <<phase, installing, server, given, objects,
            connected, done, connectErr, aborted, answered>>
tables == <<pending, conns, issued, verified>>
vars   == <<client, tables, net, lost, duplicated>>

NoConn == [object |-> 0, token |-> 0]

Init ==
  /\ phase = [c \in Clients |-> "idle"]
  /\ installing = [c \in Clients |-> 0]
  /\ server = [c \in Clients |-> NoConn]
  /\ given = [c \in Clients |-> NoConn]
  /\ objects = [c \in Clients |-> 0]
  /\ connected = [c \in Clients |-> FALSE]
  /\ done = [c \in Clients |-> FALSE]
  /\ connectErr = [c \in Clients |-> FALSE]
  /\ aborted = [c \in Clients |-> FALSE]
  /\ pending = << >> /\ conns = << >> /\ issued = 0 /\ verified = {}
  /\ answered = [c \in Clients |-> {}]
  /\ net = {} /\ lost = 0 /\ duplicated = 0

\* value is the token of a CHALLENGE or RESPONSE, the version in a CONNECT.
Msg(kind, c, value) == [kind |-> kind, client |-> c, value |-> value]

ToServer == {m \in net : m.kind \in {"CONNECT", "RESPONSE"}}
ToClient == net \ ToServer

With(f, c, v)  == [x \in DOMAIN f \union {c} |-> IF x = c THEN v ELSE f[x]]
Without(f, c)  == [x \in DOMAIN f \ {c} |-> f[x]]

\* m leaves the network and `out` enters it; a duplicated m stays for later.
Exchange(m, out) ==
  \/ net' = (net \ {m}) \union out /\ UNCHANGED duplicated
  \/ /\ duplicated < MaxDuplicates
     /\ duplicated' = duplicated + 1
     /\ net' = net \union out

-----------------------------------------------------------------------------
(* Client.Connect.                                                          *)

Connect(c) ==
  /\ phase[c] = "idle"
  /\ phase' = [phase EXCEPT ![c] = "waiting"]
  /\ \E version \in Versions : net' = net \union {Msg("CONNECT", c, version)}
  /\ UNCHANGED <<installing, server, given, objects, connected, done,
                 connectErr, aborted, answered, tables, lost, duplicated>>

\* connectDone is closed: an error ends Connect, and otherwise it sets up the
\* connection it finds in c.server.
ConnectDone(c) ==
  /\ phase[c] = "waiting"
  /\ done[c]
  /\ IF connectErr[c]
     THEN phase' = [phase EXCEPT ![c] = "failed"] /\ UNCHANGED given
     ELSE /\ phase' = [phase EXCEPT ![c] = "ready"]
          /\ given' = [given EXCEPT ![c] = server[c]]
  /\ UNCHANGED <<installing, server, objects, connected, done, connectErr,
                 aborted, answered, tables, net, lost, duplicated>>

\* Mutant: the timer marks the attempt aborted and goes on waiting for it.
MutConnectTimeout(c) ==
  /\ phase[c] = "waiting"
  /\ aborted' = [aborted EXCEPT ![c] = TRUE]
  /\ UNCHANGED <<phase, installing, server, given, objects, connected, done,
                 connectErr, answered, tables, net, lost, duplicated>>

ConnectTimeout(c) ==
  /\ phase[c] = "waiting"
  /\ phase' = [phase EXCEPT ![c] = "failed"]
  /\ aborted' = [aborted EXCEPT ![c] = TRUE]
  /\ UNCHANGED <<installing, server, given, objects, connected, done,
                 connectErr, answered, tables, net, lost, duplicated>>

\* connected, the tick loop, OnConnect; Connect returns nil.
ConnectReturns(c) ==
  /\ phase[c] = "ready"
  /\ phase' = [phase EXCEPT ![c] = "running"]
  /\ connected' = [connected EXCEPT ![c] = TRUE]
  /\ UNCHANGED <<installing, server, given, objects, done, connectErr,
                 aborted, answered, tables, net, lost, duplicated>>

\* The connection times out at the client; module Lifecycle has the details.
ClientTimesOut(c) ==
  /\ phase[c] = "running"
  /\ phase' = [phase EXCEPT ![c] = "closed"]
  /\ connected' = [connected EXCEPT ![c] = FALSE]
  /\ server' = [server EXCEPT ![c] = NoConn]
  /\ UNCHANGED <<installing, given, objects, done, connectErr, aborted,
                 answered, tables, net, lost, duplicated>>

-----------------------------------------------------------------------------
(* Client.readLoop, during the handshake.                                   *)

\* The loop goes on after a timeout of the connection: only Close and a failed
\* Connect end it.
Reading(c) ==
  phase[c] \in {"waiting", "ready", "running", "closed"} /\ installing[c] = 0

\* handleChallenge up to the RESPONSE.  Once connected, the datagram would go
\* to the tick loop, which cannot decrypt it.
ReadChallenge(c, m) ==
  /\ Reading(c)
  /\ m \in ToClient /\ m.client = c /\ m.kind = "CHALLENGE"
  /\ IF connected[c]
     THEN Exchange(m, {}) /\ UNCHANGED <<installing, answered>>
     ELSE /\ Exchange(m, {Msg("RESPONSE", c, m.value)})
          /\ installing' = [installing EXCEPT ![c] = m.value]
          /\ answered' = [answered EXCEPT ![c] = @ \union {m.value}]
  /\ UNCHANGED <<phase, server, given, objects, connected, done, connectErr,
                 aborted, tables, lost>>

\* Mutant: a challenge that comes after the timeout is still installed.
MutInstall(c) ==
  /\ installing[c] # 0
  /\ objects' = [objects EXCEPT ![c] = @ + 1]
  /\ server' = [server EXCEPT ![c] = [object |-> objects'[c], token |-> installing[c]]]
  /\ done' = [done EXCEPT ![c] = TRUE]
  /\ installing' = [installing EXCEPT ![c] = 0]
  /\ UNCHANGED <<phase, given, connected, connectErr, aborted, answered, tables,
                 net, lost, duplicated>>

\* The rest of handleChallenge.
Install(c) ==
  /\ installing[c] # 0
  /\ objects' = [objects EXCEPT ![c] = @ + 1]
  /\ IF aborted[c]
     THEN UNCHANGED <<server, done>>
     ELSE /\ server' = [server EXCEPT ![c] =
                          [object |-> objects'[c], token |-> installing[c]]]
          /\ done' = [done EXCEPT ![c] = TRUE]
  /\ installing' = [installing EXCEPT ![c] = 0]
  /\ UNCHANGED <<phase, given, connected, connectErr, aborted, answered, tables,
                 net, lost, duplicated>>

ReadRefusal(c, m) ==
  /\ Reading(c)
  /\ m \in ToClient /\ m.client = c /\ m.kind \in {"REJECT", "VERSION_MISMATCH"}
  /\ Exchange(m, {})
  /\ IF connected[c]
     THEN UNCHANGED <<connectErr, done>>
     ELSE /\ connectErr' = [connectErr EXCEPT ![c] = TRUE]
          /\ done' = [done EXCEPT ![c] = TRUE]
  /\ UNCHANGED <<phase, installing, server, given, objects, connected,
                 aborted, answered, tables, lost>>

-----------------------------------------------------------------------------
(* The server: processIncoming.                                             *)

Known(c)   == c \in DOMAIN conns
Waiting(c) == c \in DOMAIN pending

\* Data of a known connection, or bytes that decrypt under no pending keys: a
\* stray CONNECT or RESPONSE is dropped.
ServerDrops(m) ==
  /\ m \in ToServer
  /\ \/ Known(m.client)
     \/ Waiting(m.client) /\ m # Msg("RESPONSE", m.client, pending[m.client])
     \/ ~Waiting(m.client) /\ m.kind # "CONNECT"
  /\ Exchange(m, {})
  /\ UNCHANGED <<client, tables, lost>>

\* Mutant: the address is enough, the token is not compared.
MutProcessResponse(m) ==
  /\ m \in ToServer
  /\ ~Known(m.client) /\ Waiting(m.client)
  /\ m.kind = "RESPONSE"
  /\ conns' = With(conns, m.client, pending[m.client])
  /\ pending' = Without(pending, m.client)
  /\ verified' = verified \union {pending[m.client]}
  /\ Exchange(m, {})
  /\ UNCHANGED <<client, issued, lost>>

ProcessResponse(m) ==
  /\ m \in ToServer
  /\ ~Known(m.client) /\ Waiting(m.client)
  /\ m = Msg("RESPONSE", m.client, pending[m.client])
  /\ conns' = With(conns, m.client, m.value)
  /\ pending' = Without(pending, m.client)
  /\ verified' = verified \union {m.value}
  /\ Exchange(m, {})
  /\ UNCHANGED <<client, issued, lost>>

Fresh(m) == m \in ToServer /\ ~Known(m.client) /\ ~Waiting(m.client) /\ m.kind = "CONNECT"

\* Mutant: the cap compares one connection too late.
MutFull == Cardinality(DOMAIN conns) > MaxConnections

Full == Cardinality(DOMAIN conns) >= MaxConnections

\* handleHandshake: a full server and another version are answered.
RefuseConnect(m) ==
  /\ Fresh(m)
  /\ Full \/ m.value # ProtocolVersion
  /\ Exchange(m, {Msg(IF Full THEN "REJECT" ELSE "VERSION_MISMATCH", m.client, 0)})
  /\ UNCHANGED <<client, tables, lost>>

PendingFull == MaxPending > 0 /\ Cardinality(DOMAIN pending) >= MaxPending

\* handleHandshake: a challenge is issued unless the pending table is full.
AcceptConnect(m) ==
  /\ Fresh(m)
  /\ ~Full /\ m.value = ProtocolVersion
  /\ issued < MaxTokens
  /\ issued' = issued + 1
  /\ IF PendingFull
     THEN Exchange(m, {}) /\ UNCHANGED pending
     ELSE /\ pending' = With(pending, m.client, issued')
          /\ Exchange(m, {Msg("CHALLENGE", m.client, issued')})
  /\ UNCHANGED <<client, conns, verified, lost>>

\* tick: pendingTable.cleanup.
CleanupPending(expired) ==
  /\ expired # {}
  /\ pending' = [c \in DOMAIN pending \ expired |-> pending[c]]
  /\ UNCHANGED <<client, conns, issued, verified, net, lost, duplicated>>

\* Mutant: the address under which the connection is found stays in the table.
MutRemoveConnection(c) == Known(c) /\ UNCHANGED vars

\* removeConnection, after a timeout or a disconnect.
RemoveConnection(c) ==
  /\ Known(c)
  /\ conns' = Without(conns, c)
  /\ UNCHANGED <<client, pending, issued, verified, net, lost, duplicated>>

-----------------------------------------------------------------------------

Lose(m) ==
  /\ lost < MaxLosses
  /\ lost' = lost + 1
  /\ net' = net \ {m}
  /\ UNCHANGED <<client, tables, duplicated>>

ServerReads(m) ==
  ServerDrops(m) \/ ProcessResponse(m) \/ RefuseConnect(m) \/ AcceptConnect(m)

ClientReads(c, m) == ReadChallenge(c, m) \/ ReadRefusal(c, m)

Next ==
  \/ \E c \in Clients :
       \/ Connect(c) \/ ConnectDone(c) \/ ConnectTimeout(c) \/ ConnectReturns(c)
       \/ ClientTimesOut(c)
       \/ \E m \in net : ClientReads(c, m)
       \/ Install(c)
       \/ RemoveConnection(c)
  \/ \E m \in net : ServerReads(m) \/ Lose(m)
  \/ \E expired \in SUBSET DOMAIN pending : CleanupPending(expired)

Spec == Init /\ [][Next]_vars

\* Both ends agree on the connection of c.
Agreed(c) ==
  /\ phase[c] = "running" /\ Known(c)
  /\ conns[c] = server[c].token

\* The goroutines and the timers run.  An end whose peer does not share its
\* connection gets nothing it can decrypt, and times out.
Fairness ==
  /\ \A c \in Clients :
       /\ WF_vars(ConnectDone(c) \/ ConnectTimeout(c))
       /\ WF_vars(ConnectReturns(c))
       /\ WF_vars(Install(c))
       /\ WF_vars(ClientTimesOut(c) /\ ~Agreed(c))
       /\ WF_vars(RemoveConnection(c) /\ ~Agreed(c))
  /\ \A c \in Clients :
       WF_vars(Waiting(c) /\ \E s \in SUBSET DOMAIN pending :
                               c \in s /\ CleanupPending(s))

FairSpec == Spec /\ Fairness

-----------------------------------------------------------------------------
(* Properties.                                                              *)

\* Only a client that answered the challenge, and so derived its keys, is
\* connected under it, and its address is then not pending any more, although
\* duplicated and late datagrams of that address come in any order and a
\* handshake may have expired and begun again.
OnlyRespondersConnect ==
  \A c \in DOMAIN conns : ~Waiting(c) /\ conns[c] \in answered[c]

\* A Connect that timed out leaves no connection behind that a challenge, read
\* too late, would bring back.
NoLateInstall ==
  [][\A c \in Clients : phase[c] = "failed" /\ aborted[c] => server'[c] = server[c]]_vars

\* MaxConnections is compared when a handshake begins, not when it ends: the
\* handshakes that were pending then may each still become a connection.  So
\* the cap of the pending table bounds by how many connections it is overrun.
OverrunIsBounded ==
  MaxPending > 0 => Cardinality(DOMAIN conns) <= MaxConnections + MaxPending - 1

\* Connect does not block for ever.
ConnectEnds ==
  \A c \in Clients : phase[c] = "waiting" ~> phase[c] \in {"running", "failed", "closed"}

\* A connection that only one end has is given up: neither a client whose
\* RESPONSE was lost nor a server whose client gave up keeps it for ever.
NoHalfOpenConnection ==
  \A c \in Clients :
    phase[c] = "running" \/ Known(c) ~>
      Agreed(c) \/ (phase[c] \in {"failed", "closed"} /\ ~Known(c))

-----------------------------------------------------------------------------
(* The inductive invariant.                                                 *)

Phases   == {"idle", "waiting", "ready", "running", "failed", "closed"}
ConnType == [object : Nat, token : Nat]

Messages ==
  [kind : {"CONNECT"}, client : Clients, value : Versions]
    \union [kind : {"CHALLENGE", "RESPONSE", "REJECT", "VERSION_MISMATCH"},
            client : Clients, value : Nat]

TypeOK ==
  /\ phase \in [Clients -> Phases] /\ installing \in [Clients -> Nat]
  /\ server \in [Clients -> ConnType] /\ given \in [Clients -> ConnType]
  /\ objects \in [Clients -> Nat]
  /\ connected \in [Clients -> BOOLEAN] /\ done \in [Clients -> BOOLEAN]
  /\ connectErr \in [Clients -> BOOLEAN] /\ aborted \in [Clients -> BOOLEAN]
  /\ DOMAIN pending \subseteq Clients /\ pending \in [DOMAIN pending -> Nat]
  /\ DOMAIN conns \subseteq Clients /\ conns \in [DOMAIN conns -> Nat]
  /\ issued \in Nat /\ verified \subseteq Nat
  /\ answered \in [Clients -> SUBSET Nat]
  /\ net \subseteq Messages

\* Every handshake and every connection of the server has a token, and so keys,
\* of its own.
TokensApart ==
  /\ \A c \in DOMAIN pending : pending[c] \in 1..issued
  /\ \A c \in DOMAIN conns : conns[c] \in 1..issued
  /\ \A c, d \in DOMAIN pending : pending[c] = pending[d] => c = d
  /\ \A c, d \in DOMAIN conns : conns[c] = conns[d] => c = d
  /\ \A c \in DOMAIN pending, d \in DOMAIN conns : pending[c] # conns[d]

\* A response is that of a client to a challenge it answered.
ResponsesAreAnswers ==
  \A m \in net : m.kind = "RESPONSE" => m.value \in answered[m.client]

\* A handshake that becomes a connection leaves the pending table, so what the
\* two tables hold together grows only when a handshake begins.
TablesAreBounded ==
  MaxPending > 0 =>
    Cardinality(DOMAIN conns) + Cardinality(DOMAIN pending)
      <= MaxConnections + MaxPending - 1

\* Connect set up a connection that answers a challenge of its own, and an attempt
\* that was aborted has failed.
ConnectsToAnswered ==
  \A c \in Clients :
    /\ installing[c] # 0 => installing[c] \in answered[c]
    /\ server[c] # NoConn => server[c].token \in answered[c]
    /\ aborted[c] => phase[c] = "failed"

IInv ==
  /\ TypeOK /\ OnlyRespondersConnect /\ TokensApart /\ ResponsesAreAnswers
  /\ TablesAreBounded /\ ConnectsToAnswered

-----------------------------------------------------------------------------
(* What the code does not satisfy; no configuration checks it.              *)

\* Connect returns nil only when the server has verified the RESPONSE.
ConnectMeansEstablished ==
  \A c \in Clients : phase[c] = "running" => given[c].token \in verified

\* The connection that OnConnect was given is the one the client's tick loop
\* receives for, sends heartbeats on and closes.
OnConnectGetsTheConnection ==
  \A c \in Clients :
    phase[c] \in {"running", "closed"} /\ server[c] # NoConn =>
      server[c].object = given[c].object
=============================================================================
