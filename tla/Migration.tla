------------------------------ MODULE Migration -----------------------------
(***************************************************************************)
(* Connection migration: the server's tables of connections by address and *)
(* of connections by token, and the clients whose addresses change.        *)
(*                                                                         *)
(* A connection is named by its migration token.  Addresses are reused: an *)
(* address that one client left may become another one's (a NAT rebinding) *)
(* while packets sent from it are still under way.  The server handles one *)
(* datagram at a time (processIncoming); the packets of a batch stand or   *)
(* fall with the first one.  Module Handshake has the handshake in detail, *)
(* module ReplayWindow the check of a nonce.                               *)
(***************************************************************************)
EXTENDS Integers, FiniteSets

CONSTANTS
  Tokens,       \* one for each connection a client may open
  Addresses,
  None,         \* no address
  MaxPackets,   \* bound: packets a client sends
  MaxMoves      \* bound: changes of address

ASSUME MigrationAssumption ==
  /\ IsFiniteSet(Tokens) /\ None \notin Addresses
  /\ MaxPackets \in Nat /\ MaxMoves \in Nat

VARIABLES
  at,           \* at[k]: where the client of k really is
  nonce,        \* nonce[k]: packets it has sent
  moves,        \* how often a client moved
  net,          \* packets under way
  pending,      \* pending handshakes: address -> token
  conns,        \* connectionTable: address -> token
  tokens,       \* tokenTable: the live connections
  remoteAddr,   \* remoteAddr[k] of the connection object
  sendTo,       \* sendTo[k]: the address that sendFunc has captured
  seen,         \* seen[k]: nonces accepted
  last          \* history: last[k], where the last packet accepted came from

vars == <<at, nonce, moves, net, pending, conns, tokens, remoteAddr, sendTo,
          seen, last>>

Init ==
  /\ at = [k \in Tokens |-> None]
  /\ nonce = [k \in Tokens |-> 0]
  /\ moves = 0 /\ net = {}
  /\ pending = << >> /\ conns = << >> /\ tokens = {}
  /\ remoteAddr = [k \in Tokens |-> None]
  /\ sendTo = [k \in Tokens |-> None]
  /\ seen = [k \in Tokens |-> {}]
  /\ last = [k \in Tokens |-> None]

With(f, a, k) == [x \in DOMAIN f \union {a} |-> IF x = a THEN k ELSE f[x]]
Without(f, a) == [x \in DOMAIN f \ {a} |-> f[x]]

Free(a) == \A k \in Tokens : at[k] # a

-----------------------------------------------------------------------------
(* The clients and the network.                                             *)

\* A client appears, and its CONNECT, from an address the server does not know,
\* makes a pending handshake.
BeginHandshake(k, a) ==
  /\ at[k] = None /\ nonce[k] = 0 /\ Free(a)
  /\ a \notin DOMAIN conns /\ a \notin DOMAIN pending
  /\ at' = [at EXCEPT ![k] = a]
  /\ pending' = With(pending, a, k)
  /\ UNCHANGED <<nonce, moves, net, conns, tokens, remoteAddr, sendTo, seen, last>>

ClientMoves(k, a) ==
  /\ moves < MaxMoves
  /\ at[k] # None /\ Free(a)
  /\ moves' = moves + 1
  /\ at' = [at EXCEPT ![k] = a]
  /\ UNCHANGED <<nonce, net, pending, conns, tokens, remoteAddr, sendTo, seen, last>>

\* A packet of the connection, with its token in front.
ClientSends(k) ==
  /\ at[k] # None /\ nonce[k] < MaxPackets
  /\ nonce' = [nonce EXCEPT ![k] = @ + 1]
  /\ net' = net \union {[token |-> k, nonce |-> nonce'[k], from |-> at[k]]}
  /\ UNCHANGED <<at, moves, pending, conns, tokens, remoteAddr, sendTo, seen, last>>

Lose(p) ==
  /\ p \in net
  /\ net' = net \ {p}
  /\ UNCHANGED <<at, nonce, moves, pending, conns, tokens, remoteAddr, sendTo,
                 seen, last>>

\* p arrives, in any order; it may arrive again later.
Arrives(p) ==
  /\ p \in net
  /\ net' \in {net, net \ {p}}

-----------------------------------------------------------------------------
(* The server.                                                              *)

Opens(p, k) == p.token = k /\ p.nonce \notin seen[k]

\* The packet decrypted: its nonce is marked and its payload handled.
Accepted(p) ==
  /\ seen' = [seen EXCEPT ![p.token] = @ \union {p.nonce}]
  /\ last' = [last EXCEPT ![p.token] = p.from]

\* The RESPONSE of the pending handshake at address a.
Establish(a) ==
  /\ a \in DOMAIN pending
  /\ LET k == pending[a] IN
       /\ remoteAddr' = [remoteAddr EXCEPT ![k] = a]
       /\ sendTo' = [sendTo EXCEPT ![k] = a]
       /\ conns' = With(conns, a, k)
       /\ tokens' = tokens \union {k}
  /\ pending' = Without(pending, a)
  /\ UNCHANGED <<at, nonce, moves, net, seen, last>>

ExpirePending(a) ==
  /\ a \in DOMAIN pending
  /\ pending' = Without(pending, a)
  /\ UNCHANGED <<at, nonce, moves, net, conns, tokens, remoteAddr, sendTo, seen, last>>

\* 1. The address is that of a connection: the packet is its data, or noise.
ProcessConnData(p) ==
  /\ Arrives(p)
  /\ p.from \in DOMAIN conns
  /\ IF Opens(p, conns[p.from]) THEN Accepted(p) ELSE UNCHANGED <<seen, last>>
  /\ UNCHANGED <<at, nonce, moves, pending, conns, tokens, remoteAddr, sendTo>>

\* 2. The address is pending: the packet is no RESPONSE, and is dropped.
ProcessPending(p) ==
  /\ Arrives(p)
  /\ p.from \notin DOMAIN conns /\ p.from \in DOMAIN pending
  /\ UNCHANGED <<at, nonce, moves, pending, conns, tokens, remoteAddr, sendTo,
                 seen, last>>

Migrates(p) == p.from \notin DOMAIN conns /\ p.from \notin DOMAIN pending
               /\ p.token \in tokens /\ Opens(p, p.token)

\* Mutant: the token table is looked at before the pending table.
MutTryMigration(p) ==
  /\ Arrives(p)
  /\ p.from \notin DOMAIN conns /\ p.token \in tokens /\ Opens(p, p.token)
  /\ conns' = With(Without(conns, remoteAddr[p.token]), p.from, p.token)
  /\ remoteAddr' = [remoteAddr EXCEPT ![p.token] = p.from]
  /\ sendTo' = [sendTo EXCEPT ![p.token] = p.from]
  /\ Accepted(p)
  /\ UNCHANGED <<at, nonce, moves, pending, tokens>>

\* Mutant: the send function keeps the address it was made for.
MutTryMigrationOldSend(p) ==
  /\ Arrives(p) /\ Migrates(p)
  /\ conns' = With(Without(conns, remoteAddr[p.token]), p.from, p.token)
  /\ remoteAddr' = [remoteAddr EXCEPT ![p.token] = p.from]
  /\ Accepted(p)
  /\ UNCHANGED <<at, nonce, moves, pending, tokens, sendTo>>

\* 3. The token is that of a connection, and the packet decrypts under its keys.
TryMigration(p) ==
  /\ Arrives(p) /\ Migrates(p)
  /\ conns' = With(Without(conns, remoteAddr[p.token]), p.from, p.token)
  /\ remoteAddr' = [remoteAddr EXCEPT ![p.token] = p.from]
  /\ sendTo' = [sendTo EXCEPT ![p.token] = p.from]
  /\ Accepted(p)
  /\ UNCHANGED <<at, nonce, moves, pending, tokens>>

\* A token that is not live, a nonce seen before: nothing happens.
DropUnknown(p) ==
  /\ Arrives(p)
  /\ p.from \notin DOMAIN conns /\ p.from \notin DOMAIN pending /\ ~Migrates(p)
  /\ UNCHANGED <<at, nonce, moves, pending, conns, tokens, remoteAddr, sendTo,
                 seen, last>>

\* removeConnection, on a timeout or a disconnect of k.
RemoveConnection(k) ==
  /\ k \in tokens
  /\ conns' = Without(conns, remoteAddr[k])
  /\ tokens' = tokens \ {k}
  /\ UNCHANGED <<at, nonce, moves, net, pending, remoteAddr, sendTo, seen, last>>

Next ==
  \/ \E k \in Tokens :
       \/ \E a \in Addresses : BeginHandshake(k, a) \/ ClientMoves(k, a)
       \/ ClientSends(k)
       \/ RemoveConnection(k)
  \/ \E a \in Addresses : Establish(a) \/ ExpirePending(a)
  \/ \E p \in net :
       \/ ProcessConnData(p) \/ ProcessPending(p) \/ TryMigration(p)
       \/ DropUnknown(p) \/ Lose(p)

Spec == Init /\ [][Next]_vars

-----------------------------------------------------------------------------
(* Properties.                                                              *)

\* Every variable has its type.
TypeOK ==
  /\ DOMAIN pending \subseteq Addresses /\ DOMAIN conns \subseteq Addresses
  /\ DOMAIN pending \intersect DOMAIN conns = {}
  /\ tokens \subseteq Tokens
  /\ remoteAddr \in [Tokens -> Addresses \union {None}]
  /\ sendTo \in [Tokens -> Addresses \union {None}]
  /\ \A k \in Tokens : seen[k] \subseteq 1..nonce[k]

\* The two tables and the connections agree: a live connection is found by its
\* token and, under one address only, by its own address, whatever handshakes,
\* timeouts and migrations of other connections to and from that address came
\* between.
TablesAgree ==
  /\ \A k \in tokens : remoteAddr[k] \in DOMAIN conns /\ conns[remoteAddr[k]] = k
  /\ \A a \in DOMAIN conns : conns[a] \in tokens /\ remoteAddr[conns[a]] = a

\* What the server sends on a live connection goes to the address under which
\* it would know the answer, and that address was its client's own.
SendsToOwnAddress ==
  \A k \in tokens :
    /\ sendTo[k] = remoteAddr[k]
    /\ \A j \in tokens \ {k} : sendTo[j] # sendTo[k]

\* The server answers to where the last packet that it accepted came from, on
\* the path it was known under or on a new one.  If the network keeps the order
\* of the packets, that is where the client was last.
AnswersToLast ==
  \A k \in tokens : last[k] # None => sendTo[k] = last[k]

Packets == [token : Tokens, nonce : 1..MaxPackets, from : Addresses]

\* The inductive invariant.  A handshake is pending for a connection that was
\* never established, at one address only, and at none that a connection has:
\* Establish then adds an entry to both tables and replaces none.
IInv ==
  /\ TypeOK /\ TablesAgree /\ AnswersToLast
  /\ nonce \in [Tokens -> 0..MaxPackets] /\ net \subseteq Packets
  /\ at \in [Tokens -> Addresses \union {None}]
  /\ seen \in [Tokens -> SUBSET Nat] /\ last \in [Tokens -> Addresses \union {None}]
  /\ pending \in [DOMAIN pending -> Tokens] /\ conns \in [DOMAIN conns -> Tokens]
  /\ \A p \in net : p.nonce <= nonce[p.token]
  /\ \A k \in Tokens : at[k] = None => last[k] = None
  /\ \A k \in tokens : at[k] # None /\ sendTo[k] = remoteAddr[k]
  /\ \A a \in DOMAIN pending :
       /\ pending[a] \notin tokens /\ at[pending[a]] # None
       /\ last[pending[a]] = None
       /\ \A b \in DOMAIN pending : pending[a] = pending[b] => a = b
=============================================================================
