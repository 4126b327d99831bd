-------------------------- MODULE MigrationProofs ---------------------------
(***************************************************************************)
(* The safety theorems of Migration, for every set of connections and of   *)
(* addresses, and every number of packets and moves.                       *)
(***************************************************************************)
EXTENDS Migration, TLAPS

-----------------------------------------------------------------------------
(* The tables.                                                              *)

\* What a removal leaves of a table.
LEMMA WithoutFacts ==
  ASSUME NEW f, f \in [DOMAIN f -> Tokens], NEW a
  PROVE  /\ DOMAIN Without(f, a) = DOMAIN f \ {a}
         /\ Without(f, a) \in [DOMAIN Without(f, a) -> Tokens]
         /\ \A x \in DOMAIN f : x # a => Without(f, a)[x] = f[x]
BY DEF Without

-----------------------------------------------------------------------------
(* The inductive invariant.                                                 *)

\* A server without connections satisfies the invariant.
LEMMA InitIInv == Init => IInv
<1> SUFFICES ASSUME Init PROVE IInv OBVIOUS
<1>1. /\ DOMAIN pending = {} /\ DOMAIN conns = {}
      /\ pending = [x \in {} |-> x] /\ conns = [x \in {} |-> x]
  BY DEF Init
<1>2. TypeOK
  BY <1>1 DEF Init, TypeOK
<1>3. TablesAgree /\ AnswersToLast
  BY <1>1 DEF Init, TablesAgree, AnswersToLast
<1>4. /\ nonce \in [Tokens -> 0..MaxPackets] /\ net \subseteq Packets
      /\ at \in [Tokens -> Addresses \union {None}]
      /\ seen \in [Tokens -> SUBSET Nat] /\ last \in [Tokens -> Addresses \union {None}]
  BY MigrationAssumption DEF Init
<1>5. pending \in [DOMAIN pending -> Tokens] /\ conns \in [DOMAIN conns -> Tokens]
  BY <1>1
<1> QED BY <1>1, <1>2, <1>3, <1>4, <1>5 DEF Init, IInv

\* A new client and its pending handshake.
LEMMA BeginHandshakeStep ==
  ASSUME IInv, NEW k \in Tokens, NEW a \in Addresses, BeginHandshake(k, a)
  PROVE  IInv'
<1>1. /\ at[k] = None /\ a \notin DOMAIN conns /\ a \notin DOMAIN pending
      /\ at' = [at EXCEPT ![k] = a] /\ pending' = With(pending, a, k)
      /\ UNCHANGED <<nonce, moves, net, conns, tokens, remoteAddr, sendTo, seen, last>>
  BY DEF BeginHandshake
<1>2. /\ DOMAIN pending' = DOMAIN pending \union {a}
      /\ pending' \in [DOMAIN pending' -> Tokens]
      /\ pending'[a] = k
      /\ \A x \in DOMAIN pending : pending'[x] = pending[x]
  <2>1. pending \in [DOMAIN pending -> Tokens]
    BY DEF IInv
  <2>2. /\ DOMAIN With(pending, a, k) = DOMAIN pending \union {a}
        /\ With(pending, a, k) \in [DOMAIN With(pending, a, k) -> Tokens]
        /\ With(pending, a, k)[a] = k
        /\ \A x \in DOMAIN pending : x # a => With(pending, a, k)[x] = pending[x]
    BY <2>1 DEF With
  <2> QED BY <2>2, <1>1
<1>3. /\ \A j \in Tokens : at'[j] = IF j = k THEN a ELSE at[j]
      /\ at' \in [Tokens -> Addresses \union {None}]
  BY <1>1 DEF IInv
<1>4. a # None /\ k \notin tokens /\ \A x \in DOMAIN pending : pending[x] # k
  BY <1>1, MigrationAssumption DEF IInv
<1>5. last[k] = None
  BY <1>1 DEF IInv
<1>6. TypeOK'
  BY <1>1, <1>2 DEF IInv, TypeOK
<1>7. TablesAgree' /\ AnswersToLast'
  BY <1>1 DEF IInv, TablesAgree, AnswersToLast
<1>8. \A x \in DOMAIN pending' :
        /\ pending'[x] \notin tokens /\ at'[pending'[x]] # None
        /\ last[pending'[x]] = None
        /\ \A y \in DOMAIN pending' : pending'[x] = pending'[y] => x = y
  BY <1>2, <1>3, <1>4, <1>5 DEF IInv
<1>9. \A j \in tokens : at'[j] # None /\ sendTo[j] = remoteAddr[j]
  BY <1>3, <1>4 DEF IInv, TypeOK
<1> QED BY <1>1, <1>2, <1>3, <1>6, <1>7, <1>8, <1>9 DEF IInv
\* A client changes its address; the server does not know.
LEMMA ClientMovesStep ==
  ASSUME IInv, NEW k \in Tokens, NEW a \in Addresses, ClientMoves(k, a)
  PROVE  IInv'
<1>1. /\ at[k] # None /\ at' = [at EXCEPT ![k] = a]
      /\ UNCHANGED <<nonce, net, pending, conns, tokens, remoteAddr, sendTo, seen, last>>
  BY DEF ClientMoves
<1>2. /\ \A j \in Tokens : at'[j] = IF j = k THEN a ELSE at[j]
      /\ at' \in [Tokens -> Addresses \union {None}] /\ a # None
  BY <1>1, MigrationAssumption DEF IInv
<1>3. TypeOK' /\ TablesAgree' /\ AnswersToLast'
  BY <1>1 DEF IInv, TypeOK, TablesAgree, AnswersToLast
<1>4. \A j \in Tokens : at'[j] = None => at[j] = None
  BY <1>2
<1>5. tokens \subseteq Tokens /\ \A x \in DOMAIN pending : pending[x] \in Tokens
  BY DEF IInv, TypeOK
<1> QED BY <1>1, <1>2, <1>3, <1>4, <1>5 DEF IInv

\* A client sends a packet.
LEMMA ClientSendsStep ==
  ASSUME IInv, NEW k \in Tokens, ClientSends(k)
  PROVE  IInv'
<1>1. /\ at[k] # None /\ nonce[k] < MaxPackets
      /\ nonce' = [nonce EXCEPT ![k] = @ + 1]
      /\ net' = net \union {[token |-> k, nonce |-> nonce'[k], from |-> at[k]]}
      /\ UNCHANGED <<at, pending, conns, tokens, remoteAddr, sendTo, seen, last>>
  BY DEF ClientSends
<1>2. /\ nonce \in [Tokens -> 0..MaxPackets] /\ MaxPackets \in Nat /\ at[k] \in Addresses
  BY <1>1, MigrationAssumption DEF IInv
<1>3. /\ \A j \in Tokens : nonce'[j] = IF j = k THEN nonce[j] + 1 ELSE nonce[j]
      /\ nonce'[k] \in 1..MaxPackets
  BY <1>1, <1>2
<1>4. nonce' \in [Tokens -> 0..MaxPackets]
  BY <1>1, <1>2, <1>3
<1>5. \A j \in Tokens : 1..nonce[j] \subseteq 1..nonce'[j] /\ nonce[j] <= nonce'[j]
  BY <1>2, <1>3
<1>6. TypeOK'
  BY <1>1, <1>5 DEF IInv, TypeOK
<1>7. TablesAgree' /\ AnswersToLast'
  BY <1>1 DEF IInv, TablesAgree, AnswersToLast
<1>8. PICK p : p = [token |-> k, nonce |-> nonce'[k], from |-> at[k]]
  OBVIOUS
<1>9. p \in Packets /\ p.nonce <= nonce'[p.token] /\ net' = net \union {p}
  BY <1>1, <1>2, <1>3, <1>8 DEF Packets
<1>10. net' \subseteq Packets
  BY <1>9 DEF IInv
<1>11. \A q \in net : q.nonce <= nonce'[q.token]
  <2>1. SUFFICES ASSUME NEW q \in net PROVE q.nonce <= nonce'[q.token]
    OBVIOUS
  <2>2. q.token \in Tokens /\ q.nonce \in Nat /\ q.nonce <= nonce[q.token]
    BY <1>2 DEF IInv, Packets
  <2>3. PICK n, m \in Nat : n = nonce[q.token] /\ m = nonce'[q.token] /\ n <= m
    BY <2>2, <1>2, <1>4, <1>5
  <2> QED BY <2>2, <2>3
<1> QED BY <1>1, <1>4, <1>6, <1>7, <1>9, <1>10, <1>11 DEF IInv
\* A packet that arrives without an effect, or is lost.
LEMMA PacketGone ==
  ASSUME IInv, net' \subseteq net,
         UNCHANGED <<at, nonce, pending, conns, tokens, remoteAddr, sendTo, seen, last>>
  PROVE  IInv'
<1>1. TypeOK' /\ TablesAgree' /\ AnswersToLast'
  BY DEF IInv, TypeOK, TablesAgree, AnswersToLast
<1> QED BY <1>1 DEF IInv

\* The RESPONSE: the handshake becomes a connection, new to both tables.
LEMMA EstablishStep ==
  ASSUME IInv, NEW a \in Addresses, Establish(a)
  PROVE  IInv'
<1>1. PICK k : k = pending[a]
  OBVIOUS
<1>2. /\ a \in DOMAIN pending
      /\ remoteAddr' = [remoteAddr EXCEPT ![k] = a] /\ sendTo' = [sendTo EXCEPT ![k] = a]
      /\ conns' = With(conns, a, k) /\ tokens' = tokens \union {k}
      /\ pending' = Without(pending, a)
      /\ UNCHANGED <<at, nonce, moves, net, seen, last>>
  BY <1>1 DEF Establish
<1>3. /\ k \in Tokens /\ k \notin tokens /\ at[k] # None /\ last[k] = None
      /\ a \notin DOMAIN conns
  BY <1>1, <1>2 DEF IInv, TypeOK
<1>4. /\ DOMAIN conns' = DOMAIN conns \union {a} /\ conns' \in [DOMAIN conns' -> Tokens]
      /\ conns'[a] = k /\ \A x \in DOMAIN conns : conns'[x] = conns[x]
  <2>1. conns \in [DOMAIN conns -> Tokens]
    BY DEF IInv
  <2>2. /\ DOMAIN With(conns, a, k) = DOMAIN conns \union {a}
        /\ With(conns, a, k) \in [DOMAIN With(conns, a, k) -> Tokens]
        /\ With(conns, a, k)[a] = k
        /\ \A x \in DOMAIN conns : x # a => With(conns, a, k)[x] = conns[x]
    BY <2>1, <1>3 DEF With
  <2> QED BY <2>2, <1>2, <1>3
<1>5. /\ DOMAIN pending' = DOMAIN pending \ {a}
      /\ pending' \in [DOMAIN pending' -> Tokens]
      /\ \A x \in DOMAIN pending' : pending'[x] = pending[x]
  <2>1. pending \in [DOMAIN pending -> Tokens]
    BY DEF IInv
  <2>2. /\ DOMAIN Without(pending, a) = DOMAIN pending \ {a}
        /\ Without(pending, a) \in [DOMAIN Without(pending, a) -> Tokens]
        /\ \A x \in DOMAIN pending : x # a => Without(pending, a)[x] = pending[x]
    BY <2>1, WithoutFacts
  <2> QED BY <2>2, <1>2
<1>6. /\ remoteAddr' \in [Tokens -> Addresses \union {None}]
      /\ sendTo' \in [Tokens -> Addresses \union {None}]
      /\ \A j \in Tokens : /\ remoteAddr'[j] = IF j = k THEN a ELSE remoteAddr[j]
                           /\ sendTo'[j] = IF j = k THEN a ELSE sendTo[j]
  BY <1>2 DEF IInv, TypeOK
<1>7. tokens \subseteq Tokens /\ \A x \in DOMAIN conns : conns[x] # k
  BY <1>3 DEF IInv, TypeOK, TablesAgree
<1>8. TypeOK'
  <2>1. /\ DOMAIN pending' \subseteq Addresses /\ DOMAIN conns' \subseteq Addresses
        /\ DOMAIN pending' \intersect DOMAIN conns' = {}
    <3>1. /\ DOMAIN pending \subseteq Addresses /\ DOMAIN conns \subseteq Addresses
          /\ DOMAIN pending \intersect DOMAIN conns = {}
      BY DEF IInv, TypeOK
    <3> QED BY <3>1, <1>4, <1>5, Zenon
  <2> QED BY <2>1, <1>2, <1>3, <1>6 DEF IInv, TypeOK
<1>9. TablesAgree'
  <2>1. \A j \in tokens' : remoteAddr'[j] \in DOMAIN conns' /\ conns'[remoteAddr'[j]] = j
    BY <1>2, <1>3, <1>4, <1>6, <1>7 DEF IInv, TablesAgree
  <2>2. \A x \in DOMAIN conns' : conns'[x] \in tokens' /\ remoteAddr'[conns'[x]] = x
    BY <1>2, <1>3, <1>4, <1>6, <1>7 DEF IInv, TablesAgree
  <2> QED BY <2>1, <2>2 DEF TablesAgree
<1>10. AnswersToLast'
  BY <1>2, <1>3, <1>6, <1>7 DEF IInv, AnswersToLast
<1>11. \A j \in tokens' : at[j] # None /\ sendTo'[j] = remoteAddr'[j]
  BY <1>2, <1>3, <1>6, <1>7 DEF IInv
<1>12. \A x \in DOMAIN pending' :
         /\ pending'[x] \notin tokens' /\ at[pending'[x]] # None
         /\ last[pending'[x]] = None
         /\ \A y \in DOMAIN pending' : pending'[x] = pending'[y] => x = y
  BY <1>1, <1>2, <1>5 DEF IInv
<1> QED BY <1>2, <1>4, <1>5, <1>8, <1>9, <1>10, <1>11, <1>12 DEF IInv

\* A handshake expires.
LEMMA ExpirePendingStep ==
  ASSUME IInv, NEW a \in Addresses, ExpirePending(a)
  PROVE  IInv'
<1>1. /\ pending' = Without(pending, a)
      /\ UNCHANGED <<at, nonce, moves, net, conns, tokens, remoteAddr, sendTo, seen, last>>
  BY DEF ExpirePending
<1>2. /\ DOMAIN pending' = DOMAIN pending \ {a}
      /\ pending' \in [DOMAIN pending' -> Tokens]
      /\ \A x \in DOMAIN pending' : pending'[x] = pending[x]
  <2>1. pending \in [DOMAIN pending -> Tokens]
    BY DEF IInv
  <2>2. /\ DOMAIN Without(pending, a) = DOMAIN pending \ {a}
        /\ Without(pending, a) \in [DOMAIN Without(pending, a) -> Tokens]
        /\ \A x \in DOMAIN pending : x # a => Without(pending, a)[x] = pending[x]
    BY <2>1, WithoutFacts
  <2> QED BY <2>2, <1>1
<1>3. TypeOK' /\ TablesAgree' /\ AnswersToLast'
  BY <1>1, <1>2 DEF IInv, TypeOK, TablesAgree, AnswersToLast
<1> QED BY <1>1, <1>2, <1>3 DEF IInv
\* A packet opens under the keys of the live connection j that it names: j
\* then has the address it came from, in the table and in its send function.
LEMMA AcceptedStep ==
  ASSUME IInv, NEW p \in net, NEW j, j = p.token, j \in tokens, net' \subseteq net,
         Accepted(p), TypeOK', TablesAgree', sendTo'[j] = p.from,
         \A k \in tokens : sendTo'[k] = remoteAddr'[k] /\ (k # j => sendTo'[k] = sendTo[k]),
         conns' \in [DOMAIN conns' -> Tokens],
         UNCHANGED <<at, nonce, pending, tokens>>
  PROVE  IInv'
<1>1. /\ seen' = [seen EXCEPT ![j] = @ \union {p.nonce}]
      /\ last' = [last EXCEPT ![j] = p.from]
  BY DEF Accepted
<1>2. p \in Packets /\ j \in Tokens /\ p.from \in Addresses /\ p.nonce \in Nat
  BY DEF IInv, Packets
<1>3. /\ \A k \in Tokens : last'[k] = IF k = j THEN p.from ELSE last[k]
      /\ last' \in [Tokens -> Addresses \union {None}]
  BY <1>1, <1>2 DEF IInv
<1>4. seen' \in [Tokens -> SUBSET Nat]
  BY <1>1, <1>2 DEF IInv
<1>5. tokens \subseteq Tokens /\ at[j] # None
  BY DEF IInv, TypeOK
<1>6. AnswersToLast'
  BY <1>3, <1>5 DEF IInv, AnswersToLast
<1>7. \A k \in Tokens : at[k] = None => last'[k] = None
  BY <1>3, <1>5 DEF IInv
<1>8. \A x \in DOMAIN pending :
        pending[x] \in Tokens /\ pending[x] # j /\ last'[pending[x]] = None
  BY <1>3 DEF IInv
<1> QED BY <1>3, <1>4, <1>6, <1>7, <1>8 DEF IInv

\* The nonces seen stay within those sent.
LEMMA SeenStep ==
  ASSUME IInv, NEW p \in net, Accepted(p), UNCHANGED nonce
  PROVE  \A k \in Tokens : seen'[k] \subseteq 1..nonce'[k]
<1>1. seen' = [seen EXCEPT ![p.token] = @ \union {p.nonce}]
  BY DEF Accepted
<1>2. /\ p.token \in Tokens /\ p.nonce \in 1..MaxPackets /\ p.nonce <= nonce[p.token]
      /\ nonce \in [Tokens -> 0..MaxPackets] /\ MaxPackets \in Nat
      /\ seen \in [Tokens -> SUBSET Nat]
      /\ \A k \in Tokens : seen[k] \subseteq 1..nonce[k]
  BY MigrationAssumption DEF IInv, TypeOK, Packets
<1>3. p.nonce \in 1..nonce[p.token]
  <2>1. nonce[p.token] \in Nat
    BY <1>2
  <2> QED BY <2>1, <1>2
<1>4. \A k \in Tokens :
        seen'[k] = IF k = p.token THEN seen[k] \union {p.nonce} ELSE seen[k]
  BY <1>1, <1>2
<1> QED BY <1>2, <1>3, <1>4

\* 1. A packet from the address of a connection.
LEMMA ProcessConnDataStep ==
  ASSUME IInv, NEW p \in net, ProcessConnData(p)
  PROVE  IInv'
<1>1. /\ net' \subseteq net /\ p.from \in DOMAIN conns
      /\ IF Opens(p, conns[p.from]) THEN Accepted(p) ELSE UNCHANGED <<seen, last>>
      /\ UNCHANGED <<at, nonce, moves, pending, conns, tokens, remoteAddr, sendTo>>
  BY DEF ProcessConnData, Arrives
<1>2. CASE Opens(p, conns[p.from])
  <2>1. p.token = conns[p.from] /\ Accepted(p)
    BY <1>1, <1>2 DEF Opens
  <2>2. p.token \in tokens /\ sendTo[p.token] = p.from
    BY <1>1, <2>1 DEF IInv, TablesAgree
  <2>3. TypeOK'
    <3>1. \A k \in Tokens : seen'[k] \subseteq 1..nonce'[k]
      BY <2>1, <1>1, SeenStep
    <3> QED BY <3>1, <1>1 DEF IInv, TypeOK
  <2>4. TablesAgree'
    BY <1>1 DEF IInv, TablesAgree
  <2>5. /\ \A k \in tokens : sendTo'[k] = remoteAddr'[k] /\ sendTo'[k] = sendTo[k]
        /\ conns' \in [DOMAIN conns' -> Tokens]
    BY <1>1 DEF IInv
  <2> QED BY <1>1, <2>1, <2>2, <2>3, <2>4, <2>5, AcceptedStep
<1>3. CASE ~Opens(p, conns[p.from])
  BY <1>1, <1>3, PacketGone
<1> QED BY <1>2, <1>3

\* 3. A migration: the connection leaves its old address and takes a free one.
LEMMA TryMigrationStep ==
  ASSUME IInv, NEW p \in net, TryMigration(p)
  PROVE  IInv'
<1>1. PICK k, a, b, left :
        k = p.token /\ a = p.from /\ b = remoteAddr[k] /\ left = Without(conns, b)
  OBVIOUS
<1>2. /\ net' \subseteq net /\ Accepted(p)
      /\ a \notin DOMAIN conns /\ a \notin DOMAIN pending /\ k \in tokens
      /\ conns' = With(left, a, k)
      /\ remoteAddr' = [remoteAddr EXCEPT ![k] = a] /\ sendTo' = [sendTo EXCEPT ![k] = a]
      /\ UNCHANGED <<at, nonce, moves, pending, tokens>>
  BY <1>1 DEF TryMigration, Arrives, Migrates
<1>3. /\ tokens \subseteq Tokens /\ k \in Tokens /\ a \in Addresses
      /\ b \in DOMAIN conns /\ conns[b] = k
  BY <1>1, <1>2 DEF IInv, TypeOK, TablesAgree, Packets
<1>4. /\ DOMAIN left = DOMAIN conns \ {b} /\ left \in [DOMAIN left -> Tokens]
      /\ \A x \in DOMAIN left : left[x] = conns[x]
  <2>1. conns \in [DOMAIN conns -> Tokens]
    BY DEF IInv
  <2>2. /\ DOMAIN Without(conns, b) = DOMAIN conns \ {b}
        /\ Without(conns, b) \in [DOMAIN Without(conns, b) -> Tokens]
        /\ \A x \in DOMAIN conns : x # b => Without(conns, b)[x] = conns[x]
    BY <2>1, WithoutFacts
  <2> QED BY <2>2, <1>1
<1>5. /\ DOMAIN conns' = (DOMAIN conns \ {b}) \union {a}
      /\ conns' \in [DOMAIN conns' -> Tokens] /\ conns'[a] = k
      /\ \A x \in DOMAIN conns \ {b} : conns'[x] = conns[x]
  <2>1. /\ DOMAIN With(left, a, k) = DOMAIN left \union {a}
        /\ With(left, a, k) \in [DOMAIN With(left, a, k) -> Tokens]
        /\ With(left, a, k)[a] = k
        /\ \A x \in DOMAIN left : x # a => With(left, a, k)[x] = left[x]
    BY <1>3, <1>4 DEF With
  <2> QED BY <2>1, <1>2, <1>4
<1>6. /\ remoteAddr' \in [Tokens -> Addresses \union {None}]
      /\ sendTo' \in [Tokens -> Addresses \union {None}]
      /\ \A j \in Tokens : remoteAddr'[j] = IF j = k THEN a ELSE remoteAddr[j]
      /\ \A j \in Tokens : sendTo'[j] = IF j = k THEN a ELSE sendTo[j]
  BY <1>2, <1>3 DEF IInv, TypeOK
<1>7. TypeOK'
  <2>1. /\ DOMAIN pending' \subseteq Addresses /\ DOMAIN conns' \subseteq Addresses
        /\ DOMAIN pending' \intersect DOMAIN conns' = {}
    <3>1. /\ DOMAIN pending \subseteq Addresses /\ DOMAIN conns \subseteq Addresses
          /\ DOMAIN pending \intersect DOMAIN conns = {}
      BY DEF IInv, TypeOK
    <3> QED BY <3>1, <1>2, <1>3, <1>5
  <2>2. \A j \in Tokens : seen'[j] \subseteq 1..nonce'[j]
    BY <1>2, SeenStep
  <2> QED BY <2>1, <2>2, <1>2, <1>3, <1>6 DEF TypeOK
<1>8. TablesAgree'
  <2>1. ASSUME NEW j \in tokens
        PROVE  remoteAddr'[j] \in DOMAIN conns' /\ conns'[remoteAddr'[j]] = j
    <3>1. CASE j = k
      BY <3>1, <1>3, <1>5, <1>6
    <3>2. CASE j # k
      <4>1. /\ remoteAddr[j] \in DOMAIN conns /\ conns[remoteAddr[j]] = j
            /\ remoteAddr'[j] = remoteAddr[j]
        BY <3>2, <1>3, <1>6 DEF IInv, TablesAgree
      <4>2. remoteAddr[j] # b
        BY <3>2, <4>1, <1>3
      <4> QED BY <4>1, <4>2, <1>5
    <3> QED BY <3>1, <3>2
  <2>2. ASSUME NEW x \in DOMAIN conns'
        PROVE  conns'[x] \in tokens /\ remoteAddr'[conns'[x]] = x
    <3>1. CASE x = a
      BY <3>1, <1>2, <1>3, <1>5, <1>6
    <3>2. CASE x # a
      <4>1. x \in DOMAIN conns /\ x # b /\ conns'[x] = conns[x]
        BY <3>2, <2>2, <1>5
      <4>2. conns[x] \in tokens /\ remoteAddr[conns[x]] = x
        BY <4>1 DEF IInv, TablesAgree
      <4>3. conns[x] # k /\ conns[x] \in Tokens
        BY <4>1, <4>2, <1>1, <1>3
      <4> QED BY <4>1, <4>2, <4>3, <1>6
    <3> QED BY <3>1, <3>2
  <2> QED BY <2>1, <2>2, <1>2 DEF TablesAgree
<1>9. \A j \in tokens : sendTo'[j] = remoteAddr'[j] /\ (j # k => sendTo'[j] = sendTo[j])
  BY <1>3, <1>6 DEF IInv
<1>10. sendTo'[k] = p.from
  BY <1>1, <1>3, <1>6
<1> QED BY <1>1, <1>2, <1>5, <1>7, <1>8, <1>9, <1>10, AcceptedStep

\* A connection goes: it leaves both tables.
LEMMA RemoveConnectionStep ==
  ASSUME IInv, NEW k \in Tokens, RemoveConnection(k)
  PROVE  IInv'
<1>1. PICK b : b = remoteAddr[k]
  OBVIOUS
<1>2. /\ k \in tokens /\ conns' = Without(conns, b) /\ tokens' = tokens \ {k}
      /\ UNCHANGED <<at, nonce, moves, net, pending, remoteAddr, sendTo, seen, last>>
  BY <1>1 DEF RemoveConnection
<1>3. /\ DOMAIN conns' = DOMAIN conns \ {b} /\ conns' \in [DOMAIN conns' -> Tokens]
      /\ \A x \in DOMAIN conns' : conns'[x] = conns[x]
  <2>1. conns \in [DOMAIN conns -> Tokens]
    BY DEF IInv
  <2>2. /\ DOMAIN Without(conns, b) = DOMAIN conns \ {b}
        /\ Without(conns, b) \in [DOMAIN Without(conns, b) -> Tokens]
        /\ \A x \in DOMAIN conns : x # b => Without(conns, b)[x] = conns[x]
    BY <2>1, WithoutFacts
  <2> QED BY <2>2, <1>2
<1>4. TypeOK' /\ AnswersToLast'
  BY <1>2, <1>3 DEF IInv, TypeOK, AnswersToLast
<1>5. b \in DOMAIN conns /\ conns[b] = k
  BY <1>1, <1>2 DEF IInv, TablesAgree
<1>6. TablesAgree'
  BY <1>1, <1>2, <1>3, <1>5 DEF IInv, TablesAgree
<1> QED BY <1>2, <1>3, <1>4, <1>6 DEF IInv

\* Every step preserves the invariant.
LEMMA NextIInv == IInv /\ [Next]_vars => IInv'
<1> SUFFICES ASSUME IInv, [Next]_vars PROVE IInv'
  OBVIOUS
<1>1. ASSUME NEW k \in Tokens, NEW a \in Addresses, BeginHandshake(k, a) PROVE IInv'
  BY <1>1, BeginHandshakeStep
<1>2. ASSUME NEW k \in Tokens, NEW a \in Addresses, ClientMoves(k, a) PROVE IInv'
  BY <1>2, ClientMovesStep
<1>3. ASSUME NEW k \in Tokens, ClientSends(k) PROVE IInv'
  BY <1>3, ClientSendsStep
<1>4. ASSUME NEW k \in Tokens, RemoveConnection(k) PROVE IInv'
  BY <1>4, RemoveConnectionStep
<1>5. ASSUME NEW a \in Addresses, Establish(a) PROVE IInv'
  BY <1>5, EstablishStep
<1>6. ASSUME NEW a \in Addresses, ExpirePending(a) PROVE IInv'
  BY <1>6, ExpirePendingStep
<1>7. ASSUME NEW p \in net, ProcessConnData(p) PROVE IInv'
  BY <1>7, ProcessConnDataStep
<1>8. ASSUME NEW p \in net, TryMigration(p) PROVE IInv'
  BY <1>8, TryMigrationStep
<1>9. ASSUME NEW p \in net, ProcessPending(p) \/ DropUnknown(p) \/ Lose(p) PROVE IInv'
  BY <1>9, PacketGone DEF ProcessPending, DropUnknown, Lose, Arrives
<1>10. CASE UNCHANGED vars
  BY <1>10, PacketGone DEF vars
<1> QED BY <1>1, <1>2, <1>3, <1>4, <1>5, <1>6, <1>7, <1>8, <1>9, <1>10 DEF Next

-----------------------------------------------------------------------------
(* The theorems.                                                            *)

\* The inductive invariant holds in every reachable state.
THEOREM Invariance == Spec => []IInv
<1>1. QED BY InitIInv, NextIInv, PTL DEF Spec

\* The address table, the token table and the connections always agree: a
\* migration or a removal never leaves or takes another connection's entry.
THEOREM TablesAgreeAlways == Spec => []TablesAgree
<1>1. IInv => TablesAgree
  BY DEF IInv
<1>2. QED BY <1>1, Invariance, PTL

\* No two live connections send to one address, and each sends to its own.
THEOREM SendsToOwnAddressAlways == Spec => []SendsToOwnAddress
<1>1. IInv => SendsToOwnAddress
  BY DEF IInv, TablesAgree, SendsToOwnAddress
<1>2. QED BY <1>1, Invariance, PTL

\* A live connection sends to where its last accepted packet came from.
THEOREM AnswersToLastAlways == Spec => []AnswersToLast
<1>1. IInv => AnswersToLast
  BY DEF IInv
<1>2. QED BY <1>1, Invariance, PTL
=============================================================================
