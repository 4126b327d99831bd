---------------------------- MODULE LimiterProofs ---------------------------
(***************************************************************************)
(* The handshake limiter for every number of addresses, table size, rate,  *)
(* burst and age: IInv is inductive, and the properties of module Limiter  *)
(* follow from it.                                                         *)
(***************************************************************************)
EXTENDS Limiter, TLAPS

-----------------------------------------------------------------------------
(* Arithmetic of one bucket: t tokens at time l, u tokens a handshake, x   *)
(* tokens' worth of handshakes admitted since s.                           *)

\* Least is the minimum of two numbers.
LEMMA LeastIsMinimum ==
  ASSUME NEW m \in Int, NEW n \in Int
  PROVE  /\ Least(m, n) \in Int
         /\ Least(m, n) <= m /\ Least(m, n) <= n
         /\ Least(m, n) = m \/ Least(m, n) = n
BY DEF Least

\* A unit of time refills a bucket by Rate at most.
LEMMA LevelGrowth ==
  ASSUME NEW b \in Nat, NEW r \in Nat, NEW t \in Nat, NEW l \in Nat, NEW n \in Nat
  PROVE  Least(b, t + ((n + 1) - l) * r) <= Least(b, t + (n - l) * r) + r
<1>1. t + ((n + 1) - l) * r = (t + (n - l) * r) + r
  OBVIOUS
<1>2. t + (n - l) * r \in Int
  OBVIOUS
<1> DEFINE v == t + (n - l) * r
<1> HIDE DEF v
<1>3. Least(b, v + r) <= Least(b, v) + r
  BY <1>2 DEF Least, v
<1> QED
  BY <1>1, <1>3 DEF v

\* The bound on what was admitted grows by Rate in a unit of time.
LEMMA BoundGrowth ==
  ASSUME NEW r \in Nat, NEW s \in Nat, NEW n \in Nat
  PROVE  r * ((n + 1) - s) = r * (n - s) + r
OBVIOUS

\* One handshake more costs Unit tokens more.
LEMMA CostOfOne ==
  ASSUME NEW x \in Nat, NEW u \in Nat
  PROVE  (x + 1) * u = x * u + u /\ x * u \in Nat
OBVIOUS

-----------------------------------------------------------------------------
(* The list.                                                               *)

\* The positions, the length and the elements of a list after MoveToFront.
LEMMA MoveToFrontFacts ==
  ASSUME NEW S, NEW s \in Seq(S), NEW a, NEW p \in 1..Len(s), s[p] = a,
         \A i, j \in 1..Len(s) : s[i] = s[j] => i = j
  PROVE  /\ Position(s, a) = p
         /\ MoveToFront(s, a) \in Seq(S)
         /\ Len(MoveToFront(s, a)) = Len(s)
         /\ \A k \in 1..Len(s) :
              MoveToFront(s, a)[k] =
                IF k = 1 THEN a ELSE IF k <= p THEN s[k - 1] ELSE s[k]
<1>1. Position(s, a) = p
  BY DEF Position
<1>2. MoveToFront(s, a) =
        [k \in 1..Len(s) |-> IF k = 1 THEN a ELSE IF k <= p THEN s[k - 1] ELSE s[k]]
  BY <1>1 DEF MoveToFront
<1>3. Len(s) \in Nat /\ \A k \in 1..Len(s) : s[k] \in S
  OBVIOUS
<1>4. \A k \in 1..Len(s) :
        (IF k = 1 THEN a ELSE IF k <= p THEN s[k - 1] ELSE s[k]) \in S
  BY <1>3
<1> QED
  BY <1>1, <1>2, <1>3, <1>4

\* The list after PushFront.
LEMMA PushFrontFacts ==
  ASSUME NEW S, NEW s \in Seq(S), NEW a \in S
  PROVE  /\ PushFront(s, a) \in Seq(S)
         /\ Len(PushFront(s, a)) = Len(s) + 1
         /\ \A k \in 1..(Len(s) + 1) :
              PushFront(s, a)[k] = IF k = 1 THEN a ELSE s[k - 1]
<1>1. Len(s) \in Nat /\ \A k \in 1..Len(s) : s[k] \in S
  OBVIOUS
<1>2. \A k \in 1..(Len(s) + 1) : (IF k = 1 THEN a ELSE s[k - 1]) \in S
  BY <1>1
<1> QED
  BY <1>1, <1>2 DEF PushFront

-----------------------------------------------------------------------------
(* One lemma per action.                                                   *)

USE DEF Tracked

\* The types of a bucket.
LEMMA BucketType ==
  ASSUME IInv, NEW a \in Tracked
  PROVE  /\ entries[a] \in [tokens : Nat, last : Nat]
         /\ entries[a].tokens \in Nat /\ entries[a].last \in Nat
         /\ entries[a].tokens < Burst /\ entries[a].last <= now
BY DEF IInv, TypeOK, NoneFull

\* A refill leaves between nothing and Burst in the bucket, and a charge leaves it
\* short of Burst.
LEMMA ChargeFacts ==
  ASSUME IInv, NEW a \in Tracked
  PROVE  LET e == Refill(entries[a])
         IN  /\ e.last = now /\ e.tokens \in Nat /\ e.tokens <= Burst
             /\ e.tokens = Level(a)
             /\ Charge(e) \in [tokens : Nat, last : Nat]
             /\ Charge(e).last = now
             /\ Charge(e).tokens < Burst
             /\ Charge(e).tokens = IF Admits(e) THEN e.tokens - Unit ELSE e.tokens
<1> DEFINE v == entries[a].tokens + (now - entries[a].last) * Rate
<1>1. /\ now \in Nat /\ Rate \in Nat /\ Burst \in Nat /\ Unit \in Nat /\ Unit > 0
      /\ Burst >= Unit
  BY LimiterAssumption DEF IInv, TypeOK
<1>2. /\ entries[a].tokens \in Nat /\ entries[a].last \in Nat
      /\ entries[a].last <= now
  BY BucketType
<1>3. v \in Nat
  <2>1. now - entries[a].last \in Nat
    BY <1>1, <1>2
  <2>2. (now - entries[a].last) * Rate \in Nat
    BY <2>1, <1>1
  <2> QED BY <2>2, <1>2
<1> DEFINE e == Refill(entries[a])
<1>4. e = [tokens |-> Least(Burst, v), last |-> now]
  BY DEF Refill
<1> HIDE DEF v
<1>5. Least(Burst, v) \in Nat /\ Least(Burst, v) <= Burst
  BY <1>1, <1>3 DEF Least
<1>6. e.last = now /\ e.tokens = Least(Burst, v)
  BY <1>4
<1>7. e.tokens = Level(a)
  BY <1>6 DEF Level, v
<1>8. Charge(e) = IF e.tokens >= Unit THEN [tokens |-> e.tokens - Unit, last |-> now] ELSE e
  BY <1>4 DEF Charge, Admits
<1>9. /\ Charge(e) \in [tokens : Nat, last : Nat]
      /\ Charge(e).last = now
      /\ Charge(e).tokens < Burst
      /\ Charge(e).tokens = IF Admits(e) THEN e.tokens - Unit ELSE e.tokens
  <2>1. CASE e.tokens >= Unit
    BY <2>1, <1>1, <1>4, <1>5, <1>6, <1>8 DEF Admits
  <2>2. CASE ~(e.tokens >= Unit)
    BY <2>2, <1>1, <1>4, <1>5, <1>6, <1>8 DEF Admits
  <2> QED BY <2>1, <2>2
<1> QED
  BY <1>5, <1>6, <1>7, <1>9

\* The constants and the variables as the steps below use them.
LEMMA Numbers ==
  ASSUME IInv
  PROVE  /\ now \in Nat /\ Rate \in Nat /\ Burst \in Nat /\ Unit \in Nat /\ Unit > 0
         /\ Burst >= Unit /\ MaxEntries \in Nat /\ MaxEntries > 0
         /\ watch.addr \in Addrs /\ watch.since \in Nat /\ watch.admitted \in Nat
         /\ watch = [addr |-> watch.addr, since |-> watch.since, admitted |-> watch.admitted]
         /\ watch.since <= now
         /\ order \in Seq(Addrs) /\ Len(order) \in Nat
BY LimiterAssumption, SMTT(30) DEF IInv, TypeOK, Budget

\* The products that make up the budget.
LEMMA Products ==
  ASSUME IInv
  PROVE  Rate * (now - watch.since) \in Nat /\ watch.admitted * Unit \in Nat
<1>1. now - watch.since \in Nat /\ Rate \in Nat /\ watch.admitted \in Nat /\ Unit \in Nat
  BY Numbers, SMTT(30)
<1> QED BY <1>1

\* The level of a bucket is between nothing and Burst.
LEMMA LevelRange ==
  ASSUME IInv, NEW a
  PROVE  Level(a) \in Nat /\ Level(a) <= Burst
<1>1. CASE a \in Tracked
  BY <1>1, ChargeFacts
<1>2. CASE a \notin Tracked
  BY <1>2, Numbers, SMTT(30) DEF Level
<1> QED BY <1>1, <1>2

\* allow for a known address.
LEMMA AllowKnownStep ==
  ASSUME IInv, NEW a \in Addrs, AllowKnown(a)
  PROVE  IInv'
<1> DEFINE e == Refill(entries[a])
           c == Charge(e)
<1>1. /\ a \in Tracked /\ now' = now
      /\ entries' = [entries EXCEPT ![a] = c]
      /\ order' = MoveToFront(order, a)
      /\ watch' = Count(watch, a, e)
      /\ answer' = [addr |-> a, gap |-> now - entries[a].last, ok |-> Admits(e)]
  BY DEF AllowKnown
<1>2. /\ e.last = now /\ e.tokens \in Nat /\ e.tokens <= Burst /\ e.tokens = Level(a)
      /\ c \in [tokens : Nat, last : Nat] /\ c.last = now /\ c.tokens < Burst
      /\ c.tokens = IF Admits(e) THEN e.tokens - Unit ELSE e.tokens
  BY <1>1, ChargeFacts
<1> HIDE DEF c, e
<1>3. /\ Tracked' = Tracked
      /\ \A x \in Tracked : entries'[x] = IF x = a THEN c ELSE entries[x]
  BY <1>1 DEF IInv, TypeOK
<1>4. PICK p \in 1..Len(order) : order[p] = a
  BY <1>1 DEF IInv, TablesAgree
<1>5. /\ order' \in Seq(Addrs) /\ Len(order') = Len(order)
      /\ \A k \in 1..Len(order) :
           order'[k] = IF k = 1 THEN a ELSE IF k <= p THEN order[k - 1] ELSE order[k]
  <2>1. order \in Seq(Addrs) /\ \A i, j \in 1..Len(order) : order[i] = order[j] => i = j
    BY DEF IInv, TypeOK, TablesAgree
  <2> QED BY <1>1, <1>4, <2>1, MoveToFrontFacts
<1>6. TypeOK'
  <2>1. entries' \in [Tracked' -> [tokens : Nat, last : Nat]]
    <3>1. \A x \in Tracked : entries'[x] \in [tokens : Nat, last : Nat]
      BY <1>2, <1>3, BucketType
    <3> QED BY <3>1, <1>1, <1>3 DEF IInv, TypeOK
  <2>2. watch' \in [addr : Addrs, since : Nat, admitted : Nat]
    BY <1>1, Numbers, SMTT(30) DEF Count
  <2>3. answer'.gap \in Nat
    BY <1>1, BucketType, Numbers, SMTT(30)
  <2>4. answer'.ok \in BOOLEAN
    BY <1>1 DEF Admits
  <2> QED BY <1>1, <1>5, <2>1, <2>2, <2>3, <2>4, Numbers, SMTT(30) DEF TypeOK
<1>7. TablesAgree'
  <2>1. \A k \in 1..Len(order) : order'[k] \in Tracked
    BY <1>1, <1>5, Numbers, SMTT(30) DEF IInv, TablesAgree
  <2>2. \A x \in Tracked : \E k \in 1..Len(order) : order'[k] = x
    <3> TAKE x \in Tracked
    <3>1. PICK q \in 1..Len(order) : order[q] = x
      BY DEF IInv, TablesAgree
    <3>2. CASE q = p
      BY <3>1, <3>2, <1>4, <1>5, Numbers, SMTT(30)
    <3>3. CASE q < p
      <4>1. q + 1 \in 1..Len(order) /\ q + 1 <= p /\ q + 1 # 1
        BY <3>3, Numbers, SMTT(30)
      <4>2. order'[q + 1] = order[(q + 1) - 1] /\ (q + 1) - 1 = q
        BY <4>1, <1>5
      <4> QED BY <4>1, <4>2, <3>1
    <3>4. CASE q > p
      BY <3>1, <3>4, <1>5, Numbers, SMTT(30)
    <3> QED BY <3>2, <3>3, <3>4, Numbers, SMTT(30)
  <2>3. ASSUME NEW i \in 1..Len(order), NEW j \in 1..Len(order), order'[i] = order'[j]
        PROVE  i = j
    <3> DEFINE old(k) == IF k = 1 THEN p ELSE IF k <= p THEN k - 1 ELSE k
    <3>1. old(i) \in 1..Len(order) /\ old(j) \in 1..Len(order)
      BY Numbers, SMTT(30)
    <3>2. order'[i] = order[old(i)] /\ order'[j] = order[old(j)]
      BY <1>4, <1>5
    <3>3. old(i) = old(j)
      BY <2>3, <3>1, <3>2 DEF IInv, TablesAgree
    <3> QED BY <3>3, Numbers, SMTT(30)
  <2>4. {order'[k] : k \in 1..Len(order')} = Tracked
    <3>1. {order'[k] : k \in 1..Len(order)} = Tracked
      BY <2>1, <2>2, Zenon
    <3> QED BY <3>1, <1>5
  <2>5. Len(order) <= MaxEntries
    BY DEF IInv, TablesAgree
  <2> QED BY <2>3, <2>4, <2>5, <1>3, <1>5 DEF TablesAgree
<1>8. RecentFirst'
  <2> SUFFICES ASSUME NEW i \in 1..Len(order), NEW j \in 1..Len(order), i < j
               PROVE  entries'[order'[i]].last >= entries'[order'[j]].last
    BY <1>5 DEF RecentFirst
  <2>1. \A k \in 1..Len(order) : order[k] \in Tracked
    BY DEF IInv, TablesAgree
  <2>2. \A x \in Tracked : /\ entries'[x].last \in Nat /\ entries'[x].last <= now
                           /\ x # a => entries'[x].last = entries[x].last
    BY <1>2, <1>3, BucketType, Numbers, SMTT(30)
  <2>3. \A x \in Tracked : entries[x].last \in Nat
    BY BucketType
  <2>4. \A k \in 1..Len(order) : order'[k] \in Tracked
    BY <1>3, <1>5, <1>7 DEF TablesAgree
  <2>5. CASE i = 1
    <3>1. order'[i] = a
      BY <2>5, <1>5
    <3>2. entries'[order'[i]].last = now
      BY <3>1, <1>1, <1>2, <1>3
    <3> QED BY <3>2, <2>2, <2>4, Numbers, SMTT(30)
  <2>6. CASE i # 1
    <3> DEFINE old(k) == IF k <= p THEN k - 1 ELSE k
    <3>1. /\ old(i) \in 1..Len(order) /\ old(j) \in 1..Len(order) /\ old(i) < old(j)
          /\ old(i) # p /\ old(j) # p
      BY <2>6, Numbers, SMTT(30)
    <3>2. order'[i] = order[old(i)] /\ order'[j] = order[old(j)]
      <4>1. order'[i] = order[old(i)]
        BY <2>6, <1>5
      <4>2. j # 1
        BY <2>6
      <4>3. order'[j] = order[old(j)]
        BY <4>2, <1>5
      <4> QED BY <4>1, <4>3
    <3>3. order[old(i)] # a /\ order[old(j)] # a
      BY <3>1, <1>4 DEF IInv, TablesAgree
    <3>4. entries[order[old(i)]].last >= entries[order[old(j)]].last
      BY <3>1 DEF IInv, RecentFirst
    <3> QED BY <3>1, <3>2, <3>3, <3>4, <2>1, <2>2
  <2> QED BY <2>5, <2>6
<1>9. NoneFull'
  BY <1>1, <1>2, <1>3, BucketType, Numbers, SMTT(30) DEF NoneFull
<1>10. Budget'
  <2>1. Level(a)' = c.tokens
    <3>1. entries'[a] = c
      BY <1>1, <1>3
    <3>2. c.tokens + (now - c.last) * Rate = c.tokens
      BY <1>2, Numbers, SMTT(30)
    <3> QED BY <3>1, <3>2, <1>1, <1>2, <1>3, Numbers, SMTT(30) DEF Level, Least
  <2>2. \A x : x # a => Level(x)' = Level(x)
    BY <1>1, <1>3 DEF Level
  <2>3. /\ Level(watch.addr) + watch.admitted * Unit <= Burst + Rate * (now - watch.since)
    BY DEF IInv, Budget
  <2>4. CASE watch.addr = a /\ Admits(e)
    <3>1. /\ watch'.addr = a /\ watch'.since = watch.since
          /\ watch'.admitted = watch.admitted + 1
      BY <2>4, <1>1, Numbers, SMTT(30) DEF Count
    <3>2. watch'.admitted * Unit = watch.admitted * Unit + Unit
      BY <3>1, CostOfOne, Numbers, SMTT(30)
    <3>3. Level(a)' = Level(a) - Unit
      BY <2>1, <2>4, <1>2
    <3> QED BY <3>1, <3>2, <3>3, <2>3, <2>4, <1>1, LevelRange, Numbers, SMTT(30) DEF Budget
  <2>5. CASE ~(watch.addr = a /\ Admits(e))
    <3>1. watch' = watch
      BY <2>5, <1>1 DEF Count
    <3>2. Level(a)' = Level(a) \/ watch.addr # a
      BY <2>1, <2>5, <1>2
    <3>3. CASE watch.addr = a
      BY <3>1, <3>2, <3>3, <2>3, <1>1, Numbers DEF Budget
    <3>4. CASE watch.addr # a
      BY <3>1, <3>4, <2>2, <2>3, <1>1, Numbers DEF Budget
    <3> QED BY <3>3, <3>4
  <2> QED BY <2>4, <2>5
<1>11. PacedIsAdmitted'
  <2> SUFFICES ASSUME (now - entries[a].last) * Rate >= Unit
               PROVE  Admits(e)
    BY <1>1 DEF PacedIsAdmitted
  <2> DEFINE g == (now - entries[a].last) * Rate
  <2>1. e.tokens = Least(Burst, entries[a].tokens + g)
    BY <1>1, <1>2 DEF Level
  <2>2. g \in Int /\ g >= Unit
    BY BucketType, <1>1, Numbers, SMTT(30)
  <2> HIDE DEF g
  <2> QED BY <2>1, <2>2, <1>1, BucketType, Numbers, SMTT(30) DEF Least, Admits
<1> QED
  BY <1>6, <1>7, <1>8, <1>9, <1>10, <1>11 DEF IInv

\* The list that allow pushes a new address on: an overfull one lost its back, and
\* with it the table its least recently used address.
LEMMA KeptFacts ==
  ASSUME IInv
  PROVE  LET kept == IF Victims = {} THEN order ELSE SubSeq(order, 1, Len(order) - 1)
         IN  /\ kept \in Seq(Addrs) /\ Len(kept) \in Nat
             /\ Len(kept) < MaxEntries /\ Len(kept) <= Len(order)
             /\ \A k \in 1..Len(kept) : kept[k] = order[k]
             /\ Tracked \ Victims = {kept[k] : k \in 1..Len(kept)}
             /\ Victims \subseteq Tracked
<1> DEFINE kept == IF Victims = {} THEN order ELSE SubSeq(order, 1, Len(order) - 1)
<1>1. /\ \A k \in 1..Len(order) : order[k] \in Tracked
      /\ \A x \in Tracked : \E k \in 1..Len(order) : order[k] = x
      /\ \A i, j \in 1..Len(order) : order[i] = order[j] => i = j
      /\ Len(order) <= MaxEntries
  BY DEF IInv, TablesAgree
<1>2. CASE Len(order) >= MaxEntries
  <2>1. Victims = {order[Len(order)]} /\ kept = SubSeq(order, 1, Len(order) - 1)
    BY <1>2 DEF Victims
  <2>2. Len(order) \in 1..Len(order) /\ Len(order) - 1 \in Nat
    BY <1>2, Numbers, SMTT(30)
  <2>3. /\ kept \in Seq(Addrs) /\ Len(kept) = Len(order) - 1
        /\ \A k \in 1..(Len(order) - 1) : kept[k] = order[k]
    <3> DEFINE n == Len(order) - 1
    <3>1. n \in Nat /\ n <= Len(order) /\ order \in Seq(Addrs)
      BY <2>2, Numbers, SMTT(30)
    <3>2. kept = SubSeq(order, 1, n)
      BY <2>1
    <3> HIDE DEF n, kept
    <3>3. Len(kept) = n
      BY <3>1, <3>2
    <3>4. \A k \in 1..n : kept[k] = order[k] /\ order[k] \in Addrs
      BY <3>1, <3>2
    <3>5. kept = [k \in 1..n |-> order[k]]
      BY <3>1, <3>2
    <3>6. kept \in Seq(Addrs)
      BY <3>1, <3>4, <3>5
    <3> QED BY <3>3, <3>4, <3>6 DEF n
  <2> HIDE DEF kept
  <2>4. \A x \in Tracked \ Victims : \E k \in 1..Len(kept) : kept[k] = x
    <3> TAKE x \in Tracked \ Victims
    <3>1. PICK k \in 1..Len(order) : order[k] = x
      BY <1>1
    <3>2. k # Len(order)
      BY <3>1, <2>1
    <3>3. k \in 1..(Len(order) - 1)
      BY <3>2, Numbers, SMTT(30)
    <3> QED BY <3>1, <3>3, <2>3
  <2>5. \A k \in 1..Len(kept) : kept[k] \in Tracked \ Victims
    <3> TAKE k \in 1..Len(kept)
    <3>1. k \in 1..Len(order) /\ k # Len(order) /\ kept[k] = order[k]
      BY <2>3, <2>2, Numbers, SMTT(30)
    <3> QED BY <3>1, <2>1, <2>2, <1>1
  <2>6. Tracked \ Victims = {kept[k] : k \in 1..Len(kept)}
    BY <2>4, <2>5, Zenon
  <2>7. Victims \subseteq Tracked
    BY <1>1, <2>1, <2>2
  <2>8. /\ Len(kept) \in Nat /\ Len(kept) < MaxEntries /\ Len(kept) <= Len(order)
        /\ \A k \in 1..Len(kept) : kept[k] = order[k]
    BY <1>1, <2>2, <2>3, Numbers, SMTT(30)
  <2> QED BY <2>3, <2>6, <2>7, <2>8 DEF kept
<1>3. CASE ~(Len(order) >= MaxEntries)
  <2>1. Victims = {} /\ kept = order
    BY <1>3 DEF Victims
  <2> HIDE DEF kept
  <2>2. Tracked = {order[k] : k \in 1..Len(order)}
    BY DEF IInv, TablesAgree
  <2>3. Len(order) < MaxEntries
    BY <1>3, Numbers, SMTT(30)
  <2>4. kept \in Seq(Addrs) /\ Len(kept) \in Nat /\ Len(kept) <= Len(order)
    BY <2>1, Numbers, SMTT(30)
  <2> QED BY <2>1, <2>2, <2>3, <2>4 DEF kept
<1> QED BY <1>2, <1>3

\* allow for a new address.
LEMMA AllowNewStep ==
  ASSUME IInv, NEW a \in Addrs, AllowNew(a)
  PROVE  IInv'
<1> DEFINE e    == [tokens |-> Burst, last |-> now]
           c    == Charge(e)
           kept == IF Victims = {} THEN order ELSE SubSeq(order, 1, Len(order) - 1)
           w    == IF watch.addr \in Victims
                   THEN [watch EXCEPT !.since = now, !.admitted = 0] ELSE watch
           T    == Tracked \ Victims
<1>1. /\ a \notin Tracked /\ now' = now
      /\ entries' = [x \in T \union {a} |-> IF x = a THEN c ELSE entries[x]]
      /\ order' = PushFront(kept, a)
      /\ watch' = Count(w, a, e)
      /\ answer' = [addr |-> a, gap |-> now, ok |-> Admits(e)]
  BY DEF AllowNew
<1>2. /\ Admits(e)
      /\ c = [tokens |-> Burst - Unit, last |-> now]
      /\ Burst - Unit \in Nat /\ Burst - Unit < Burst
  BY Numbers, SMTT(30) DEF Admits, Charge
<1>3. /\ kept \in Seq(Addrs) /\ Len(kept) \in Nat /\ Len(kept) < MaxEntries
      /\ Len(kept) <= Len(order) /\ \A k \in 1..Len(kept) : kept[k] = order[k]
      /\ T = {kept[k] : k \in 1..Len(kept)} /\ T \subseteq Tracked
      /\ Victims \subseteq Tracked
  BY KeptFacts
<1>4. /\ watch.addr \in Victims => w = [addr |-> watch.addr, since |-> now, admitted |-> 0]
      /\ watch.addr \notin Victims => w = watch
  BY Numbers
<1>5. /\ watch'.addr = watch.addr
      /\ watch.addr = a => /\ watch' = [addr |-> a, since |-> watch.since,
                                         admitted |-> watch.admitted + 1]
      /\ watch.addr # a => watch' = w
  <2>1. CASE watch.addr = a
    <3>1. w = watch
      BY <2>1, <1>1, <1>3, <1>4
    <3> QED BY <2>1, <3>1, <1>1, <1>2, Numbers DEF Count
  <2>2. CASE watch.addr # a
    BY <2>2, <1>1, <1>4 DEF Count
  <2> QED BY <2>1, <2>2
<1> HIDE DEF c, e, kept, w, T
<1>6. /\ Tracked' = T \union {a}
      /\ entries'[a] = c
      /\ \A x \in T : x # a /\ entries'[x] = entries[x]
  BY <1>1, <1>3
<1>7. /\ order' \in Seq(Addrs) /\ Len(order') = Len(kept) + 1
      /\ \A k \in 1..(Len(kept) + 1) : order'[k] = IF k = 1 THEN a ELSE kept[k - 1]
  <2>1. kept \in Seq(Addrs)
    BY <1>3
  <2>2. /\ PushFront(kept, a) \in Seq(Addrs) /\ Len(PushFront(kept, a)) = Len(kept) + 1
        /\ \A k \in 1..(Len(kept) + 1) :
             PushFront(kept, a)[k] = IF k = 1 THEN a ELSE kept[k - 1]
    BY <2>1, PushFrontFacts
  <2>3. order' = PushFront(kept, a)
    BY <1>1
  <2> QED BY <2>2, <2>3
<1>8. TypeOK'
  <2>1. entries' \in [Tracked' -> [tokens : Nat, last : Nat]]
    <3>1. \A x \in T \union {a} : entries'[x] \in [tokens : Nat, last : Nat]
      <4>1. \A x \in T : entries'[x] \in [tokens : Nat, last : Nat]
        BY <1>3, <1>6, BucketType
      <4>2. entries'[a] \in [tokens : Nat, last : Nat]
        BY <1>2, <1>6, Numbers, SMTT(30)
      <4> QED BY <4>1, <4>2
    <3> QED BY <3>1, <1>1, <1>6
  <2>2. watch' \in [addr : Addrs, since : Nat, admitted : Nat]
    BY <1>4, <1>5, Numbers, SMTT(30)
  <2>3. answer'.gap \in Nat /\ answer'.ok \in BOOLEAN
    BY <1>1, <1>2, Numbers, SMTT(30)
  <2> QED BY <1>1, <1>7, <2>1, <2>2, <2>3, Numbers, SMTT(30) DEF TypeOK
<1>9. TablesAgree'
  <2>1. \A k \in 1..(Len(kept) + 1) : order'[k] \in T \union {a}
    <3> TAKE k \in 1..(Len(kept) + 1)
    <3>1. CASE k = 1
      BY <3>1, <1>7
    <3>2. CASE k # 1
      <4>1. k - 1 \in 1..Len(kept)
        BY <3>2, <1>3
      <4> QED BY <4>1, <3>2, <1>7, <1>3
    <3> QED BY <3>1, <3>2
  <2>2. \A x \in T \union {a} : \E k \in 1..(Len(kept) + 1) : order'[k] = x
    <3> TAKE x \in T \union {a}
    <3>1. CASE x = a
      BY <3>1, <1>3, <1>7
    <3>2. CASE x \in T
      <4>1. PICK q \in 1..Len(kept) : kept[q] = x
        BY <3>2, <1>3
      <4>2. q + 1 \in 1..(Len(kept) + 1) /\ q + 1 # 1 /\ (q + 1) - 1 = q
        BY <1>3
      <4>3. order'[q + 1] = kept[(q + 1) - 1]
        BY <4>2, <1>7
      <4> QED BY <4>1, <4>2, <4>3
    <3> QED BY <3>1, <3>2
  <2>3. {order'[k] : k \in 1..Len(order')} = Tracked'
    <3>1. {order'[k] : k \in 1..(Len(kept) + 1)} = T \union {a}
      BY <2>1, <2>2, Zenon
    <3> QED BY <3>1, <1>6, <1>7
  <2>4. ASSUME NEW i \in 1..(Len(kept) + 1), NEW j \in 1..(Len(kept) + 1), order'[i] = order'[j]
        PROVE  i = j
    <3>1. \A k \in 1..(Len(kept) + 1) :
            k # 1 => /\ k - 1 \in 1..Len(kept) /\ k - 1 \in 1..Len(order)
                     /\ order'[k] = order[k - 1] /\ order'[k] # a
      <4> TAKE k \in 1..(Len(kept) + 1)
      <4> HAVE k # 1
      <4>1. k - 1 \in 1..Len(kept) /\ k - 1 \in 1..Len(order)
        BY <1>3, Numbers, SMTT(30)
      <4>2. order'[k] = kept[k - 1]
        BY <1>7
      <4>3. kept[k - 1] = order[k - 1] /\ kept[k - 1] \in Tracked
        BY <4>1, <1>3
      <4> QED BY <4>1, <4>2, <4>3, <1>1
    <3>2. order'[1] = a
      BY <1>3, <1>7
    <3>3. CASE i = 1 \/ j = 1
      BY <3>1, <3>2, <3>3, <2>4
    <3>4. CASE i # 1 /\ j # 1
      <4>1. order[i - 1] = order[j - 1] /\ i - 1 \in 1..Len(order) /\ j - 1 \in 1..Len(order)
        BY <3>1, <3>4, <2>4
      <4>2. i - 1 = j - 1
        BY <4>1 DEF IInv, TablesAgree
      <4> QED BY <4>2, <1>3
    <3> QED BY <3>3, <3>4
  <2>5. Len(order') <= MaxEntries
    BY <1>3, <1>7, Numbers, SMTT(30)
  <2> QED BY <2>3, <2>4, <2>5, <1>7 DEF TablesAgree
<1>10. /\ \A x \in Tracked' : entries'[x].last \in Nat /\ entries'[x].last <= now
       /\ \A x \in Tracked' : entries'[x].tokens < Burst
  <2>1. \A x \in T : /\ entries[x].last \in Nat /\ entries[x].last <= now
                     /\ entries[x].tokens < Burst
    BY <1>3, BucketType
  <2>2. c.last = now /\ c.tokens < Burst
    BY <1>2
  <2> QED BY <2>1, <2>2, <1>6, Numbers, SMTT(30)
<1>11. RecentFirst'
  <2> SUFFICES ASSUME NEW i \in 1..(Len(kept) + 1), NEW j \in 1..(Len(kept) + 1), i < j
               PROVE  entries'[order'[i]].last >= entries'[order'[j]].last
    BY <1>7 DEF RecentFirst
  <2>1. order'[i] \in Tracked' /\ order'[j] \in Tracked'
    BY <1>7, <1>9 DEF TablesAgree
  <2>2. CASE i = 1
    <3>1. entries'[order'[i]].last = now
      BY <2>2, <1>2, <1>6, <1>7
    <3> QED BY <3>1, <2>1, <1>10
  <2>3. CASE i # 1
    <3>1. /\ i - 1 \in 1..Len(kept) /\ j - 1 \in 1..Len(kept) /\ i - 1 < j - 1 /\ j # 1
          /\ i - 1 \in 1..Len(order) /\ j - 1 \in 1..Len(order)
      <4>1. Len(kept) \in Nat /\ Len(kept) <= Len(order) /\ Len(order) \in Nat
        BY <1>3, Numbers, SMTT(30)
      <4> QED BY <4>1, <2>3
    <3>2. order'[i] = kept[i - 1] /\ order'[j] = kept[j - 1]
      BY <2>3, <3>1, <1>7
    <3>3. /\ kept[i - 1] = order[i - 1] /\ kept[j - 1] = order[j - 1]
          /\ kept[i - 1] \in T /\ kept[j - 1] \in T
      BY <3>1, <1>3
    <3>4. entries[order[i - 1]].last >= entries[order[j - 1]].last
      BY <3>1 DEF IInv, RecentFirst
    <3>5. /\ entries'[order'[i]] = entries[order[i - 1]]
          /\ entries'[order'[j]] = entries[order[j - 1]]
      BY <3>2, <3>3, <1>6
    <3> QED BY <3>4, <3>5
  <2> QED BY <2>2, <2>3
<1>12. NoneFull'
  BY <1>1, <1>10 DEF NoneFull
<1>13. Budget'
  <2>1. Level(watch.addr) + watch.admitted * Unit <= Burst + Rate * (now - watch.since)
    BY DEF IInv, Budget
  <2>2. CASE watch.addr = a
    <3>1. /\ watch'.since = watch.since /\ watch'.admitted = watch.admitted + 1
          /\ watch'.addr = a
      BY <2>2, <1>5
    <3>2. Level(a)' = Burst - Unit
      <4>1. entries'[a].tokens = Burst - Unit /\ entries'[a].last = now /\ a \in Tracked'
        BY <1>2, <1>6
      <4>2. (now - now) * Rate = 0
        BY Numbers, SMTT(30)
      <4>3. (Burst - Unit) + (now - now) * Rate = Burst - Unit
        BY <4>2, <1>2
      <4> QED BY <4>1, <4>3, <1>1, <1>2, Numbers, SMTT(30) DEF Level, Least
    <3>3. Level(a) = Burst
      BY <1>1 DEF Level
    <3>4. watch'.admitted * Unit = watch.admitted * Unit + Unit
      BY <3>1, CostOfOne, Numbers, SMTT(30)
    <3> QED BY <3>1, <3>2, <3>3, <3>4, <2>1, <2>2, <1>1, Products, Numbers, SMTT(30) DEF Budget
  <2>3. CASE watch.addr \in Victims /\ watch.addr # a
    <3>1. watch' = [addr |-> watch.addr, since |-> now, admitted |-> 0]
      BY <2>3, <1>4, <1>5
    <3>2. watch.addr \notin Tracked'
      BY <2>3, <1>6 DEF T
    <3>3. \A x : x \notin Tracked' => Level(x)' = Burst
      BY DEF Level
    <3>4. 0 * Unit = 0 /\ Rate * (now - now) = 0
      BY Numbers, SMTT(30)
    <3> QED BY <3>1, <3>2, <3>3, <3>4, <1>1, Numbers, SMTT(30) DEF Budget
  <2>4. CASE watch.addr \notin Victims /\ watch.addr # a
    <3>1. watch' = watch
      BY <2>4, <1>4, <1>5
    <3>2. \A x : x \notin Victims /\ x # a => Level(x)' = Level(x)
      <4> TAKE x
      <4> HAVE x \notin Victims /\ x # a
      <4>1. CASE x \in Tracked
        BY <4>1, <1>1, <1>6 DEF Level, T
      <4>2. CASE x \notin Tracked
        <5>1. x \notin Tracked'
          BY <4>2, <1>6 DEF T
        <5> QED BY <4>2, <5>1 DEF Level
      <4> QED BY <4>1, <4>2
    <3> QED BY <3>1, <3>2, <2>1, <2>4, <1>1, Numbers, SMTT(30) DEF Budget
  <2> QED BY <2>2, <2>3, <2>4
<1>14. PacedIsAdmitted'
  BY <1>1, <1>2 DEF PacedIsAdmitted
<1> QED
  BY <1>8, <1>9, <1>11, <1>12, <1>13, <1>14 DEF IInv

\* cleanup finds no full bucket at the back of the list, and drops nothing.
LEMMA CleanupKeeps ==
  ASSUME IInv, NEW t, Cleanup(t)
  PROVE  UNCHANGED <<entries, order>>
<1>1. PICK n \in Stops(t) : /\ order' = SubSeq(order, 1, n)
                            /\ entries' = [a \in {order[k] : k \in 1..n} |-> entries[a]]
  BY DEF Cleanup
<1>2. \A k \in 1..Len(order) : ~Idle(entries[order[k]], t)
  <2> TAKE k \in 1..Len(order)
  <2>1. order[k] \in Tracked
    BY DEF IInv, TablesAgree
  <2>2. entries[order[k]].tokens \in Nat /\ entries[order[k]].tokens < Burst
    BY <2>1, BucketType
  <2> QED BY <2>2, Numbers, SMTT(30) DEF Idle
<1>3. n \in 0..Len(order) /\ \A k \in (n + 1)..Len(order) : Idle(entries[order[k]], t)
  BY <1>1 DEF Stops
<1>4. n = Len(order)
  <2> SUFFICES ASSUME n # Len(order) PROVE FALSE
    OBVIOUS
  <2>1. Len(order) \in (n + 1)..Len(order) /\ Len(order) \in 1..Len(order)
    BY <1>3, Numbers, SMTT(30)
  <2> QED BY <2>1, <1>2, <1>3
<1>5. order' = order
  <2>1. order \in Seq(Addrs) /\ order' = SubSeq(order, 1, Len(order))
    BY <1>1, <1>4, Numbers, SMTT(30)
  <2> QED BY <2>1
<1>6. entries' = entries
  <2>1. {order[k] : k \in 1..Len(order)} = DOMAIN entries
    BY DEF IInv, TablesAgree
  <2>2. entries' = [a \in DOMAIN entries |-> entries[a]]
    BY <1>1, <1>4, <2>1
  <2>3. entries = [a \in DOMAIN entries |-> entries[a]]
    BY DEF IInv, TypeOK
  <2> QED BY <2>2, <2>3
<1> QED BY <1>5, <1>6

\* cleanup.
LEMMA CleanupStep ==
  ASSUME IInv, NEW t, Cleanup(t)
  PROVE  IInv'
<1>1. now' = now /\ watch' = watch /\ answer' = answer
  BY DEF Cleanup
<1>2. entries' = entries /\ order' = order
  BY CleanupKeeps
<1>3. TypeOK' /\ TablesAgree' /\ RecentFirst' /\ NoneFull' /\ PacedIsAdmitted'
  BY <1>1, <1>2, SMTT(30) DEF IInv, TypeOK, TablesAgree, RecentFirst, NoneFull, PacedIsAdmitted
<1>4. Budget'
  <2>1. \A x : Level(x)' = Level(x)
    BY <1>1, <1>2 DEF Level
  <2> QED BY <2>1, <1>1 DEF IInv, Budget
<1> QED
  BY <1>3, <1>4 DEF IInv

\* Time passes.
LEMMA AdvanceStep ==
  ASSUME IInv, Advance
  PROVE  IInv'
<1>1. /\ now' = now + 1 /\ entries' = entries /\ order' = order /\ watch' = watch
      /\ answer' = answer
  BY DEF Advance
<1>2. TypeOK' /\ TablesAgree' /\ RecentFirst' /\ PacedIsAdmitted'
  BY <1>1 DEF IInv, TypeOK, TablesAgree, RecentFirst, PacedIsAdmitted
<1>3. NoneFull'
  BY <1>1, BucketType, Numbers, SMTT(30) DEF NoneFull
<1>4. Budget'
  <2>1. Level(watch.addr) + watch.admitted * Unit <= Burst + Rate * (now - watch.since)
    BY DEF IInv, Budget
  <2>2. \A x : Level(x)' \in Int /\ Level(x)' <= Level(x) + Rate
    <3> TAKE x
    <3>1. CASE x \in Tracked
      <4> DEFINE tk == entries[x].tokens
                 ls == entries[x].last
      <4>1. tk \in Nat /\ ls \in Nat
        BY <3>1, BucketType
      <4>2. /\ Level(x) = Least(Burst, tk + (now - ls) * Rate)
            /\ Level(x)' = Least(Burst, tk + ((now + 1) - ls) * Rate)
        BY <3>1, <1>1 DEF Level
      <4> HIDE DEF tk, ls
      <4>3. Least(Burst, tk + ((now + 1) - ls) * Rate) <= Least(Burst, tk + (now - ls) * Rate) + Rate
        BY <4>1, Numbers, SMTT(30), LevelGrowth
      <4>4. Least(Burst, tk + ((now + 1) - ls) * Rate) \in Int
        <5>1. tk + ((now + 1) - ls) * Rate \in Int
          BY <4>1, Numbers, SMTT(30)
        <5> QED BY <5>1, Numbers, SMTT(30), LeastIsMinimum
      <4> QED BY <4>2, <4>3, <4>4
    <3>2. CASE x \notin Tracked
      BY <3>2, <1>1, Numbers, SMTT(30) DEF Level
    <3> QED BY <3>1, <3>2
  <2>3. Rate * ((now + 1) - watch.since) = Rate * (now - watch.since) + Rate
    BY BoundGrowth, Numbers, SMTT(30)
  <2>4. PICK x : x = watch.addr
    OBVIOUS
  <2> DEFINE b0 == Rate * (now - watch.since)
             b1 == Rate * ((now + 1) - watch.since)
             m  == watch.admitted * Unit
  <2>5. /\ b0 \in Nat /\ m \in Nat /\ b1 = b0 + Rate /\ Level(x) + m <= Burst + b0
        /\ Level(x) \in Nat
    BY <2>1, <2>3, <2>4, Products, LevelRange
  <2>6. Budget' <=> watch.since <= now + 1 /\ Level(x)' + m <= Burst + b1
    BY <1>1, <2>4 DEF Budget
  <2> HIDE DEF b0, b1, m
  <2>7. Level(x)' \in Int /\ Level(x)' <= Level(x) + Rate
    BY <2>2
  <2>8. Level(x)' + m <= Burst + b1
    <3>1. Burst \in Nat /\ Rate \in Nat
      BY Numbers, SMTT(30)
    <3>2. PICK n \in Int : n = Level(x)'
      BY <2>7
    <3>3. PICK l \in Nat : l = Level(x)
      BY <2>5
    <3>4. n <= l + Rate /\ l + m <= Burst + b0 /\ b0 \in Nat /\ m \in Nat /\ b1 = b0 + Rate
      BY <2>5, <2>7, <3>2, <3>3
    <3>5. n + m <= Burst + b1
      BY <3>1, <3>4
    <3> QED BY <3>2, <3>5
  <2>9. watch.since <= now + 1
    BY Numbers, SMTT(30)
  <2> QED BY <2>6, <2>8, <2>9
<1> QED
  BY <1>2, <1>3, <1>4 DEF IInv

\* A new watch.
LEMMA WatchStep ==
  ASSUME IInv, NEW a \in Addrs, Watch(a)
  PROVE  IInv'
<1>1. /\ watch' = [addr |-> a, since |-> now, admitted |-> 0] /\ now' = now
      /\ entries' = entries /\ order' = order /\ answer' = answer
  BY DEF Watch
<1>2. TypeOK' /\ TablesAgree' /\ RecentFirst' /\ NoneFull' /\ PacedIsAdmitted'
  BY <1>1, Numbers, SMTT(30)
     DEF IInv, TypeOK, TablesAgree, RecentFirst, NoneFull, PacedIsAdmitted
<1>3. Budget'
  <2>1. \A x : Level(x)' = Level(x)
    BY <1>1 DEF Level
  <2>2. watch'.addr = a /\ watch'.since = now /\ watch'.admitted = 0
    BY <1>1
  <2>3. 0 * Unit = 0 /\ Rate * (now - now) = 0
    BY Numbers, SMTT(30)
  <2>4. Level(a) \in Nat /\ Level(a) <= Burst
    BY LevelRange
  <2> QED BY <2>1, <2>2, <2>3, <2>4, <1>1, Numbers, SMTT(30) DEF Budget
<1> QED
  BY <1>2, <1>3 DEF IInv

-----------------------------------------------------------------------------
(* The theorems.                                                           *)

\* newHandshakeLimiter: the empty table satisfies the invariant.
LEMMA InitHolds ==
  ASSUME Init
  PROVE  IInv
<1>1. /\ now = 0 /\ order = << >> /\ Tracked = {}
      /\ watch.addr \in Addrs /\ watch.since = 0 /\ watch.admitted = 0
      /\ watch \in [addr : Addrs, since : {0}, admitted : {0}]
      /\ answer = [addr |-> 0, gap |-> 0, ok |-> TRUE]
  BY DEF Init, NoCall
<1>2. TypeOK
  <2>1. entries \in [Tracked -> [tokens : Nat, last : Nat]]
    BY DEF Init
  <2> QED BY <1>1, <2>1 DEF TypeOK
<1>3. TablesAgree /\ RecentFirst /\ NoneFull /\ PacedIsAdmitted
  <2>1. Len(order) = 0 /\ 1..Len(order) = {}
    BY <1>1
  <2>2. TablesAgree
    BY <1>1, <2>1, LimiterAssumption DEF TablesAgree
  <2>3. RecentFirst
    BY <2>1 DEF RecentFirst
  <2>4. NoneFull /\ PacedIsAdmitted
    BY <1>1 DEF NoneFull, PacedIsAdmitted
  <2> QED BY <2>2, <2>3, <2>4
<1>4. Budget
  <2>1. Level(watch.addr) = Burst
    BY <1>1 DEF Level
  <2>2. 0 * Unit = 0 /\ Rate * (0 - 0) = 0
    BY LimiterAssumption
  <2> QED BY <1>1, <2>1, <2>2, LimiterAssumption DEF Budget
<1> QED
  BY <1>2, <1>3, <1>4 DEF IInv

\* One step of the limiter keeps the invariant.
LEMMA StepHolds ==
  ASSUME IInv, [Next]_vars
  PROVE  IInv'
<1>1. CASE \E a \in Addrs : AllowKnown(a) \/ AllowNew(a) \/ Watch(a)
  BY <1>1, AllowKnownStep, AllowNewStep, WatchStep
<1>2. CASE \E t \in 0..now : Cleanup(t)
  BY <1>2, CleanupStep
<1>3. CASE Advance
  BY <1>3, AdvanceStep
<1>4. CASE UNCHANGED vars
  <2>1. /\ now' = now /\ entries' = entries /\ order' = order /\ watch' = watch
        /\ answer' = answer
    BY <1>4 DEF vars
  <2>2. TypeOK' /\ TablesAgree' /\ RecentFirst' /\ NoneFull' /\ PacedIsAdmitted'
    BY <2>1 DEF IInv, TypeOK, TablesAgree, RecentFirst, NoneFull, PacedIsAdmitted
  <2>3. \A x : Level(x)' = Level(x)
    BY <2>1 DEF Level
  <2>4. Budget'
    BY <2>1, <2>3 DEF IInv, Budget
  <2> QED BY <2>2, <2>4 DEF IInv
<1> QED
  BY <1>1, <1>2, <1>3, <1>4 DEF Next

\* The inductive invariant holds in every reachable state of the limiter.
THEOREM Invariance == Spec => []IInv
<1>1. Init => IInv
  BY InitHolds
<1>2. IInv /\ [Next]_vars => IInv'
  BY StepHolds
<1> QED
  BY <1>1, <1>2, PTL DEF Spec

\* entries and order of handshakeLimiter always hold the same addresses, each once,
\* and at most handshakeLimiterMaxEntries of them.
THEOREM TablesAgreeAlways == Spec => []TablesAgree
<1>1. IInv => TablesAgree
  BY DEF IInv
<1> QED
  BY <1>1, Invariance, PTL

\* The back of the list, which allow evicts, is always an address that was called
\* for no later than any other.
THEOREM RecentFirstAlways == Spec => []RecentFirst
<1>1. IInv => RecentFirst
  BY DEF IInv
<1> QED
  BY <1>1, Invariance, PTL

\* allow never admits more from an address than burst and rate permit over a period
\* in which the bucket of the address is not evicted.
THEOREM RateBoundAlways == Spec => []RateBound
<1>1. IInv => RateBound
  <2> SUFFICES ASSUME IInv PROVE RateBound
    OBVIOUS
  <2> DEFINE b == Rate * (now - watch.since)
             m == watch.admitted * Unit
  <2>1. Level(watch.addr) + m <= Burst + b
    BY DEF IInv, Budget
  <2>2. b \in Nat /\ m \in Nat /\ Level(watch.addr) \in Nat
    BY Products, LevelRange
  <2> HIDE DEF b, m
  <2>3. m <= Burst + b
    BY <2>1, <2>2, Numbers, SMTT(30)
  <2> QED BY <2>3 DEF RateBound, b, m
<1> QED
  BY <1>1, Invariance, PTL

\* allow admits an address whose last call is as old as a token takes to come back.
THEOREM PacedAlways == Spec => []PacedIsAdmitted
<1>1. IInv => PacedIsAdmitted
  BY DEF IInv
<1> QED
  BY <1>1, Invariance, PTL

\* What cleanup leaves of the table: all of it.
CleanupDropsNothing ==
  [][\A t \in 0..now : Cleanup(t) => UNCHANGED <<entries, order>>]_vars

\* cleanup never removes a bucket, at whatever age it is called: allow leaves no
\* bucket full, and cleanup compares the tokens without refilling them.
THEOREM CleanupNeverDrops == Spec => CleanupDropsNothing
<1>1. IInv /\ [Next]_vars =>
        [\A t \in 0..now : Cleanup(t) => UNCHANGED <<entries, order>>]_vars
  BY CleanupKeeps
<1> QED
  BY <1>1, Invariance, PTL DEF Spec, CleanupDropsNothing

=============================================================================
