------------------------------ MODULE Limiter -------------------------------
(***************************************************************************)
(* handshakeLimiter (server.go): the token bucket per IP address that a    *)
(* CONNECT has to pass, in a table of bounded size kept in LRU order.      *)
(*                                                                         *)
(* The tick goroutine of the server calls allow for the CONNECTs of a tick *)
(* with the current time, and then cleanup with the time the tick began.   *)
(* Tokens are float64 in the code: here a handshake costs Unit tokens, all *)
(* amounts are whole numbers, and a bucket gains Rate per unit of time.    *)
(*                                                                         *)
(* `watch` is history: what was admitted from one address, counted from a  *)
(* moment the environment picks, or from the eviction of its bucket.       *)
(***************************************************************************)
EXTENDS Integers, Sequences

CONSTANTS
  Addrs,
  Unit,         \* the tokens of one handshake: 1.0 in the code
  Rate,         \* Config.HandshakeRateLimit
  Burst,        \* Config.HandshakeBurst
  MaxEntries,   \* handshakeLimiterMaxEntries: 8192 in the code
  Age,          \* Config.HandshakeTimeout, the age cleanup is called with
  MaxTime       \* bound

ASSUME LimiterAssumption ==
  /\ Unit \in Nat \ {0} /\ Rate \in Nat /\ Age \in Nat /\ MaxTime \in Nat
  /\ Burst \in Nat /\ Burst >= Unit
  /\ MaxEntries \in Nat \ {0}

VARIABLES
  now,
  entries,   \* a function on the tracked addresses: [tokens, last]
  order,     \* the tracked addresses, the most recently used first
  watch,     \* history: [addr, since, admitted]
  answer     \* history: the last call, how long after the one before, the result

vars == <<now, entries, order, watch, answer>>

Tracked == DOMAIN entries

NoCall == [addr |-> 0, gap |-> 0, ok |-> TRUE]

Init ==
  /\ now = 0
  /\ entries = [a \in {} |-> [tokens |-> Burst, last |-> 0]]
  /\ order = << >>
  /\ watch \in [addr : Addrs, since : {0}, admitted : {0}]
  /\ answer = NoCall

-----------------------------------------------------------------------------
Least(m, n) == IF m <= n THEN m ELSE n

\* container/list as allow and cleanup use it.
PushFront(s, a) == [k \in 1 .. (Len(s) + 1) |-> IF k = 1 THEN a ELSE s[k - 1]]

Position(s, a) == CHOOSE i \in 1..Len(s) : s[i] = a

MoveToFront(s, a) ==
  [k \in 1..Len(s) |-> IF k = 1 THEN a ELSE IF k <= Position(s, a) THEN s[k - 1] ELSE s[k]]

\* The bucket of a known address when it is called again.
Refill(e) == [tokens |-> Least(Burst, e.tokens + (now - e.last) * Rate), last |-> now]

Admits(e) == e.tokens >= Unit

\* Mutant: a refused call is charged too.
MutCharge(e) == [e EXCEPT !.tokens = @ - Unit]

Charge(e) == IF Admits(e) THEN [e EXCEPT !.tokens = @ - Unit] ELSE e

Count(w, a, e) ==
  IF w.addr = a /\ Admits(e) THEN [w EXCEPT !.admitted = @ + 1] ELSE w

\* allow for an address that has a bucket.
AllowKnown(a) ==
  LET e == Refill(entries[a])
  IN  /\ a \in Tracked
      /\ entries' = [entries EXCEPT ![a] = Charge(e)]
      /\ order' = MoveToFront(order, a)
      /\ watch' = Count(watch, a, e)
      /\ answer' = [addr |-> a, gap |-> now - entries[a].last, ok |-> Admits(e)]
      /\ UNCHANGED now

\* Mutant: nothing is evicted.
MutVictims == {}

\* The buckets that make room for a new one: the back of a full list.
Victims == IF Len(order) >= MaxEntries THEN {order[Len(order)]} ELSE {}

\* allow for an address without a bucket.
AllowNew(a) ==
  LET e    == [tokens |-> Burst, last |-> now]
      kept == IF Victims = {} THEN order ELSE SubSeq(order, 1, Len(order) - 1)
      w    == IF watch.addr \in Victims
              THEN [watch EXCEPT !.since = now, !.admitted = 0] ELSE watch
  IN  /\ a \notin Tracked
      /\ entries' = [x \in (Tracked \ Victims) \union {a} |->
                       IF x = a THEN Charge(e) ELSE entries[x]]
      /\ order' = PushFront(kept, a)
      /\ watch' = Count(w, a, e)
      /\ answer' = [addr |-> a, gap |-> now, ok |-> Admits(e)]
      /\ UNCHANGED now

\* Mutant: the tokens are not looked at.
MutIdle(e, t) == t - e.last >= Age

\* What cleanup drops from the back.
Idle(e, t) == e.tokens >= Burst /\ t - e.last >= Age

\* The length of the list at which the loop of cleanup may stop.
Stops(t) ==
  {n \in 0..Len(order) :
     /\ \A k \in (n + 1)..Len(order) : Idle(entries[order[k]], t)
     /\ n = 0 \/ ~Idle(entries[order[n]], t)}

\* cleanup with the time t at which the tick began.
Cleanup(t) ==
  /\ t \in 0..now
  /\ \E n \in Stops(t) :
       /\ order' = SubSeq(order, 1, n)
       /\ entries' = [a \in {order[k] : k \in 1..n} |-> entries[a]]
  /\ UNCHANGED <<now, watch, answer>>

Advance ==
  /\ now < MaxTime
  /\ now' = now + 1
  /\ UNCHANGED <<entries, order, watch, answer>>

\* History: the watch starts over.
Watch(a) ==
  /\ watch' = [addr |-> a, since |-> now, admitted |-> 0]
  /\ UNCHANGED <<now, entries, order, answer>>

Next ==
  \/ \E a \in Addrs : AllowKnown(a) \/ AllowNew(a) \/ Watch(a)
  \/ \E t \in 0..now : Cleanup(t)
  \/ Advance

Spec == Init /\ [][Next]_vars

-----------------------------------------------------------------------------
(* Properties.                                                             *)

\* The map and the list hold the same addresses, each once, and never more than
\* handshakeLimiterMaxEntries.
TablesAgree ==
  /\ Tracked = {order[k] : k \in 1..Len(order)}
  /\ \A i, j \in 1..Len(order) : order[i] = order[j] => i = j
  /\ Len(order) <= MaxEntries

\* The list is in the order of the last calls, so that an overflow evicts an
\* address that was not heard of for the longest time.
RecentFirst ==
  \A i, j \in 1..Len(order) : i < j => entries[order[i]].last >= entries[order[j]].last

\* Over any period in which its bucket is not evicted, no address has more
\* handshakes admitted than the burst and the rate allow, cleanups included.
RateBound == watch.admitted * Unit <= Burst + Rate * (now - watch.since)

\* An address that waits as long as a token takes is admitted, whatever it and the
\* others did before.
PacedIsAdmitted == answer.gap * Rate >= Unit => answer.ok

-----------------------------------------------------------------------------
(* The inductive invariant of the proofs.                                  *)

TypeOK ==
  /\ now \in Nat
  /\ order \in Seq(Addrs)
  /\ entries \in [Tracked -> [tokens : Nat, last : Nat]]
  /\ watch \in [addr : Addrs, since : Nat, admitted : Nat]
  /\ answer.gap \in Nat /\ answer.ok \in BOOLEAN

\* Every bucket was charged by its last call, or held too little for it: allow never
\* leaves a full one, and cleanup, which does not refill them, finds none.
NoneFull == \A a \in Tracked : entries[a].tokens < Burst /\ entries[a].last <= now

\* What the bucket of an address would hold if it were refilled now.
Level(a) ==
  IF a \in Tracked THEN Least(Burst, entries[a].tokens + (now - entries[a].last) * Rate)
  ELSE Burst

\* What was admitted and what is left: the bound that a charge and a refill keep.
Budget ==
  /\ watch.since <= now
  /\ Level(watch.addr) + watch.admitted * Unit <= Burst + Rate * (now - watch.since)

IInv == TypeOK /\ TablesAgree /\ RecentFirst /\ NoneFull /\ Budget /\ PacedIsAdmitted

=============================================================================
