----------------------------- MODULE Reassembly -----------------------------
(***************************************************************************)
(* The reassembly store of a connection (fragment.go), as operators on a   *)
(* store record.  `buffers` is a function on the fragment IDs in progress. *)
(* A buffer's `received` and `totalBytes` are the size of the domain of    *)
(* `parts`: every fragment counts one unit of bytes.                       *)
(***************************************************************************)
EXTENDS Integers, Sequences, FiniteSets, FiniteSetsExt

CONSTANT
  FragmentTimeout   \* Config.FragmentTimeout; 0 disables the eviction

ASSUME ReassemblyAssumption == FragmentTimeout \in Nat

\* The caps are Config.MaxReassemblyBuffers and Config.MaxReassemblyBytes; the
\* store takes 0 for unbounded.
NewReassemblyStore(maxBuffers, maxBytes) ==
  [ buffers    |-> << >>,
    totalBytes |-> 0,
    maxBuffers |-> maxBuffers,
    maxBytes   |-> maxBytes ]

BufferBytes(b) == Cardinality(DOMAIN b.parts)

Delete(s, ids) ==
  [s EXCEPT
     !.buffers    = [id \in DOMAIN @ \ ids |-> @[id]],
     !.totalBytes = @ - MapThenSumSet(LAMBDA id : BufferBytes(s.buffers[id]),
                                      ids \intersect DOMAIN s.buffers)]

Expired(s, id, now, timeout) == now - s.buffers[id].createdAt >= timeout

\* Mutant: the buffer found under a reused fragment ID is never stale.
MutEvictStale(s, id, now) == s

\* A buffer that is too old to belong to the message of the new fragment goes.
EvictStale(s, id, now) ==
  IF /\ id \in DOMAIN s.buffers
     /\ FragmentTimeout > 0
     /\ Expired(s, id, now, FragmentTimeout)
  THEN Delete(s, {id})
  ELSE s

CapHit(s, id) ==
  \/ /\ id \notin DOMAIN s.buffers
     /\ s.maxBuffers > 0
     /\ Cardinality(DOMAIN s.buffers) >= s.maxBuffers
  \/ s.maxBytes > 0 /\ s.totalBytes + 1 > s.maxBytes

NewBuffer(f, now) ==
  [parts |-> << >>, count |-> f.count, flags |-> f.flags, createdAt |-> now]

\* The store after a fragment is put into its buffer.
Put(s, f, now) ==
  LET id == f.id
      b  == IF id \in DOMAIN s.buffers THEN s.buffers[id] ELSE NewBuffer(f, now)
      filled == [b EXCEPT !.parts = [i \in DOMAIN @ \union {f.index} |->
                                       IF i = f.index THEN f.payload ELSE @[i]]]
  IN  [s EXCEPT
         !.buffers    = [k \in DOMAIN @ \union {id} |->
                           IF k = id THEN filled ELSE @[k]],
         !.totalBytes = @ + 1]

Incomplete(s) == [store |-> s, complete |-> FALSE, err |-> FALSE]
Invalid(s)    == [store |-> s, complete |-> FALSE, err |-> TRUE]

\* Mutant: the bytes of a finished message stay on the account.
MutFinish(s, id) ==
  [ store     |-> [Delete(s, {id}) EXCEPT !.totalBytes = s.totalBytes],
    complete  |-> TRUE,
    err       |-> FALSE,
    assembled |-> [i \in 1..s.buffers[id].count |-> s.buffers[id].parts[i - 1]] ]

\* Every fragment is there: they are concatenated in the order of their index.
Finish(s, id) ==
  [ store     |-> Delete(s, {id}),
    complete  |-> TRUE,
    err       |-> FALSE,
    assembled |-> [i \in 1..s.buffers[id].count |-> s.buffers[id].parts[i - 1]] ]

BadHeader(f) == f.count = 0 \/ f.index >= f.count

Mismatch(s, f) ==
  /\ f.id \in DOMAIN s.buffers
  /\ s.buffers[f.id].count # f.count \/ s.buffers[f.id].flags # f.flags

HasPart(s, f) ==
  f.id \in DOMAIN s.buffers /\ f.index \in DOMAIN s.buffers[f.id].parts

\* Duplicates and fragments over a cap are dropped without an error.
AddFragment(store, f, now) ==
  LET s     == EvictStale(store, f.id, now)
      after == Put(s, f, now)
  IN  IF BadHeader(f) THEN Invalid(store)
      ELSE IF Mismatch(s, f) THEN Invalid(s)
      ELSE IF HasPart(s, f) \/ CapHit(s, f.id) THEN Incomplete(s)
      ELSE IF BufferBytes(after.buffers[f.id]) < f.count THEN Incomplete(after)
      ELSE Finish(after, f.id)

\* cleanup, at the end of every tick.
Cleanup(s, now) ==
  Delete(s, {id \in DOMAIN s.buffers : Expired(s, id, now, FragmentTimeout)})
=============================================================================
