---------------------------- MODULE LossTracker -----------------------------
(***************************************************************************)
(* The ring of the last reliable packets behind ConnectionStats.PacketLoss *)
(* (internal/stats/loss.go).  Loss() is 1 - ackCount / count.              *)
(***************************************************************************)
EXTENDS Integers, FiniteSetsExt

CONSTANT LossWindowSize     \* 100 in the code

ASSUME LossTrackerAssumption == LossWindowSize \in Nat \ {0}

NewLossTracker ==
  [ entries  |-> [i \in 0..(LossWindowSize - 1) |-> [seq |-> 0, acked |-> FALSE]],
    head     |-> 0,      \* the next position to write
    count    |-> 0,
    ackCount |-> 0 ]

\* Mutant: the ack of the overwritten entry still counts.
MutRecordSend(lt, seq) ==
  [ lt EXCEPT
      !.entries[lt.head] = [seq |-> seq, acked |-> FALSE],
      !.head     = (@ + 1) % LossWindowSize,
      !.count    = IF @ < LossWindowSize THEN @ + 1 ELSE @ ]

RecordSend(lt, seq) ==
  [ lt EXCEPT
      !.ackCount = IF lt.count = LossWindowSize /\ lt.entries[lt.head].acked
                   THEN @ - 1 ELSE @,
      !.entries[lt.head] = [seq |-> seq, acked |-> FALSE],
      !.head     = (@ + 1) % LossWindowSize,
      !.count    = IF @ < LossWindowSize THEN @ + 1 ELSE @ ]

\* The newest entry of the sequence number, if it has one, is marked.
RecordAck(lt, seq) ==
  LET index(i) == (lt.head - 1 - i + LossWindowSize) % LossWindowSize
      found    == {i \in 0..(lt.count - 1) : lt.entries[index(i)].seq = seq}
      newest   == index(Min(found))
  IN  IF found = {} \/ lt.entries[newest].acked THEN lt
      ELSE [lt EXCEPT !.entries[newest].acked = TRUE, !.ackCount = @ + 1]

=============================================================================
