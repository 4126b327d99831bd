---------------------------- MODULE MCFragments -----------------------------
(* Fragments for TLC: what the application sends in each configuration.     *)
EXTENDS Fragments

TwoThreads == {"tick", "user"}

\* Messages of two fragments, of one plain packet, of two and of three, one
\* that splitMessage refuses, one that does not decompress, and one more.
MixedParts == <<2, 0, 2, 4, 3, 2, 2>>

\* The tick goroutine sends s, and SendImmediate u at the same time.  Nothing
\* expires, and the store has room for everything.
Roomy(mode, s, u) ==
  [ mode |-> mode, queue |-> [t \in TwoThreads |-> IF t = "tick" THEN s ELSE u],
    maxBuffers |-> 0, maxBytes |-> 0, idSpace |-> 4, maxTime |-> 0 ]

\* Three messages of two fragments for room for two buffers and three
\* fragments; the third message has the fragment ID of the first.
Tight ==
  [Roomy("Unreliable", <<1, 7>>, <<3>>) EXCEPT
     !.maxBuffers = 2, !.maxBytes = 3, !.idSpace = 2, !.maxTime = 3]

AllPlans ==
  { Roomy("ReliableOrdered", <<1, 4, 2, 3, 5>>, << >>),
    Roomy("ReliableUnordered", <<1, 2>>, <<6, 3>>),
    Roomy("UnreliableSequenced", <<1, 2, 3>>, << >>),
    Tight }
=============================================================================
