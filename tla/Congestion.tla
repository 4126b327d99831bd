----------------------------- MODULE Congestion -----------------------------
(***************************************************************************)
(* The congestion controllers (internal/congestion/congestion.go) as       *)
(* operators on a controller record.  The window of the conservative one   *)
(* is a float64 in the code; here it is a whole number of Scale-ths of a   *)
(* packet, rounded down.  The aggressive controller has no window.  Its    *)
(* count of duplicate acks is left out: nothing calls OnDuplicateAck.      *)
(***************************************************************************)
EXTENDS Integers

CONSTANT InitialCwnd     \* Config.InitialCwnd; 0 selects the default

ASSUME CongestionAssumption == InitialCwnd \in Nat

Scale   == 100
MinCwnd == 2

NewController(mode) ==
  [ mode |-> mode,
    cwnd |-> IF mode = "Aggressive" THEN 0
             ELSE (IF InitialCwnd = 0 THEN 4 ELSE InitialCwnd) * Scale ]

\* cwnd += ackedPackets / cwnd
OnAck(cc, ackedPackets) ==
  IF cc.mode = "Aggressive" THEN cc
  ELSE [cc EXCEPT !.cwnd = @ + (ackedPackets * Scale * Scale) \div @]

OnLoss(cc) ==
  IF cc.mode = "Aggressive" THEN cc
  ELSE [cc EXCEPT !.cwnd = IF @ \div 2 < MinCwnd * Scale THEN MinCwnd * Scale ELSE @ \div 2]

Window(cc) == cc.cwnd \div Scale

\* Mutant: one packet too many.
MutCanSend(cc, inFlight) == cc.mode = "Aggressive" \/ inFlight <= Window(cc)

CanSend(cc, inFlight) == cc.mode = "Aggressive" \/ inFlight < Window(cc)

=============================================================================
