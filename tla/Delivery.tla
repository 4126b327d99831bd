------------------------------ MODULE Delivery ------------------------------
(***************************************************************************)
(* What a fastwire channel promises the application (docs/DOCS.md,         *)
(* "Delivery Modes in Detail"), without packets, acks or buffers.  Messages *)
(* are numbered in the order they are sent.  Module Channel implements it. *)
(***************************************************************************)
EXTENDS Integers, Sequences

CONSTANT Mode

Peers == {"client", "server"}
PeerOf(e) == IF e = "client" THEN "server" ELSE "client"

VARIABLES
  open,       \* open[e]: whether end e still has the connection
  sent,       \* sent[e]: how many messages e has sent
  received    \* received[e]: the messages delivered at e, in order

absVars == <<open, sent, received>>

AbsInit ==
  /\ open = [e \in Peers |-> TRUE]
  /\ sent = [e \in Peers |-> 0]
  /\ received = [e \in Peers |-> << >>]

AbsSend(e) ==
  /\ open[e]
  /\ sent' = [sent EXCEPT ![e] = @ + 1]
  /\ UNCHANGED <<open, received>>

\* The messages that may be delivered next at e, by the mode of the channel.
MayFollow(e, msgs) ==
  LET got == received[e]
      new == DOMAIN msgs
  IN  /\ \A i \in new : msgs[i] \in 1 .. sent[PeerOf(e)]
      /\ Mode = "ReliableOrdered" => \A i \in new : msgs[i] = Len(got) + i
      /\ Mode # "ReliableOrdered" => Len(msgs) = 1
      /\ Mode # "ReliableOrdered" => \A i \in DOMAIN got : got[i] # msgs[1]
      /\ Mode = "UnreliableSequenced" => \A i \in DOMAIN got : got[i] < msgs[1]

AbsDeliver(e) ==
  /\ open[e]
  /\ \E n \in 1 .. sent[PeerOf(e)] :
     \E msgs \in [1..n -> 1 .. sent[PeerOf(e)]] :
       /\ MayFollow(e, msgs)
       /\ received' = [received EXCEPT ![e] = @ \o msgs]
  /\ UNCHANGED <<open, sent>>

AbsClose(e) ==
  /\ open' = [open EXCEPT ![e] = FALSE]
  /\ UNCHANGED <<sent, received>>

AbsNext == \E e \in Peers : AbsSend(e) \/ AbsDeliver(e) \/ AbsClose(e)

AbsSpec == AbsInit /\ [][AbsNext]_absVars
=============================================================================
