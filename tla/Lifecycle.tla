----------------------------- MODULE Lifecycle ------------------------------
(***************************************************************************)
(* The end of an established connection: Connection.Close with its         *)
(* disconnect retries, timeouts, Client.Close and Server.Stop.             *)
(*                                                                         *)
(* Each end has a tick goroutine (TickAuto).  The application may call     *)
(* Connection.Close from a goroutine "closer", and Client.Close or         *)
(* Server.Stop from a goroutine "stopper".  Critical sections are steps of *)
(* their own: what one goroutine read, another may change before the first *)
(* acts on it.  Data stands for the packets an ordered channel takes.      *)
(*                                                                         *)
(* A released connection has a nil recvBuffer, which deliver must not      *)
(* write to, and its disconnect packet may be in the buffer pool.          *)
(***************************************************************************)
EXTENDS Integers, Sequences, FiniteSets

CONSTANTS
  Scenarios,              \* sets of <<end, thread>>: the calls an application
                          \* makes, by a "closer" and a "stopper" of an end
  MaxDisconnectRetries,   \* 3 in the code
  MaxData,                \* bound: data packets each end sends
  MaxLosses               \* bound: packets the network drops

Ends     == {"client", "server"}
Other(e) == IF e = "client" THEN "server" ELSE "client"
Threads  == {"tick", "closer", "stopper"}
States   == {"Connected", "Disconnecting", "Disconnected"}
Kinds    == {"data", "disconnect"}

ASSUME LifecycleAssumption ==
  /\ Scenarios \subseteq SUBSET (Ends \X {"closer", "stopper"})
  /\ MaxDisconnectRetries \in Nat \ {0} /\ MaxData \in Nat /\ MaxLosses \in Nat

VARIABLES
  state,      \* state[e]: Connection.state
  linked,     \* linked[e]: c.server # nil; the connection is in s.conns
  released,   \* released[e]: releasePendingBuffers has run
  packet,     \* packet[e]: disconnectPacket, "nil" or "held"
  freed,      \* freed[e]: the disconnect packet went back to the pool
  retries,    \* retries[e]: disconnectRetries
  closing,    \* closing[e]: closeCh and the socket are closed
  pc,         \* pc[e][t]: where thread t of end e is
  seen,       \* seen[e]: the state tickConnection read
  reason,     \* reason[e][t]: the reason of the teardown t is in
  net,        \* net[e][k]: packets of kind k from e in transit
  sentData, lost,
  told,       \* history: e took a disconnect packet
  calls,      \* history: the OnDisconnect calls of e
  misuse      \* history: deliver on a nil map, a write of a freed buffer

shared  == <<state, linked, released, packet, freed, retries, closing>>
network == <<net, sentData, lost>>
history == <<told, calls, misuse>>
vars    == <<shared, pc, seen, reason, network, history>>

Init ==
  /\ state = [e \in Ends |-> "Connected"]
  /\ linked = [e \in Ends |-> TRUE]
  /\ released = [e \in Ends |-> FALSE]
  /\ packet = [e \in Ends |-> "nil"]
  /\ freed = [e \in Ends |-> FALSE]
  /\ retries = [e \in Ends |-> 0]
  /\ closing = [e \in Ends |-> FALSE]
  /\ \E calling \in Scenarios :
       pc = [e \in Ends |-> [t \in Threads |->
               IF t = "tick" \/ <<e, t>> \in calling THEN "idle" ELSE "absent"]]
  /\ seen = [e \in Ends |-> "Connected"]
  /\ reason = [e \in Ends |-> [t \in Threads |-> "none"]]
  /\ net = [e \in Ends |-> [k \in Kinds |-> 0]]
  /\ sentData = [e \in Ends |-> 0]
  /\ lost = 0
  /\ told = [e \in Ends |-> FALSE]
  /\ calls = [e \in Ends |-> << >>]
  /\ misuse = {}

Goto(e, t, label) == pc' = [pc EXCEPT ![e][t] = label]

\* A write fails, and its error is ignored, once the socket is closed.
Write(e, kind) ==
  net' = IF closing[e] THEN net ELSE [net EXCEPT ![e][kind] = @ + 1]

WriteDisconnect(e) ==
  /\ Write(e, "disconnect")
  /\ misuse' = IF freed[e] THEN misuse \union {"write of a freed buffer"}
                           ELSE misuse

-----------------------------------------------------------------------------
(* Connection.Close, by the closer, or by the stopper within Client.Close.  *)

AfterClose(t) == IF t = "closer" THEN "done" ELSE "release"

CloseCAS(e, t) ==
  /\ pc[e][t] = IF t = "closer" THEN "idle" ELSE "close"
  /\ IF state[e] = "Connected"
     THEN /\ state' = [state EXCEPT ![e] = "Disconnecting"]
          /\ Goto(e, t, "store")
     ELSE UNCHANGED state /\ Goto(e, t, AfterClose(t))
  /\ UNCHANGED <<linked, released, packet, freed, retries, closing,
                 seen, reason, network, history>>

CloseStore(e, t) ==
  /\ pc[e][t] = "store"
  /\ packet' = [packet EXCEPT ![e] = "held"]
  /\ retries' = [retries EXCEPT ![e] = 0]
  /\ Goto(e, t, "send")
  /\ UNCHANGED <<state, linked, released, freed, closing,
                 seen, reason, network, history>>

CloseSend(e, t) ==
  /\ pc[e][t] = "send"
  /\ WriteDisconnect(e)
  /\ Goto(e, t, AfterClose(t))
  /\ UNCHANGED <<shared, seen, reason, sentData, lost, told, calls>>

-----------------------------------------------------------------------------
(* Tearing a connection down, by the tick goroutine or by the stopper.      *)

Release(e, t) ==
  /\ pc[e][t] = "release"
  /\ released' = [released EXCEPT ![e] = TRUE]
  /\ packet' = [packet EXCEPT ![e] = "nil"]
  /\ freed' = [freed EXCEPT ![e] = @ \/ packet[e] = "held"]
  /\ Goto(e, t, "setstate")
  /\ UNCHANGED <<state, linked, retries, closing, seen, reason, network, history>>

\* Server.Stop leaves the connection in the tables.
SetState(e, t) ==
  /\ pc[e][t] = "setstate"
  /\ state' = [state EXCEPT ![e] = "Disconnected"]
  /\ Goto(e, t, IF t = "stopper" /\ e = "server" THEN "callback" ELSE "unlink")
  /\ UNCHANGED <<linked, released, packet, freed, retries, closing,
                 seen, reason, network, history>>

\* Mutant: the connection stays in the tables.
MutUnlink(e, t) ==
  /\ pc[e][t] = "unlink"
  /\ Goto(e, t, "callback")
  /\ UNCHANGED <<shared, seen, reason, network, history>>

Unlink(e, t) ==
  /\ pc[e][t] = "unlink"
  /\ linked' = [linked EXCEPT ![e] = FALSE]
  /\ Goto(e, t, "callback")
  /\ UNCHANGED <<state, released, packet, freed, retries, closing,
                 seen, reason, network, history>>

OnDisconnect(e, t) ==
  /\ pc[e][t] = "callback"
  /\ calls' = [calls EXCEPT ![e] = Append(@, reason[e][t])]
  /\ Goto(e, t, "OnDisconnect")
  /\ UNCHANGED <<shared, seen, reason, network, told, misuse>>

\* The handler returns, from OnDisconnect or from OnMessage.
Return(e, t) ==
  /\ pc[e][t] \in {"OnDisconnect", "OnMessage"}
  /\ Goto(e, t, IF t = "tick" THEN "idle" ELSE IF e = "client" THEN "shutdown" ELSE "done")
  /\ UNCHANGED <<shared, seen, reason, network, history>>

-----------------------------------------------------------------------------
(* The tick goroutine.                                                      *)

TearDown(e, t, why) ==
  /\ reason' = [reason EXCEPT ![e][t] = why]
  /\ Goto(e, t, "release")

\* One packet off the incoming queue, for the connection it belongs to.
TakeIncoming(e, kind) ==
  /\ pc[e]["tick"] = "idle"
  /\ net[Other(e)][kind] > 0
  /\ net' = [net EXCEPT ![Other(e)][kind] = @ - 1]
  /\ IF ~linked[e]
     THEN UNCHANGED <<pc, reason, told>>
     ELSE IF kind = "data"
     THEN Goto(e, "tick", "deliver") /\ UNCHANGED <<reason, told>>
     ELSE /\ TearDown(e, "tick", "graceful")
          /\ told' = [told EXCEPT ![e] = TRUE]
  /\ UNCHANGED <<shared, seen, sentData, lost, calls, misuse>>

\* deliver, and the OnMessage call.
DeliverData(e) ==
  /\ pc[e]["tick"] = "deliver"
  /\ misuse' = IF released[e] THEN misuse \union {"deliver on a nil map"}
                              ELSE misuse
  /\ Goto(e, "tick", "OnMessage")
  /\ UNCHANGED <<shared, seen, reason, network, told, calls>>

\* tickConnection starts with the state of the connection it was given.
TickRead(e) ==
  /\ pc[e]["tick"] = "idle"
  /\ linked[e]
  /\ seen' = [seen EXCEPT ![e] = state[e]]
  /\ Goto(e, "tick", "tickConnection")
  /\ UNCHANGED <<shared, reason, network, history>>

\* Mutant: one retry too few.
MutGivesUp(e) == retries[e] + 1 >= MaxDisconnectRetries

GivesUp(e) == retries[e] >= MaxDisconnectRetries

\* What is left of it when the connection was connected: a timeout or a packet
\* without retransmissions left (the loss is why), or the regular tick.
TickConnected(e) ==
  /\ pc[e]["tick"] = "tickConnection"
  /\ seen[e] = "Connected"
  /\ \/ \E why \in {"timeout", "error"} : TearDown(e, "tick", why)
     \/ Goto(e, "tick", "idle") /\ UNCHANGED reason
  /\ UNCHANGED <<shared, seen, network, history>>

\* Mutant: a tick that has no retries left does nothing.
MutTickDisconnecting(e) ==
  /\ pc[e]["tick"] = "tickConnection"
  /\ seen[e] # "Connected"
  /\ Goto(e, "tick", IF /\ seen[e] = "Disconnecting"
                       /\ ~GivesUp(e) /\ packet[e] = "held"
                     THEN "resend" ELSE "idle")
  /\ UNCHANGED <<shared, seen, reason, network, history>>

TickDisconnecting(e) ==
  /\ pc[e]["tick"] = "tickConnection"
  /\ seen[e] # "Connected"
  /\ IF seen[e] = "Disconnecting" /\ GivesUp(e)
     THEN TearDown(e, "tick", "graceful")
     ELSE /\ Goto(e, "tick", IF seen[e] = "Disconnecting" /\ packet[e] = "held"
                             THEN "resend" ELSE "idle")
          /\ UNCHANGED reason
  /\ UNCHANGED <<shared, seen, network, history>>

\* nextDisconnectRetry has passed: the packet read before goes out again.
Resend(e) ==
  /\ pc[e]["tick"] = "resend"
  /\ WriteDisconnect(e)
  /\ retries' = [retries EXCEPT ![e] = @ + 1]
  /\ Goto(e, "tick", "idle")
  /\ UNCHANGED <<state, linked, released, packet, freed, closing,
                 seen, reason, sentData, lost, told, calls>>

TickExit(e) ==
  /\ pc[e]["tick"] = "idle"
  /\ closing[e]
  /\ Goto(e, "tick", "done")
  /\ UNCHANGED <<shared, seen, reason, network, history>>

-----------------------------------------------------------------------------
(* Client.Close and Server.Stop.                                            *)

StopBegins(e) ==
  /\ pc[e]["stopper"] = "idle"
  /\ Goto(e, "stopper", IF e = "client" /\ linked[e] THEN "close" ELSE "shutdown")
  /\ reason' = [reason EXCEPT ![e]["stopper"] = "graceful"]
  /\ UNCHANGED <<shared, seen, network, history>>

\* Mutant: only the socket is closed, not closeCh.
MutShutdown(e) ==
  /\ pc[e]["stopper"] = "shutdown"
  /\ Goto(e, "stopper", "wait")
  /\ UNCHANGED <<shared, seen, reason, network, history>>

Shutdown(e) ==
  /\ pc[e]["stopper"] = "shutdown"
  /\ closing' = [closing EXCEPT ![e] = TRUE]
  /\ Goto(e, "stopper", "wait")
  /\ UNCHANGED <<state, linked, released, packet, freed, retries,
                 seen, reason, network, history>>

\* wg.Wait; Server.Stop then tears down the connections that are left.
Join(e) ==
  /\ pc[e]["stopper"] = "wait"
  /\ pc[e]["tick"] = "done"
  /\ Goto(e, "stopper", IF e = "server" /\ linked[e] THEN "release" ELSE "done")
  /\ UNCHANGED <<shared, seen, reason, network, history>>

-----------------------------------------------------------------------------

\* A connected end sends data, or a heartbeat that acks it.
SendData(e) ==
  /\ state[e] = "Connected"
  /\ sentData[e] < MaxData
  /\ sentData' = [sentData EXCEPT ![e] = @ + 1]
  /\ Write(e, "data")
  /\ UNCHANGED <<shared, pc, seen, reason, lost, history>>

Lose(e, kind) ==
  /\ net[e][kind] > 0
  /\ lost < MaxLosses
  /\ lost' = lost + 1
  /\ net' = [net EXCEPT ![e][kind] = @ - 1]
  /\ UNCHANGED <<shared, pc, seen, reason, sentData, history>>

ThreadStep(e, t) ==
  \/ CloseCAS(e, t) \/ CloseStore(e, t) \/ CloseSend(e, t)
  \/ Release(e, t) \/ SetState(e, t) \/ Unlink(e, t)
  \/ OnDisconnect(e, t) \/ Return(e, t)

TickStep(e) ==
  \/ DeliverData(e) \/ TickConnected(e) \/ TickDisconnecting(e) \/ Resend(e)

Next ==
  \E e \in Ends :
    \/ \E t \in Threads : ThreadStep(e, t)
    \/ TickStep(e) \/ TickRead(e) \/ TickExit(e)
    \/ StopBegins(e) \/ Shutdown(e) \/ Join(e)
    \/ SendData(e)
    \/ \E kind \in Kinds : TakeIncoming(e, kind) \/ Lose(e, kind)

Spec == Init /\ [][Next]_vars

\* The goroutines run; datagrams that are not lost arrive; an end that hears
\* nothing any more from a peer that is gone finds its connection timed out;
\* the select of tickLoop picks the closed closeCh before long.
TimesOut(e) ==
  /\ state[Other(e)] = "Disconnected"
  /\ TickConnected(e)
  /\ pc'[e]["tick"] = "release"

Running(e, t) ==
  /\ pc[e][t] # "idle"
  /\ \/ ThreadStep(e, t)
     \/ t = "tick" /\ TickStep(e)
     \/ t = "stopper" /\ (Shutdown(e) \/ Join(e))

Fairness ==
  \A e \in Ends :
    /\ \A t \in Threads : WF_vars(Running(e, t))
    /\ WF_vars(TickRead(e))
    /\ SF_vars(TimesOut(e))
    /\ SF_vars(TakeIncoming(e, "disconnect"))
    /\ SF_vars(TickExit(e))

FairSpec == Spec /\ Fairness

-----------------------------------------------------------------------------
(* Properties.                                                              *)

\* The application hears once of the end of a connection, whichever of a local
\* close, the peer's disconnect packet and a timeout comes first.
OneOnDisconnect == \A e \in Ends : Len(calls[e]) <= 1

\* The retries make a close reliable: an end that gave up retrying told its
\* peer, unless the network lost the packet and every retry of it.
CloseIsHeard ==
  \A e \in Ends :
    state[e] = "Disconnected" /\ GivesUp(e) =>
      \/ told[Other(e)]
      \/ net[e]["disconnect"] > 0
      \/ \E t \in {"closer", "stopper"} : pc[e][t] = "send"
      \/ state[Other(e)] = "Disconnected"
      \/ lost > MaxDisconnectRetries

\* Nothing is delivered into a channel that was torn down: its recvBuffer is
\* nil, and a write to it would panic.
NoDeliverAfterRelease == "deliver on a nil map" \notin misuse

\* A connection that one end closes ends at both, each with its callback.
CloseCompletes ==
  \A e \in Ends :
    state[e] = "Disconnecting" ~> \A d \in Ends : Len(calls[d]) > 0

\* Client.Close and Server.Stop return: the goroutine they wait for sees the
\* closed channel, whatever teardown it is in the middle of.
StopReturns ==
  \A e \in Ends :
    pc[e]["stopper"] \notin {"idle", "absent"} ~> pc[e]["stopper"] = "done"

-----------------------------------------------------------------------------
(* The inductive invariants.                                                *)

Reasons == {"none", "graceful", "timeout", "error"}

TickLabels   == {"idle", "deliver", "OnMessage", "tickConnection", "resend", "release",
                 "setstate", "unlink", "callback", "OnDisconnect", "done"}
CloserLabels == {"absent", "idle", "store", "send", "done"}
StopLabels   == {"absent", "idle", "shutdown", "wait", "release", "setstate", "callback",
                 "OnDisconnect", "done"}
Labels       == TickLabels \union CloserLabels \union StopLabels

TypeOK ==
  /\ state \in [Ends -> States] /\ linked \in [Ends -> BOOLEAN]
  /\ released \in [Ends -> BOOLEAN] /\ packet \in [Ends -> {"nil", "held"}]
  /\ freed \in [Ends -> BOOLEAN] /\ retries \in [Ends -> Nat] /\ closing \in [Ends -> BOOLEAN]
  /\ pc \in [Ends -> [Threads -> Labels]] /\ seen \in [Ends -> States]
  /\ reason \in [Ends -> [Threads -> Reasons]]
  /\ net \in [Ends -> [Kinds -> Nat]] /\ lost \in Nat
  /\ told \in [Ends -> BOOLEAN] /\ calls \in [Ends -> Seq(Reasons)]

\* No application calls Client.Close: connections are closed with
\* Connection.Close, and the server with Server.Stop.
NoClientClose == \A s \in Scenarios : <<"client", "stopper">> \notin s

\* Connections are closed with Connection.Close only.
OnlyConnectionClose == \A s \in Scenarios : \A e \in Ends : <<e, "stopper">> \notin s

\* Where the goroutines of an end are.  Server.Stop tears down what the tick
\* goroutine, which it waited for, left in the tables.
ThreadsOK(e) ==
  LET stop == pc[e]["stopper"] IN
  /\ pc[e]["tick"] \in TickLabels /\ pc[e]["closer"] \in CloserLabels
  /\ stop \in (IF e = "client" THEN {"absent"} ELSE StopLabels)
  /\ stop \in {"release", "setstate", "callback", "OnDisconnect", "done"} =>
       pc[e]["tick"] = "done"

\* A connection is torn down once: what the tick goroutine works on is in the
\* tables, where Server.Stop looks for what is left, and it is out of them before
\* OnDisconnect is called.
TeardownOK(e) ==
  LET tick == pc[e]["tick"]  stop == pc[e]["stopper"] IN
  /\ tick \in {"deliver", "tickConnection", "resend", "release", "setstate", "unlink"} =>
       linked[e]
  /\ tick = "callback" => ~linked[e]
  /\ stop \in {"release", "setstate", "callback"} => linked[e]
  /\ Len(calls[e]) <= 1
  /\ tick = "callback" \/ (linked[e] /\ stop \notin {"OnDisconnect", "done"}) =>
       calls[e] = << >>

\* A released connection is out of the reach of deliver.
ReleaseOK(e) ==
  LET tick == pc[e]["tick"] IN
  /\ tick = "deliver" => ~released[e]
  /\ released[e] => \/ ~linked[e] \/ tick \in {"setstate", "unlink"}
                    \/ pc[e]["stopper"] \in {"setstate", "callback", "OnDisconnect", "done"}

IInv ==
  /\ TypeOK /\ NoDeliverAfterRelease
  /\ \A e \in Ends : ThreadsOK(e) /\ TeardownOK(e) /\ ReleaseOK(e)

\* The disconnect packets that e wrote: that of Connection.Close, once its closer
\* has sent it, and one for each retry.
Written(e) == retries[e] + (IF pc[e]["closer"] = "done" THEN 1 ELSE 0)

\* Where no Client.Close and no Server.Stop closes a socket, a disconnect packet
\* that was written is under way, was lost, or has reached a peer that is told of
\* it or has ended the connection itself.
HeardOK(e) ==
  LET closer == pc[e]["closer"] IN
  /\ pc[e]["stopper"] = "absent" /\ ~closing[e]
  /\ ~linked[e] \/ pc[e]["tick"] = "unlink" => state[e] = "Disconnected"
  /\ packet[e] = "held" \/ retries[e] > 0 => closer \in {"send", "done"}
  /\ pc[e]["tick"] = "resend" => packet[e] = "held"
  /\ packet[e] = "held" \/ retries[e] > 0 =>
       \/ told[Other(e)] \/ state[Other(e)] = "Disconnected"
       \/ net[e]["disconnect"] + lost >= Written(e)

HeardIInv == IInv /\ \A e \in Ends : HeardOK(e)

-----------------------------------------------------------------------------
(* What the code does not satisfy; no configuration checks it.              *)

\* A disconnect packet is not written once its buffer is back in the pool,
\* where another packet may already be using it.
NoWriteAfterFree == "write of a freed buffer" \notin misuse

\* The handler of an end is never entered by two goroutines at a time.
CallbacksAreSerial ==
  \A e \in Ends :
    Cardinality({t \in Threads : pc[e][t] \in {"OnDisconnect", "OnMessage"}}) <= 1
=============================================================================
