-------------------------- MODULE LifecycleProofs ---------------------------
(***************************************************************************)
(* The safety theorems of Lifecycle, for every number of retries, data     *)
(* packets and losses, and every way the applications may close their      *)
(* connections except, where a theorem says so, the calls that close a     *)
(* socket.                                                                 *)
(***************************************************************************)
EXTENDS Lifecycle, TLAPS

-----------------------------------------------------------------------------
(* Control.                                                                 *)

\* There are two ends, and each is the other of the other.
LEMMA EndsFacts ==
  /\ "client" \in Ends /\ "server" \in Ends
  /\ \A e \in Ends : Other(e) \in Ends /\ Other(e) # e /\ Other(Other(e)) = e
  /\ \A e, f \in Ends : f # e => f = Other(e)
BY DEF Ends, Other

\* A thread moves, and no other.
LEMMA GotoFacts ==
  ASSUME TypeOK, NEW e \in Ends, NEW t \in Threads, NEW label \in Labels, Goto(e, t, label)
  PROVE  /\ pc' \in [Ends -> [Threads -> Labels]]
         /\ pc'[e][t] = label
         /\ \A u \in Threads : u # t => pc'[e][u] = pc[e][u]
         /\ \A f \in Ends : f # e => pc'[f] = pc[f]
<1>1. pc \in [Ends -> [Threads -> Labels]]
  BY DEF TypeOK
<1>2. pc' = [pc EXCEPT ![e] = [pc[e] EXCEPT ![t] = label]]
  BY DEF Goto
<1> QED BY <1>1, <1>2

\* The invariant speaks of each end by itself.
LEMMA LocalStep ==
  ASSUME IInv, TypeOK', NoDeliverAfterRelease',
         NEW e \in Ends, ThreadsOK(e)', TeardownOK(e)', ReleaseOK(e)',
         \A f \in Ends : f # e => /\ pc'[f] = pc[f] /\ linked'[f] = linked[f]
                                  /\ released'[f] = released[f] /\ calls'[f] = calls[f]
  PROVE  IInv'
<1>1. ASSUME NEW f \in Ends, f # e
      PROVE  ThreadsOK(f)' /\ TeardownOK(f)' /\ ReleaseOK(f)'
  <2>1. /\ pc'[f] = pc[f] /\ linked'[f] = linked[f]
        /\ released'[f] = released[f] /\ calls'[f] = calls[f]
    BY <1>1
  <2>2. ThreadsOK(f) /\ TeardownOK(f) /\ ReleaseOK(f)
    BY DEF IInv
  <2> QED BY <2>1, <2>2 DEF ThreadsOK, TeardownOK, ReleaseOK
<1> QED BY <1>1 DEF IInv

\* A step in which only the program counter of e moves and nothing that the
\* invariant ties to it changes.
LEMMA MoveStep ==
  ASSUME IInv, TypeOK', NEW e \in Ends,
         \A f \in Ends : f # e => pc'[f] = pc[f],
         ThreadsOK(e)', TeardownOK(e)', ReleaseOK(e)',
         UNCHANGED <<linked, released, calls>>, NoDeliverAfterRelease'
  PROVE  IInv'
BY LocalStep

\* A write adds a packet to the network, or none.
LEMMA WriteFacts ==
  ASSUME TypeOK, NEW e \in Ends, NEW kind \in Kinds, Write(e, kind)
  PROVE  /\ net' \in [Ends -> [Kinds -> Nat]]
         /\ \A f \in Ends, k \in Kinds :
              net'[f][k] = IF f = e /\ k = kind /\ ~closing[e] THEN net[f][k] + 1 ELSE net[f][k]
<1>1. net \in [Ends -> [Kinds -> Nat]]
  BY DEF TypeOK
<1>2. net' = IF closing[e] THEN net
             ELSE [net EXCEPT ![e] = [net[e] EXCEPT ![kind] = net[e][kind] + 1]]
  BY DEF Write
<1>3. CASE closing[e]
  BY <1>1, <1>2, <1>3
<1>4. CASE ~closing[e]
  <2>1. [net[e] EXCEPT ![kind] = net[e][kind] + 1] \in [Kinds -> Nat]
    BY <1>1
  <2> QED BY <1>1, <1>2, <1>4, <2>1
<1> QED BY <1>3, <1>4

\* The reason of a teardown is noted.
LEMMA ReasonFacts ==
  ASSUME TypeOK, NEW e \in Ends, NEW t \in Threads, NEW why \in Reasons,
         reason' = [reason EXCEPT ![e][t] = why]
  PROVE  reason' \in [Ends -> [Threads -> Reasons]]
<1>1. reason \in [Ends -> [Threads -> Reasons]]
  BY DEF TypeOK
<1>2. reason' = [reason EXCEPT ![e] = [reason[e] EXCEPT ![t] = why]]
  OBVIOUS
<1> QED BY <1>1, <1>2

\* The labels of the threads are labels.
LEMMA LabelFacts ==
  TickLabels \subseteq Labels /\ CloserLabels \subseteq Labels /\ StopLabels \subseteq Labels
BY DEF Labels

\* What the invariant says of an end.
LEMMA EndFacts ==
  ASSUME IInv, NEW e \in Ends
  PROVE  /\ ThreadsOK(e) /\ TeardownOK(e) /\ ReleaseOK(e)
         /\ pc[e] \in [Threads -> Labels] /\ linked[e] \in BOOLEAN /\ released[e] \in BOOLEAN
         /\ calls[e] \in Seq(Reasons)
BY DEF IInv, TypeOK

\* Who is in a teardown: the tick goroutine, or Server.Stop after it.
LEMMA TearsDown ==
  ASSUME IInv, NEW e \in Ends, NEW t \in Threads,
         pc[e][t] \in {"release", "setstate", "unlink", "callback", "OnDisconnect", "OnMessage"}
  PROVE  /\ t \in {"tick", "stopper"}
         /\ t = "stopper" => e = "server" /\ pc[e]["tick"] = "done"
         /\ t = "stopper" => pc[e]["stopper"] \notin {"unlink", "OnMessage"}
BY EndFacts DEF ThreadsOK, CloserLabels, StopLabels, Threads, Ends

\* A thread of e moves: where its threads are afterwards.
LEMMA MoveFacts ==
  ASSUME IInv, NEW e \in Ends, NEW t \in {"tick", "stopper"}, NEW label \in Labels,
         Goto(e, t, label)
  PROVE  /\ pc' \in [Ends -> [Threads -> Labels]]
         /\ pc'[e][t] = label /\ pc'[e]["closer"] = pc[e]["closer"]
         /\ t = "tick" => pc'[e]["stopper"] = pc[e]["stopper"]
         /\ t = "stopper" => pc'[e]["tick"] = pc[e]["tick"]
         /\ \A f \in Ends : f # e => pc'[f] = pc[f]
BY GotoFacts DEF IInv, Threads

-----------------------------------------------------------------------------
(* Connection.Close.                                                        *)

\* Only the closer runs Connection.Close where no application calls Client.Close,
\* and it touches nothing that a teardown works on.
LEMMA CloseStep ==
  ASSUME IInv, NEW e \in Ends, NEW t \in Threads,
         CloseCAS(e, t) \/ CloseStore(e, t) \/ CloseSend(e, t)
  PROVE  IInv' /\ t = "closer"
<1>0. ThreadsOK(e) /\ TeardownOK(e) /\ ReleaseOK(e)
  BY EndFacts
<1>1. t = "closer"
  BY <1>0 DEF CloseCAS, CloseStore, CloseSend, ThreadsOK, TickLabels, StopLabels, Threads
<1>2. PICK label \in CloserLabels : Goto(e, "closer", label)
  BY <1>1 DEF CloseCAS, CloseStore, CloseSend, AfterClose, CloserLabels
<1>3. /\ pc' \in [Ends -> [Threads -> Labels]] /\ pc'[e]["closer"] = label
      /\ pc'[e]["tick"] = pc[e]["tick"] /\ pc'[e]["stopper"] = pc[e]["stopper"]
      /\ \A f \in Ends : f # e => pc'[f] = pc[f]
  BY <1>2, GotoFacts, LabelFacts DEF IInv, Threads
<1>4. /\ UNCHANGED <<linked, released, freed, closing, seen, reason, sentData, lost,
                     told, calls>>
      /\ misuse' \subseteq misuse \union {"write of a freed buffer"}
  BY ZenonT(30) DEF CloseCAS, CloseStore, CloseSend, WriteDisconnect, shared, network, history
<1>5. /\ state' \in [Ends -> States] /\ packet' \in [Ends -> {"nil", "held"}]
      /\ retries' \in [Ends -> Nat] /\ net' \in [Ends -> [Kinds -> Nat]]
  <2>1. CASE CloseCAS(e, t)
    BY <2>1 DEF CloseCAS, network, IInv, TypeOK, States
  <2>2. CASE CloseStore(e, t)
    BY <2>2 DEF CloseStore, network, IInv, TypeOK
  <2>3. CASE CloseSend(e, t)
    BY ZenonT(30), <2>3, WriteFacts DEF CloseSend, WriteDisconnect, shared, IInv, TypeOK, Kinds
  <2> QED BY <2>1, <2>2, <2>3
<1>6. TypeOK'
  BY ZenonT(30), <1>3, <1>4, <1>5 DEF IInv, TypeOK
<1>7. NoDeliverAfterRelease'
  BY ZenonT(30), <1>4 DEF IInv, NoDeliverAfterRelease
<1>8. ThreadsOK(e)' /\ TeardownOK(e)' /\ ReleaseOK(e)'
  BY ZenonT(30), <1>0, <1>2, <1>3, <1>4 DEF ThreadsOK, TeardownOK, ReleaseOK
<1> QED BY ZenonT(30), <1>1, <1>3, <1>4, <1>6, <1>7, <1>8, MoveStep

-----------------------------------------------------------------------------
(* The disconnect packets: what each step does to the invariant by which   *)
(* they are heard.                                                          *)

\* What the stronger invariant says of an end.
LEMMA HeardFacts ==
  ASSUME HeardIInv, NEW e \in Ends
  PROVE  /\ IInv /\ ThreadsOK(e) /\ HeardOK(e) /\ Other(e) \in Ends
         /\ retries[e] \in Nat /\ lost \in Nat /\ packet[e] \in {"nil", "held"}
         /\ \A f \in Ends : net[f]["disconnect"] \in Nat
<1>1. IInv /\ ThreadsOK(e) /\ HeardOK(e) /\ Other(e) \in Ends
  BY EndFacts, EndsFacts DEF HeardIInv
<1>2. retries[e] \in Nat /\ lost \in Nat /\ packet[e] \in {"nil", "held"}
  BY <1>1 DEF IInv, TypeOK
<1>3. \A f \in Ends : net[f]["disconnect"] \in Nat
  BY <1>1 DEF IInv, TypeOK, Kinds
<1> QED BY <1>1, <1>2, <1>3

\* A step of e does not hurt what the invariant says of the other end: being told
\* and being disconnected last.
LEMMA HeardOther ==
  ASSUME HeardIInv, NEW e \in Ends, NEW f \in Ends, f # e,
         pc'[f] = pc[f], linked'[f] = linked[f], closing'[f] = closing[f],
         packet'[f] = packet[f], retries'[f] = retries[f], state'[f] = state[f],
         net'[f]["disconnect"] = net[f]["disconnect"], lost' = lost,
         told[e] => told'[e], state[e] = "Disconnected" => state'[e] = "Disconnected"
  PROVE  HeardOK(f)'
<1>1. HeardOK(f) /\ Other(f) = e
  BY EndsFacts DEF HeardIInv
<1> QED BY <1>1 DEF HeardOK, Written

\* Connection.Close.
LEMMA HeardClose ==
  ASSUME HeardIInv, NEW e \in Ends, NEW t \in Threads,
         CloseCAS(e, t) \/ CloseStore(e, t) \/ CloseSend(e, t)
  PROVE  \A f \in Ends : HeardOK(f)'
<1>0. /\ IInv /\ ThreadsOK(e) /\ HeardOK(e) /\ Other(e) \in Ends
      /\ retries[e] \in Nat /\ lost \in Nat
      /\ \A f \in Ends : net[f]["disconnect"] \in Nat
  BY HeardFacts
<1>1. t = "closer"
  BY <1>0, CloseStep
<1>2. PICK label \in CloserLabels : Goto(e, "closer", label)
  BY <1>1 DEF CloseCAS, CloseStore, CloseSend, AfterClose, CloserLabels
<1>3. /\ pc'[e]["closer"] = label /\ pc'[e]["tick"] = pc[e]["tick"]
      /\ pc'[e]["stopper"] = pc[e]["stopper"]
      /\ \A f \in Ends : f # e => pc'[f] = pc[f]
  BY <1>0, <1>2, GotoFacts, LabelFacts DEF IInv, Threads
<1>4. UNCHANGED <<linked, closing, told, lost>>
  BY DEF CloseCAS, CloseStore, CloseSend, shared, network, history
<1>5. CASE CloseCAS(e, t)
  <2>1. /\ pc[e]["closer"] = "idle" /\ label \in {"store", "done"}
        /\ UNCHANGED <<packet, retries, net>>
        /\ state' = state \/ (state[e] = "Connected" /\ state' = [state EXCEPT ![e] = "Disconnecting"])
    <3>1. Goto(e, "closer", "store") \/ Goto(e, "closer", "done")
      BY <1>1, <1>5 DEF CloseCAS, AfterClose
    <3>2. label \in {"store", "done"}
      BY <1>0, <1>3, <3>1, GotoFacts DEF IInv, Threads, Labels, CloserLabels
    <3> QED BY <1>1, <1>5, <3>2 DEF CloseCAS, network
  <2>2. \A f \in Ends : /\ f # e => state'[f] = state[f]
                        /\ state[f] = "Disconnected" => state'[f] = "Disconnected"
    BY <2>1 DEF HeardIInv, IInv, TypeOK
  <2>3. packet[e] # "held" /\ ~(retries[e] > 0)
    BY <1>0, <2>1 DEF HeardOK
  <2>4. HeardOK(e)'
    BY <1>0, <1>3, <1>4, <2>1, <2>2, <2>3 DEF HeardOK
  <2> QED BY <1>3, <1>4, <2>1, <2>2, <2>4, HeardOther
<1>6. CASE CloseStore(e, t)
  <2>1. /\ label = "send" /\ UNCHANGED <<state, net>>
        /\ packet' = [packet EXCEPT ![e] = "held"] /\ retries' = [retries EXCEPT ![e] = 0]
    <3>1. Goto(e, "closer", "send")
      BY <1>1, <1>6 DEF CloseStore
    <3>2. label = "send"
      BY <1>0, <1>3, <3>1, GotoFacts DEF IInv, Threads, Labels, CloserLabels
    <3> QED BY <1>6, <3>2 DEF CloseStore, network
  <2>2. /\ packet'[e] = "held" /\ retries'[e] = 0
        /\ \A f \in Ends : f # e => packet'[f] = packet[f] /\ retries'[f] = retries[f]
    BY <2>1 DEF HeardIInv, IInv, TypeOK
  <2>3. HeardOK(e)'
    BY <1>0, <1>3, <1>4, <2>1, <2>2 DEF HeardOK, Written
  <2> QED BY <1>3, <1>4, <2>1, <2>2, <2>3, HeardOther
<1>7. CASE CloseSend(e, t)
  <2>1. /\ pc[e]["closer"] = "send" /\ label = "done" /\ Write(e, "disconnect")
        /\ UNCHANGED <<state, packet, retries>>
    <3>1. Goto(e, "closer", "done")
      BY <1>1, <1>7 DEF CloseSend, AfterClose
    <3>2. label = "done"
      BY <1>0, <1>3, <3>1, GotoFacts DEF IInv, Threads, Labels, CloserLabels
    <3> QED BY ZenonT(30), <1>1, <1>7, <3>2 DEF CloseSend, WriteDisconnect, shared
  <2>2. /\ net'[e]["disconnect"] = net[e]["disconnect"] + 1
        /\ \A f \in Ends : f # e => net'[f]["disconnect"] = net[f]["disconnect"]
    BY <1>0, <2>1, WriteFacts DEF HeardOK, IInv, Kinds
  <2>3. HeardOK(e)'
    BY <1>0, <1>3, <1>4, <2>1, <2>2 DEF HeardOK, Written
  <2> QED BY <1>3, <1>4, <2>1, <2>2, <2>3, HeardOther
<1> QED BY <1>5, <1>6, <1>7

\* A teardown, here always by the tick goroutine, and what follows it.
LEMMA HeardTeardown ==
  ASSUME HeardIInv, NEW e \in Ends, NEW t \in Threads,
         Release(e, t) \/ SetState(e, t) \/ Unlink(e, t) \/ OnDisconnect(e, t) \/ Return(e, t)
  PROVE  \A f \in Ends : HeardOK(f)'
<1>0. /\ IInv /\ ThreadsOK(e) /\ HeardOK(e) /\ Other(e) \in Ends
      /\ retries[e] \in Nat /\ lost \in Nat
      /\ \A f \in Ends : net[f]["disconnect"] \in Nat
  BY HeardFacts
<1>1. /\ pc[e][t] \in {"release", "setstate", "unlink", "callback", "OnDisconnect", "OnMessage"}
      /\ UNCHANGED <<retries, closing, net, lost, told>>
  BY DEF Release, SetState, Unlink, OnDisconnect, Return, shared, network, history
<1>2. t = "tick"
  <2>1. t \in {"tick", "stopper"}
    BY <1>0, <1>1, TearsDown
  <2> QED BY <1>0, <1>1, <2>1 DEF HeardOK
<1>3. PICK label \in {"setstate", "unlink", "callback", "OnDisconnect", "idle"} :
        Goto(e, "tick", label) /\ (label = "unlink" <=> SetState(e, t))
  <2>1. CASE Release(e, t)
    BY <1>2, <2>1 DEF Release, SetState
  <2>2. CASE SetState(e, t)
    BY <1>2, <2>2 DEF SetState
  <2>3. CASE Unlink(e, t)
    BY <1>2, <2>3 DEF Unlink, SetState
  <2>4. CASE OnDisconnect(e, t)
    BY <1>2, <2>4 DEF OnDisconnect, SetState
  <2>5. CASE Return(e, t)
    BY <1>2, <2>5 DEF Return, SetState
  <2> QED BY <2>1, <2>2, <2>3, <2>4, <2>5
<1>4. /\ pc'[e]["tick"] = label /\ pc'[e]["closer"] = pc[e]["closer"]
      /\ pc'[e]["stopper"] = pc[e]["stopper"]
      /\ \A f \in Ends : f # e => pc'[f] = pc[f]
  BY <1>0, <1>3, MoveFacts DEF Labels, TickLabels
<1>5. /\ packet' = packet \/ packet' = [packet EXCEPT ![e] = "nil"]
      /\ state' = IF SetState(e, t) THEN [state EXCEPT ![e] = "Disconnected"] ELSE state
      /\ \/ linked' = linked
         \/ pc[e]["tick"] = "unlink" /\ ~SetState(e, t) /\ linked' = [linked EXCEPT ![e] = FALSE]
  <2>1. CASE Release(e, t)
    BY <1>2, <2>1 DEF Release, SetState
  <2>2. CASE SetState(e, t)
    BY <1>2, <2>2 DEF SetState
  <2>3. CASE Unlink(e, t)
    BY <1>2, <2>3 DEF Unlink, SetState
  <2>4. CASE OnDisconnect(e, t)
    BY <1>2, <2>4 DEF OnDisconnect, SetState, shared
  <2>5. CASE Return(e, t)
    BY <1>2, <2>5 DEF Return, SetState, shared
  <2> QED BY <2>1, <2>2, <2>3, <2>4, <2>5
<1>6. /\ packet'[e] \in {packet[e], "nil"}
      /\ state'[e] = IF SetState(e, t) THEN "Disconnected" ELSE state[e]
      /\ linked'[e] = linked[e] \/ (pc[e]["tick"] = "unlink" /\ ~SetState(e, t))
      /\ \A f \in Ends : f # e => /\ packet'[f] = packet[f] /\ state'[f] = state[f]
                                  /\ linked'[f] = linked[f]
  BY <1>5 DEF HeardIInv, IInv, TypeOK
<1>7. HeardOK(e)'
  <2>1. Other(e) # e
    BY EndsFacts
  <2>2. state'[Other(e)] = state[Other(e)]
    BY <1>0, <1>6, <2>1
  <2>3. Written(e)' = Written(e)
    BY <1>1, <1>4 DEF Written
  <2>4. ~linked'[e] \/ pc'[e]["tick"] = "unlink" => state'[e] = "Disconnected"
    BY <1>0, <1>3, <1>4, <1>6 DEF HeardOK
  <2> QED BY <1>0, <1>1, <1>3, <1>4, <1>6, <2>2, <2>3, <2>4 DEF HeardOK
<1> QED BY <1>1, <1>4, <1>6, <1>7, HeardOther

\* The steps of the tick goroutine that write nothing.
LEMMA HeardTick ==
  ASSUME HeardIInv, NEW e \in Ends,
         DeliverData(e) \/ TickConnected(e) \/ TickDisconnecting(e) \/ TickRead(e) \/ TickExit(e)
  PROVE  \A f \in Ends : HeardOK(f)'
<1>0. /\ IInv /\ ThreadsOK(e) /\ HeardOK(e) /\ Other(e) \in Ends
      /\ retries[e] \in Nat /\ lost \in Nat
  BY HeardFacts
<1>1. UNCHANGED <<state, linked, packet, retries, closing, net, lost, told>>
  BY ZenonT(30) DEF DeliverData, TickConnected, TickDisconnecting, TickRead, TickExit,
         shared, network, history
<1>2. PICK label \in {"OnMessage", "release", "resend", "idle", "tickConnection", "done"} :
        Goto(e, "tick", label) /\ (label = "resend" => packet[e] = "held")
  BY ZenonT(30) DEF DeliverData, TickConnected, TickDisconnecting, TickRead, TickExit, TearDown
<1>3. /\ pc'[e]["tick"] = label /\ pc'[e]["closer"] = pc[e]["closer"]
      /\ pc'[e]["stopper"] = pc[e]["stopper"]
      /\ \A f \in Ends : f # e => pc'[f] = pc[f]
  BY <1>0, <1>2, MoveFacts DEF Labels, TickLabels
<1>4. HeardOK(e)'
  BY <1>0, <1>1, <1>2, <1>3 DEF HeardOK, Written
<1> QED BY <1>1, <1>3, <1>4, HeardOther

\* A retry: one packet more is written.
LEMMA HeardResend ==
  ASSUME HeardIInv, NEW e \in Ends, Resend(e)
  PROVE  \A f \in Ends : HeardOK(f)'
<1>0. /\ IInv /\ ThreadsOK(e) /\ HeardOK(e) /\ Other(e) \in Ends
      /\ retries[e] \in Nat /\ lost \in Nat
      /\ \A f \in Ends : net[f]["disconnect"] \in Nat
  BY HeardFacts
<1>1. /\ pc[e]["tick"] = "resend" /\ Goto(e, "tick", "idle") /\ Write(e, "disconnect")
      /\ retries' = [retries EXCEPT ![e] = @ + 1]
      /\ UNCHANGED <<state, linked, packet, closing, lost, told>>
  BY ZenonT(30) DEF Resend, WriteDisconnect
<1>2. /\ pc'[e]["tick"] = "idle" /\ pc'[e]["closer"] = pc[e]["closer"]
      /\ pc'[e]["stopper"] = pc[e]["stopper"]
      /\ \A f \in Ends : f # e => pc'[f] = pc[f]
  BY <1>0, <1>1, MoveFacts DEF Labels, TickLabels
<1>3. /\ net'[e]["disconnect"] = net[e]["disconnect"] + 1
      /\ \A f \in Ends : f # e => net'[f]["disconnect"] = net[f]["disconnect"]
  BY <1>0, <1>1, WriteFacts DEF HeardOK, IInv, Kinds
<1>4. /\ retries'[e] = retries[e] + 1
      /\ \A f \in Ends : f # e => retries'[f] = retries[f]
  BY <1>1 DEF HeardIInv, IInv, TypeOK
<1>5. packet[e] = "held"
  BY <1>0, <1>1 DEF HeardOK
<1>6. HeardOK(e)'
  BY <1>0, <1>1, <1>2, <1>3, <1>4, <1>5 DEF HeardOK, Written
<1> QED BY <1>1, <1>2, <1>3, <1>4, <1>6, HeardOther

\* A packet is taken: a disconnect packet by an end that is told of it, or that has
\* disconnected before.
LEMMA HeardTake ==
  ASSUME HeardIInv, NEW e \in Ends, NEW kind \in Kinds, TakeIncoming(e, kind)
  PROVE  \A f \in Ends : HeardOK(f)'
<1>0. /\ IInv /\ ThreadsOK(e) /\ HeardOK(e) /\ Other(e) \in Ends
      /\ retries[e] \in Nat /\ lost \in Nat
  BY HeardFacts
<1>1. /\ pc[e]["tick"] = "idle" /\ net' = [net EXCEPT ![Other(e)][kind] = @ - 1]
      /\ UNCHANGED <<state, linked, packet, retries, closing, lost>>
  BY DEF TakeIncoming, shared
<1>2. /\ pc'[e]["tick"] \in {"idle", "deliver", "release"}
      /\ pc'[e]["closer"] = pc[e]["closer"] /\ pc'[e]["stopper"] = pc[e]["stopper"]
      /\ \A f \in Ends : f # e => pc'[f] = pc[f]
  <2>1. UNCHANGED pc \/ \E label \in {"deliver", "release"} : Goto(e, "tick", label)
    BY DEF TakeIncoming, TearDown
  <2>2. ASSUME NEW label \in {"deliver", "release"}, Goto(e, "tick", label)
        PROVE  <1>2
    BY <1>0, <2>2, MoveFacts DEF Labels, TickLabels
  <2> QED BY <1>1, <2>1, <2>2
<1>3. /\ kind = "disconnect" => told'[e] \/ ~linked[e]
      /\ told[e] => told'[e]
      /\ told'[Other(e)] = told[Other(e)]
  <2>1. told' = told \/ told' = [told EXCEPT ![e] = TRUE]
    BY DEF TakeIncoming
  <2>2. kind = "disconnect" /\ linked[e] => told' = [told EXCEPT ![e] = TRUE]
    BY DEF TakeIncoming
  <2>3. told \in [Ends -> BOOLEAN] /\ Other(e) # e
    BY EndsFacts DEF HeardIInv, IInv, TypeOK
  <2>4. CASE told' = told
    <3>1. ~(kind = "disconnect" /\ linked[e]) \/ told'[e] = TRUE
      BY <2>2, <2>3
    <3> QED BY <2>4, <3>1
  <2>5. CASE told' = [told EXCEPT ![e] = TRUE]
    <3>1. told'[e] = TRUE /\ told'[Other(e)] = told[Other(e)]
      BY <1>0, <2>3, <2>5
    <3> QED BY <3>1
  <2> QED BY <2>1, <2>4, <2>5
<1>4. /\ net'[e]["disconnect"] = net[e]["disconnect"]
      /\ kind = "data" => net'[Other(e)]["disconnect"] = net[Other(e)]["disconnect"]
  <2>1. net \in [Ends -> [Kinds -> Nat]] /\ Other(e) # e
    BY EndsFacts DEF HeardIInv, IInv, TypeOK
  <2>2. net' = [net EXCEPT ![Other(e)] = [net[Other(e)] EXCEPT ![kind] = net[Other(e)][kind] - 1]]
    BY <1>1
  <2> QED BY <1>0, <2>1, <2>2 DEF Kinds
<1>5. HeardOK(e)'
  BY <1>0, <1>1, <1>2, <1>3, <1>4 DEF HeardOK, Written
<1>6. HeardOK(Other(e))'
  <2>1. CASE kind = "data"
    BY <1>0, <1>1, <1>2, <1>3, <1>4, <2>1, EndsFacts, HeardOther
  <2>2. CASE kind = "disconnect"
    <3>1. told'[e] \/ state[e] = "Disconnected"
      BY <1>0, <1>3, <2>2 DEF HeardOK
    <3>2. HeardOK(Other(e)) /\ Other(Other(e)) = e /\ pc'[Other(e)] = pc[Other(e)]
      BY <1>0, <1>2, EndsFacts DEF HeardIInv
    <3> QED BY <1>1, <3>1, <3>2 DEF HeardOK
  <2> QED BY <2>1, <2>2 DEF Kinds
<1> QED BY <1>5, <1>6, EndsFacts

\* Data is sent; a packet is lost, and counted.
LEMMA HeardNetwork ==
  ASSUME HeardIInv, NEW e \in Ends, SendData(e) \/ \E kind \in Kinds : Lose(e, kind)
  PROVE  \A f \in Ends : HeardOK(f)'
<1>0. /\ IInv /\ lost \in Nat /\ \A f \in Ends : HeardOK(f) /\ Other(f) \in Ends
      /\ \A f \in Ends : net[f]["disconnect"] \in Nat /\ retries[f] \in Nat
  BY HeardFacts
<1>1. UNCHANGED <<state, linked, packet, retries, closing, pc, told>>
  BY DEF SendData, Lose, shared, history
<1>2. lost' \in Nat /\ \A f \in Ends :
        /\ net'[f]["disconnect"] \in Nat
        /\ net'[f]["disconnect"] + lost' >= net[f]["disconnect"] + lost
  <2>1. CASE SendData(e)
    <3>1. Write(e, "data") /\ lost' = lost
      BY <2>1 DEF SendData
    <3>2. \A f \in Ends : net'[f]["disconnect"] = net[f]["disconnect"]
      BY <1>0, <3>1, WriteFacts DEF IInv, Kinds
    <3> QED BY <1>0, <3>1, <3>2
  <2>2. ASSUME NEW kind \in Kinds, Lose(e, kind) PROVE <1>2
    <3>1. /\ net[e][kind] > 0 /\ lost' = lost + 1
          /\ net' = [net EXCEPT ![e] = [net[e] EXCEPT ![kind] = net[e][kind] - 1]]
      BY <2>2 DEF Lose
    <3>2. net \in [Ends -> [Kinds -> Nat]]
      BY <1>0 DEF IInv, TypeOK
    <3>3. ASSUME NEW f \in Ends
          PROVE  \/ net'[f]["disconnect"] = net[f]["disconnect"]
                 \/ /\ net[f]["disconnect"] > 0
                    /\ net'[f]["disconnect"] = net[f]["disconnect"] - 1
      <4>1. CASE f = e /\ kind = "disconnect"
        BY <3>1, <3>2, <4>1 DEF Kinds
      <4>2. CASE ~(f = e /\ kind = "disconnect")
        BY <3>1, <3>2, <4>2 DEF Kinds
      <4> QED BY <4>1, <4>2
    <3> QED BY <1>0, <3>1, <3>3
  <2> QED BY <2>1, <2>2
<1>3. ASSUME NEW f \in Ends PROVE HeardOK(f)'
  <2>1. Written(f)' = Written(f) /\ Written(f) \in Nat
    BY <1>0, <1>1 DEF Written
  <2>2. net[f]["disconnect"] + lost >= Written(f) => net'[f]["disconnect"] + lost' >= Written(f)
    BY <1>0, <1>2, <2>1
  <2> QED BY <1>0, <1>1, <2>1, <2>2 DEF HeardOK
<1> QED BY <1>3

-----------------------------------------------------------------------------
(* Tearing down.                                                            *)

\* releasePendingBuffers, by whoever tears the connection down: the tick goroutine is
\* not delivering then.
LEMMA ReleaseStep ==
  ASSUME IInv, NEW e \in Ends, NEW t \in Threads, Release(e, t)
  PROVE  IInv'
<1>0. ThreadsOK(e) /\ TeardownOK(e) /\ ReleaseOK(e)
  BY EndFacts
<1>1. /\ pc[e][t] = "release" /\ Goto(e, t, "setstate")
      /\ released' = [released EXCEPT ![e] = TRUE]
      /\ packet' = [packet EXCEPT ![e] = "nil"]
      /\ freed' = [freed EXCEPT ![e] = @ \/ packet[e] = "held"]
      /\ UNCHANGED <<state, linked, retries, closing, seen, reason, net, lost,
                     told, calls, misuse>>
  BY DEF Release, network, history
<1>2. t \in {"tick", "stopper"} /\ (t = "stopper" => e = "server" /\ pc[e]["tick"] = "done")
  BY <1>1, TearsDown
<1>3. /\ pc' \in [Ends -> [Threads -> Labels]]
      /\ pc'[e][t] = "setstate" /\ pc'[e]["closer"] = pc[e]["closer"]
      /\ t = "tick" => pc'[e]["stopper"] = pc[e]["stopper"]
      /\ t = "stopper" => pc'[e]["tick"] = pc[e]["tick"]
      /\ \A f \in Ends : f # e => pc'[f] = pc[f]
  BY <1>1, <1>2, MoveFacts DEF Labels, TickLabels
<1>4. TypeOK'
  BY ZenonT(30), <1>1, <1>3 DEF IInv, TypeOK
<1>5. ThreadsOK(e)'
  BY <1>0, <1>1, <1>2, <1>3 DEF ThreadsOK, TickLabels, StopLabels
<1>6. TeardownOK(e)'
  BY <1>0, <1>1, <1>2, <1>3 DEF TeardownOK
<1>7. ReleaseOK(e)'
  BY <1>0, <1>1, <1>2, <1>3 DEF ReleaseOK
<1>8. /\ NoDeliverAfterRelease'
      /\ \A f \in Ends : f # e => released'[f] = released[f]
  BY ZenonT(30), <1>1 DEF IInv, NoDeliverAfterRelease, TypeOK
<1> QED BY ZenonT(30), <1>1, <1>3, <1>4, <1>5, <1>6, <1>7, <1>8, LocalStep

\* The connection is disconnected; Server.Stop leaves it in the tables.
LEMMA SetStateStep ==
  ASSUME IInv, NEW e \in Ends, NEW t \in Threads, SetState(e, t)
  PROVE  IInv'
<1>0. ThreadsOK(e) /\ TeardownOK(e) /\ ReleaseOK(e)
  BY EndFacts
<1>1. /\ pc[e][t] = "setstate" /\ state' = [state EXCEPT ![e] = "Disconnected"]
      /\ UNCHANGED <<linked, released, packet, freed, retries, closing, seen, reason,
                     net, lost, told, calls, misuse>>
  BY DEF SetState, network, history
<1>2. t \in {"tick", "stopper"} /\ (t = "stopper" => e = "server" /\ pc[e]["tick"] = "done")
  BY <1>1, TearsDown
<1>3. PICK label \in {"callback", "unlink"} :
        /\ Goto(e, t, label)
        /\ t = "stopper" => label = "callback"
        /\ t = "tick" => label = "unlink"
  BY <1>2 DEF SetState
<1>4. /\ pc' \in [Ends -> [Threads -> Labels]]
      /\ pc'[e][t] = label /\ pc'[e]["closer"] = pc[e]["closer"]
      /\ t = "tick" => pc'[e]["stopper"] = pc[e]["stopper"]
      /\ t = "stopper" => pc'[e]["tick"] = pc[e]["tick"]
      /\ \A f \in Ends : f # e => pc'[f] = pc[f]
  BY <1>2, <1>3, MoveFacts DEF Labels, TickLabels
<1>5. TypeOK'
  BY ZenonT(30), <1>1, <1>4 DEF IInv, TypeOK, States
<1>6. ThreadsOK(e)'
  BY <1>0, <1>1, <1>2, <1>3, <1>4 DEF ThreadsOK, TickLabels, StopLabels
<1>7. TeardownOK(e)'
  BY <1>0, <1>1, <1>2, <1>3, <1>4 DEF TeardownOK
<1>8. ReleaseOK(e)'
  BY <1>0, <1>1, <1>2, <1>3, <1>4 DEF ReleaseOK
<1>9. NoDeliverAfterRelease'
  BY ZenonT(30), <1>1 DEF IInv, NoDeliverAfterRelease
<1> QED BY <1>1, <1>4, <1>5, <1>6, <1>7, <1>8, <1>9, LocalStep

\* The connection leaves the tables.
LEMMA UnlinkStep ==
  ASSUME IInv, NEW e \in Ends, NEW t \in Threads, Unlink(e, t)
  PROVE  IInv' /\ t = "tick"
<1>0. ThreadsOK(e) /\ TeardownOK(e) /\ ReleaseOK(e)
  BY EndFacts
<1>1. /\ pc[e][t] = "unlink" /\ Goto(e, t, "callback")
      /\ linked' = [linked EXCEPT ![e] = FALSE]
      /\ UNCHANGED <<state, released, packet, freed, retries, closing, seen, reason,
                     net, lost, told, calls, misuse>>
  BY DEF Unlink, network, history
<1>2. t = "tick"
  BY <1>1, TearsDown
<1>3. /\ pc' \in [Ends -> [Threads -> Labels]]
      /\ pc'[e]["tick"] = "callback" /\ pc'[e]["closer"] = pc[e]["closer"]
      /\ pc'[e]["stopper"] = pc[e]["stopper"]
      /\ \A f \in Ends : f # e => pc'[f] = pc[f]
  BY <1>1, <1>2, MoveFacts DEF Labels, TickLabels
<1>4. TypeOK'
  BY ZenonT(30), <1>1, <1>3 DEF IInv, TypeOK
<1>5. linked'[e] = FALSE /\ \A f \in Ends : f # e => linked'[f] = linked[f]
  BY <1>1 DEF IInv, TypeOK
<1>6. ThreadsOK(e)'
  BY ZenonT(30), <1>0, <1>1, <1>2, <1>3 DEF ThreadsOK, TickLabels
<1>7. TeardownOK(e)'
  BY <1>0, <1>1, <1>2, <1>3, <1>5 DEF TeardownOK, ThreadsOK
<1>8. ReleaseOK(e)'
  BY <1>5, <1>3 DEF ReleaseOK
<1>9. NoDeliverAfterRelease'
  BY ZenonT(30), <1>1 DEF IInv, NoDeliverAfterRelease
<1> QED BY ZenonT(30), <1>1, <1>2, <1>3, <1>4, <1>5, <1>6, <1>7, <1>8, <1>9, LocalStep

\* OnDisconnect is called: for the first time.
LEMMA OnDisconnectStep ==
  ASSUME IInv, NEW e \in Ends, NEW t \in Threads, OnDisconnect(e, t)
  PROVE  IInv'
<1>0. ThreadsOK(e) /\ TeardownOK(e) /\ ReleaseOK(e)
  BY EndFacts
<1>1. /\ pc[e][t] = "callback" /\ Goto(e, t, "OnDisconnect")
      /\ calls' = [calls EXCEPT ![e] = Append(@, reason[e][t])]
      /\ UNCHANGED <<state, linked, released, packet, freed, retries, closing, seen, reason,
                     net, lost, told, misuse>>
  BY DEF OnDisconnect, shared, network
<1>2. t \in {"tick", "stopper"} /\ (t = "stopper" => e = "server" /\ pc[e]["tick"] = "done")
  BY <1>1, TearsDown
<1>3. /\ pc' \in [Ends -> [Threads -> Labels]]
      /\ pc'[e][t] = "OnDisconnect" /\ pc'[e]["closer"] = pc[e]["closer"]
      /\ t = "tick" => pc'[e]["stopper"] = pc[e]["stopper"]
      /\ t = "stopper" => pc'[e]["tick"] = pc[e]["tick"]
      /\ \A f \in Ends : f # e => pc'[f] = pc[f]
  BY ZenonT(30), <1>1, <1>2, MoveFacts DEF Labels, TickLabels
<1>4. calls[e] = << >>
  BY <1>0, <1>1, <1>2 DEF TeardownOK
<1>5. reason[e][t] \in Reasons
  BY DEF IInv, TypeOK
<1>6. /\ calls' \in [Ends -> Seq(Reasons)] /\ Len(calls'[e]) = 1
      /\ \A f \in Ends : f # e => calls'[f] = calls[f]
  BY <1>1, <1>4, <1>5 DEF IInv, TypeOK
<1>7. TypeOK'
  BY <1>1, <1>3, <1>6 DEF IInv, TypeOK
<1>8. ThreadsOK(e)'
  BY <1>0, <1>1, <1>2, <1>3 DEF ThreadsOK, TickLabels, StopLabels
<1>9. TeardownOK(e)'
  BY <1>0, <1>1, <1>2, <1>3, <1>6 DEF TeardownOK
<1>10. ReleaseOK(e)'
  BY <1>0, <1>1, <1>2, <1>3 DEF ReleaseOK
<1>11. NoDeliverAfterRelease'
  BY ZenonT(30), <1>1 DEF IInv, NoDeliverAfterRelease
<1> QED BY <1>1, <1>3, <1>6, <1>7, <1>8, <1>9, <1>10, <1>11, LocalStep

\* A handler returns.
LEMMA ReturnStep ==
  ASSUME IInv, NEW e \in Ends, NEW t \in Threads, Return(e, t)
  PROVE  IInv'
<1>0. ThreadsOK(e) /\ TeardownOK(e) /\ ReleaseOK(e)
  BY EndFacts
<1>1. /\ pc[e][t] \in {"OnDisconnect", "OnMessage"}
      /\ UNCHANGED <<state, linked, released, packet, freed, retries, closing, seen, reason,
                     net, lost, told, calls, misuse>>
  BY DEF Return, shared, network, history
<1>2. t \in {"tick", "stopper"} /\ (t = "stopper" => e = "server" /\ pc[e]["tick"] = "done")
  BY <1>1, TearsDown
<1>3. PICK label \in {"idle", "done"} :
        Goto(e, t, label) /\ (t = "stopper" => label = "done") /\ (t = "tick" => label = "idle")
  <2>1. t = "tick" => Goto(e, t, "idle")
    BY DEF Return
  <2>2. t = "stopper" => Goto(e, t, "done")
    BY <1>2 DEF Return
  <2> QED BY <1>2, <2>1, <2>2
<1>4. /\ pc' \in [Ends -> [Threads -> Labels]]
      /\ pc'[e][t] = label /\ pc'[e]["closer"] = pc[e]["closer"]
      /\ t = "tick" => pc'[e]["stopper"] = pc[e]["stopper"]
      /\ t = "stopper" => pc'[e]["tick"] = pc[e]["tick"]
      /\ \A f \in Ends : f # e => pc'[f] = pc[f]
  BY <1>2, <1>3, MoveFacts DEF Labels, TickLabels
<1>5. TypeOK'
  BY <1>1, <1>4 DEF IInv, TypeOK
<1>6. ThreadsOK(e)'
  BY <1>0, <1>1, <1>2, <1>3, <1>4 DEF ThreadsOK, TickLabels, StopLabels
<1>7. TeardownOK(e)'
  BY ZenonT(30), <1>0, <1>1, <1>2, <1>3, <1>4 DEF TeardownOK, ThreadsOK, StopLabels
<1>8. ReleaseOK(e)'
  BY <1>0, <1>1, <1>2, <1>3, <1>4 DEF ReleaseOK
<1>9. NoDeliverAfterRelease'
  BY ZenonT(30), <1>1 DEF IInv, NoDeliverAfterRelease
<1> QED BY <1>1, <1>4, <1>5, <1>6, <1>7, <1>8, <1>9, LocalStep

-----------------------------------------------------------------------------
(* The tick goroutine.                                                      *)

\* What all steps of the tick goroutine have in common outside of a teardown: it
\* goes on with the connection only while that is in the tables.
LEMMA TickMoves ==
  ASSUME IInv, NEW e \in Ends, NEW label \in TickLabels \ {"setstate", "unlink", "callback"},
         Goto(e, "tick", label),
         pc[e]["tick"] \in {"idle", "deliver", "tickConnection", "resend"},
         label \in {"deliver", "tickConnection", "resend", "release"} => linked[e],
         label = "deliver" => ~released[e],
         UNCHANGED <<linked, released, calls>>, NoDeliverAfterRelease',
         pc' \in [Ends -> [Threads -> Labels]] => TypeOK'
  PROVE  IInv'
<1>0. ThreadsOK(e) /\ TeardownOK(e) /\ ReleaseOK(e)
  BY EndFacts
<1>1. /\ pc' \in [Ends -> [Threads -> Labels]]
      /\ pc'[e]["tick"] = label /\ pc'[e]["closer"] = pc[e]["closer"]
      /\ pc'[e]["stopper"] = pc[e]["stopper"]
      /\ \A f \in Ends : f # e => pc'[f] = pc[f]
  BY MoveFacts, LabelFacts
<1>2. ThreadsOK(e)'
  BY <1>0, <1>1 DEF ThreadsOK
<1>3. TeardownOK(e)'
  BY <1>0, <1>1 DEF TeardownOK
<1>4. ReleaseOK(e)'
  BY <1>0, <1>1 DEF ReleaseOK
<1> QED BY <1>1, <1>2, <1>3, <1>4, MoveStep

\* A connection in the tables that the tick goroutine comes back to is not released.
LEMMA LinkedIsLive ==
  ASSUME IInv, NEW e \in Ends, pc[e]["tick"] = "idle", linked[e]
  PROVE  ~released[e]
BY EndFacts DEF ReleaseOK, ThreadsOK

\* A packet off the incoming queue.
LEMMA TakeIncomingStep ==
  ASSUME IInv, NEW e \in Ends, NEW kind \in Kinds, TakeIncoming(e, kind)
  PROVE  IInv'
<1>1. /\ pc[e]["tick"] = "idle" /\ net[Other(e)][kind] > 0
      /\ net' = [net EXCEPT ![Other(e)][kind] = @ - 1]
      /\ UNCHANGED <<state, linked, released, packet, freed, retries, closing, seen,
                     lost, calls, misuse>>
  BY DEF TakeIncoming, shared
<1>2. net' \in [Ends -> [Kinds -> Nat]]
  <2>1. net \in [Ends -> [Kinds -> Nat]] /\ Other(e) \in Ends
    BY EndsFacts DEF IInv, TypeOK
  <2>2. [net[Other(e)] EXCEPT ![kind] = net[Other(e)][kind] - 1] \in [Kinds -> Nat]
    BY <1>1, <2>1
  <2>3. net' = [net EXCEPT ![Other(e)] = [net[Other(e)] EXCEPT ![kind] = net[Other(e)][kind] - 1]]
    BY <1>1
  <2> QED BY <2>1, <2>2, <2>3
<1>3. NoDeliverAfterRelease'
  BY ZenonT(30), <1>1 DEF IInv, NoDeliverAfterRelease
<1>4. CASE ~linked[e]
  <2>1. UNCHANGED <<pc, reason, told>>
    BY <1>4 DEF TakeIncoming
  <2>2. TypeOK'
    BY <1>1, <1>2, <2>1 DEF IInv, TypeOK
  <2>3. ThreadsOK(e)' /\ TeardownOK(e)' /\ ReleaseOK(e)'
    BY <1>1, <2>1, EndFacts DEF ThreadsOK, TeardownOK, ReleaseOK
  <2> QED BY <1>1, <1>3, <2>1, <2>2, <2>3, MoveStep
<1>5. CASE linked[e] /\ kind = "data"
  <2>1. Goto(e, "tick", "deliver") /\ UNCHANGED <<reason, told>>
    BY <1>5 DEF TakeIncoming
  <2>2. pc' \in [Ends -> [Threads -> Labels]] => TypeOK'
    BY <1>1, <1>2, <2>1 DEF IInv, TypeOK
  <2> QED BY <1>1, <1>3, <1>5, <2>1, <2>2, LinkedIsLive, TickMoves DEF TickLabels
<1>6. CASE linked[e] /\ kind # "data"
  <2>1. /\ Goto(e, "tick", "release") /\ told' = [told EXCEPT ![e] = TRUE]
        /\ reason' = [reason EXCEPT ![e]["tick"] = "graceful"]
    BY <1>6 DEF TakeIncoming, TearDown
  <2>2. reason' \in [Ends -> [Threads -> Reasons]] /\ told' \in [Ends -> BOOLEAN]
    BY ZenonT(30), <2>1 DEF IInv, TypeOK, Reasons
  <2>3. pc' \in [Ends -> [Threads -> Labels]] => TypeOK'
    BY <1>1, <1>2, <2>2 DEF IInv, TypeOK
  <2> QED BY <1>1, <1>3, <1>6, <2>1, <2>3, TickMoves DEF TickLabels
<1> QED BY <1>4, <1>5, <1>6

\* deliver runs on a connection that is not released.
LEMMA DeliverDataStep ==
  ASSUME IInv, NEW e \in Ends, DeliverData(e)
  PROVE  IInv'
<1>0. ThreadsOK(e) /\ TeardownOK(e) /\ ReleaseOK(e)
  BY EndFacts
<1>1. /\ pc[e]["tick"] = "deliver" /\ Goto(e, "tick", "OnMessage")
      /\ UNCHANGED <<state, linked, released, packet, freed, retries, closing, seen, reason,
                     net, lost, told, calls>>
  BY ZenonT(30) DEF DeliverData, shared, network
<1>2. misuse' = misuse
  BY ZenonT(30), <1>0, <1>1 DEF DeliverData, ReleaseOK
<1>3. NoDeliverAfterRelease'
  BY ZenonT(30), <1>2 DEF IInv, NoDeliverAfterRelease
<1>4. pc' \in [Ends -> [Threads -> Labels]] => TypeOK'
  BY <1>1 DEF IInv, TypeOK
<1> QED BY ZenonT(30), <1>1, <1>3, <1>4, TickMoves DEF TickLabels

\* tickConnection begins with what the tables hold.
LEMMA TickReadStep ==
  ASSUME IInv, NEW e \in Ends, TickRead(e)
  PROVE  IInv'
<1>1. /\ pc[e]["tick"] = "idle" /\ linked[e] /\ Goto(e, "tick", "tickConnection")
      /\ seen' = [seen EXCEPT ![e] = state[e]]
      /\ UNCHANGED <<state, linked, released, packet, freed, retries, closing, reason,
                     net, lost, told, calls, misuse>>
  BY DEF TickRead, shared, network, history
<1>2. NoDeliverAfterRelease'
  BY ZenonT(30), <1>1 DEF IInv, NoDeliverAfterRelease
<1>3. pc' \in [Ends -> [Threads -> Labels]] => TypeOK'
  BY ZenonT(30), <1>1 DEF IInv, TypeOK
<1> QED BY <1>1, <1>2, <1>3, TickMoves DEF TickLabels

\* The rest of tickConnection, and the end of the loop.
LEMMA TickStepStep ==
  ASSUME IInv, NEW e \in Ends,
         TickConnected(e) \/ TickDisconnecting(e) \/ TickExit(e)
  PROVE  IInv'
<1>0. ThreadsOK(e) /\ TeardownOK(e) /\ ReleaseOK(e)
  BY EndFacts
<1>1. /\ pc[e]["tick"] \in {"idle", "tickConnection"}
      /\ UNCHANGED <<state, linked, released, packet, freed, retries, closing, seen,
                     net, lost, told, calls, misuse>>
  BY DEF TickConnected, TickDisconnecting, TickExit, shared, network, history
<1>2. PICK label \in {"release", "resend", "idle", "done"} :
        /\ Goto(e, "tick", label)
        /\ label \in {"release", "resend"} => pc[e]["tick"] = "tickConnection"
  BY DEF TickConnected, TickDisconnecting, TickExit, TearDown
<1>3. \/ UNCHANGED reason
      \/ \E why \in Reasons : reason' = [reason EXCEPT ![e]["tick"] = why]
  BY DEF TickConnected, TickDisconnecting, TickExit, TearDown, Reasons
<1>4. reason' \in [Ends -> [Threads -> Reasons]]
  <2>1. CASE UNCHANGED reason
    BY <2>1 DEF IInv, TypeOK
  <2>2. ASSUME NEW why \in Reasons, reason' = [reason EXCEPT ![e]["tick"] = why]
        PROVE  reason' \in [Ends -> [Threads -> Reasons]]
    BY ZenonT(30), <2>2, ReasonFacts DEF IInv, Threads
  <2> QED BY <1>3, <2>1, <2>2
<1>5. label \in {"release", "resend"} => linked[e]
  BY <1>0, <1>2 DEF TeardownOK
<1>6. NoDeliverAfterRelease'
  BY ZenonT(30), <1>1 DEF IInv, NoDeliverAfterRelease
<1>7. pc' \in [Ends -> [Threads -> Labels]] => TypeOK'
  BY <1>1, <1>4 DEF IInv, TypeOK
<1> QED BY <1>1, <1>2, <1>5, <1>6, <1>7, TickMoves DEF TickLabels

\* A retry of the disconnect packet.
LEMMA ResendStep ==
  ASSUME IInv, NEW e \in Ends, Resend(e)
  PROVE  IInv'
<1>1. /\ pc[e]["tick"] = "resend" /\ Goto(e, "tick", "idle") /\ Write(e, "disconnect")
      /\ retries' = [retries EXCEPT ![e] = @ + 1]
      /\ UNCHANGED <<state, linked, released, packet, freed, closing, seen, reason,
                     lost, told, calls>>
      /\ misuse' \subseteq misuse \union {"write of a freed buffer"}
  BY ZenonT(30) DEF Resend, WriteDisconnect
<1>2. net' \in [Ends -> [Kinds -> Nat]]
  BY ZenonT(30), <1>1, WriteFacts DEF IInv, Kinds
<1>3. NoDeliverAfterRelease'
  BY ZenonT(30), <1>1 DEF IInv, NoDeliverAfterRelease
<1>4. pc' \in [Ends -> [Threads -> Labels]] => TypeOK'
  <2>1. retries' \in [Ends -> Nat]
    <3>1. retries \in [Ends -> Nat]
      BY DEF IInv, TypeOK
    <3>2. retries' = [retries EXCEPT ![e] = retries[e] + 1]
      BY ZenonT(30), <1>1
    <3> QED BY <3>1, <3>2
  <2> QED BY ZenonT(30), <1>1, <1>2, <2>1 DEF IInv, TypeOK
<1> QED BY ZenonT(30), <1>1, <1>3, <1>4, TickMoves DEF TickLabels

-----------------------------------------------------------------------------
(* Server.Stop, and the network.                                            *)

\* Server.Stop closes the socket, waits for the tick goroutine and then looks into
\* the tables.
LEMMA StopStep ==
  ASSUME IInv, NEW e \in Ends, StopBegins(e) \/ Shutdown(e) \/ Join(e)
  PROVE  IInv' /\ e = "server"
<1>0. ThreadsOK(e) /\ TeardownOK(e) /\ ReleaseOK(e)
  BY EndFacts
<1>1. /\ pc[e]["stopper"] \in {"idle", "shutdown", "wait"}
      /\ UNCHANGED <<state, linked, released, packet, freed, retries, seen,
                     net, lost, told, calls, misuse>>
  BY DEF StopBegins, Shutdown, Join, shared, network, history
<1>2. e = "server"
  BY <1>0, <1>1 DEF ThreadsOK, Ends
<1>3. PICK label \in {"shutdown", "wait", "release", "done"} :
        /\ Goto(e, "stopper", label)
        /\ label \in {"release", "done"} => pc[e]["tick"] = "done"
        /\ label = "release" => linked[e]
        /\ label = "done" => ~linked[e]
  BY <1>2 DEF StopBegins, Shutdown, Join
<1>4. /\ pc' \in [Ends -> [Threads -> Labels]]
      /\ pc'[e]["stopper"] = label /\ pc'[e]["closer"] = pc[e]["closer"]
      /\ pc'[e]["tick"] = pc[e]["tick"]
      /\ \A f \in Ends : f # e => pc'[f] = pc[f]
  BY <1>3, MoveFacts DEF Labels, StopLabels
<1>5. closing' \in [Ends -> BOOLEAN] /\ reason' \in [Ends -> [Threads -> Reasons]]
  <2>1. CASE StopBegins(e)
    <3>1. reason' = [reason EXCEPT ![e]["stopper"] = "graceful"] /\ UNCHANGED closing
      BY <2>1 DEF StopBegins, shared
    <3> QED BY ZenonT(30), <3>1, ReasonFacts DEF IInv, TypeOK, Threads, Reasons
  <2>2. CASE Shutdown(e)
    BY <2>2 DEF Shutdown, IInv, TypeOK
  <2>3. CASE Join(e)
    BY <2>3 DEF Join, shared, IInv, TypeOK
  <2> QED BY <2>1, <2>2, <2>3
<1>6. TypeOK'
  BY <1>1, <1>4, <1>5 DEF IInv, TypeOK
<1>7. ThreadsOK(e)'
  BY <1>0, <1>2, <1>3, <1>4 DEF ThreadsOK, StopLabels
<1>8. TeardownOK(e)'
  BY ZenonT(30), <1>0, <1>1, <1>3, <1>4 DEF TeardownOK
<1>9. ReleaseOK(e)'
  BY <1>0, <1>1, <1>3, <1>4 DEF ReleaseOK
<1>10. NoDeliverAfterRelease'
  BY ZenonT(30), <1>1 DEF IInv, NoDeliverAfterRelease
<1> QED BY <1>1, <1>2, <1>4, <1>6, <1>7, <1>8, <1>9, <1>10, LocalStep

\* Data is sent, or a packet is lost: no teardown sees it.
LEMMA NetworkStep ==
  ASSUME IInv, NEW e \in Ends, SendData(e) \/ \E kind \in Kinds : Lose(e, kind)
  PROVE  IInv'
<1>1. UNCHANGED <<state, linked, released, packet, freed, retries, closing, pc, seen, reason,
                  told, calls, misuse>>
  BY DEF SendData, Lose, shared, history
<1>2. net' \in [Ends -> [Kinds -> Nat]] /\ lost' \in Nat
  <2>1. CASE SendData(e)
    BY <2>1, WriteFacts DEF SendData, IInv, TypeOK, Kinds
  <2>2. ASSUME NEW kind \in Kinds, Lose(e, kind)
        PROVE  net' \in [Ends -> [Kinds -> Nat]] /\ lost' \in Nat
    <3>1. net \in [Ends -> [Kinds -> Nat]] /\ lost \in Nat
      BY DEF IInv, TypeOK
    <3>2. /\ net[e][kind] > 0 /\ lost' = lost + 1
          /\ net' = [net EXCEPT ![e] = [net[e] EXCEPT ![kind] = net[e][kind] - 1]]
      BY <2>2 DEF Lose
    <3>3. [net[e] EXCEPT ![kind] = net[e][kind] - 1] \in [Kinds -> Nat]
      BY <3>1, <3>2
    <3> QED BY <3>1, <3>2, <3>3
  <2> QED BY <2>1, <2>2
<1>3. TypeOK'
  BY <1>1, <1>2 DEF IInv, TypeOK
<1>4. ThreadsOK(e)' /\ TeardownOK(e)' /\ ReleaseOK(e)'
  BY <1>1, EndFacts DEF ThreadsOK, TeardownOK, ReleaseOK
<1>5. NoDeliverAfterRelease'
  BY ZenonT(30), <1>1 DEF IInv, NoDeliverAfterRelease
<1> QED BY <1>1, <1>3, <1>4, <1>5, MoveStep

-----------------------------------------------------------------------------
(* A connection is torn down once.                                          *)

\* An established connection satisfies the invariant.
LEMMA InitIInv == NoClientClose /\ Init => IInv
<1> SUFFICES ASSUME NoClientClose, Init PROVE IInv OBVIOUS
<1>1. PICK calling \in Scenarios :
        pc = [e \in Ends |-> [t \in Threads |->
                IF t = "tick" \/ <<e, t>> \in calling THEN "idle" ELSE "absent"]]
  BY DEF Init
<1>2. pc \in [Ends -> [Threads -> Labels]]
  BY <1>1 DEF Labels, TickLabels, CloserLabels
<1>3. TypeOK
  BY <1>2 DEF Init, TypeOK, States, Reasons
<1>4. ASSUME NEW e \in Ends
      PROVE  ThreadsOK(e) /\ TeardownOK(e) /\ ReleaseOK(e)
  <2>1. /\ pc[e]["tick"] = "idle" /\ pc[e]["closer"] \in {"idle", "absent"}
        /\ pc[e]["stopper"] \in {"idle", "absent"}
    BY <1>1 DEF Threads
  <2>2. e = "client" => pc[e]["stopper"] = "absent"
    BY <1>1 DEF NoClientClose, Threads
  <2>3. linked[e] = TRUE /\ released[e] = FALSE /\ calls[e] = << >>
    BY DEF Init
  <2>4. ThreadsOK(e)
    BY <2>1, <2>2 DEF ThreadsOK, TickLabels, CloserLabels, StopLabels
  <2>5. TeardownOK(e) /\ ReleaseOK(e)
    BY <2>1, <2>3 DEF TeardownOK, ReleaseOK
  <2> QED BY <2>4, <2>5
<1>5. NoDeliverAfterRelease
  BY DEF Init, NoDeliverAfterRelease
<1> QED BY <1>3, <1>4, <1>5 DEF IInv

\* Every step of every goroutine, and of the network, preserves the invariant.
LEMMA NextIInv == IInv /\ [Next]_vars => IInv'
<1> SUFFICES ASSUME IInv, [Next]_vars PROVE IInv'
  OBVIOUS
<1>1. ASSUME NEW e \in Ends, NEW t \in Threads, ThreadStep(e, t) PROVE IInv'
  BY <1>1, CloseStep, ReleaseStep, SetStateStep, UnlinkStep, OnDisconnectStep, ReturnStep
     DEF ThreadStep
<1>2. ASSUME NEW e \in Ends, TickStep(e) \/ TickRead(e) \/ TickExit(e) PROVE IInv'
  BY <1>2, DeliverDataStep, TickStepStep, ResendStep, TickReadStep DEF TickStep
<1>3. ASSUME NEW e \in Ends, StopBegins(e) \/ Shutdown(e) \/ Join(e) PROVE IInv'
  BY <1>3, StopStep
<1>4. ASSUME NEW e \in Ends, NEW kind \in Kinds, TakeIncoming(e, kind) PROVE IInv'
  BY <1>4, TakeIncomingStep
<1>5. ASSUME NEW e \in Ends, SendData(e) \/ \E kind \in Kinds : Lose(e, kind) PROVE IInv'
  BY <1>5, NetworkStep
<1>6. CASE UNCHANGED vars
  <2>1. UNCHANGED <<state, linked, released, packet, freed, retries, closing, pc, seen,
                    reason, net, lost, told, calls, misuse>>
    BY <1>6 DEF vars, shared, network, history
  <2>2. TypeOK' /\ NoDeliverAfterRelease'
    BY ZenonT(30), <2>1 DEF IInv, TypeOK, NoDeliverAfterRelease
  <2>3. \A e \in Ends : ThreadsOK(e)' /\ TeardownOK(e)' /\ ReleaseOK(e)'
    BY <2>1, EndFacts DEF ThreadsOK, TeardownOK, ReleaseOK
  <2> QED BY <2>2, <2>3 DEF IInv
<1> QED BY <1>1, <1>2, <1>3, <1>4, <1>5, <1>6 DEF Next

\* Unless an application calls Client.Close, the inductive invariant holds in every
\* reachable state.
THEOREM Invariance == NoClientClose /\ Spec => []IInv
<1>1. QED BY InitIInv, NextIInv, PTL DEF Spec

\* The application hears at most once of the end of a connection, whatever the
\* order of Connection.Close, Server.Stop, the peer's disconnect and a timeout.
THEOREM OneOnDisconnectAlways == NoClientClose /\ Spec => []OneOnDisconnect
<1>1. IInv => OneOnDisconnect
  BY DEF IInv, TeardownOK, OneOnDisconnect
<1>2. QED BY <1>1, Invariance, PTL

\* Nothing is delivered into a channel that was torn down.
THEOREM NoDeliverAfterReleaseAlways == NoClientClose /\ Spec => []NoDeliverAfterRelease
<1>1. IInv => NoDeliverAfterRelease
  BY DEF IInv
<1>2. QED BY <1>1, Invariance, PTL

-----------------------------------------------------------------------------
(* A close is heard.                                                        *)

\* Every step preserves the stronger invariant.
LEMMA NextHeard == HeardIInv /\ [Next]_vars => HeardIInv'
<1> SUFFICES ASSUME HeardIInv, [Next]_vars PROVE \A f \in Ends : HeardOK(f)'
  BY NextIInv DEF HeardIInv
<1>1. ASSUME NEW e \in Ends, NEW t \in Threads, ThreadStep(e, t)
      PROVE  \A f \in Ends : HeardOK(f)'
  BY <1>1, HeardClose, HeardTeardown DEF ThreadStep
<1>2. ASSUME NEW e \in Ends, TickStep(e) \/ TickRead(e) \/ TickExit(e)
      PROVE  \A f \in Ends : HeardOK(f)'
  BY <1>2, HeardTick, HeardResend DEF TickStep
<1>3. ASSUME NEW e \in Ends PROVE ~(StopBegins(e) \/ Shutdown(e) \/ Join(e))
  BY HeardFacts DEF HeardOK, StopBegins, Shutdown, Join
<1>4. ASSUME NEW e \in Ends, NEW kind \in Kinds, TakeIncoming(e, kind)
      PROVE  \A f \in Ends : HeardOK(f)'
  BY <1>4, HeardTake
<1>5. ASSUME NEW e \in Ends, SendData(e) \/ \E kind \in Kinds : Lose(e, kind)
      PROVE  \A f \in Ends : HeardOK(f)'
  BY <1>5, HeardNetwork
<1>6. CASE UNCHANGED vars
  <2>1. UNCHANGED <<state, linked, packet, retries, closing, pc, net, lost, told>>
    BY <1>6 DEF vars, shared, network, history
  <2> QED BY <2>1 DEF HeardIInv, HeardOK, Written
<1> QED BY <1>1, <1>2, <1>3, <1>4, <1>5, <1>6 DEF Next

\* An established connection satisfies the stronger invariant.
LEMMA InitHeard == OnlyConnectionClose /\ Init => HeardIInv
<1> SUFFICES ASSUME OnlyConnectionClose, Init PROVE HeardIInv OBVIOUS
<1>1. NoClientClose
  BY EndsFacts DEF OnlyConnectionClose, NoClientClose
<1>2. ASSUME NEW e \in Ends PROVE HeardOK(e)
  <2>1. pc[e]["stopper"] = "absent" /\ pc[e]["tick"] = "idle"
    BY DEF Init, OnlyConnectionClose, Threads
  <2>2. linked[e] = TRUE /\ closing[e] = FALSE /\ packet[e] = "nil" /\ retries[e] = 0
    BY DEF Init
  <2> QED BY <2>1, <2>2 DEF HeardOK
<1> QED BY <1>1, <1>2, InitIInv DEF HeardIInv

\* Where connections are closed with Connection.Close only, an end that gave up its
\* retries was heard by its peer, unless the network lost the packet and every
\* retry: for any number of retries.
THEOREM CloseIsHeardAlways == OnlyConnectionClose /\ Spec => []CloseIsHeard
<1>1. HeardIInv => CloseIsHeard
  <2> SUFFICES ASSUME HeardIInv, NEW e \in Ends, state[e] = "Disconnected", GivesUp(e),
                      ~told[Other(e)], ~(net[e]["disconnect"] > 0), pc[e]["closer"] # "send",
                      state[Other(e)] # "Disconnected"
               PROVE  lost > MaxDisconnectRetries
    BY DEF CloseIsHeard
  <2>1. /\ HeardOK(e) /\ retries[e] \in Nat /\ lost \in Nat
        /\ net[e]["disconnect"] \in Nat
    BY HeardFacts
  <2>2. retries[e] >= MaxDisconnectRetries /\ MaxDisconnectRetries \in Nat \ {0}
    BY LifecycleAssumption DEF GivesUp
  <2>3. pc[e]["closer"] = "done"
    BY <2>1, <2>2 DEF HeardOK
  <2>4. net[e]["disconnect"] + lost >= retries[e] + 1
    BY <2>1, <2>2, <2>3 DEF HeardOK, Written
  <2> QED BY <2>1, <2>2, <2>4
<1>2. QED BY <1>1, InitHeard, NextHeard, PTL DEF Spec

=============================================================================
