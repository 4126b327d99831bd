---------------------------- MODULE MCLifecycle -----------------------------
(***************************************************************************)
(* The calls that the applications of the two ends make, for module        *)
(* Lifecycle.                                                              *)
(***************************************************************************)
EXTENDS Lifecycle

\* Both call Connection.Close.
BothClose == {Ends \X {"closer"}}

\* The client closes its connection while the server stops; or the client
\* stops and the server does not.
CloseAndStop ==
  {{<<"client", "closer">>, <<"server", "stopper">>}, {<<"client", "stopper">>}}
=============================================================================
