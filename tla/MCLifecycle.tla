---------------------------- MODULE MCLifecycle -----------------------------
(***************************************************************************)
(* The executor's instance of Lifecycle: presence first, then the route.   *)
(***************************************************************************)
EXTENDS Lifecycle

ExecutorNodes == <<"presence", "route">>
=============================================================================
