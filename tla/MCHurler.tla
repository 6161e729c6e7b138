------------------------------ MODULE MCHurler ------------------------------
(***************************************************************************)
(* An instance of Hurler: one host, whose endpoints may be registered for  *)
(* round robin, for fanout, and both ways.                                 *)
(***************************************************************************)
EXTENDS Hurler

BothWays == DispatchKind \X Hosts \X Addresses
=============================================================================
