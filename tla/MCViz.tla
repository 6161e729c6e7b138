------------------------------- MODULE MCViz --------------------------------
(***************************************************************************)
(* An instance of Viz for TLC, with the simulation before it.              *)
(***************************************************************************)
EXTENDS Viz, TLC

CONSTANTS t1, t2, t3

\* Samples of a whole number of seconds, and of a little less.
TwoSeconds == {100, 97}

\* At once, in between, and after the last whole second.
OneAfterTheOther == t1 :> 0 @@ t2 :> 60 @@ t3 :> 98

\* On both sides of each bound, and of each half second.
AroundEverySecond == {-30, -25, 0, 24, 25, 74, 75, 99}
=============================================================================
