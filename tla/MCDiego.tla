------------------------------ MODULE MCDiego -------------------------------
(***************************************************************************)
(* Instances of Diego for TLC.                                             *)
(***************************************************************************)
EXTENDS Diego, TLC

CONSTANTS d1, g1

\* One task, that takes one unit of memory.
GuidOfOne == (d1 :> g1)
MemoryOfOne == (d1 :> 1)

\* The n-th task of a stager is called task-n, whichever stager it is.
NumberOf == [d \in Requests |-> d[2]]
OneOfEachStager == {<<"stager_0", 1>>, <<"stager_1", 1>>}

\* The n-th task takes n units of memory.
MemoryOfAll == [d \in Requests |-> d[2]]

\* The first two tasks of one stager.
TwoOfOneStager == {<<"stager_0", 1>>, <<"stager_0", 2>>}

\* Goroutine slots are interchangeable, and so are executors that all converge.
Slots == Permutations(Workers) \cup Permutations(Resolvers)
Alike == Slots \cup Permutations(Executors)
=============================================================================
