------------------------------ MODULE Presence ------------------------------
(***************************************************************************)
(* What the rest of the system relies on about the executor processes:     *)
(* when they serve, when a node under /v2/executor shows them, and how     *)
(* they end (executor/main.go: main, maintainPresence).  Executor composes *)
(* its processes from these steps; Lifecycle, the process in all its       *)
(* goroutines and channels, implements them.                               *)
(*                                                                         *)
(* An executor takes a new uuid every time it starts, so the id of a dead  *)
(* executor is never used again, and a node that is there before the       *)
(* process serves tells nobody anything.  It counts as present from the    *)
(* moment it serves.                                                       *)
(***************************************************************************)
CONSTANT Executors

VARIABLES
    exec,           \* executor -> where the process is
    present         \* executors with a node under /v2/executor

presenceVars == <<exec, present>>

\* "lost": it was without presence once it had it, or will have none at all,
\* and the process has not gone down yet.
ExecutorState == {"off", "booting", "up", "lost", "dead"}
Serving == {"booting", "up", "lost"}

Init ==
    /\ exec = [e \in Executors |-> "off"]
    /\ present = {}

Move(e, from, to) == exec[e] \in from /\ exec' = [exec EXCEPT ![e] = to]

-----------------------------------------------------------------------------
\* handleTasks and convergeTasks start before <-ready says that the presence
\* node has been written; it may have been.
Serve(e) ==
    \/ Move(e, {"off"}, "booting") /\ UNCHANGED present
    \/ Move(e, {"off"}, "up") /\ present' = present \cup {e}

\* The node was lost or cleared again in the meantime.
ServeLost(e) ==
    /\ Move(e, {"off"}, "lost")
    /\ present' \in {present, present \cup {e}}

Announce(e) == Move(e, {"booting"}, "up") /\ present' = present \cup {e}

\* The node expires between two heartbeats, or close(stop) removes it.
Lose(e) == Move(e, {"up", "lost"}, "lost") /\ present' = present \ {e}

\* MaintainNode does not stop trying because the process is about to end.
Regain(e) ==
    /\ exec[e] = "lost"
    /\ present' = present \cup {e}
    /\ UNCHANGED exec

\* logger.Fatal, the end of main after a signal, or a crash.
End(e) == Move(e, Serving, "dead") /\ UNCHANGED present

\* The TTL of the node runs out.
Expire(e) == exec[e] = "dead" /\ present' = present \ {e} /\ UNCHANGED exec

Next ==
    \E e \in Executors :
        \/ Serve(e) \/ ServeLost(e) \/ Announce(e)
        \/ Lose(e) \/ Regain(e) \/ End(e) \/ Expire(e)

Spec == Init /\ [][Next]_presenceVars

\* A process whose presence was lost ends; none has to start or be announced.
LostEnds == \A e \in Executors : WF_presenceVars(exec[e] = "lost" /\ End(e))

FairSpec == Spec /\ LostEnds
=============================================================================
