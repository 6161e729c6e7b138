----------------------------- MODULE Simulator ------------------------------
(***************************************************************************)
(* The simulator (src/simulator/simulation.go): it asks for tasks over     *)
(* NATS, tracks them by what a stager logs and by the replies, and ends    *)
(* when a WaitGroup says that the replies are all there.                   *)
(*                                                                         *)
(* The logs and the replies come over different connections, in any order, *)
(* each callback in a goroutine of its own.  A reply may come twice (the   *)
(* stager sends it again after a failed ResolveTask), come late from an    *)
(* earlier simulation, or not at all.  One simulation runs at a time, and  *)
(* its replies take longer than the way to Wait: a container runs for five *)
(* seconds.                                                                *)
(***************************************************************************)
EXTENDS Integers, FiniteSets, Functions

CONSTANTS
    Ours,           \* guids of the tasks this simulation asks for
    Old,            \* guids that an earlier simulation is still answered about
    Executors,
    MaxReplies      \* bound: how often a guid is replied about

ASSUME SimulatorAssumption ==
    /\ IsFiniteSet(Ours) /\ IsFiniteSet(Executors)
    /\ MaxReplies \in Nat

VARIABLES
    main,           \* where runSimulation is
    count,          \* the counter of simulationWait
    taskTracker,    \* guid -> what is known about the task, if it was logged
    executorIndexes,\* executor -> its number, if it was heard of
    finishing,      \* callbacks that have tracked a reply and not called Done
    delivered,      \* guid -> replies delivered
    result          \* what result.json says about taskTracker

trackerVars == <<taskTracker, executorIndexes>>
vars == <<main, count, trackerVars, finishing, delivered, result>>

Guids == Ours \cup Old

TaskData == [ExecutorIndex: 0 .. Cardinality(Executors), NumCompletions: Nat]

TypeOK ==
    /\ main \in {"start", "wait", "released", "interrupted", "ended", "aborted"}
    /\ count \in Int
    /\ taskTracker \in [DOMAIN taskTracker -> TaskData]
    /\ DOMAIN taskTracker \subseteq Ours
    /\ executorIndexes \in
        Injection(DOMAIN executorIndexes, 1 .. Cardinality(Executors))
    /\ DOMAIN executorIndexes \subseteq Executors
    /\ finishing \in Nat
    /\ delivered \in [Guids -> 0 .. MaxReplies]
    /\ result \in [DOMAIN result -> TaskData]
    /\ DOMAIN result \subseteq Ours

Empty == [x \in {} |-> 0]

Init ==
    /\ main = "start"
    /\ count = 0
    /\ taskTracker = Empty
    /\ executorIndexes = Empty
    /\ finishing = 0
    /\ delivered = [g \in Guids |-> 0]
    /\ result = Empty

-----------------------------------------------------------------------------
\* Mutant: one task too many is waited for.
StartOneMore ==
    /\ main = "start"
    /\ count' = Cardinality(Ours) + 1
    /\ main' = "wait"
    /\ UNCHANGED <<trackerVars, finishing, delivered, result>>

\* simulationWait.Add, the subscriptions, the request, and the call of Wait.
Start ==
    /\ main = "start"
    /\ count' = Cardinality(Ours)
    /\ main' = IF count' = 0 THEN "released" ELSE "wait"
    /\ UNCHANGED <<trackerVars, finishing, delivered, result>>

\* A signal.
Interrupt ==
    /\ main = "wait"
    /\ main' = "interrupted"
    /\ UNCHANGED <<count, trackerVars, finishing, delivered, result>>

\* cleanup.Exit runs simulationResult, while the callbacks go on.
SimulationResult ==
    /\ main \in {"released", "interrupted"}
    /\ main' = IF main = "released" THEN "ended" ELSE "aborted"
    /\ result' = taskTracker
    /\ UNCHANGED <<count, trackerVars, finishing, delivered>>

Listening == main \in {"wait", "released", "interrupted"}

\* A stager has logged staging-request.desire.
RegisterDesired(g) ==
    /\ Listening
    /\ g \in Ours \ DOMAIN taskTracker
    /\ taskTracker' = [h \in {g} \cup DOMAIN taskTracker |->
            IF h = g THEN [ExecutorIndex |-> 0, NumCompletions |-> 0]
                     ELSE taskTracker[h]]
    /\ UNCHANGED <<main, count, executorIndexes, finishing, delivered, result>>

\* Mutant: the executors are numbered from zero.
IndexFromZero(e) ==
    IF e \in DOMAIN executorIndexes THEN executorIndexes[e]
                                    ELSE Cardinality(DOMAIN executorIndexes)

Index(e) ==
    IF e \in DOMAIN executorIndexes THEN executorIndexes[e]
                                    ELSE Cardinality(DOMAIN executorIndexes) + 1

Delivered(g, e) ==
    /\ Listening
    /\ delivered[g] < MaxReplies
    /\ delivered' = [delivered EXCEPT ![g] = @ + 1]
    /\ executorIndexes' = [f \in {e} \cup DOMAIN executorIndexes |-> Index(f)]

Track(g, e) ==
    taskTracker' = [taskTracker EXCEPT
        ![g].ExecutorIndex = Index(e), ![g].NumCompletions = @ + 1]

\* Mutant: Done is deferred, and called for unknown tasks as well.
CompletedDeferred(g, e) ==
    /\ Delivered(g, e)
    /\ finishing' = finishing + 1
    /\ IF g \in DOMAIN taskTracker THEN Track(g, e) ELSE UNCHANGED taskTracker
    /\ UNCHANGED <<main, count, result>>

\* The callback of completed-task, up to the end of its lock.
Completed(g, e) ==
    /\ Delivered(g, e)
    /\ IF g \in DOMAIN taskTracker
       THEN Track(g, e) /\ finishing' = finishing + 1
       ELSE UNCHANGED <<taskTracker, finishing>>
    /\ UNCHANGED <<main, count, result>>

\* simulationWait.Done().  It wakes main at zero, and panics below, which the
\* callback recovers from.
Done ==
    /\ Listening
    /\ finishing > 0
    /\ finishing' = finishing - 1
    /\ count' = count - 1
    /\ main' = IF main = "wait" /\ count' = 0 THEN "released" ELSE main
    /\ UNCHANGED <<trackerVars, delivered, result>>

-----------------------------------------------------------------------------
Next ==
    \/ Start \/ Interrupt \/ SimulationResult \/ Done
    \/ \E g \in Ours : RegisterDesired(g)
    \/ \E g \in Guids, e \in Executors : Completed(g, e)

Spec == Init /\ [][Next]_vars

\* Callbacks that have begun go on, and so does cleanup.  No message has to
\* arrive.
FairSpec == Spec /\ WF_vars(Start) /\ WF_vars(Done) /\ WF_vars(SimulationResult)

-----------------------------------------------------------------------------
Completions(data, g) == IF g \in DOMAIN data THEN data[g].NumCompletions ELSE 0

\* A simulation that ends by itself has seen every one of its tasks completed,
\* unless its result shows one that was completed twice (simulation.go:136-143).
EndsWhenAllCompleted ==
    main = "ended" =>
        \/ \A g \in Ours : Completions(result, g) > 0
        \/ \E g \in Ours : Completions(result, g) > 1

\* In the distribution over executors, number zero stands for the tasks that
\* were not completed, and for no executor (simulation.go:123-127, 191-194).
DistributionTells ==
    \A g \in DOMAIN result :
        result[g].ExecutorIndex = 0 <=> result[g].NumCompletions = 0

\* A simulation whose tasks were all completed ends, however the callbacks
\* interleave and whatever else they were called for.
SimulationEnds ==
    (\A g \in Ours : Completions(taskTracker, g) > 0) ~> main \in {"ended", "aborted"}
=============================================================================
