-------------------------------- MODULE Viz ---------------------------------
(***************************************************************************)
(* The page that shows a simulation (src/simulator/analyze, and viz/js:    *)
(* app.js, animator.js, plotDistribution.js, computed from result.json and *)
(* the samples of the etcd monitor), after the simulator that wrote it.    *)
(*                                                                         *)
(* A script runs to its end before the next event, so each event of the    *)
(* page is one step.  Time is in units of 0.02 seconds, counted from the   *)
(* first sample.  How the plots are laid out on their canvas is left out:  *)
(* what is shown is the second the plots were last drawn for, the columns  *)
(* of the distribution and the error lines.                                *)
(***************************************************************************)
EXTENDS Simulator, FiniteSetsExt

CONSTANTS
    Durations,      \* the lengths of time the samples may span
    CompletedAt,    \* guid -> completed_time of a task, if it was completed
    Errors,         \* times of the error lines, before and after the samples too
    Off,            \* no timer
    NaN

Second == 50        \* the units of a second

ASSUME VizAssumption ==
    /\ Durations \subseteq Nat
    /\ CompletedAt \in [Ours -> Nat]
    /\ Errors \subseteq Int
    /\ Off \notin Int /\ NaN \notin Int /\ Off # NaN

VARIABLES
    duration,       \* window.duration, or 0 before the page is loaded
    loaded,
    slider,         \* the value of #time, whole seconds
    dragging,       \* the user holds the slider
    anim,           \* the Animator: Off, or the value its timer has reached
    button,         \* the class of #time-button
    drawn,          \* the second the plots were last drawn for
    seen            \* history: the seconds drawn by an animation that went on

pageVars == <<duration, loaded, slider, dragging, anim, button, drawn, seen>>
systemVars == <<vars, pageVars>>

LastSecond == duration \div Second

VizTypeOK ==
    /\ duration \in Durations \cup {0}
    /\ loaded \in BOOLEAN /\ dragging \in BOOLEAN
    /\ slider \in 0 .. LastSecond
    /\ drawn \in 0 .. LastSecond
    /\ anim \in 0 .. duration \cup {Off, NaN}
    /\ button \in {"play", "stop"}
    /\ seen \subseteq 0 .. LastSecond

VizInit ==
    /\ Init
    /\ duration = 0 /\ slider = 0 /\ drawn = 0
    /\ loaded = FALSE /\ dragging = FALSE
    /\ anim = Off
    /\ button = "play"
    /\ seen = {}

-----------------------------------------------------------------------------
(* What the scripts compute.                                                *)

\* Setting a range input rounds to a whole second, keeps to the maximum, and
\* takes the middle for what is not a number.
Shown(v) ==
    IF v = NaN THEN (LastSecond + 1) \div 2
    ELSE Min({LastSecond, (v + Second \div 2) \div Second})

Bucket(t) == (t + Second \div 2) \div Second

\* updateErrors, from what computeErrorLogs has put into window.errorLogs.
ErrorLogs(s) == {t \in Errors : Bucket(t) = s /\ 0 <= Bucket(t) /\ Bucket(t) < LastSecond}

\* A task that was not completed has completed_time zero, long before the
\* first sample, and executor zero.
CompletedBy(g, s) ==
    result[g].NumCompletions = 0 \/ CompletedAt[g] <= s * Second

\* Mutant: both shifts between executors and indexes of the array are dropped.
ColumnUnshifted(i, s) ==
    Cardinality({g \in DOMAIN result :
        CompletedBy(g, s) /\ result[g].ExecutorIndex = i - 1})

\* The i-th column of computeDistribution.  The counts are kept from index
\* zero and read from index one: the column of the last executor is undefined,
\* drawn as none, and the first executor is in no column.
Column(i, s) ==
    Cardinality({g \in DOMAIN result :
        CompletedBy(g, s) /\ result[g].ExecutorIndex - 1 = i})

Columns == 1 .. Cardinality(Executors) - 1

-----------------------------------------------------------------------------
(* Events.                                                                  *)

\* analyze.go collects the files of a simulation that is over, of which
\* nothing else is left, and the browser loads the page.
Load ==
    /\ main \in {"ended", "aborted"}
    /\ ~loaded /\ loaded' = TRUE
    /\ duration' \in Durations
    /\ count' = 0 /\ finishing' = 0
    /\ taskTracker' = Empty /\ executorIndexes' = Empty
    /\ delivered' = [g \in Guids |-> 0]
    /\ UNCHANGED <<main, result, slider, dragging, anim, button, drawn, seen>>

Drag ==
    /\ loaded
    /\ slider' \in 0 .. LastSecond
    /\ dragging' = TRUE
    /\ UNCHANGED <<duration, loaded, anim, button, drawn, seen>>

\* The change event.
Change ==
    /\ dragging /\ dragging' = FALSE
    /\ drawn' = slider
    /\ UNCHANGED <<duration, loaded, slider, anim, button, seen>>

\* Mutant: the animation moves the slider, which fires no event.
CallbackWithoutUpdate(v) ==
    /\ slider' = Shown(v)
    /\ seen' = seen \cup {Shown(v)}
    /\ UNCHANGED drawn

\* The callback of the Animator: set the slider, and update.
Callback(v) ==
    /\ slider' = Shown(v)
    /\ drawn' = Shown(v)
    /\ seen' = seen \cup {Shown(v)}

\* parseFloat of the slider, and Animator.start.
Play ==
    /\ loaded /\ button = "play"
    /\ button' = "stop"
    /\ anim' = slider * Second
    /\ drawn' = slider /\ seen' = {slider}
    /\ UNCHANGED <<duration, loaded, slider, dragging>>

Stop ==
    /\ button = "stop" /\ button' = "play"
    /\ anim' = Off
    /\ seen' = {}
    /\ UNCHANGED <<duration, loaded, slider, dragging, drawn>>

\* Mutant: the step is computed without deltaT.
DeltaVPerSecond == 2 * Second

\* (endValue - startValue) / time * deltaT, where time is half the distance.
DeltaV == 3

\* The step is 0/0 when the animation has started at its end.  Past the end,
\* by more than a step, all values are alike.
NextValue ==
    IF anim \in {NaN, duration} THEN NaN
    ELSE Min({anim + DeltaV, duration + 2 * DeltaV})

\* Mutant: the end has to be met exactly.
NearOnlyAtEnd(v) == v = duration

\* Math.abs(value - endValue) < deltaV, which NaN is not.
Near(v) == v # NaN /\ v - duration < DeltaV /\ duration - v < DeltaV

\* Mutant: doneCallback is not called.
FinishWithoutButton == anim' = Off /\ Callback(duration) /\ UNCHANGED button

\* fastForwardAndStop and doneCallback.
Finish == anim' = Off /\ Callback(duration) /\ button' = "play"

Tick ==
    /\ anim # Off
    /\ IF Near(NextValue) THEN Finish
       ELSE anim' = NextValue /\ Callback(NextValue) /\ UNCHANGED button
    /\ UNCHANGED <<duration, loaded, dragging>>

-----------------------------------------------------------------------------
InSimulator(A) == A /\ UNCHANGED pageVars
OnPage(A) == A /\ UNCHANGED vars

VizNext ==
    \/ InSimulator(Next)
    \/ Load
    \/ OnPage(Drag \/ Change \/ Play \/ Stop \/ Tick)

\* The fairness of the simulator, and of the browser's timer.  The user need
\* not do anything, nor has the page to be loaded.
VizSpec ==
    /\ VizInit /\ [][VizNext]_systemVars
    /\ WF_systemVars(InSimulator(Start))
    /\ WF_systemVars(InSimulator(Done))
    /\ WF_systemVars(InSimulator(SimulationResult))
    /\ WF_systemVars(OnPage(Tick))

-----------------------------------------------------------------------------
\* The plots are those of the second the slider stands at, unless the user is
\* holding it: the animation, which fires no event, updates them by itself
\* (viz/js/app.js:69-85).
DrawnIsShown == ~dragging => drawn = slider

\* The button knows whether a timer is running: otherwise a click starts a
\* second one, and the handle of the first is lost (viz/js/app.js:87-98).
ButtonTells == button = "stop" <=> anim # Off

\* An animation of the whole simulation skips no second and so no error line,
\* whatever the user does to the slider meanwhile (viz/js/animator.js:13-25,
\* viz/js/app.js:28-51).  Those of the last second are never shown.
EveryErrorShown ==
    anim = Off /\ 0 \in seen =>
        \A t \in Errors :
            Bucket(t) \in 0 .. LastSecond - 1 => \E s \in seen : t \in ErrorLogs(s)

\* The distribution over executors shows tasks that were completed by then and
\* no others, although completed_time zero passes for long ago
\* (viz/js/plotDistribution.js:34-45, simulation.go:123-138).
OnlyCompletedDrawn ==
    loaded =>
        SumFunction([i \in Columns |-> Column(i, drawn)]) <=
            Cardinality({g \in DOMAIN result :
                result[g].NumCompletions > 0 /\ CompletedAt[g] <= drawn * Second})

\* An animation ends, unless it was started at its end.
PlayingEnds == anim \notin {Off, NaN, duration} ~> anim = Off
=============================================================================
