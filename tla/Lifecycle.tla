----------------------------- MODULE Lifecycle ------------------------------
(***************************************************************************)
(* How an executor or a stager comes up and goes down (executor/main.go,   *)
(* stager/main.go, bbs/presence.go, logger.Fatal): main registers nodes    *)
(* one after the other, a watcher goroutine per node reports it ready and  *)
(* clears it again, and cleanup closes stop and waits for the watchers.    *)
(*                                                                         *)
(* The store's MaintainNode belongs to the storeadapter library.  It is    *)
(* taken to offer its status on an unbuffered channel and to listen for a  *)
(* release at the same time, to try again after it lost the node, and to   *)
(* close the status only in answer to a release.                           *)
(*                                                                         *)
(* The stager has the route only.  convergeTasks is in Converger: nobody   *)
(* waits for it here, and main goes down while a pass is still running.    *)
(***************************************************************************)
EXTENDS Integers, Sequences, FiniteSets, Functions

CONSTANT Nodes      \* the nodes main registers, in its order

Watched == Range(Nodes)

ASSUME NodesAssumption ==
    /\ Nodes \in Seq({"presence", "route"}) /\ Nodes # << >>
    /\ \A i, j \in DOMAIN Nodes : Nodes[i] = Nodes[j] => i = j
    /\ \A i \in DOMAIN Nodes : Nodes[i] = "presence" => i = 1

VARIABLES
    main,           \* where main is
    count,          \* how many nodes main has registered
    got,            \* how many times main has received from ready
    ready,          \* messages in the channel ready
    watcher,        \* node -> its watcher goroutine
    armed,          \* nodes whose watcher still has ready
    tasks,          \* the counter of the WaitGroup
    stop,           \* stop has been closed
    cleanup,        \* what has become of cleanup.Exit
    node,           \* node -> what MaintainNode has in etcd
    offer,          \* node -> what MaintainNode offers on its status channel
    release,        \* nodes that MaintainNode has been asked to release
    before,         \* history: the nodes registered when stop was closed
    past            \* history: node -> whether it was ever written, and gone

mainVars == <<main, count, got>>
watcherVars == <<watcher, armed, tasks>>
nodeVars == <<node, past, offer, release>>
exitVars == <<stop, before>>
vars == <<mainVars, ready, watcherVars, nodeVars, exitVars, cleanup>>

Running == {"select", "announce", "remove", "drain"}

\* The counter of the WaitGroup is the number of watchers that still have to
\* call Done.
TypeOK ==
    /\ main \in {"register", "serve", "wait", "up", "fatal"}
    /\ count \in 0 .. Len(Nodes)
    /\ got \in 0 .. Len(Nodes)
    /\ ready \in 0 .. 1
    /\ watcher \in [Watched -> Running \cup {"none", "fatal", "ended"}]
    /\ armed \subseteq Watched
    /\ tasks = Cardinality({n \in Watched : watcher[n] \in Running})
    /\ stop \in BOOLEAN
    /\ cleanup \in {"none", "asked", "running", "exited"}
    /\ node \in [Watched -> {"none", "acquiring", "held", "closed"}]
    /\ past \in [Watched -> {"unwritten", "written", "gone"}]
    /\ offer \in [Watched -> {"nothing", "locked", "lost"}]
    /\ release \subseteq Watched
    /\ before \subseteq Watched

Init ==
    /\ main = "register"
    /\ count = 0 /\ got = 0 /\ ready = 0 /\ tasks = 0
    /\ watcher = [n \in Watched |-> "none"]
    /\ node = [n \in Watched |-> "none"]
    /\ past = [n \in Watched |-> "unwritten"]
    /\ offer = [n \in Watched |-> "nothing"]
    /\ armed = {} /\ release = {} /\ before = {}
    /\ stop = FALSE
    /\ cleanup = "none"

-----------------------------------------------------------------------------
(* The way out.                                                             *)

\* cleanup.Exit, from logger.Fatal or a signal.
AskExit == cleanup' = IF cleanup = "none" THEN "asked" ELSE cleanup

\* A signal; or ListenAndServe returned, MaintainConvergeLock failed or a staging
\* message did not parse, and the goroutine called logger.Fatal.
Interrupted ==
    /\ cleanup = "none"
    /\ AskExit
    /\ UNCHANGED <<mainVars, ready, watcherVars, nodeVars, exitVars>>

\* once.Do: whoever comes second waits for the first.
CloseStop ==
    /\ cleanup = "asked"
    /\ cleanup' = "running"
    /\ stop' = TRUE
    /\ before' = {n \in Watched : watcher[n] # "none"}
    /\ UNCHANGED <<mainVars, ready, watcherVars, nodeVars>>

\* tasks.Wait() returns and the process ends.
FinishCleanup ==
    /\ cleanup = "running"
    /\ tasks = 0
    /\ cleanup' = "exited"
    /\ UNCHANGED <<mainVars, ready, watcherVars, nodeVars, exitVars>>

-----------------------------------------------------------------------------
(* main.                                                                    *)

\* MaintainNode returned its channels: tasks.Add(1) and a watcher.
Register ==
    LET n == Nodes[count + 1]
    IN  /\ main = "register"
        /\ count' = count + 1
        /\ main' = IF count' = Len(Nodes) THEN "serve" ELSE "register"
        /\ tasks' = tasks + 1
        /\ watcher' = [watcher EXCEPT ![n] = "select"]
        /\ armed' = armed \cup {n}
        /\ node' = [node EXCEPT ![n] = "acquiring"]
        /\ UNCHANGED <<got, ready, past, offer, release, exitVars, cleanup>>

\* MaintainNode returned an error.
RegisterFails ==
    /\ main = "register"
    /\ main' = "fatal"
    /\ AskExit
    /\ ready' = IF Nodes[count + 1] = "presence" THEN ready + 1 ELSE ready
    /\ UNCHANGED <<count, got, watcherVars, nodeVars, exitVars>>

\* go handleTasks, go convergeTasks.
Serve ==
    /\ main = "serve"
    /\ main' = "wait"
    /\ UNCHANGED <<count, got, ready, watcherVars, nodeVars, exitVars, cleanup>>

TakeReady ==
    /\ main = "wait"
    /\ ready > 0
    /\ ready' = ready - 1
    /\ got' = got + 1
    /\ main' = IF got' = Len(Nodes) THEN "up" ELSE "wait"
    /\ UNCHANGED <<count, watcherVars, nodeVars, exitVars, cleanup>>

-----------------------------------------------------------------------------
(* MaintainNode, of the library.                                            *)

\* The node is written or refreshed, and reported.
Hold(n) ==
    /\ node[n] \in {"acquiring", "held"} /\ offer[n] = "nothing"
    /\ node' = [node EXCEPT ![n] = "held"]
    /\ past' = [past EXCEPT ![n] = IF @ = "unwritten" THEN "written" ELSE @]
    /\ offer' = [offer EXCEPT ![n] = "locked"]
    /\ UNCHANGED <<mainVars, ready, watcherVars, release, exitVars, cleanup>>

Lose(n) ==
    /\ node[n] = "held" /\ offer[n] = "nothing"
    /\ node' = [node EXCEPT ![n] = "acquiring"]
    /\ past' = [past EXCEPT ![n] = "gone"]
    /\ offer' = [offer EXCEPT ![n] = "lost"]
    /\ UNCHANGED <<mainVars, ready, watcherVars, release, exitVars, cleanup>>

\* The node is deleted, the status closed, the channel sent along closed.
Release(n) ==
    /\ n \in release /\ node[n] # "closed"
    /\ node' = [node EXCEPT ![n] = "closed"]
    /\ past' = [past EXCEPT ![n] = IF @ = "unwritten" THEN @ ELSE "gone"]
    /\ offer' = [offer EXCEPT ![n] = "nothing"]
    /\ UNCHANGED <<mainVars, ready, watcherVars, release, exitVars, cleanup>>

-----------------------------------------------------------------------------
(* The watcher goroutines of maintainPresence and registerHandler.          *)

\* The goroutine goes from one place to another.
Move(n, from, to) == watcher[n] = from /\ watcher' = [watcher EXCEPT ![n] = to]

Receive(n, status) == offer[n] = status /\ offer' = [offer EXCEPT ![n] = "nothing"]

\* Mutant: ready is not set to nil, so that every heartbeat is announced.
ReceiveLockedAlways(n) ==
    /\ Receive(n, "locked")
    /\ Move(n, "select", "announce")
    /\ UNCHANGED <<mainVars, ready, armed, tasks, node, past, release, exitVars, cleanup>>

ReceiveLocked(n) ==
    /\ Receive(n, "locked")
    /\ Move(n, "select", IF n \in armed THEN "announce" ELSE "select")
    /\ UNCHANGED <<mainVars, ready, armed, tasks, node, past, release, exitVars, cleanup>>

\* ready has room for one message.
Announce(n) ==
    /\ Move(n, "announce", "select")
    /\ ready = 0 /\ ready' = 1
    /\ armed' = armed \ {n}
    /\ UNCHANGED <<mainVars, tasks, nodeVars, exitVars, cleanup>>

\* Mutant: logger.Fatal without tasks.Done() before it.
ReceiveLostUndone(n) ==
    /\ Receive(n, "lost")
    /\ Move(n, "select", "fatal")
    /\ AskExit
    /\ UNCHANGED <<mainVars, ready, armed, tasks, node, past, release, exitVars>>

\* Mutant: the watcher goes on after a loss and waits for the node to come back.
ReceiveLostPatiently(n) ==
    /\ Receive(n, "lost")
    /\ Move(n, "select", "select")
    /\ UNCHANGED <<mainVars, ready, armed, tasks, node, past, release, exitVars, cleanup>>

\* Mutant: instead of logger.Fatal, main starts over under the id it has.
ReceiveLostRestarts(n) ==
    /\ Receive(n, "lost")
    /\ Move(n, "select", "ended")
    /\ tasks' = tasks - 1
    /\ main' = "register" /\ count' = 0 /\ got' = 0
    /\ UNCHANGED <<ready, armed, node, past, release, exitVars, cleanup>>

\* tasks.Done() and logger.Fatal, which does not return.
ReceiveLost(n) ==
    /\ Receive(n, "lost")
    /\ Move(n, "select", "fatal")
    /\ tasks' = tasks - 1
    /\ AskExit
    /\ UNCHANGED <<mainVars, ready, armed, node, past, release, exitVars>>

\* presence.Remove sends the release and waits for its answer; the watcher of
\* the route closes the release channel and drains the status at once.
Stop(n) ==
    /\ stop
    /\ Move(n, "select", IF n = "presence" THEN "remove" ELSE "drain")
    /\ release' = release \cup {n}
    /\ UNCHANGED <<mainVars, ready, armed, tasks, node, past, offer, exitVars, cleanup>>

Removed(n) ==
    /\ node[n] = "closed"
    /\ Move(n, "remove", "drain")
    /\ UNCHANGED <<mainVars, ready, armed, tasks, nodeVars, exitVars, cleanup>>

Drain(n) ==
    /\ watcher[n] = "drain"
    /\ Receive(n, "locked") \/ Receive(n, "lost")
    /\ UNCHANGED <<mainVars, ready, watcherVars, node, past, release, exitVars, cleanup>>

\* Mutant: the watcher is done before the status is closed.
DoneUndrained(n) ==
    /\ Move(n, "drain", "ended")
    /\ tasks' = tasks - 1
    /\ UNCHANGED <<mainVars, ready, armed, nodeVars, exitVars, cleanup>>

Done(n) ==
    /\ node[n] = "closed"
    /\ Move(n, "drain", "ended")
    /\ tasks' = tasks - 1
    /\ UNCHANGED <<mainVars, ready, armed, nodeVars, exitVars, cleanup>>

-----------------------------------------------------------------------------
MainStep == Register \/ Serve \/ TakeReady
CleanupStep == CloseStop \/ FinishCleanup
WatcherStep(n) ==
    ReceiveLocked(n) \/ Announce(n) \/ ReceiveLost(n) \/ Removed(n) \/ Drain(n) \/ Done(n)

\* Nothing runs in a process that has exited.
Next ==
    /\ cleanup # "exited"
    /\ \/ MainStep \/ RegisterFails \/ Interrupted \/ CleanupStep
       \/ \E n \in Watched :
            WatcherStep(n) \/ Stop(n) \/ Hold(n) \/ Lose(n) \/ Release(n)

Spec == Init /\ [][Next]_vars

\* Goroutines go on; a select with two ready cases does not pass one over for
\* ever, so stop is seen.  MaintainNode answers a release.  Nothing has to be
\* acquired, lost, fail or be stopped.
Fairness ==
    /\ WF_vars(Next /\ MainStep)
    /\ WF_vars(Next /\ CleanupStep)
    /\ \A n \in Watched :
        /\ WF_vars(Next /\ WatcherStep(n))
        /\ WF_vars(Next /\ Stop(n))
        /\ WF_vars(Next /\ Release(n))

FairSpec == Spec /\ Fairness

-----------------------------------------------------------------------------
(* The process as the others see it.                                        *)

\* handleTasks and convergeTasks have been started.
Serving == main \in {"wait", "up"}

Phase ==
    CASE ~Serving -> "off"
      [] Serving /\ cleanup = "exited" -> "dead"
      [] OTHER -> [unwritten |-> "booting", written |-> "up", gone |-> "lost"]
                      [past["presence"]]

Process == INSTANCE Presence WITH
    Executors <- {"self"},
    exec <- [e \in {"self"} |-> Phase],
    present <- {e \in {"self"} : Serving /\ node["presence"] = "held"}

\* Seen from outside, an executor serves, is present, loses its presence and
\* ends in the steps Executor is composed of, whichever goroutine takes them
\* (executor/main.go:173-177, 196-224).
ImplementsPresence == Process!Spec

\* And it does end once its presence is lost: what FairSpec of Presence adds
\* (executor/main.go:204-207).
LostPresenceEnds == Process!LostEnds

\* A process says it is up only when each of its nodes has been written: the
\* messages main has received from ready are one from every watcher
\* (executor/main.go:176-177).
UpMeansReady == main = "up" => armed = {}

\* A process that exits has cleared the nodes it had registered when it was
\* told to stop, but for those whose loss brought it down
\* (executor/main.go:110-117).
NodesCleared ==
    cleanup = "exited" =>
        \A n \in before : node[n] = "closed" \/ watcher[n] = "fatal"

\* Whatever state the process is in when it is asked to exit, no goroutine
\* keeps it waiting for ever (executor/main.go:110-117, stager/main.go:72-79).
ShutdownCompletes == cleanup = "asked" ~> cleanup = "exited"

\* A process that loses one of its nodes goes down, and does not go on under a
\* name that others take for gone (executor/main.go:204-207).
LossEndsProcess == \A n \in Watched : offer[n] = "lost" ~> cleanup = "exited"
=============================================================================
