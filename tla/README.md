# The fake Diego in TLA+

`fake-diego-release` deploys a small stand-in for Cloud Foundry's Diego: stagers,
executors, a hurler and an etcd, with a simulator that loads them.  The containers
are fake (the executor sleeps); the coordination is the real thing: who claims a
task, who runs it, who answers for it, and what is repaired when somebody does not
do its part.  This directory models that coordination in TLA+, checks it with TLC on
small instances, and proves the most important parts with TLAPS for every instance.

Paths below are relative to the repository; the Go code is under `src/`, so that
`stager/handler.go` is `src/stager/handler.go` there.

    tlc -workers 2 -config Executors.cfg MCDiego      # any of the runs below
    tlapm RepliesProofs.tla                           # any of the proof modules

## 1. Inventory

### The parts and how they interact

    simulator --NATS--> stager --SetMulti--> etcd <--CAS-- executor
        ^                 |  ^                ^                 |
        |               kick |                | list, CAS      kick
        |                 v  |                |                 v
        |               hurler <---kick--- converger (in an executor)
        +--NATS: reply, logs -- stager, executor
        |
        +--result.json--> page (analyze, viz)

A **task** (`runtime-schema/models/run_once.go`) is a record in etcd under
`/v2/run_once/<guid>`.  Its life is pending, claimed, running, completed, resolving,
gone.  Every change but the first and the last is a compare-and-swap against the whole
old value, whose `UpdatedAt` is new in every write.  Nobody watches etcd.  A **kick** is
an HTTP request that carries a copy of the task, and goes through the hurler to some
executor ("desire") or some stager ("complete").  Kicks are hints: they may be lost,
late or delivered to several processes.

| part | state | operations | what is hard about it |
|---|---|---|---|
| Task and board (`models/run_once.go`, `bbs/run_once_bbs.go`, `bbs/*_bbs.go`) | the task nodes | the edits of a task, `retryIndefinitelyOnStoreTimeout`, kicks | a timeout does not say whether the write was applied; a kick's copy is stale |
| Stager (`stager/`) | a counter for guids; one goroutine per task and per kick | `handleStaging`, `DesireTask`, `ServeHTTP`, `ResolvingTask`, publish, `ResolveTask` | several stagers resolve one task; publish and delete are two steps; delete does not compare; an error in a goroutine is read by nobody |
| Executor (`executor/`) | `currentMemory`, presence node, claims and runs in progress | `reserveMemory`, `ClaimTask`, `StartTask`, run, `CompleteTask`, `releaseMemory` | several executors race for one kick; loss of presence and exit in the middle of a run; memory on every error path |
| Converger (`bbs/executor_bbs.go`, in each executor) | the converge lock; the lists it read | list tasks, list executors, kick, demote, mark as failed | it acts on old lists; after the loss of the lock two passes overlap; it is the only one that repairs |
| Hurler (`hurler/`) | the route table, calls in progress | `syncTable`, `RoundRobin`, `Fanout` | a call outlives the table it was looked up in; late answers; goroutines that nobody waits for |
| Process life cycle (`executor/main.go`, `stager/main.go`, `bbs/presence.go`, `logger.Fatal`) | `ready`, `stop`, a WaitGroup, one watcher per node | register, report ready, lose a node, exit | three ways to ask for the exit at once; a goroutine that exits while the exit waits for it |
| Simulator (`simulator/simulation.go`) | `taskTracker`, `executorIndexes`, a WaitGroup | start, two callbacks, write the result | logs and replies overtake each other; replies come twice, late or never |
| Page that shows a simulation (`simulator/analyze`, `simulator/viz/js`) | slider, Animator and its timer, button, what is drawn | load, drag, change, play, stop, tick | a timer and a user move one slider; rounding to seconds at both ends; zero stands for "not completed" |

The etcd monitor, the file server's board, the payload models, logging beyond `Fatal`, the
deployment files, and the vendored and unused scripts of the page are listed in
`PROJECT.json` with the reason why they are not modelled.

### What makes each part correct

* **Board and the whole system.** A container is run no more often than its task was
  set.  A task that was set is answered in the end.  A task leaves the board only after it
  was answered.  However often the answer is repeated, it is the same answer.  Success is
  reported only for what was run.
* **Executor.** The memory left and the memory reserved add up to the capacity, whatever
  fails.
* **Converger.** It takes no live executor for a dead one and no running task away from
  an executor that is there.
* **Hurler.** An answer says what the endpoints said; a round-robin call is taken up once
  unless an endpoint kept its answer back; no call and no goroutine hangs.
* **Life cycle.** A process is up only when all its nodes are written; it clears them before
  it exits; the exit never hangs; the loss of a node ends the process.
* **Simulator.** It ends when its tasks were completed and not before.
* **Page.** The plots, the slider, the button and the timer agree; an animation ends and
  leaves no second out; what was not completed is not drawn as completed.

The hazards behind these, each at its line of the code, are listed in `PROJECT.json`.

## 2. Modules

| module | models | lines up with |
|---|---|---|
| `Task` | the record and its edits | `models/run_once.go`, the assignments in the bbs functions |
| `Board` | etcd, compare-and-swap with its retry loop, kicks, time, the fault budget | `bbs/run_once_bbs.go`, `bbs/hurler_kicker.go` |
| `Stager` | desiring and resolving tasks | `stager/main.go`, `stager/handler.go`, `bbs/stager_bbs.go` |
| `Presence` | what others rely on about an executor process: it serves, is present, loses its presence, ends | `executor/main.go` (`main`, `maintainPresence`) |
| `Executor` | memory, claims, runs, on processes of `Presence` | `executor/handler.go`, `executor/main.go`, `bbs/executor_bbs.go:20-100` |
| `Converger` | the lock and a pass of `ConvergeTasks` | `bbs/executor_bbs.go:102-250`, `executor/main.go:convergeTasks` |
| `Diego` | their composition around one board, time, fairness, the properties | |
| `Staging` | the abstract specification: what a requester is promised | `models/run_once.go` (the states), `stager/handler.go:resolveTask` |
| `Hurler` | route table, `RoundRobin`, `Fanout` | `hurler/` |
| `Lifecycle` | coming up and going down | `executor/main.go`, `stager/main.go`, `bbs/presence.go` |
| `Simulator` | one simulation | `simulator/simulation.go` |
| `Viz` | the simulation and then the page that shows it | `simulator/analyze`, `viz/js/app.js`, `animator.js`, `plotDistribution.js` |
| `MCDiego`, `MCHurler`, `MCLifecycle`, `MCViz` | instances for TLC | |
| `Sums` | lemmas on sums over finite sets, by which memory and columns are counted | |
| `DiegoProofs` | proofs of `TypeOK`, `RunOnce` and `MemoryConserved` | |
| `RepliesProofs` | proofs of `VerdictEarned` and `KeptUntilReplied` | |
| `PresenceProofs` | proof of `NoFalseDeath` | |
| `StagingProofs` | proofs of `NoOrphans`, `RunNotRevoked`, `RepliesAgree`, `NoRunAfterAnswer`, and that `Diego` implements `Staging` | |
| `LifecycleProofs` | proofs of `TypeOK`, `UpMeansReady`, `NodesCleared`, and that `Lifecycle` implements `Presence` | |
| `HurlerProofs` | proofs of `TypeOK`, `AnswerEarned` and `TakenOnce` of the hurler | |
| `VizProofs` | proofs of the safety properties of the simulator and of the page | |

`Stager` and `Executor` extend `Board`, which extends `Task`; `Converger` extends
`Executor`, in whose process it lives (`ExecutorExit` takes the pass down with the
process); `Diego` joins `Stager` and `Converger` and instantiates `Staging`.  `Viz`
extends `Simulator`, whose result the page reads.  `Executor` and `Lifecycle` both
instantiate `Presence`: the executor's processes are composed of its steps, and the
process in all its goroutines is proved to implement it.  What `Executor` assumes of a
process is therefore what `Lifecycle` shows, and the chain of abstractions is

    Lifecycle --implements--> Presence --steps of--> Executor --in--> Diego --implements--> Staging

`Hurler` stands alone.  The board lets a kick reach any process at any time, any number
of times or never, which is more than any hurler could do; a refinement between the two
would say no more than that, so it is not stated.

Definitions marked "Mutant" in a comment are no part of the model.  Each is the form some
definition would have with a plausible bug in the code, kept to show that the properties
notice it.

### State and actions

**Board.** `store[g]` is the node under guid `g`, or `NoTask`.  `writes[g]` stands for the
clock: `UpdatedAt` of a task is the number of the write that stored it.  All the code asks
of two readings is whether they differ (compare-and-swap compares whole values) and how
long ago one was taken, so the readings themselves do not matter.  Elapsed time is a
horizon: `agedTo[g]` is the last write that is thirty seconds old, `overdueTo[g]` the last
that is `timeToClaim` old.  Both are raised by actions of `Diego` that may happen at any
moment, so no timing is assumed: an executor can sleep past any limit.  A reading that is
drawn for a write that is never applied is seen by nobody and draws no number.

`RetryCompareAndSwap` is the retry loop around one CompareAndSwap, with its four
outcomes: applied and acknowledged; applied and answered by a timeout (fault `casAck`: the
loop tries again *with the same old value*); refused because the node changed; another
store error.  A timeout before the write was applied changes nothing and is a stutter.

`kicks` holds every kick ever sent, and any process may receive any of them at any time
and any number of times: loss, delay, reordering and duplication by the hurler are in that.
A kick carries the task as it was.

**Stager.** `desire[d]` is the goroutine of `DesireTask` of request `d`: `HandleStaging`
starts it, `DesireTask` sets the task (applied; applied with a timeout, `setAck`, after
which the next attempt keeps `CreatedAt` and draws `UpdatedAt` anew; or refused, and the
error dropped), `KickDesired` kicks.  `resolver[r]` is a `resolveTask` goroutine:
`ReceiveCompleted`, `ResolvingTask`, `PublishReply`, `ResolveTask`.  `ResolveTask` deletes
whatever the key holds, as the code does.  A request is one turn of the loop over
`message.Count` in `handleStaging`; `GuidOf` says which guid it draws.  Two stagers both
draw `task-1`, so `GuidOf` need not be injective.  The history variables `sets` and
`replies` count what was set and what was answered.

**Presence and Executor.** `exec[e]` is where the process is: it boots and serves kicks at
once (`Serve`), it is announced when its presence node is written (`Announce`), it may
lose the node (`Lose`; "lost" still runs until `logger.Fatal` gets to it), it exits or
crashes (`End`), and its node expires after it (`Expire`).  `Regain` was found by checking
`Lifecycle` against `Presence`: `MaintainNode` does not stop trying because the process is
about to end, so that the node of a process on its way down may come back.  A restart is
a new executor, because the id is a new uuid.  `worker[w]` is the goroutine of `ServeHTTP`
and `runTask`: `ReceiveDesired` reserves memory (no action without capacity: the handler
answers 503 and changes nothing), then `ClaimTask`, `StartTask`, `CompleteTask`,
`KickCompleted`, each of which returns the memory when it fails, as the deferred
`releaseMemory` does.  `starts[d]` counts the runs.

**Converger.** `ListTasks`, `ListExecutors` (which decides and kicks) and one `SwapPair`
per goroutine of `batchCompareAndSwapTasks` are separate steps, and everybody else may act
between them.  `LoseLock` leaves a pass that has begun running, as `convergeTasks` does:
it logs "lost-lock" and goes on.  "Run by *one* executor" in the comment at
`bbs/executor_bbs.go:102` is therefore true of the lock and not of the passes; the run
*Executors* shows that this does no harm to what it checks, and the theorems about
`NoFalseDeath`, `RunNotRevoked` and `RepliesAgree` show it for any number of passes.

**Hurler.** A call copies the route it found; `SyncTable` replaces the table at any time,
also by an empty one, because the error of `ListRecursively` is dropped.  `RoundTrip` may
end in an acceptance, a refusal or silence (an error, or `ResponseHeaderTimeout`), and a
silent endpoint may have taken the call up.  `Send` is one goroutine of `Fanout`, with the
capacity of the two channels; `RoundRobin` and `Fanout` are one turn of their loops.

**Lifecycle.** `main`, one watcher goroutine per node, the channel `ready` of capacity
one, the WaitGroup `tasks`, `stop`, `cleanup.Exit` with its `once.Do`, and `MaintainNode`
of the store adapter, taken to offer a status and listen for a release at the same time.

**Simulator.** The callback for a completed task is two steps, because `Done` is called after
the lock is given back.  `result` is what `result.json` would say.

**Viz.** A script runs to its end before the next event, so that each event is one step:
`Load`, `Drag` and `Change` of the slider, `Play`, `Stop`, and the timer's `Tick`.  Time is
in units of 0.02 seconds, in which the animator's `deltaV` is 3 and a second is 50;
`Shown` is what a range input makes of a value (rounded to a whole second, kept to its
maximum, the middle for NaN).  `NextValue` is NaN when the animation was started at its
end, where the code divides zero by zero.  `Column` is the distribution as it is drawn.
Load comes after the simulator has ended; nothing else of the simulator is left then.

### Faults

`Faults` and `MaxFaults` bound what goes wrong in an instance of `Diego`: `setAck`,
`casAck` (applied, answered by a timeout), `storeError`, `publish` (a failed publish),
`crash` (of an executor, or of one goroutine of a stager: a stager that crashes loses its
goroutines one by one, which includes every way to lose them together), `presence` (the
presence node is lost), `lock` (the converge lease is lost), `slow` (a task stays claimed
or resolving for thirty seconds while its holder is alive and about to go on).  Lost,
late and repeated kicks, overlapping processes and the passage of time need no budget.

## 3. Runs

Runs that pass:

| run | instance | states | shows |
|---|---|---|---|
| `Executors` | 1 task, 2 executors that both converge, 2 workers, 1 resolver, one fault of any kind but setAck | 588 204 | `TypeOK`, `MemoryConserved`, `RunOnce`, `NoFalseDeath`, `RunNotRevoked`, `RepliesAgree`, with overlapping passes too; `ImplementsStaging`: every step is a step of `Staging` or invisible there; and `NoRunAfterAnswer` |
| `Resolvers` | 1 task, 1 executor, 2 workers, 2 resolvers, one fault of any kind but presence and lock, setAck among them | 430 955 | `RunOnce`, `KeptUntilReplied`, `RepliesAgree`, `VerdictEarned`: also when a task is set twice, resolved twice, deleted under a resolver |
| `Memory` | 2 tasks of 1 and 2 units, 1 executor of 1 unit, fairness | 90 366 | `MemoryConserved`; and `EveryTaskAnswered` of a task that fits nowhere, which is refused until it is overdue |
| `Answered` | 1 task, 2 executors that both converge, a crash or a failed publish, fairness | 282 951 | `EveryTaskAnswered`, and `NoOrphans`: no task is left to an executor that does nothing about it |
| `Hurler` | 1 call, 1 host, 2 addresses, registered either way or both | 366 480 | `TypeOK`, `AnswerEarned`, `TakenOnce`, `EveryCallAnswered`, `SendersEnd` |
| `Lifecycle` | an executor process: presence, then route | 5 956 | `TypeOK`, `UpMeansReady`, `NodesCleared`, `ImplementsPresence` and, of its liveness, `LostPresenceEnds`; `ShutdownCompletes`, `LossEndsProcess` |
| `Simulator` | module `MCViz`: 3 tasks, 1 old guid, 2 executors, up to 2 replies per guid; then the page, with samples of 2 seconds or a little less | 462 603 | `TypeOK`, `EndsWhenAllCompleted`, `DistributionTells`, `SimulationEnds`; of the page `VizTypeOK`, `DrawnIsShown`, `ButtonTells`, `EveryErrorShown`, `OnlyCompletedDrawn`, `PlayingEnds` |

Runs that show where the code and what is said of it part:

| run | the statement | what happens |
|---|---|---|
| `LostAck` | `executor_bbs.go:50`: if StartTask fails, "someone else is running"; `:73` says the like of CompleteTask | A compare-and-swap that was applied and timed out is tried again with the old value and meets the executor's own write.  Nobody else has the task; the run is dropped and the task stays "running" until the executor goes. |
| `Requeued` | `executor_bbs.go:108`: fails tasks that "have been in the pending state for > timeToClaim" | The age counts from `CreatedAt`, which a demotion does not change: a task pending again for no time at all is failed as unclaimed. |
| `ClaimBeforePresence` | `executor_bbs.go:109`: fails tasks "whose executor has stopped maintaining presence" | `handleTasks` serves before `<-ready`, so a task can be claimed by an executor whose presence is not on the board yet. |
| `OverwrittenTask` | `models/run_once.go:32`: one-to-one request-response | Every stager counts its tasks from one and sets the key unconditionally: the second stager's `task-1` replaces the first's, whose requester is never answered. |
| `RefusedTask` | `stager_bbs.go:19`: if DesireTask fails, the stager runs its "this-failed-to-stage" routine | The error of `go bbs.DesireTask(task)` is dropped, and the requester never hears. |

`LostAck` has a consequence worth a note: after it the task is "running", its executor is
present, and no repair applies.  `NoOrphans` and `EveryTaskAnswered` are therefore checked
without `casAck` (and without store errors, after which a task may likewise be left running
by a live executor).  What they cover is a crash of an executor or of a stager's goroutine,
and a failed publish.  The theorem `TasksAreInHand` says that those two faults are the only
ways to such a task: under every other one, what is claimed or running by a process that
serves is in the hands of one of its goroutines.

### Bounds, and why they are enough

* *One task.* Tasks with keys of their own share only the executors' memory; two that share
  a key are in `OverwrittenTask`, and in the theorems, which hold for any number of tasks.
* *Two executors, workers, resolvers, convergers*, each where the property is about a race
  of two: a stale kick needs two claimants, a demotion under a slow holder needs two
  resolvers, overlapping passes need two convergers.  A run that does not need the second
  one has one, because two of everything is out of reach.
* *`MaxFaults = 1`.* Each listed hazard begins with one fault, and time, loss of kicks and
  races come on top of it.  The theorems have no such bound.
* *One unit of memory, one unit of capacity.* A second claim on the same executor meets the
  limit; in `Memory` a task of two units meets it by itself.
* *`SYMMETRY`* is on worker and resolver slots, and on executors when all of them converge,
  and only in runs without liveness.
* *`MaxReplies = 2`, three tasks* for the simulator: a reply that is counted twice can stand
  for one that is missing, and a third task is still open then.
* *Two whole seconds, and three units less* for the page: the animator meets its end exactly
  in neither, and steps over the last seconds in different ways.  Error lines stand on both
  sides of each half second and before and after the samples; the tasks are completed at once,
  in between and after the last second.
* *`CHECK_DEADLOCK FALSE`* everywhere: the system comes to rest legitimately, when
  every request was answered and the processes have ended, when all the calls were answered,
  when a process has exited, or when nobody touches the page.

### Fairness

`Diego`: goroutines that have begun go on (`DesireStep`, `ResolverStep`, `WorkerStep`,
`PassStep`); leases of dead processes run out, and an executor that has lost its
presence ends; somebody takes a free converge lock; time passes (`ThirtySeconds` for a
task nobody is about to move on, `TimeToClaim`).  Strong fairness is assumed of one thing: that
some stager receives the kick about a stored completed task.  Every convergence pass sends
that kick again, so losing it for ever means that the hurler fails for ever.  No fairness is
assumed of receiving a "desire" kick: a task that nobody claims becomes overdue, and is
answered as unclaimed.  No request has to arrive, no fault has to happen.

`Hurler`: round trips end, since `ResponseHeaderTimeout` bounds them, and loops go on.
`Lifecycle`: goroutines go on; a `select` with two ready cases does not pass one over for
ever; `MaintainNode` answers a release.  No node has to be acquired, lost or registered.
`Presence`: a process whose presence was lost ends.  This one is not assumed anywhere but
checked: `ImplementsPresence` is `Process!Spec` and `LostPresenceEnds` its liveness,
`Process!LostEnds`, so that together they are `Process!FairSpec`; `Diego` has the same
condition on `ExecutorExit`.  They are two properties because the first is proved as well.
`Simulator`: callbacks that have begun go on; no message has to arrive, so
`SimulationEnds` is about simulations whose replies have come.  `Viz`: the browser's timer
ticks.  The user need do nothing and the page need not be loaded.

### Seen on the way

Not contradictions with anything the repository says, so no runs of their own:

* The distribution counts from index zero and is read from index one: the first executor has
  no column, and the last column is undefined (`plotDistribution.js:34-45`).
* Errors of the last second are never shown: the buckets end before it
  (`EveryErrorShown` is stated for the others).
* An animation started at its end divides zero by zero and runs until it is stopped
  (`PlayingEnds` excludes that start).
* `setInterval` gets 0.03, which is milliseconds there: the animation is as fast as the
  browser allows.  `Viz` counts ticks, not time.

## 4. Proofs

`tlapm` checks all of it; nothing is assumed but the named assumptions on the constants
(`TaskAssumption`, `NoTaskAssumption`, `FaultAssumption`, `MemoryAssumption`,
`ConvergerAssumption`, `RegistrableAssumption`, `AddressesAssumption`, `NodesAssumption`,
`SimulatorAssumption`, `VizAssumption`), which say what kind of value each constant is, that
`NoTask` and `NoExecutor` are neither a task nor an executor, that a process registers
different nodes, its presence before its route, and that addresses, tasks and executors of a
simulation are finitely many.  TLC evaluates them in every run.  The theorems hold for any
number of requests, executors, workers, resolvers, convergers and faults, with every kind of
fault at once, unless the table says otherwise.

| theorem | says |
|---|---|
| `DiegoProofs!TypeCorrect` | `Spec => []TypeOK` |
| `DiegoProofs!RunsAreBounded` | `Spec => []RunOnce`, for every `GuidOf` |
| `DiegoProofs!MemoryIsConserved` | `Spec => []MemoryConserved`, for every `GuidOf` |
| `RepliesProofs!VerdictsAreEarned` | `Spec => []VerdictEarned`, for every `GuidOf` |
| `RepliesProofs!TasksAreKept` | `Spec => []KeptUntilReplied`, if no two requests share a guid |
| `PresenceProofs!NoExecutorIsBuriedAlive` | `Spec => []NoFalseDeath`, for every `GuidOf` |
| `StagingProofs!TasksAreInHand` | `Spec => []NoOrphans`, under `WritesAnswered`, for every `GuidOf` |
| `StagingProofs!VerdictsAgree` | `Spec => []RepliesAgree`, for every `GuidOf` |
| `StagingProofs!RunsAreNotRevoked` | `Spec => []RunNotRevoked`, under `SetOnce` |
| `StagingProofs!AnsweredNeverRun` | `Spec => NoRunAfterAnswer`, under `SetOnce` |
| `StagingProofs!PromiseIsKept` | `Spec => ImplementsStaging`, under `SetOnce` |
| `LifecycleProofs!LifecycleTyped`, `UpOnlyWhenReady`, `ExitClearsNodes` | `Spec => []TypeOK`, `[]UpMeansReady`, `[]NodesCleared` of `Lifecycle`, for the nodes of an executor and of a stager |
| `LifecycleProofs!ExecutorsArePresences` | `Spec => ImplementsPresence` of `Lifecycle`, for a process that registers a presence |
| `HurlerProofs!CallsAreTyped`, `AnswersAreEarned`, `CallsAreTakenOnce` | `Spec => []TypeOK`, `[]AnswerEarned`, `[]TakenOnce` of `Hurler` |
| `VizProofs!SimulatorTyped`, `SimulationsEndCompleted`, `ZeroIsNoExecutor` | `Spec => []TypeOK`, `[]EndsWhenAllCompleted`, `[]DistributionTells` of `Simulator` |
| `VizProofs!PagesShowWhatEnded` | the last two for `VizSpec`, with the page behind the simulator |
| `VizProofs!PageTyped`, `SliderTellsWhatIsDrawn`, `ButtonTellsOfTimer`, `ErrorsAreShown`, `ColumnsAreCompletions` | `VizSpec => []VizTypeOK`, `[]DrawnIsShown`, `[]ButtonTells`, `[]EveryErrorShown`, `[]OnlyCompletedDrawn` of the page |

`SetOnce` is: no two requests share a guid, and no `SetMulti` is applied and answered by a
timeout (`setAck`).  Both are needed: two tasks under one key answer for each other, as
`OverwrittenTask` shows, and a task that is set twice is run twice, perhaps after its answer.
`WritesAnswered` is: no compare-and-swap is applied and answered by a timeout (`casAck`), and
none ends in another store error.  Both leave a task to an executor that gave it up.

**RunOnce.** `starts[d] <= sets[d]` says nothing about who may start next, so it is not
inductive.  `CreditInv` adds the credit: whenever the board shows a task pending or
claimed, its request has been started less often than it was set.  A setting gives one
credit; `StartTask` uses it up by taking the task to "running" in the same compare-and-swap;
demotion to pending needs a *claimed* task on the board, so it never gives the credit back.
For this one has to know in which state the copies that goroutines hold are: kicks to executors carry
pending tasks, a worker about to start holds a claimed one, and what a pass wants to write
is pending only if what it read was claimed (`KickStates`, `DesireStates`, `WorkerStates`,
`PairStates`), and that the board files a task under its own key (`Filed`).  Since a stale
copy can be written only over an equal value, the credit survives however old the copies
are.  Nothing here needs distinct guids: a stager that overwrites another's task destroys a
credit and makes its own.

**MemoryConserved.** `MemoryInv` is the sum and no more, once it is known that only finitely
many goroutines of an executor are busy (`FinitelyBusy`): a handler takes what it adds to the
sum, a goroutine that returns gives back what it takes out, and an executor that dies starts
from nothing.  The sum is a fold, which is defined through `CHOOSE` and recursion on sets.
`Sums` unfolds it once and for all: the sum over a set without one of its elements, and the
sum of a function that was changed at one argument.  The library's induction over finite
sets cannot be instantiated here; `Sums` argues by a least counterexample instead, a set of
the smallest cardinality for which the sum is not a number.

**VerdictEarned.** Here "running" on the board is no evidence of a run: after a `StartTask`
that was applied and timed out, the board shows the task running and nobody runs it.  What
is evidence is a task that is completed or resolving and has not failed.  `EarnedInv`
says that wherever such a task is held, on the board, in a kick to a stager, by a resolver
or in a convergence pass, its request was started; a worker past `StartTask` is the only
one who makes one.  The converger makes completed tasks too, but marks them failed or
demotes a resolving one, which was earned before.

**KeptUntilReplied.** A resolver in the state "delete" has replied to the request of its
task (`Published`), so the key it clears belongs to a request that was answered, if every
key belongs to one request.  `OverwrittenTask` shows that without this assumption the
property is false.  The rest is that nobody but `ResolveTask` clears a key.

**NoFalseDeath.** `DeathInv` joins the credit invariant with three facts.  An executor
that is up is present (`UpShown`); workers work for processes that serve (`WorkersServed`);
and every task that was ever written, wherever a copy of it is, tells the truth about the
executor it names (`Truthful`): if it is claimed or running, the executor has *arrived*, which
is to say that its presence has been written or that it was `early`, claiming before; if it is
failed as disappeared, the executor has *departed*, having lost its presence or ended, or was
early.  A pass lists tasks before executors, so that the executor of a listed task had arrived
before the executors were listed: if it is not on that list it had departed, and departing is
for ever because ids are not used twice.  The order of the two lists in
`bbs/executor_bbs.go:116` is what carries this argument.

**RunNotRevoked.** `TaskInv` adds: until its task is set nobody knows a task of a request
(`Fresh`), a worker past the claim holds a task that names its executor (`WorkerTasks`), and
the edits a pass has in hand are of the kinds the converger makes (`PairEdits`).  The only write
over a running task by somebody else is the converger's, and that one is justified by
`DeathInv`.

**NoOrphans.** `HandInv` says of each key that what it shows claimed or running names an
executor that has been started and, while that one serves, is in the hands of one of its
goroutines, at the place in the code that the state asks for.  Only a worker's own
compare-and-swap makes a task claimed or running (`TakenByNoOther`), and, if it is answered
with what it did, the worker goes on with what it wrote (`TakenInHand`).  It lets go only when
the board shows something else, or with its process (`HandsKept`).

**RepliesAgree.** With tasks that share a key or are set again, a request may hear several
verdicts, and the bound is the number of settings.  `CountInv` counts what the requester was
told or may still be told, that is, the verdicts of the finished tasks anybody holds: at most
one for each setting, and one less while the setting's task is open on the board.  A setting
opens a task and raises the bound; a task is finished by a write over an open one, and a write
over a finished one repeats its verdict (`EditFate`), however old the copy it came from.

**NoRunAfterAnswer.** For a task that is set once `VerdictInv` says more: the verdict of a
task that is over is the only one (`OneVerdict`), what was told is what is or was on the board
(`ToldVerdict`), and the key of a request that was told anything shows no open task
(`Settled`).  A run begins with a swap of a claim (`StartsShape`).

**ImplementsStaging.** With those, every step is matched: a step changes what one key shows
or tells one reply, and not both (`StepEffect`), and what the abstract state is before and
after follows from the two (`PhaseOf`, `VerdictOf`).  The least obvious case is the delete:
`Staging` closes only what was answered, which is `KeptInv`.

**Lifecycle.** Whatever main and the watchers do, the counter of `tasks` is the number of
watchers that have not called `Done`, and main has received, or finds in the channel, one
message for each watcher that has announced its node (`Messages`).  `UpMeansReady` follows:
as many messages as nodes mean that every node was announced.  For `ImplementsPresence` each
step of a goroutine is a step of `Presence` or invisible there.  What the process looks like
from outside depends on whether its node was ever written and lost or cleared since, and
`Past` ties that history to the node.
**Hurler.** The hard case of `AnswerEarned` is the round robin that has come to its last
attempt, and answers "refused" for all.  `Walking` says which positions were asked after k
attempts when the loop stands at i: the last k before i, counted around the end.  For `Fanout`
the count of attempts is the number of outcomes read, so that with the last one all were read.

**Simulator and page.** While no task was completed twice, the tasks that were completed
are as many as those `Done` was called for and will be called for (`Accounted`).  For the
page, an animation begun at zero has left no second out so far (`Gapless`), because a step of
0.06 seconds, and the last one of up to 0.1, moves the slider by one second at most.  That
the columns show no more than the completed tasks is a bound on a sum of cardinalities over
the executors (`Sums!SumOfPartsBound`): the columns are disjoint, because a task has one
executor, and hold completed tasks only, because what was not completed has number zero
(`Tells`), which no column stands for.

What is only model-checked: liveness, which is out of the prover's reach
(`EveryTaskAnswered`, `EveryCallAnswered`, `SendersEnd`, `ShutdownCompletes`,
`LossEndsProcess`, `LostPresenceEnds`, `SimulationEnds`, `PlayingEnds`).  Every invariant
and every other property of the passing runs is a theorem.

## 5. What is left out

* The payload of a task (actions, result, stack, container handle) is copied and never looked
  at.  Log messages are left out, but for the two the simulator counts by, and the exit that
  `logger.Fatal` is.
* Clock skew.  The converger compares its own clock with stamps of other machines; here
  time is one horizon per key.  Since the horizon may move at any moment, skew adds only
  tasks that are *never* old enough.
* Nodes that do not parse, and their deletion (`keysToDelete`): every writer writes JSON
  that parses.
* `setAck` is not in the instance that checks `ImplementsStaging`: `Staging` speaks of one setting, and a
  task set twice by a timed-out `SetMulti` may go back to pending.  `RunOnce`,
  `RepliesAgree` and `VerdictEarned` cover that case in `Resolvers`.
* Two simulations at a time, and replies that come before the simulator is in `Wait`.
* How the page lays out its plots, and the two plots that draw what they are given
  (`plotExecutor.js`, `plotRunOnce.js`).  `plotTracker.js`, `showTeam.js`, `dateRange.js` and
  what only they use come from another page and are called by nobody.
* The vendored scripts of the page (jQuery, Raphael, lodash, moment.js).  They are 23 900 of the
  24 900 lines of JavaScript here, and not this program's logic.  A count of covered lines that
  looks at JavaScript alone therefore stays near zero, whatever is modelled: the system proper
  is the Go code, which section 2 covers.
* The etcd monitor (it polls and appends to a file), the file server's board and the URL tables
  (nothing here uses them), the payload models, test helpers, start scripts and manifests.
* Behaviour of the libraries (etcd, store adapter, NATS, net/http) is modelled from the way it is
  used, and marked external in `PROJECT.json`.  In particular `presence.Remove` could hang
  if `MaintainNode` did not listen for a release while it offers a status; whether it does
  is not visible in this repository.

## 6. Plan

Written, in this order: `Task`, `Board`, `Stager`, `Executor`, `Converger`, `Diego` with
`Staging`; then `Hurler`, `Lifecycle`, `Simulator`; then `Presence` between `Lifecycle` and
`Executor`, and `Viz`; and the proofs.  The order is that of how much depends on it: the
board's protocol first, then what carries it, then what shows it.

What could still be added:

1. Two tasks on two executors of different sizes, with a fault.  Such an instance is at
   the limit of what TLC finishes in minutes; the theorems cover it.
2. Theorems about the statements that `LostAck` and `Requeued` refute, under the conditions
   that would make them true.  Leaving out lost answers is not enough for the first: an executor
   that claims a task again after its own claim was demoted meets its own work as well.
