------------------------------ MODULE Executor ------------------------------
(***************************************************************************)
(* The executor (src/executor): presence, the memory it has to give, the   *)
(* HTTP handler that claims a task it is kicked about, and the goroutine   *)
(* that runs the task.                                                     *)
(***************************************************************************)
EXTENDS Board, Functions, Integers

CONSTANTS
    MaxMemory,      \* the -memoryMB flag
    Workers         \* bound: claims and runs in progress at a time, in all

ASSUME MemoryAssumption == MaxMemory \in Nat

VARIABLES
    exec,           \* executor -> where the process is
    present,        \* executors with a node under /v2/executor
    memory,         \* executor -> currentMemory
    worker,         \* the ServeHTTP and runTask goroutines
    starts,         \* history: request -> times its container was run
    early           \* history: executors that claimed before they were present

executorVars == <<exec, present, memory, worker, starts, early>>
processVars == <<exec, present, early>>

\* The processes as the rest of the system sees them.
Process == INSTANCE Presence

Work(pc, e, t) == [pc |-> pc, exec |-> e, task |-> t]
NoWork == Work("idle", NoExecutor, NoTask)

WorkerProcess ==
    {NoWork} \cup [pc: {"claim", "start", "running", "kick"},
                   exec: Executors, task: TaskRecord]

ExecutorTypeOK ==
    /\ exec \in [Executors -> Process!ExecutorState]
    /\ present \subseteq Executors
    /\ memory \in [Executors -> Int]
    /\ worker \in [Workers -> WorkerProcess]
    /\ starts \in [Requests -> Nat]
    /\ early \subseteq Executors

ExecutorInit ==
    /\ Process!Init
    /\ memory = [e \in Executors |-> MaxMemory]
    /\ worker = [w \in Workers |-> NoWork]
    /\ starts = [d \in Requests |-> 0]
    /\ early = {}

-----------------------------------------------------------------------------
(* The process: main, maintainPresence, and the ways in which it ends.      *)

Boot(e) ==
    /\ \/ Process!Serve(e) /\ UNCHANGED faults
       \/ Process!ServeLost(e) /\ Fault("presence")
    /\ UNCHANGED <<store, writes, kicks, timeVars, memory, worker, starts, early>>

Announce(e) ==
    /\ Process!Announce(e)
    /\ UNCHANGED <<boardVars, memory, worker, starts, early>>

LosePresence(e) ==
    /\ e \in present
    /\ Process!Lose(e)
    /\ Fault("presence")
    /\ UNCHANGED <<store, writes, kicks, timeVars, memory, worker, starts, early>>

RegainPresence(e) ==
    /\ Process!Regain(e)
    /\ UNCHANGED <<boardVars, memory, worker, starts, early>>

\* The process ends, and with it the goroutines and their reservations.
Die(e) ==
    /\ Process!End(e)
    /\ worker' = [w \in Workers |-> IF worker[w].exec = e THEN NoWork
                                                          ELSE worker[w]]
    /\ memory' = [memory EXCEPT ![e] = MaxMemory]
    /\ UNCHANGED <<starts, early>>

\* tasks.Wait() does not wait for runTask.
Exit(e) ==
    /\ exec[e] = "lost"
    /\ Die(e)
    /\ UNCHANGED boardVars

Crash(e) ==
    /\ Die(e)
    /\ Fault("crash")
    /\ UNCHANGED <<store, writes, kicks, timeVars>>

ExpirePresence(e) ==
    /\ e \in present
    /\ Process!Expire(e)
    /\ UNCHANGED <<boardVars, memory, worker, starts, early>>

-----------------------------------------------------------------------------
(* The handler.                                                             *)

\* Mutant: capacity is not checked.
TakeMemory(e, d) == memory' = [memory EXCEPT ![e] = @ - MemoryMB[d]]

ReserveMemory(e, d) ==
    /\ memory[e] >= MemoryMB[d]
    /\ memory' = [memory EXCEPT ![e] = @ - MemoryMB[d]]

\* Mutant: the deferred releaseMemory is missing.
ReturnWithout(w) == worker' = [worker EXCEPT ![w] = NoWork] /\ UNCHANGED memory

\* What a goroutine does when it returns: releaseMemory, and no more.
Return(w) ==
    /\ memory' = [memory EXCEPT ![worker[w].exec] =
                    @ + MemoryMB[worker[w].task.request]]
    /\ worker' = [worker EXCEPT ![w] = NoWork]

\* A handler without capacity answers 503 and changes nothing.
ReceiveDesired(w, e, k) ==
    /\ k.host = "executor"
    /\ exec[e] \in Process!Serving
    /\ worker[w].pc = "idle"
    /\ ReserveMemory(e, k.task.request)
    /\ worker' = [worker EXCEPT ![w] = Work("claim", e, k.task)]
    /\ UNCHANGED <<boardVars, processVars, starts>>

ClaimTask(w) ==
    LET old == worker[w].task
        e == worker[w].exec
        new == Claimed(old, e, Now(TaskPath(old)))
    IN  /\ worker[w].pc = "claim"
        /\ RetryCompareAndSwap(old, new,
               /\ worker' = [worker EXCEPT ![w] = Work("start", e, new)]
               /\ UNCHANGED memory,
               UNCHANGED <<worker, memory>>,
               Return(w))
        /\ early' = IF exec[e] = "booting" /\ store' # store
                    THEN early \cup {e} ELSE early
        /\ UNCHANGED <<kicks, timeVars, exec, present, starts>>

\* Mutant: the error of StartTask is not looked at.
StartRegardless(w) ==
    LET old == worker[w].task
        new == Started(old, Now(TaskPath(old)))
        Run == /\ worker' = [worker EXCEPT ![w] = Work("running", @.exec, new)]
               /\ starts' = [starts EXCEPT ![old.request] = @ + 1]
               /\ UNCHANGED memory
    IN  /\ worker[w].pc = "start"
        /\ RetryCompareAndSwap(old, new, Run,
               UNCHANGED <<worker, memory, starts>>, Run)
        /\ UNCHANGED <<kicks, timeVars, processVars>>

StartTask(w) ==
    LET old == worker[w].task
        new == Started(old, Now(TaskPath(old)))
    IN  /\ worker[w].pc = "start"
        /\ RetryCompareAndSwap(old, new,
               /\ worker' = [worker EXCEPT ![w] = Work("running", @.exec, new)]
               /\ starts' = [starts EXCEPT ![old.request] = @ + 1]
               /\ UNCHANGED memory,
               UNCHANGED <<worker, memory, starts>>,
               Return(w) /\ UNCHANGED starts)
        /\ UNCHANGED <<kicks, timeVars, processVars>>

\* Mutant: runTask returns after the run and does not complete the task.
RunUncompleted(w) ==
    /\ worker[w].pc = "running"
    /\ Return(w)
    /\ UNCHANGED <<boardVars, processVars, starts>>

CompleteTask(w) ==
    LET old == worker[w].task
        new == Finished(old, Now(TaskPath(old)))
    IN  /\ worker[w].pc = "running"
        /\ RetryCompareAndSwap(old, new,
               /\ worker' = [worker EXCEPT ![w] = Work("kick", @.exec, new)]
               /\ UNCHANGED memory,
               UNCHANGED <<worker, memory>>,
               Return(w))
        /\ UNCHANGED <<kicks, timeVars, processVars, starts>>

KickCompleted(w) ==
    /\ worker[w].pc = "kick"
    /\ KickComplete(worker[w].task)
    /\ Return(w)
    /\ UNCHANGED <<store, writes, timeVars, faults, processVars, starts>>

-----------------------------------------------------------------------------
WorkerStep(w) ==
    ClaimTask(w) \/ StartTask(w) \/ CompleteTask(w) \/ KickCompleted(w)

ExecutorNext ==
    \/ \E e \in Executors :
        \/ Boot(e) \/ Announce(e)
        \/ LosePresence(e) \/ RegainPresence(e) \/ ExpirePresence(e)
    \/ \E w \in Workers :
        \/ \E e \in Executors, k \in kicks : ReceiveDesired(w, e, k)
        \/ WorkerStep(w)

-----------------------------------------------------------------------------
\* What the goroutines of an executor have reserved.
Reserved(e) ==
    SumFunctionOnSet(
        [w \in Workers |-> MemoryMB[worker[w].task.request]],
        {w \in Workers : worker[w].exec = e})

\* What an executor has left and what its goroutines have reserved add up to
\* its capacity, whatever fails and whoever dies (executor/handler.go:
\* reserveMemory, releaseMemory): no reservation leaks or is returned twice.
MemoryConserved ==
    \A e \in Executors : memory[e] >= 0 /\ memory[e] + Reserved(e) = MaxMemory
=============================================================================
