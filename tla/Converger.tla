----------------------------- MODULE Converger ------------------------------
(***************************************************************************)
(* Convergence (executor/main.go:convergeTasks, executor_bbs.go:           *)
(* ConvergeTasks).  The executor that holds the converge lock lists the    *)
(* tasks, then the executors, kicks and repairs what it read, each repair  *)
(* with a compare-and-swap of its own.                                     *)
(***************************************************************************)
EXTENDS Executor

CONSTANT Convergers     \* the executors that may get the lock

ASSUME ConvergerAssumption == Convergers \subseteq Executors

VARIABLES
    lock,           \* the executor named in the converge_lock node
    pass            \* executor -> the pass of ConvergeTasks it is in

convergerVars == <<lock, pass>>

\* A pair of tasks for batchCompareAndSwapTasks.
Pair == [old: TaskRecord, new: TaskRecord]

Pass == [pc: {"idle", "listed", "swap"}, tasks: SUBSET TaskRecord,
         pairs: SUBSET Pair]

NoPass == [pc |-> "idle", tasks |-> {}, pairs |-> {}]

ConvergerTypeOK ==
    /\ lock \in Convergers \cup {NoExecutor}
    /\ pass \in [Convergers -> Pass]

ConvergerInit ==
    /\ lock = NoExecutor
    /\ pass = [c \in Convergers |-> NoPass]

-----------------------------------------------------------------------------
(* The lock.                                                                *)

AcquireLock(c) ==
    /\ lock = NoExecutor
    /\ exec[c] \in Process!Serving
    /\ lock' = c
    /\ UNCHANGED <<boardVars, executorVars, pass>>

\* The lease runs out while the holder is up: convergeTasks logs it and goes
\* on with the pass it is in.
LoseLock ==
    /\ lock # NoExecutor /\ exec[lock] # "dead"
    /\ Fault("lock")
    /\ lock' = NoExecutor
    /\ UNCHANGED <<store, writes, kicks, timeVars, executorVars, pass>>

ExpireLock ==
    /\ lock # NoExecutor /\ exec[lock] = "dead"
    /\ lock' = NoExecutor
    /\ UNCHANGED <<boardVars, executorVars, pass>>

-----------------------------------------------------------------------------
(* What a pass decides about a task, given the executors it listed.         *)

\* Mutant: completed tasks are not kicked.
KicksForPending(tasks) ==
    {[host |-> "executor", task |-> t] :
        t \in {u \in tasks : u.state = "pending" /\ ~Overdue(u)}}

KicksFor(tasks) ==
    {[host |-> "executor", task |-> t] :
        t \in {u \in tasks : u.state = "pending" /\ ~Overdue(u)}}
    \cup
    {[host |-> "stager", task |-> t] : t \in {u \in tasks : u.state = "completed"}}

\* Mutant: pending tasks wait for as long as it takes.
RepairsOfClaimed(t, listed) ==
    CASE t.state \in {"claimed", "running"} /\ t.executorID \notin listed ->
            {MarkTaskFailed(t, "disappeared")}
      [] t.state = "claimed" /\ t.executorID \in listed /\ Aged(t) ->
            {DemoteToPending(t)}
      [] t.state = "resolving" /\ Aged(t) -> {DemoteToCompleted(t)}
      [] OTHER -> {}

Repairs(t, listed) ==
    CASE t.state = "pending" /\ Overdue(t) -> {MarkTaskFailed(t, "unclaimed")}
      [] t.state \in {"claimed", "running"} /\ t.executorID \notin listed ->
            {MarkTaskFailed(t, "disappeared")}
      [] t.state = "claimed" /\ t.executorID \in listed /\ Aged(t) ->
            {DemoteToPending(t)}
      [] t.state = "resolving" /\ Aged(t) -> {DemoteToCompleted(t)}
      [] OTHER -> {}

-----------------------------------------------------------------------------
(* A pass.                                                                  *)

StoredTasks == {store[g] : g \in {h \in Guids : store[h] # NoTask}}

ListTasks(c) ==
    /\ lock = c /\ exec[c] \in Process!Serving
    /\ pass[c].pc = "idle"
    /\ pass' = [pass EXCEPT ![c] = [pc |-> "listed", tasks |-> StoredTasks,
                                    pairs |-> {}]]
    /\ UNCHANGED <<boardVars, executorVars, lock>>

\* The pass is over when every goroutine of the batch has answered.
Remaining(pairs) ==
    IF pairs = {} THEN NoPass ELSE [pc |-> "swap", tasks |-> {}, pairs |-> pairs]

ListExecutors(c) ==
    LET tasks == pass[c].tasks
        pairs == UNION {{[old |-> t, new |-> n] : n \in Repairs(t, present)} :
                            t \in tasks}
    IN  /\ pass[c].pc = "listed"
        /\ \/ /\ kicks' = kicks \cup KicksFor(tasks)
              /\ pass' = [pass EXCEPT ![c] = Remaining(pairs)]
              /\ UNCHANGED faults
           \/ /\ Fault("storeError")
              /\ pass' = [pass EXCEPT ![c] = NoPass]
              /\ UNCHANGED kicks
        /\ UNCHANGED <<store, writes, timeVars, executorVars, lock>>

\* Mutant: the batch writes whatever it decided.
SetPair(c, p) ==
    /\ pass[c].pc = "swap" /\ p \in pass[c].pairs
    /\ pass' = [pass EXCEPT ![c] = Remaining(pass[c].pairs \ {p})]
    /\ Put(Stamped(p.new, Now(TaskPath(p.old))))
    /\ UNCHANGED <<kicks, timeVars, faults, executorVars, lock>>

\* One goroutine of batchCompareAndSwapTasks.  An error is logged, whatever
\* it is, and nothing is tried again.
SwapPair(c, p) ==
    /\ pass[c].pc = "swap" /\ p \in pass[c].pairs
    /\ pass' = [pass EXCEPT ![c] = Remaining(pass[c].pairs \ {p})]
    /\ \/ /\ Swap(p.old, Stamped(p.new, Now(TaskPath(p.old))))
          /\ UNCHANGED faults
       \/ store[TaskPath(p.old)] # p.old /\ UNCHANGED <<store, writes, faults>>
       \/ Fault("storeError") /\ UNCHANGED <<store, writes>>
    /\ UNCHANGED <<kicks, timeVars, executorVars, lock>>

-----------------------------------------------------------------------------
(* The executor takes its converger down with it.                           *)

ExecutorExit(e) ==
    /\ Exit(e) \/ Crash(e)
    /\ pass' = [c \in Convergers |-> IF c = e THEN NoPass ELSE pass[c]]
    /\ UNCHANGED lock

\* Mutant: the executors are listed first; the field tasks holds them until
\* the tasks are listed.
ListExecutorsFirst(c) ==
    /\ lock = c /\ exec[c] \in Process!Serving
    /\ pass[c].pc = "idle"
    /\ pass' = [pass EXCEPT ![c] = [pc |-> "listed", tasks |-> present,
                                    pairs |-> {}]]
    /\ UNCHANGED <<boardVars, executorVars, lock>>

ListTasksLast(c) ==
    LET pairs == UNION {{[old |-> t, new |-> n] :
                    n \in Repairs(t, pass[c].tasks)} : t \in StoredTasks}
    IN  /\ pass[c].pc = "listed"
        /\ kicks' = kicks \cup KicksFor(StoredTasks)
        /\ pass' = [pass EXCEPT ![c] = Remaining(pairs)]
        /\ UNCHANGED <<store, writes, timeVars, faults, executorVars, lock>>

PassStepExecutorsFirst(c) ==
    \/ ListExecutorsFirst(c) \/ ListTasksLast(c)
    \/ \E p \in pass[c].pairs : SwapPair(c, p)

PassStep(c) ==
    \/ ListTasks(c) \/ ListExecutors(c)
    \/ \E p \in pass[c].pairs : SwapPair(c, p)

ConvergerNext ==
    \/ ExpireLock \/ LoseLock
    \/ \E c \in Convergers : AcquireLock(c) \/ PassStep(c)
    \/ \E e \in Executors : ExecutorExit(e)
=============================================================================
