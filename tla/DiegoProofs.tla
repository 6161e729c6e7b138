---------------------------- MODULE DiegoProofs -----------------------------
(***************************************************************************)
(* Theorems about Diego, for every number of requests, executors,          *)
(* goroutines and faults of every kind.                                    *)
(***************************************************************************)
EXTENDS Diego, Sums, TLAPS

-----------------------------------------------------------------------------
(* Type correctness.                                                        *)

\* The edits of the bbs functions make task records of task records.
LEMMA EditsType ==
    ASSUME NEW t \in TaskRecord, NEW n \in Nat
    PROVE  /\ \A e \in Executors : Claimed(t, e, n) \in TaskRecord
           /\ Started(t, n) \in TaskRecord
           /\ Finished(t, n) \in TaskRecord
           /\ Resolving(t, n) \in TaskRecord
           /\ MarkTaskFailed(t, "unclaimed") \in TaskRecord
           /\ MarkTaskFailed(t, "disappeared") \in TaskRecord
           /\ DemoteToPending(t) \in TaskRecord
           /\ DemoteToCompleted(t) \in TaskRecord
           /\ Stamped(t, n) \in TaskRecord
  BY DEF TaskRecord, TaskState, Failure, Claimed, Started, Finished,
         Resolving, MarkTaskFailed, DemoteToPending, DemoteToCompleted, Stamped

LEMMA DesiredType ==
    ASSUME NEW d \in Requests, NEW created \in Nat, NEW n \in Nat
    PROVE  Desired(d, created, n) \in TaskRecord
  BY DEF TaskRecord, TaskState, Failure, Desired

LEMMA PathType ==
    ASSUME NEW t \in TaskRecord
    PROVE  t.request \in Requests /\ TaskPath(t) \in Guids /\ t.updatedAt \in Nat
  BY TaskAssumption DEF TaskRecord, TaskPath

LEMMA NowType ==
    ASSUME BoardTypeOK, NEW t \in TaskRecord
    PROVE  Now(TaskPath(t)) \in Nat
  BY PathType DEF BoardTypeOK, Now

\* The part of the board a write touches.
WrittenTypeOK == store \in [Guids -> MaybeTask] /\ writes \in [Guids -> Nat]

LEMMA PutType ==
    ASSUME WrittenTypeOK, NEW t \in TaskRecord, Put(t)
    PROVE  WrittenTypeOK'
  BY PathType DEF WrittenTypeOK, Put, MaybeTask

LEMMA FaultType ==
    ASSUME faults \in 0 .. MaxFaults, NEW kind,
           Fault(kind) \/ UNCHANGED faults
    PROVE  faults' \in 0 .. MaxFaults
  BY FaultAssumption DEF Fault

\* What RetryCompareAndSwap does, whatever the caller does about it.
LEMMA RetryType ==
    ASSUME BoardTypeOK, NEW old \in TaskRecord, NEW new \in TaskRecord,
           NEW ACTION Success, NEW ACTION Again, NEW ACTION Failed,
           RetryCompareAndSwap(old, new, Success, Again, Failed)
    PROVE  /\ WrittenTypeOK'
           /\ faults' \in 0 .. MaxFaults
           /\ Success \/ Again \/ Failed
  <1> WrittenTypeOK
    BY DEF BoardTypeOK, WrittenTypeOK
  <1>1. ASSUME Swap(old, new) PROVE WrittenTypeOK'
    BY <1>1, PutType DEF Swap
  <1>2. ASSUME UNCHANGED <<store, writes>> PROVE WrittenTypeOK'
    BY <1>2 DEF WrittenTypeOK
  <1> QED
    BY <1>1, <1>2, FaultType DEF RetryCompareAndSwap, BoardTypeOK

LEMMA InitType == Init => TypeOK
  <1> SUFFICES ASSUME Init PROVE TypeOK
    OBVIOUS
  <1>1. BoardTypeOK
    BY FaultAssumption DEF Init, BoardInit, BoardTypeOK, MaybeTask
  <1>2. StagerTypeOK
    BY DEF Init, StagerInit, StagerTypeOK, DesireProcess, Desire, ResolverProcess
  <1>3. ExecutorTypeOK
    BY MemoryAssumption
    DEF Init, ExecutorInit, ExecutorTypeOK, Process!Init, Process!ExecutorState, WorkerProcess,
        NoWork, Work
  <1>4. ConvergerTypeOK
    BY DEF Init, ConvergerInit, ConvergerTypeOK, Pass, NoPass
  <1> QED
    BY <1>1, <1>2, <1>3, <1>4 DEF TypeOK

\* A stager's own step keeps the types of what it touches.
LEMMA StagerType ==
    ASSUME BoardTypeOK, StagerTypeOK, StagerNext
    PROVE  BoardTypeOK' /\ StagerTypeOK'
  <1> USE DEF BoardTypeOK, StagerTypeOK, Desire
  <1>1. ASSUME NEW d \in Requests, HandleStaging(d)
        PROVE  BoardTypeOK' /\ StagerTypeOK'
    BY <1>1 DEF HandleStaging, DesireProcess, boardVars, timeVars
  <1>2. ASSUME NEW d \in Requests, DesireTask(d)
        PROVE  BoardTypeOK' /\ StagerTypeOK'
    <2> DEFINE now == Now(GuidOf[d])
               created == IF desire[d].createdAt = 0 THEN now
                                                     ELSE desire[d].createdAt
               t == Desired(d, created, now)
    <2>1. now \in Nat
      BY TaskAssumption DEF Now
    <2>2. created \in Nat
      BY <2>1 DEF DesireProcess
    <2>3. t \in TaskRecord /\ t.createdAt \in Nat
      BY <2>1, <2>2, DesiredType DEF Desired
    <2>4. SetTask(d, t)
      BY <1>2 DEF DesireTask
    <2> HIDE DEF t
    <2>5. WrittenTypeOK /\ faults \in 0 .. MaxFaults
      BY DEF WrittenTypeOK
    <2>6. WrittenTypeOK' /\ faults' \in 0 .. MaxFaults
      BY <2>3, <2>4, <2>5, PutType, FaultType DEF SetTask, WrittenTypeOK
    <2>7. sets' \in [Requests -> Nat]
      BY <2>4 DEF SetTask
    <2>8. desire' \in [Requests -> DesireProcess]
      <3>1. /\ Desire("kick", 0, t) \in DesireProcess
            /\ Desire("set", t.createdAt, NoTask) \in DesireProcess
            /\ Desire("failed", 0, NoTask) \in DesireProcess
        BY <2>3 DEF DesireProcess
      <3> HIDE DEF Desire
      <3> QED
        BY <2>4, <3>1 DEF SetTask
    <2> QED
      BY <1>2, <2>6, <2>7, <2>8 DEF DesireTask, WrittenTypeOK, timeVars
  <1>3. ASSUME NEW d \in Requests, KickDesired(d)
        PROVE  BoardTypeOK' /\ StagerTypeOK'
    <2>1. desire[d].task \in TaskRecord
      BY <1>3 DEF KickDesired, DesireProcess
    <2>2. kicks' \subseteq Kick
      BY <1>3, <2>1 DEF KickDesired, KickDesire, Kick
    <2>3. desire' \in [Requests -> DesireProcess]
      BY <1>3 DEF KickDesired, DesireProcess
    <2> QED
      BY <1>3, <2>2, <2>3 DEF KickDesired, timeVars
  <1>4. ASSUME NEW d \in Requests, DesireCrash(d)
        PROVE  BoardTypeOK' /\ StagerTypeOK'
    BY <1>4, FaultType DEF DesireCrash, DesireProcess, timeVars
  <1>5. ASSUME NEW r \in Resolvers, NEW k \in kicks, ReceiveCompleted(r, k)
        PROVE  BoardTypeOK' /\ StagerTypeOK'
    BY <1>5 DEF ReceiveCompleted, Kick, ResolverProcess, boardVars, timeVars
  <1>6. ASSUME NEW r \in Resolvers, ResolvingTask(r)
        PROVE  BoardTypeOK' /\ StagerTypeOK'
    <2> DEFINE old == resolver[r].task
               new == Resolving(old, Now(TaskPath(old)))
    <2>1. old \in TaskRecord
      BY <1>6 DEF ResolvingTask, ResolverProcess, Unresolved
    <2>2. new \in TaskRecord
      <3>1. Now(TaskPath(old)) \in Nat
        BY <2>1, NowType
      <3> HIDE DEF old
      <3> QED
        BY <2>1, <3>1, EditsType
    <2>3. RetryCompareAndSwap(old, new,
            resolver' = [resolver EXCEPT ![r] = [pc |-> "publish", task |-> new]],
            UNCHANGED resolver,
            resolver' = [resolver EXCEPT ![r] = Unresolved])
      BY <1>6 DEF ResolvingTask
    <2> HIDE DEF old, new
    <2>4. /\ WrittenTypeOK' /\ faults' \in 0 .. MaxFaults
          /\ \/ resolver' = [resolver EXCEPT ![r] = [pc |-> "publish", task |-> new]]
             \/ UNCHANGED resolver
             \/ resolver' = [resolver EXCEPT ![r] = Unresolved]
      BY <2>1, <2>2, <2>3, RetryType
    <2>5. resolver' \in [Resolvers -> ResolverProcess]
      <3>1. /\ [pc |-> "publish", task |-> new] \in ResolverProcess
            /\ Unresolved \in ResolverProcess
        BY <2>2 DEF ResolverProcess
      <3> QED
        BY <2>4, <3>1
    <2> QED
      BY <1>6, <2>4, <2>5 DEF ResolvingTask, WrittenTypeOK, timeVars
  <1>7. ASSUME NEW r \in Resolvers, PublishReply(r)
        PROVE  BoardTypeOK' /\ StagerTypeOK'
    <2> DEFINE t == resolver[r].task
    <2>1. t \in TaskRecord
      BY <1>7 DEF PublishReply, ResolverProcess, Unresolved
    <2>2. t.request \in Requests /\ t.failure \in Failure
      BY <2>1 DEF TaskRecord
    <2>3. \/ /\ replies' = [replies EXCEPT ![t.request] = Append(@, t.failure)]
             /\ resolver' = [resolver EXCEPT ![r] = [pc |-> "delete", task |-> t]]
          \/ /\ resolver' = [resolver EXCEPT ![r] = Unresolved]
             /\ UNCHANGED replies
      BY <1>7 DEF PublishReply
    <2> HIDE DEF t
    <2>4. replies' \in [Requests -> Seq(Failure)]
      <3> DEFINE Verdicts == Seq(Failure)
                 longer == Append(replies[t.request], t.failure)
      <3>1. replies \in [Requests -> Verdicts] /\ longer \in Verdicts
        BY <2>2
      <3>2. \/ replies' = [replies EXCEPT ![t.request] = longer]
            \/ UNCHANGED replies
        BY <2>3
      <3> HIDE DEF Verdicts, longer
      <3>3. replies' \in [Requests -> Verdicts]
        BY <3>1, <3>2
      <3> QED
        BY <3>3 DEF Verdicts
    <2>5. resolver' \in [Resolvers -> ResolverProcess]
      <3>1. /\ [pc |-> "delete", task |-> t] \in ResolverProcess
            /\ Unresolved \in ResolverProcess
        BY <2>1 DEF ResolverProcess
      <3> QED
        BY <2>3, <3>1
    <2> QED
      BY <1>7, <2>4, <2>5, FaultType DEF PublishReply, timeVars
  <1>8. ASSUME NEW r \in Resolvers, ResolveTask(r)
        PROVE  BoardTypeOK' /\ StagerTypeOK'
    <2>1. store' \in [Guids -> MaybeTask]
      BY <1>8 DEF ResolveTask, MaybeTask
    <2>2. resolver' \in [Resolvers -> ResolverProcess]
      BY <1>8 DEF ResolveTask, ResolverProcess
    <2>3. faults' \in 0 .. MaxFaults
      BY <1>8, FaultType DEF ResolveTask
    <2> QED
      BY <1>8, <2>1, <2>2, <2>3 DEF ResolveTask, timeVars
  <1>9. ASSUME NEW r \in Resolvers, ResolverCrash(r)
        PROVE  BoardTypeOK' /\ StagerTypeOK'
    BY <1>9, FaultType DEF ResolverCrash, ResolverProcess, timeVars
  <1> QED
    BY <1>1, <1>2, <1>3, <1>4, <1>5, <1>6, <1>7, <1>8, <1>9
    DEF StagerNext, DesireStep, ResolverStep

-----------------------------------------------------------------------------
\* A goroutine that is not idle has a task and an executor.
LEMMA WorkType ==
    ASSUME ExecutorTypeOK, NEW w \in Workers, worker[w].pc # "idle"
    PROVE  /\ worker[w].task \in TaskRecord
           /\ worker[w].exec \in Executors
           /\ worker[w].task.request \in Requests
  BY PathType DEF ExecutorTypeOK, WorkerProcess, NoWork, Work

LEMMA ReturnType ==
    ASSUME ExecutorTypeOK, NEW w \in Workers, worker[w].pc # "idle", Return(w)
    PROVE  /\ memory' \in [Executors -> Int]
           /\ worker' \in [Workers -> WorkerProcess]
  <1> DEFINE t == worker[w].task
             e == worker[w].exec
             more == memory[e] + MemoryMB[t.request]
  <1>1. e \in Executors /\ memory[e] \in Int /\ MemoryMB[t.request] \in Nat
    BY WorkType, TaskAssumption DEF ExecutorTypeOK
  <1>2. more \in Int
    BY <1>1
  <1>3. memory' = [memory EXCEPT ![e] = more]
    BY DEF Return
  <1>4. NoWork \in WorkerProcess
    BY DEF WorkerProcess
  <1> HIDE DEF more, e
  <1> QED
    BY <1>1, <1>2, <1>3, <1>4 DEF Return, ExecutorTypeOK

\* Dying keeps the types.
LEMMA DieType ==
    ASSUME ExecutorTypeOK, NEW e \in Executors, Die(e)
    PROVE  /\ exec' \in [Executors -> Process!ExecutorState]
           /\ memory' \in [Executors -> Int]
           /\ worker' \in [Workers -> WorkerProcess]
  <1>1. exec' \in [Executors -> Process!ExecutorState]
    BY DEF Die, Process!End, Process!Move, ExecutorTypeOK, Process!ExecutorState
  <1>2. memory' \in [Executors -> Int]
    BY MemoryAssumption DEF Die, ExecutorTypeOK
  <1>3. NoWork \in WorkerProcess
    BY DEF WorkerProcess
  <1>4. worker' \in [Workers -> WorkerProcess]
    BY <1>3 DEF Die, ExecutorTypeOK
  <1> QED
    BY <1>1, <1>2, <1>4

\* Every call of the bbs that a worker makes keeps the types: the worker goes
\* on with the record it wrote, stays as it is, or returns.
LEMMA WorkerCallType ==
    ASSUME BoardTypeOK, ExecutorTypeOK,
           NEW w \in Workers, worker[w].pc # "idle",
           NEW pc \in {"start", "running", "kick"}, NEW new \in TaskRecord,
           \/ /\ worker' = [worker EXCEPT ![w] = Work(pc, worker[w].exec, new)]
              /\ UNCHANGED memory
           \/ UNCHANGED <<worker, memory>>
           \/ Return(w)
    PROVE  /\ memory' \in [Executors -> Int]
           /\ worker' \in [Workers -> WorkerProcess]
  <1>1. Work(pc, worker[w].exec, new) \in WorkerProcess
    BY WorkType DEF Work, WorkerProcess
  <1> HIDE DEF Work
  <1>2. CASE /\ worker' = [worker EXCEPT ![w] = Work(pc, worker[w].exec, new)]
             /\ UNCHANGED memory
    BY <1>1, <1>2 DEF ExecutorTypeOK
  <1>3. CASE UNCHANGED <<worker, memory>>
    BY <1>3 DEF ExecutorTypeOK
  <1>4. CASE Return(w)
    BY <1>4, ReturnType
  <1> QED
    BY <1>2, <1>3, <1>4

LEMMA ExecutorType ==
    ASSUME BoardTypeOK, ExecutorTypeOK, ExecutorNext
    PROVE  BoardTypeOK' /\ ExecutorTypeOK'
  <1>1. ASSUME NEW e \in Executors,
               \/ Boot(e) \/ Announce(e)
               \/ LosePresence(e) \/ RegainPresence(e) \/ ExpirePresence(e)
        PROVE  BoardTypeOK' /\ ExecutorTypeOK'
    <2>1. exec' \in [Executors -> Process!ExecutorState] /\ present' \subseteq Executors
      BY <1>1 DEF Boot, Announce, LosePresence, RegainPresence, ExpirePresence, ExecutorTypeOK,
                  Process!Serve, Process!ServeLost, Process!Announce, Process!Lose,
                  Process!Regain, Process!Expire, Process!Move, Process!ExecutorState
    <2>2. UNCHANGED <<store, writes, kicks, timeVars, memory, worker, starts, early>>
      BY <1>1 DEF Boot, Announce, LosePresence, RegainPresence, ExpirePresence, boardVars, timeVars
    <2>3. faults' \in 0 .. MaxFaults
      BY <1>1, FaultType DEF Boot, Announce, LosePresence, RegainPresence, ExpirePresence,
                             boardVars, BoardTypeOK
    <2> QED
      BY <2>1, <2>2, <2>3 DEF BoardTypeOK, ExecutorTypeOK, timeVars
  <1>2. ASSUME NEW w \in Workers, NEW e \in Executors, NEW k \in kicks,
               ReceiveDesired(w, e, k)
        PROVE  BoardTypeOK' /\ ExecutorTypeOK'
    <2>1. k.task \in TaskRecord /\ k.task.request \in Requests
      BY PathType DEF BoardTypeOK, Kick
    <2>2. Work("claim", e, k.task) \in WorkerProcess
      BY <2>1 DEF Work, WorkerProcess
    <2>3. worker' = [worker EXCEPT ![w] = Work("claim", e, k.task)]
      BY <1>2 DEF ReceiveDesired
    <2> HIDE DEF Work
    <2>4. worker' \in [Workers -> WorkerProcess]
      BY <2>2, <2>3 DEF ExecutorTypeOK
    <2> DEFINE less == memory[e] - MemoryMB[k.task.request]
    <2>5. less \in Int
      BY <2>1, TaskAssumption DEF ExecutorTypeOK
    <2>6. memory' = [memory EXCEPT ![e] = less]
      BY <1>2 DEF ReceiveDesired, ReserveMemory
    <2> HIDE DEF less
    <2>7. memory' \in [Executors -> Int]
      BY <2>5, <2>6 DEF ExecutorTypeOK
    <2> QED
      BY <1>2, <2>4, <2>7 DEF ReceiveDesired, BoardTypeOK, ExecutorTypeOK,
                              boardVars, timeVars, processVars
  <1>3. ASSUME NEW w \in Workers, ClaimTask(w)
        PROVE  BoardTypeOK' /\ ExecutorTypeOK'
    <2> DEFINE old == worker[w].task
               e == worker[w].exec
               new == Claimed(old, e, Now(TaskPath(old)))
    <2>1. worker[w].pc # "idle" /\ old \in TaskRecord /\ e \in Executors
      BY <1>3, WorkType DEF ClaimTask
    <2>2. new \in TaskRecord
      <3>1. Now(TaskPath(old)) \in Nat
        BY <2>1, NowType
      <3> HIDE DEF old, e
      <3> QED
        BY <2>1, <3>1, EditsType
    <2> DEFINE Success ==
                 /\ worker' = [worker EXCEPT ![w] = Work("start", e, new)]
                 /\ UNCHANGED memory
               Again == UNCHANGED <<worker, memory>>
    <2>3. RetryCompareAndSwap(old, new, Success, Again, Return(w))
      BY <1>3 DEF ClaimTask
    <2> HIDE DEF new
    <2>4. /\ WrittenTypeOK' /\ faults' \in 0 .. MaxFaults
          /\ Success \/ Again \/ Return(w)
      <3> HIDE DEF Success, Again
      <3> QED
        BY <2>1, <2>2, <2>3, RetryType
    <2>5. /\ memory' \in [Executors -> Int]
          /\ worker' \in [Workers -> WorkerProcess]
      BY <2>1, <2>2, <2>4, WorkerCallType
    <2>6. early' \subseteq Executors
      BY <1>3, <2>1 DEF ClaimTask, ExecutorTypeOK
    <2> QED
      BY <1>3, <2>4, <2>5, <2>6
      DEF ClaimTask, BoardTypeOK, ExecutorTypeOK, WrittenTypeOK, timeVars
  <1>4. ASSUME NEW w \in Workers, StartTask(w)
        PROVE  BoardTypeOK' /\ ExecutorTypeOK'
    <2> DEFINE old == worker[w].task
               new == Started(old, Now(TaskPath(old)))
               Run == /\ worker' = [worker EXCEPT ![w] = Work("running", @.exec, new)]
                      /\ starts' = [starts EXCEPT ![old.request] = @ + 1]
                      /\ UNCHANGED memory
               Again == UNCHANGED <<worker, memory, starts>>
               Failed == Return(w) /\ UNCHANGED starts
    <2>1. worker[w].pc # "idle" /\ old \in TaskRecord
      BY <1>4, WorkType DEF StartTask
    <2>2. new \in TaskRecord
      <3>1. Now(TaskPath(old)) \in Nat
        BY <2>1, NowType
      <3> HIDE DEF old
      <3> QED
        BY <2>1, <3>1, EditsType
    <2>3. RetryCompareAndSwap(old, new, Run, Again, Failed)
      BY <1>4 DEF StartTask
    <2> HIDE DEF new
    <2>4. /\ WrittenTypeOK' /\ faults' \in 0 .. MaxFaults
          /\ Run \/ Again \/ Failed
      <3> HIDE DEF Run, Again, Failed
      <3> QED
        BY <2>1, <2>2, <2>3, RetryType
    <2>5. /\ memory' \in [Executors -> Int]
          /\ worker' \in [Workers -> WorkerProcess]
      BY <2>1, <2>2, <2>4, WorkerCallType
    <2>6. starts' \in [Requests -> Nat]
      BY <2>4 DEF ExecutorTypeOK
    <2> QED
      BY <1>4, <2>4, <2>5, <2>6
      DEF StartTask, BoardTypeOK, ExecutorTypeOK, WrittenTypeOK, timeVars,
          processVars
  <1>5. ASSUME NEW w \in Workers, CompleteTask(w)
        PROVE  BoardTypeOK' /\ ExecutorTypeOK'
    <2> DEFINE old == worker[w].task
               new == Finished(old, Now(TaskPath(old)))
    <2>1. worker[w].pc # "idle" /\ old \in TaskRecord
      BY <1>5, WorkType DEF CompleteTask
    <2>2. new \in TaskRecord
      <3>1. Now(TaskPath(old)) \in Nat
        BY <2>1, NowType
      <3> HIDE DEF old
      <3> QED
        BY <2>1, <3>1, EditsType
    <2> DEFINE Success ==
                 /\ worker' = [worker EXCEPT ![w] = Work("kick", @.exec, new)]
                 /\ UNCHANGED memory
               Again == UNCHANGED <<worker, memory>>
    <2>3. RetryCompareAndSwap(old, new, Success, Again, Return(w))
      BY <1>5 DEF CompleteTask
    <2> HIDE DEF new
    <2>4. /\ WrittenTypeOK' /\ faults' \in 0 .. MaxFaults
          /\ Success \/ Again \/ Return(w)
      <3> HIDE DEF Success, Again
      <3> QED
        BY <2>1, <2>2, <2>3, RetryType
    <2>5. /\ memory' \in [Executors -> Int]
          /\ worker' \in [Workers -> WorkerProcess]
      BY <2>1, <2>2, <2>4, WorkerCallType
    <2> QED
      BY <1>5, <2>4, <2>5
      DEF CompleteTask, BoardTypeOK, ExecutorTypeOK, WrittenTypeOK, timeVars,
          processVars
  <1>6. ASSUME NEW w \in Workers, KickCompleted(w)
        PROVE  BoardTypeOK' /\ ExecutorTypeOK'
    <2>1. worker[w].pc # "idle" /\ worker[w].task \in TaskRecord
      BY <1>6, WorkType DEF KickCompleted
    <2>2. kicks' \subseteq Kick
      BY <1>6, <2>1 DEF KickCompleted, KickComplete, Kick, BoardTypeOK
    <2>3. Return(w)
      BY <1>6 DEF KickCompleted
    <2> QED
      BY <1>6, <2>1, <2>2, <2>3, ReturnType
      DEF KickCompleted, BoardTypeOK, ExecutorTypeOK, timeVars, processVars
  <1> QED
    BY <1>1, <1>2, <1>3, <1>4, <1>5, <1>6 DEF ExecutorNext, WorkerStep

-----------------------------------------------------------------------------
\* A repair is a task of the same request, and only claimed tasks go back to
\* pending.
LEMMA RepairsType ==
    ASSUME NEW t \in TaskRecord, NEW listed, NEW n \in Repairs(t, listed)
    PROVE  /\ n \in TaskRecord
           /\ n.request = t.request
           /\ n.state \in {"pending", "completed"}
           /\ n.state = "pending" => t.state = "claimed"
  <1>1. /\ MarkTaskFailed(t, "unclaimed") \in TaskRecord
        /\ MarkTaskFailed(t, "disappeared") \in TaskRecord
        /\ DemoteToPending(t) \in TaskRecord
        /\ DemoteToCompleted(t) \in TaskRecord
    BY EditsType, 0 \in Nat
  <1>2. \/ /\ n \in {MarkTaskFailed(t, "unclaimed"),
                     MarkTaskFailed(t, "disappeared"), DemoteToCompleted(t)}
        \/ t.state = "claimed" /\ n = DemoteToPending(t)
    BY DEF Repairs
  <1>3. n \in TaskRecord
    BY <1>1, <1>2
  <1>4. t = [request |-> t.request, createdAt |-> t.createdAt,
             updatedAt |-> t.updatedAt, state |-> t.state,
             executorID |-> t.executorID, failure |-> t.failure]
    BY DEF TaskRecord
  <1>5. /\ DemoteToPending(t).request = t.request
        /\ DemoteToPending(t).state = "pending"
        /\ DemoteToCompleted(t).request = t.request
        /\ DemoteToCompleted(t).state = "completed"
        /\ \A reason : /\ MarkTaskFailed(t, reason).request = t.request
                       /\ MarkTaskFailed(t, reason).state = "completed"
    BY DEF TaskRecord, DemoteToPending, DemoteToCompleted, MarkTaskFailed
  <1> QED
    BY <1>2, <1>3, <1>5

LEMMA RemainingType ==
    ASSUME NEW pairs \in SUBSET Pair
    PROVE  Remaining(pairs) \in Pass
  BY DEF Remaining, NoPass, Pass

LEMMA ConvergerType ==
    ASSUME BoardTypeOK, ExecutorTypeOK, ConvergerTypeOK, ConvergerNext
    PROVE  BoardTypeOK' /\ ExecutorTypeOK' /\ ConvergerTypeOK'
  <1> DEFINE Types == BoardTypeOK /\ ExecutorTypeOK /\ ConvergerTypeOK
  <1>1. ASSUME ExpireLock \/ LoseLock \/ \E c \in Convergers : AcquireLock(c)
        PROVE  Types'
    <2>1. faults' \in 0 .. MaxFaults
      BY <1>1, FaultType DEF ExpireLock, LoseLock, AcquireLock, BoardTypeOK, boardVars
    <2> QED
      BY <1>1, <2>1
      DEF ExpireLock, LoseLock, AcquireLock, BoardTypeOK, ExecutorTypeOK,
          ConvergerTypeOK, boardVars, timeVars, executorVars
  <1>2. ASSUME NEW c \in Convergers, ListTasks(c)
        PROVE  Types'
    <2>1. StoredTasks \subseteq TaskRecord
      BY DEF StoredTasks, BoardTypeOK, MaybeTask
    <2> DEFINE listing == [pc |-> "listed", tasks |-> StoredTasks, pairs |-> {}]
    <2>2. listing \in Pass
      BY <2>1 DEF Pass
    <2>3. pass' = [pass EXCEPT ![c] = listing]
      BY <1>2 DEF ListTasks
    <2> HIDE DEF listing
    <2>4. pass' \in [Convergers -> Pass]
      BY <2>2, <2>3 DEF ConvergerTypeOK
    <2> QED
      BY <1>2, <2>4
      DEF ListTasks, BoardTypeOK, ExecutorTypeOK, ConvergerTypeOK, boardVars,
          timeVars, executorVars
  <1>3. ASSUME NEW c \in Convergers, ListExecutors(c)
        PROVE  Types'
    <2> DEFINE tasks == pass[c].tasks
               pairs == UNION {{[old |-> t, new |-> n] : n \in Repairs(t, present)} :
                                   t \in tasks}
    <2>1. tasks \subseteq TaskRecord
      BY DEF ConvergerTypeOK, Pass
    <2>2. KicksFor(tasks) \subseteq Kick
      BY <2>1 DEF KicksFor, Kick
    <2>3. pairs \in SUBSET Pair
      BY <2>1, RepairsType DEF Pair
    <2>4. Remaining(pairs) \in Pass /\ NoPass \in Pass
      BY <2>3, RemainingType DEF NoPass, Pass
    <2>5. /\ kicks' \in {kicks \cup KicksFor(tasks), kicks}
          /\ \/ pass' = [pass EXCEPT ![c] = Remaining(pairs)]
             \/ pass' = [pass EXCEPT ![c] = NoPass]
      BY <1>3 DEF ListExecutors
    <2>6. faults' \in 0 .. MaxFaults
      BY <1>3, FaultType DEF ListExecutors, BoardTypeOK
    <2> HIDE DEF pairs, tasks
    <2>7. pass' \in [Convergers -> Pass]
      BY <2>4, <2>5 DEF ConvergerTypeOK
    <2>8. kicks' \subseteq Kick
      BY <2>2, <2>5 DEF BoardTypeOK
    <2> QED
      BY <1>3, <2>6, <2>7, <2>8
      DEF ListExecutors, BoardTypeOK, ExecutorTypeOK, ConvergerTypeOK, timeVars,
          executorVars
  <1>4. ASSUME NEW c \in Convergers, NEW p \in pass[c].pairs, SwapPair(c, p)
        PROVE  Types'
    <2> DEFINE new == Stamped(p.new, Now(TaskPath(p.old)))
    <2>1. p \in Pair /\ pass[c].pairs \ {p} \in SUBSET Pair
      BY DEF ConvergerTypeOK, Pass
    <2>2. p.old \in TaskRecord /\ p.new \in TaskRecord
      BY <2>1 DEF Pair
    <2>3. new \in TaskRecord
      BY <2>2, NowType, EditsType
    <2>4. Remaining(pass[c].pairs \ {p}) \in Pass
      BY <2>1, RemainingType
    <2>5. pass' \in [Convergers -> Pass]
      BY <1>4, <2>4 DEF SwapPair, ConvergerTypeOK
    <2>6. faults' \in 0 .. MaxFaults
      BY <1>4, FaultType DEF SwapPair, BoardTypeOK
    <2>7. Swap(p.old, new) \/ UNCHANGED <<store, writes>>
      BY <1>4 DEF SwapPair
    <2> HIDE DEF new
    <2>8. WrittenTypeOK'
      BY <2>3, <2>7, PutType DEF Swap, WrittenTypeOK, BoardTypeOK
    <2> QED
      BY <1>4, <2>5, <2>6, <2>8
      DEF SwapPair, BoardTypeOK, ExecutorTypeOK, ConvergerTypeOK, WrittenTypeOK,
          timeVars, executorVars
  <1>5. ASSUME NEW e \in Executors, ExecutorExit(e)
        PROVE  Types'
    <2>1. Die(e) /\ faults' \in 0 .. MaxFaults
      BY <1>5, FaultType DEF ExecutorExit, Exit, Crash, BoardTypeOK, boardVars
    <2>2. NoPass \in Pass
      BY DEF NoPass, Pass
    <2>3. pass' \in [Convergers -> Pass]
      BY <1>5, <2>2 DEF ExecutorExit, ConvergerTypeOK
    <2> QED
      BY <1>5, <2>1, <2>3, DieType
      DEF ExecutorExit, Exit, Crash, Die, Process!End, BoardTypeOK, ExecutorTypeOK,
          ConvergerTypeOK, boardVars, timeVars
  <1> QED
    BY <1>1, <1>2, <1>3, <1>4, <1>5 DEF ConvergerNext, PassStep

LEMMA TimeType ==
    ASSUME BoardTypeOK, NEW g \in Guids, ThirtySeconds(g) \/ TimeToClaim(g)
    PROVE  BoardTypeOK'
  <1>1. store[g] # NoTask
    BY DEF ThirtySeconds, GrowOld, TimeToClaim
  <1>2. store[g].updatedAt \in Nat /\ store[g].createdAt \in Nat
    BY <1>1 DEF BoardTypeOK, MaybeTask, TaskRecord
  <1>3. faults' \in 0 .. MaxFaults
    BY FaultType DEF ThirtySeconds, TimeToClaim, BoardTypeOK
  <1>4. agedTo' \in [Guids -> Nat] /\ overdueTo' \in [Guids -> Nat]
    BY <1>2 DEF ThirtySeconds, GrowOld, TimeToClaim, BoardTypeOK
  <1> QED
    BY <1>3, <1>4 DEF ThirtySeconds, GrowOld, TimeToClaim, BoardTypeOK

LEMMA StepType == TypeOK /\ [Next]_vars => TypeOK'
  <1> SUFFICES ASSUME TypeOK, [Next]_vars PROVE TypeOK'
    OBVIOUS
  <1> USE DEF TypeOK
  <1>1. CASE ByStager(StagerNext)
    BY <1>1, StagerType
    DEF ByStager, executorVars, convergerVars, ExecutorTypeOK, ConvergerTypeOK
  <1>2. CASE ByExecutor(ExecutorNext)
    BY <1>2, ExecutorType
    DEF ByExecutor, stagerVars, convergerVars, StagerTypeOK, ConvergerTypeOK
  <1>3. CASE ByConverger(ConvergerNext)
    BY <1>3, ConvergerType DEF ByConverger, stagerVars, StagerTypeOK
  <1>4. ASSUME NEW g \in Guids, ThirtySeconds(g) \/ TimeToClaim(g)
        PROVE  TypeOK'
    <2>1. UNCHANGED <<stagerVars, executorVars, convergerVars>>
      BY <1>4 DEF ThirtySeconds, TimeToClaim
    <2>2. StagerTypeOK' /\ ExecutorTypeOK' /\ ConvergerTypeOK'
      BY <2>1 DEF stagerVars, executorVars, convergerVars, StagerTypeOK,
                  ExecutorTypeOK, ConvergerTypeOK
    <2> QED
      BY <1>4, <2>2, TimeType
  <1>5. CASE UNCHANGED vars
    BY <1>5 DEF vars, boardVars, timeVars, stagerVars, executorVars,
                convergerVars, BoardTypeOK, StagerTypeOK, ExecutorTypeOK,
                ConvergerTypeOK
  <1> QED
    BY <1>1, <1>2, <1>3, <1>4, <1>5 DEF Next

\* Every variable keeps its type, in every instance (the declarations of
\* task.go, handler.go and executor_bbs.go).
THEOREM TypeCorrect == Spec => []TypeOK
  BY InitType, StepType, PTL DEF Spec

-----------------------------------------------------------------------------
(* A container is run no more often than its task was set.                  *)
(*                                                                          *)
(* The invariant behind it is a credit: while a task is pending or claimed  *)
(* on the board, it has been started less often than it was set.  Claimed   *)
(* can only be written over pending, and pending only by SetMulti or over   *)
(* claimed, so nobody but SetMulti makes a credit, and StartTask, which     *)
(* needs the claimed value on the board, uses it up.                        *)

Filed == \A g \in Guids : store[g] # NoTask => TaskPath(store[g]) = g

Credit ==
    \A g \in Guids :
        store[g] # NoTask /\ store[g].state \in {"pending", "claimed"} =>
            starts[store[g].request] < sets[store[g].request]

KickStates ==
    \A k \in kicks : k.host = "executor" => k.task.state = "pending"

DesireStates ==
    \A d \in Requests : desire[d].pc = "kick" => desire[d].task.state = "pending"

WorkerStates ==
    \A w \in Workers :
        /\ worker[w].pc = "claim" => worker[w].task.state = "pending"
        /\ worker[w].pc = "start" => worker[w].task.state = "claimed"

PairStates ==
    \A c \in Convergers : \A p \in pass[c].pairs :
        /\ p.new.request = p.old.request
        /\ p.new.state \in {"pending", "completed"}
        /\ p.new.state = "pending" => p.old.state = "claimed"

\* The credit and what it speaks about, and what the processes hold.
BoardInv == Filed /\ Credit /\ RunOnce
HeldInv == KickStates /\ DesireStates /\ WorkerStates /\ PairStates
CreditInv == TypeOK /\ BoardInv /\ HeldInv

\* A write keeps the credit when the new value is covered.
LEMMA PutCredit ==
    ASSUME TypeOK, BoardInv, NEW t \in TaskRecord, Put(t),
           starts' = starts, sets' = sets,
           t.state \in {"pending", "claimed"} => starts[t.request] < sets[t.request]
    PROVE  BoardInv'
  <1>1. TaskPath(t) \in Guids
    BY PathType
  <1>2. \A g \in Guids : store'[g] = IF g = TaskPath(t) THEN t ELSE store[g]
    BY <1>1 DEF Put, TypeOK, BoardTypeOK
  <1>3. Filed'
    BY <1>2 DEF BoardInv, Filed, TaskPath
  <1>4. Credit'
    BY <1>2 DEF BoardInv, Credit
  <1>5. RunOnce'
    BY DEF BoardInv, RunOnce
  <1> QED
    BY <1>3, <1>4, <1>5 DEF BoardInv

\* The same for a compare-and-swap of the value of a covered task.
LEMMA SwapCredit ==
    ASSUME TypeOK, BoardInv, NEW old \in TaskRecord, NEW new \in TaskRecord,
           Swap(old, new) \/ UNCHANGED <<store, writes>>,
           starts' = starts, sets' = sets,
           new.request = old.request,
           new.state \in {"pending", "claimed"} => old.state \in {"pending", "claimed"}
    PROVE  BoardInv'
  <1>1. CASE Swap(old, new)
    <2>1. store[TaskPath(old)] = old /\ Put(new)
      BY <1>1 DEF Swap
    <2>2. old # NoTask /\ TaskPath(old) \in Guids
      BY NoTaskAssumption, PathType
    <2>3. old.state \in {"pending", "claimed"} => starts[old.request] < sets[old.request]
      BY <2>1, <2>2 DEF BoardInv, Credit
    <2> QED
      BY <2>1, <2>3, PutCredit
  <1>2. CASE UNCHANGED <<store, writes>>
    BY <1>2 DEF BoardInv, Filed, Credit, RunOnce
  <1> QED
    BY <1>1, <1>2

\* What the edits do to the fields the credit is about.
LEMMA EditsFields ==
    ASSUME NEW t \in TaskRecord, NEW n
    PROVE  /\ \A e : /\ Claimed(t, e, n).request = t.request
                    /\ Claimed(t, e, n).state = "claimed"
           /\ Started(t, n).request = t.request
           /\ Started(t, n).state = "running"
           /\ Finished(t, n).request = t.request
           /\ Finished(t, n).state = "completed"
           /\ Resolving(t, n).request = t.request
           /\ Resolving(t, n).state = "resolving"
           /\ Stamped(t, n).request = t.request
           /\ Stamped(t, n).state = t.state
  BY DEF TaskRecord, Claimed, Started, Finished, Resolving, Stamped

LEMMA CreditInit == Init => CreditInv
  <1> SUFFICES ASSUME Init PROVE CreditInv
    OBVIOUS
  <1>1. BoardInv
    BY DEF Init, BoardInit, StagerInit, ExecutorInit, BoardInv, Filed, Credit,
           RunOnce
  <1>2. HeldInv
    BY DEF Init, BoardInit, StagerInit, ExecutorInit, ConvergerInit, HeldInv,
           KickStates, DesireStates, WorkerStates, PairStates, Desire, NoWork,
           Work, NoPass
  <1> QED
    BY <1>1, <1>2, InitType DEF CreditInv

\* The stager: SetMulti makes the credit it needs.
LEMMA StagerCredit ==
    ASSUME CreditInv, ByStager(StagerNext)
    PROVE  BoardInv' /\ HeldInv'
  <1> USE DEF CreditInv
  <1>0. UNCHANGED <<starts, worker, pass>>
    BY DEF ByStager, executorVars, convergerVars
  <1>1. WorkerStates' /\ PairStates'
    BY <1>0 DEF HeldInv, WorkerStates, PairStates
  <1>2. ASSUME NEW d \in Requests, DesireTask(d)
        PROVE  BoardInv' /\ KickStates' /\ DesireStates'
    <2> DEFINE now == Now(GuidOf[d])
               created == IF desire[d].createdAt = 0 THEN now
                                                     ELSE desire[d].createdAt
               t == Desired(d, created, now)
    <2>1. t \in TaskRecord /\ t.request = d /\ t.state = "pending"
      <3>1. now \in Nat
        BY TaskAssumption DEF Now, TypeOK, BoardTypeOK
      <3>2. created \in Nat
        BY <3>1 DEF DesireProcess, TypeOK, StagerTypeOK
      <3> QED
        BY <3>1, <3>2, DesiredType DEF Desired
    <2>2. SetTask(d, t) /\ UNCHANGED kicks
      BY <1>2 DEF DesireTask
    <2> HIDE DEF t
    <2>3. ASSUME Put(t), sets' = [sets EXCEPT ![d] = @ + 1] PROVE BoardInv'
      <3>1. \A g \in Guids : store'[g] = IF g = TaskPath(t) THEN t ELSE store[g]
        BY <2>1, <2>3, PathType DEF Put, TypeOK, BoardTypeOK
      <3>2. \A e \in Requests :
                /\ sets[e] \in Nat /\ starts[e] \in Nat
                /\ sets'[e] = IF e = d THEN sets[e] + 1 ELSE sets[e]
        BY <2>3 DEF TypeOK, StagerTypeOK, ExecutorTypeOK
      <3>3. \A g \in Guids : store[g] # NoTask => store[g].request \in Requests
        BY PathType DEF TypeOK, BoardTypeOK, MaybeTask
      <3>4. RunOnce'
        BY <1>0, <3>2 DEF BoardInv, RunOnce
      <3>5. Filed'
        BY <3>1 DEF BoardInv, Filed, TaskPath
      <3>6. Credit'
        BY <1>0, <2>1, <3>1, <3>2, <3>3 DEF BoardInv, Credit, RunOnce
      <3> QED
        BY <3>4, <3>5, <3>6 DEF BoardInv
    <2>4. ASSUME UNCHANGED <<store, writes, sets>> PROVE BoardInv'
      BY <1>0, <2>4 DEF BoardInv, Filed, Credit, RunOnce
    <2>5. BoardInv'
      BY <2>2, <2>3, <2>4 DEF SetTask
    <2>6. DesireStates'
      <3>1. \A e \in Requests :
                desire'[e] \in {desire[e], Desire("kick", 0, t),
                               Desire("set", t.createdAt, NoTask),
                               Desire("failed", 0, NoTask)}
        BY <2>2 DEF SetTask, TypeOK, StagerTypeOK
      <3> QED
        BY <2>1, <3>1 DEF HeldInv, DesireStates, Desire
    <2> QED
      BY <2>2, <2>5, <2>6 DEF HeldInv, KickStates
  <1>3. ASSUME NEW d \in Requests,
               HandleStaging(d) \/ KickDesired(d) \/ DesireCrash(d)
        PROVE  BoardInv' /\ KickStates' /\ DesireStates'
    <2>1. BoardInv'
      BY <1>0, <1>3 DEF HandleStaging, KickDesired, DesireCrash, boardVars,
                        BoardInv, Filed, Credit, RunOnce
    <2>2. KickStates'
      BY <1>3 DEF HandleStaging, KickDesired, DesireCrash, KickDesire, boardVars,
                  HeldInv, KickStates, DesireStates
    <2>3. DesireStates'
      <3>1. \A e \in Requests :
                \/ desire'[e] = desire[e]
                \/ desire'[e].pc \in {"set", "done", "dead"}
        BY <1>3 DEF HandleStaging, KickDesired, DesireCrash, Desire, TypeOK,
                    StagerTypeOK
      <3> QED
        BY <3>1 DEF HeldInv, DesireStates
    <2> QED
      BY <2>1, <2>2, <2>3
  <1>4. ASSUME NEW r \in Resolvers, ResolvingTask(r)
        PROVE  BoardInv' /\ KickStates' /\ DesireStates'
    <2> DEFINE old == resolver[r].task
               new == Resolving(old, Now(TaskPath(old)))
    <2>1. old \in TaskRecord
      BY <1>4 DEF ResolvingTask, ResolverProcess, Unresolved, TypeOK, StagerTypeOK
    <2>2. new \in TaskRecord /\ new.request = old.request /\ new.state = "resolving"
      <3>1. Now(TaskPath(old)) \in Nat
        BY <2>1, NowType DEF TypeOK
      <3> HIDE DEF old
      <3> QED
        BY <2>1, <3>1, EditsType, EditsFields
    <2>3. Swap(old, new) \/ UNCHANGED <<store, writes>>
      BY <1>4 DEF ResolvingTask, RetryCompareAndSwap
    <2>4. UNCHANGED <<kicks, desire, sets>>
      BY <1>4 DEF ResolvingTask
    <2> HIDE DEF old, new
    <2>5. BoardInv'
      BY <1>0, <2>1, <2>2, <2>3, <2>4, SwapCredit
    <2> QED
      BY <2>4, <2>5 DEF HeldInv, KickStates, DesireStates
  <1>5. ASSUME NEW r \in Resolvers, ResolveTask(r)
        PROVE  BoardInv' /\ KickStates' /\ DesireStates'
    <2>1. UNCHANGED <<kicks, desire, sets>>
      BY <1>5 DEF ResolveTask
    <2>2. \A g \in Guids : store'[g] \in {store[g], NoTask}
      BY <1>5 DEF ResolveTask, TypeOK, BoardTypeOK
    <2>3. BoardInv'
      BY <1>0, <2>1, <2>2 DEF BoardInv, Filed, Credit, RunOnce
    <2> QED
      BY <2>1, <2>3 DEF HeldInv, KickStates, DesireStates
  <1>6. ASSUME NEW r \in Resolvers,
               \/ PublishReply(r) \/ ResolverCrash(r)
               \/ \E k \in kicks : ReceiveCompleted(r, k)
        PROVE  BoardInv' /\ KickStates' /\ DesireStates'
    <2>1. UNCHANGED <<store, kicks, desire, sets>>
      BY <1>6 DEF PublishReply, ResolverCrash, ReceiveCompleted, boardVars
    <2> QED
      BY <1>0, <2>1 DEF BoardInv, Filed, Credit, RunOnce, HeldInv, KickStates,
                        DesireStates
  <1> QED
    BY <1>1, <1>2, <1>3, <1>4, <1>5, <1>6
    DEF ByStager, StagerNext, DesireStep, ResolverStep, HeldInv

\* What a worker holds after a call: the record it wrote, or what it held.
LEMMA WorkerCallStates ==
    ASSUME TypeOK, WorkerStates, NEW w \in Workers,
           NEW pc \in {"start", "running", "kick"}, NEW new \in TaskRecord,
           pc = "start" => new.state = "claimed",
           \/ worker' = [worker EXCEPT ![w] = Work(pc, worker[w].exec, new)]
           \/ UNCHANGED worker
           \/ Return(w)
    PROVE  WorkerStates'
  <1>1. \A v \in Workers :
            worker'[v] \in {worker[v], NoWork, Work(pc, worker[w].exec, new)}
    BY DEF Return, TypeOK, ExecutorTypeOK
  <1> QED
    BY <1>1 DEF WorkerStates, NoWork, Work

\* The executor: StartTask uses the credit up, and nobody else needs one.
LEMMA ExecutorCredit ==
    ASSUME CreditInv, ByExecutor(ExecutorNext)
    PROVE  BoardInv' /\ HeldInv'
  <1> USE DEF CreditInv
  <1>0. UNCHANGED <<sets, desire, pass>>
    BY DEF ByExecutor, stagerVars, convergerVars
  <1>1. DesireStates' /\ PairStates'
    BY <1>0 DEF HeldInv, DesireStates, PairStates
  <1>2. ASSUME NEW e \in Executors,
               \/ Boot(e) \/ Announce(e)
               \/ LosePresence(e) \/ RegainPresence(e) \/ ExpirePresence(e)
        PROVE  BoardInv' /\ KickStates' /\ WorkerStates'
    <2>1. UNCHANGED <<store, kicks, starts, worker>>
      BY <1>2 DEF Boot, Announce, LosePresence, RegainPresence, ExpirePresence, boardVars
    <2> QED
      BY <1>0, <2>1 DEF BoardInv, Filed, Credit, RunOnce, HeldInv, KickStates,
                        WorkerStates
  <1>3. ASSUME NEW w \in Workers, NEW e \in Executors, NEW k \in kicks,
               ReceiveDesired(w, e, k)
        PROVE  BoardInv' /\ KickStates' /\ WorkerStates'
    <2>1. UNCHANGED <<store, kicks, starts>>
      BY <1>3 DEF ReceiveDesired, boardVars
    <2>2. k.task.state = "pending"
      BY <1>3 DEF ReceiveDesired, HeldInv, KickStates
    <2>3. \A v \in Workers : worker'[v] \in {worker[v], Work("claim", e, k.task)}
      BY <1>3 DEF ReceiveDesired, TypeOK, ExecutorTypeOK
    <2>4. WorkerStates'
      BY <2>2, <2>3 DEF HeldInv, WorkerStates, Work
    <2> QED
      BY <1>0, <2>1, <2>4 DEF BoardInv, Filed, Credit, RunOnce, HeldInv, KickStates
  <1>4. ASSUME NEW w \in Workers, ClaimTask(w)
        PROVE  BoardInv' /\ KickStates' /\ WorkerStates'
    <2> DEFINE old == worker[w].task
               e == worker[w].exec
               new == Claimed(old, e, Now(TaskPath(old)))
    <2>1. /\ worker[w].pc # "idle" /\ old \in TaskRecord /\ e \in Executors
          /\ old.state = "pending"
      BY <1>4, WorkType DEF ClaimTask, TypeOK, HeldInv, WorkerStates
    <2>2. new \in TaskRecord /\ new.request = old.request /\ new.state = "claimed"
      <3>1. Now(TaskPath(old)) \in Nat
        BY <2>1, NowType DEF TypeOK
      <3> HIDE DEF old, e
      <3> QED
        BY <2>1, <3>1, EditsType, EditsFields
    <2>3. Swap(old, new) \/ UNCHANGED <<store, writes>>
      BY <1>4 DEF ClaimTask, RetryCompareAndSwap
    <2>4. /\ \/ worker' = [worker EXCEPT ![w] = Work("start", e, new)]
             \/ UNCHANGED worker
             \/ Return(w)
          /\ UNCHANGED <<kicks, starts>>
      BY <1>4 DEF ClaimTask, RetryCompareAndSwap
    <2> HIDE DEF old, new
    <2>5. BoardInv'
      BY <1>0, <2>1, <2>2, <2>3, <2>4, SwapCredit
    <2>6. WorkerStates'
      BY <2>2, <2>4, WorkerCallStates DEF HeldInv
    <2> QED
      BY <2>4, <2>5, <2>6 DEF HeldInv, KickStates
  <1>5. ASSUME NEW w \in Workers, StartTask(w)
        PROVE  BoardInv' /\ KickStates' /\ WorkerStates'
    <2> DEFINE old == worker[w].task
               new == Started(old, Now(TaskPath(old)))
    <2>1. /\ worker[w].pc # "idle" /\ old \in TaskRecord
          /\ old.state = "claimed" /\ old.request \in Requests
      BY <1>5, WorkType DEF StartTask, TypeOK, HeldInv, WorkerStates
    <2>2. new \in TaskRecord /\ new.request = old.request /\ new.state = "running"
      <3>1. Now(TaskPath(old)) \in Nat
        BY <2>1, NowType DEF TypeOK
      <3> HIDE DEF old
      <3> QED
        BY <2>1, <3>1, EditsType, EditsFields
    <2>3. \/ Swap(old, new) /\ starts' = [starts EXCEPT ![old.request] = @ + 1]
          \/ (Swap(old, new) \/ UNCHANGED <<store, writes>>) /\ UNCHANGED starts
      BY <1>5 DEF StartTask, RetryCompareAndSwap
    <2>4. /\ \/ worker' = [worker EXCEPT ![w] = Work("running", @.exec, new)]
             \/ UNCHANGED worker
             \/ Return(w)
          /\ UNCHANGED kicks
      BY <1>5 DEF StartTask, RetryCompareAndSwap
    <2> HIDE DEF old, new
    <2>5. ASSUME Swap(old, new), starts' = [starts EXCEPT ![old.request] = @ + 1]
          PROVE  BoardInv'
      <3> DEFINE g == TaskPath(old)
      <3>1. g \in Guids /\ TaskPath(new) = g /\ old # NoTask
        BY <2>1, <2>2, PathType, NoTaskAssumption DEF TaskPath
      <3>2. store[g] = old /\ starts[old.request] < sets[old.request]
        BY <2>1, <2>5, <3>1 DEF Swap, BoardInv, Credit
      <3>3. \A h \in Guids : store'[h] = IF h = g THEN new ELSE store[h]
        BY <2>5, <3>1 DEF Swap, Put, TypeOK, BoardTypeOK
      <3>4. \A d \in Requests :
                /\ sets[d] \in Nat /\ starts[d] \in Nat
                /\ starts'[d] = IF d = old.request THEN starts[d] + 1 ELSE starts[d]
        BY <2>5 DEF TypeOK, StagerTypeOK, ExecutorTypeOK
      <3>5. \A h \in Guids : h # g /\ store[h] # NoTask =>
                store[h].request \in Requests /\ store[h].request # old.request
        BY PathType DEF TypeOK, BoardTypeOK, MaybeTask, BoardInv, Filed, TaskPath
      <3>6. RunOnce'
        BY <1>0, <2>1, <3>2, <3>4 DEF BoardInv, RunOnce
      <3>7. Filed'
        BY <3>1, <3>3 DEF BoardInv, Filed
      <3>8. Credit'
        BY <1>0, <2>2, <3>3, <3>4, <3>5 DEF BoardInv, Credit
      <3> QED
        BY <3>6, <3>7, <3>8 DEF BoardInv
    <2>6. ASSUME Swap(old, new) \/ UNCHANGED <<store, writes>>, UNCHANGED starts
          PROVE  BoardInv'
      BY <1>0, <2>1, <2>2, <2>6, SwapCredit
    <2>7. WorkerStates'
      BY <2>2, <2>4, WorkerCallStates DEF HeldInv
    <2> QED
      BY <2>3, <2>4, <2>5, <2>6, <2>7 DEF HeldInv, KickStates
  <1>6. ASSUME NEW w \in Workers, CompleteTask(w)
        PROVE  BoardInv' /\ KickStates' /\ WorkerStates'
    <2> DEFINE old == worker[w].task
               new == Finished(old, Now(TaskPath(old)))
    <2>1. worker[w].pc # "idle" /\ old \in TaskRecord
      BY <1>6, WorkType DEF CompleteTask, TypeOK
    <2>2. new \in TaskRecord /\ new.request = old.request /\ new.state = "completed"
      <3>1. Now(TaskPath(old)) \in Nat
        BY <2>1, NowType DEF TypeOK
      <3> HIDE DEF old
      <3> QED
        BY <2>1, <3>1, EditsType, EditsFields
    <2>3. Swap(old, new) \/ UNCHANGED <<store, writes>>
      BY <1>6 DEF CompleteTask, RetryCompareAndSwap
    <2>4. /\ \/ worker' = [worker EXCEPT ![w] = Work("kick", @.exec, new)]
             \/ UNCHANGED worker
             \/ Return(w)
          /\ UNCHANGED <<kicks, starts>>
      BY <1>6 DEF CompleteTask, RetryCompareAndSwap
    <2> HIDE DEF old, new
    <2>5. BoardInv'
      BY <1>0, <2>1, <2>2, <2>3, <2>4, SwapCredit
    <2>6. WorkerStates'
      BY <2>2, <2>4, WorkerCallStates DEF HeldInv
    <2> QED
      BY <2>4, <2>5, <2>6 DEF HeldInv, KickStates
  <1>7. ASSUME NEW w \in Workers, KickCompleted(w)
        PROVE  BoardInv' /\ KickStates' /\ WorkerStates'
    <2>1. UNCHANGED <<store, starts>> /\ Return(w)
      BY <1>7 DEF KickCompleted
    <2>2. KickStates'
      BY <1>7 DEF KickCompleted, KickComplete, HeldInv, KickStates
    <2>3. WorkerStates'
      BY <2>1 DEF Return, HeldInv, WorkerStates, NoWork, Work, TypeOK,
                  ExecutorTypeOK
    <2> QED
      BY <1>0, <2>1, <2>2, <2>3 DEF BoardInv, Filed, Credit, RunOnce
  <1> QED
    BY <1>1, <1>2, <1>3, <1>4, <1>5, <1>6, <1>7
    DEF ByExecutor, ExecutorNext, WorkerStep, HeldInv

\* The converger: what it makes pending again was claimed.
LEMMA ConvergerCredit ==
    ASSUME CreditInv, ByConverger(ConvergerNext)
    PROVE  BoardInv' /\ HeldInv'
  <1> USE DEF CreditInv
  <1>0. UNCHANGED <<sets, desire>>
    BY DEF ByConverger, stagerVars
  <1>1. DesireStates'
    BY <1>0 DEF HeldInv, DesireStates
  <1>2. ASSUME ExpireLock \/ LoseLock \/ \E c \in Convergers : AcquireLock(c)
        PROVE  BoardInv' /\ KickStates' /\ WorkerStates' /\ PairStates'
    <2>1. UNCHANGED <<store, kicks, executorVars, pass>>
      BY <1>2 DEF ExpireLock, LoseLock, AcquireLock, boardVars
    <2> QED
      BY <1>0, <2>1 DEF executorVars, BoardInv, Filed, Credit, RunOnce, HeldInv,
                        KickStates, WorkerStates, PairStates
  <1>3. ASSUME NEW c \in Convergers, ListTasks(c)
        PROVE  BoardInv' /\ KickStates' /\ WorkerStates' /\ PairStates'
    <2>1. UNCHANGED <<store, kicks, executorVars>>
      BY <1>3 DEF ListTasks, boardVars
    <2>2. \A b \in Convergers : pass'[b] = pass[b] \/ pass'[b].pairs = {}
      BY <1>3 DEF ListTasks, TypeOK, ConvergerTypeOK
    <2>3. PairStates'
      BY <2>2 DEF HeldInv, PairStates
    <2> QED
      BY <1>0, <2>1, <2>3 DEF executorVars, BoardInv, Filed, Credit, RunOnce,
                              HeldInv, KickStates, WorkerStates
  <1>4. ASSUME NEW c \in Convergers, ListExecutors(c)
        PROVE  BoardInv' /\ KickStates' /\ WorkerStates' /\ PairStates'
    <2> DEFINE tasks == pass[c].tasks
               pairs == UNION {{[old |-> t, new |-> n] : n \in Repairs(t, present)} :
                                   t \in tasks}
    <2>1. UNCHANGED <<store, executorVars>>
      BY <1>4 DEF ListExecutors
    <2>2. kicks' \in {kicks \cup KicksFor(tasks), kicks}
      BY <1>4 DEF ListExecutors
    <2>3. KickStates'
      BY <2>2 DEF HeldInv, KickStates, KicksFor
    <2>4. tasks \subseteq TaskRecord
      BY DEF TypeOK, ConvergerTypeOK, Pass
    <2>5. \A p \in pairs :
            /\ p.new.request = p.old.request
            /\ p.new.state \in {"pending", "completed"}
            /\ p.new.state = "pending" => p.old.state = "claimed"
      BY <2>4, RepairsType
    <2>6. \/ pass' = [pass EXCEPT ![c] = Remaining(pairs)]
          \/ pass' = [pass EXCEPT ![c] = NoPass]
      BY <1>4 DEF ListExecutors
    <2> HIDE DEF pairs
    <2>7. \A b \in Convergers :
            pass'[b] = pass[b] \/ pass'[b].pairs \in {pairs, {}}
      BY <2>6 DEF Remaining, NoPass, TypeOK, ConvergerTypeOK
    <2>8. PairStates'
      BY <2>5, <2>7 DEF HeldInv, PairStates
    <2> QED
      BY <1>0, <2>1, <2>3, <2>8 DEF executorVars, BoardInv, Filed, Credit,
                                    RunOnce, HeldInv, WorkerStates
  <1>5. ASSUME NEW c \in Convergers, NEW p \in pass[c].pairs, SwapPair(c, p)
        PROVE  BoardInv' /\ KickStates' /\ WorkerStates' /\ PairStates'
    <2> DEFINE new == Stamped(p.new, Now(TaskPath(p.old)))
    <2>1. p.old \in TaskRecord /\ p.new \in TaskRecord
      BY DEF TypeOK, ConvergerTypeOK, Pass, Pair
    <2>2. /\ new \in TaskRecord /\ new.request = p.old.request
          /\ new.state \in {"pending", "completed"}
          /\ new.state = "pending" => p.old.state = "claimed"
      <3>1. Now(TaskPath(p.old)) \in Nat
        BY <2>1, NowType DEF TypeOK
      <3>2. new \in TaskRecord
        BY <2>1, <3>1, EditsType
      <3>3. new.request = p.new.request /\ new.state = p.new.state
        BY <2>1, EditsFields
      <3> HIDE DEF new
      <3> QED
        BY <3>2, <3>3 DEF HeldInv, PairStates
    <2>3. Swap(p.old, new) \/ UNCHANGED <<store, writes>>
      BY <1>5 DEF SwapPair
    <2>4. UNCHANGED <<kicks, executorVars>>
      BY <1>5 DEF SwapPair
    <2> HIDE DEF new
    <2>5. BoardInv'
      BY <1>0, <2>1, <2>2, <2>3, <2>4, SwapCredit DEF executorVars
    <2>6. \A b \in Convergers :
            pass'[b] = pass[b] \/ pass'[b].pairs \subseteq pass[b].pairs
      BY <1>5 DEF SwapPair, Remaining, NoPass, TypeOK, ConvergerTypeOK
    <2>7. PairStates'
      BY <2>6 DEF HeldInv, PairStates
    <2> QED
      BY <2>4, <2>5, <2>7 DEF executorVars, HeldInv, KickStates, WorkerStates
  <1>6. ASSUME NEW e \in Executors, ExecutorExit(e)
        PROVE  BoardInv' /\ KickStates' /\ WorkerStates' /\ PairStates'
    <2>1. UNCHANGED <<store, kicks, starts>> /\ Die(e)
      BY <1>6 DEF ExecutorExit, Exit, Crash, Die, boardVars
    <2>2. WorkerStates'
      BY <2>1 DEF Die, HeldInv, WorkerStates, NoWork, Work, TypeOK, ExecutorTypeOK
    <2>3. PairStates'
      BY <1>6 DEF ExecutorExit, NoPass, HeldInv, PairStates
    <2> QED
      BY <1>0, <2>1, <2>2, <2>3 DEF BoardInv, Filed, Credit, RunOnce, HeldInv,
                                    KickStates
  <1> QED
    BY <1>1, <1>2, <1>3, <1>4, <1>5, <1>6
    DEF ByConverger, ConvergerNext, PassStep, HeldInv

LEMMA CreditStep == CreditInv /\ [Next]_vars => CreditInv'
  <1> SUFFICES ASSUME CreditInv, [Next]_vars PROVE CreditInv'
    OBVIOUS
  <1>1. TypeOK'
    BY StepType DEF CreditInv
  <1>2. ASSUME UNCHANGED <<store, kicks, stagerVars, executorVars, convergerVars>>
        PROVE  BoardInv' /\ HeldInv'
    BY <1>2 DEF stagerVars, executorVars, convergerVars, CreditInv, BoardInv,
                Filed, Credit, RunOnce, HeldInv, KickStates, DesireStates,
                WorkerStates, PairStates
  <1>3. ASSUME NEW g \in Guids, ThirtySeconds(g) \/ TimeToClaim(g)
        PROVE  BoardInv' /\ HeldInv'
    BY <1>2, <1>3 DEF ThirtySeconds, GrowOld, TimeToClaim
  <1>4. CASE UNCHANGED vars
    BY <1>1, <1>2, <1>4 DEF vars, boardVars, CreditInv
  <1> QED
    BY <1>1, <1>3, <1>4, StagerCredit, ExecutorCredit, ConvergerCredit
    DEF Next, CreditInv

\* The container of a task is run no more often than the task was set, with
\* any number of executors, stale kicks, demotions and lost answers
\* (executor_bbs.go: ClaimTask, StartTask, ConvergeTasks).
THEOREM RunsAreBounded == Spec => []RunOnce
  <1>1. CreditInv => RunOnce
    BY DEF CreditInv, BoardInv
  <1> QED
    BY <1>1, CreditInit, CreditStep, PTL DEF Spec

-----------------------------------------------------------------------------
(* What an executor has left and what it has reserved add up.               *)
(*                                                                          *)
(* The invariant is inductive once it also says that finitely many          *)
(* goroutines of an executor are under way, however many may ever be.       *)

BusyOn(e) == {w \in Workers : worker[w].exec = e}
Demand == [w \in Workers |-> MemoryMB[worker[w].task.request]]

FinitelyBusy == \A e \in Executors : IsFiniteSet(BusyOn(e))
MemoryInv == FinitelyBusy /\ MemoryConserved

\* A goroutine that an executor has reserves what a request asks for.
LEMMA DemandNat ==
    ASSUME ExecutorTypeOK, NEW w \in Workers, worker[w].exec \in Executors
    PROVE  /\ worker[w].pc # "idle"
           /\ worker[w].task.request \in Requests
           /\ Demand[w] = MemoryMB[worker[w].task.request]
           /\ Demand[w] \in Nat
  <1>1. worker[w].pc # "idle"
    BY TaskAssumption DEF ExecutorTypeOK, WorkerProcess, NoWork, Work
  <1>2. worker[w].task.request \in Requests
    BY <1>1, WorkType
  <1> QED  BY <1>1, <1>2, TaskAssumption DEF Demand

LEMMA ReservedIs == \A e : Reserved(e) = SumFunctionOnSet(Demand, BusyOn(e))
  BY DEF Reserved, Demand, BusyOn

LEMMA ReservedNat ==
    ASSUME ExecutorTypeOK, FinitelyBusy, NEW e \in Executors
    PROVE  /\ Reserved(e) \in Nat
           /\ \A w \in BusyOn(e) : Demand[w] \in Nat
  <1>1. \A w \in BusyOn(e) : Demand[w] \in Nat
    BY DemandNat DEF BusyOn
  <1>2. IsFiniteSet(BusyOn(e))
    BY DEF FinitelyBusy
  <1> HIDE DEF Demand, BusyOn
  <1> QED  BY <1>1, <1>2, SumNat, ReservedIs

\* Goroutines that stay where they are keep what they have reserved.
LEMMA ReservedSame ==
    ASSUME ExecutorTypeOK, FinitelyBusy, NEW e \in Executors,
           BusyOn(e)' = BusyOn(e),
           \A w \in BusyOn(e) : worker'[w].task.request = worker[w].task.request
    PROVE  Reserved(e)' = Reserved(e)
  <1>1. \A w \in BusyOn(e) : Demand'[w] = Demand[w]
    BY DEF BusyOn, Demand
  <1>2. IsFiniteSet(BusyOn(e))
    BY DEF FinitelyBusy
  <1>3. Reserved(e)' = SumFunctionOnSet(Demand', BusyOn(e))
    BY DEF Reserved, Demand, BusyOn
  <1>4. Reserved(e) = SumFunctionOnSet(Demand, BusyOn(e))
    BY ReservedIs
  <1> HIDE DEF Demand, BusyOn
  <1>5. SumFunctionOnSet(Demand', BusyOn(e)) = SumFunctionOnSet(Demand, BusyOn(e))
    BY <1>1, <1>2, SumSame
  <1> QED  BY <1>3, <1>4, <1>5

\* One goroutine more, or less, on its executor.
LEMMA ReservedMore ==
    ASSUME ExecutorTypeOK, FinitelyBusy, NEW e \in Executors, NEW w \in Workers,
           w \notin BusyOn(e), BusyOn(e)' = BusyOn(e) \cup {w},
           worker'[w].task.request \in Requests,
           \A v \in BusyOn(e) : worker'[v].task.request = worker[v].task.request
    PROVE  /\ Reserved(e)' = MemoryMB[worker'[w].task.request] + Reserved(e)
           /\ IsFiniteSet(BusyOn(e)')
  <1>1. \A v \in BusyOn(e) : Demand'[v] = Demand[v]
    BY DEF BusyOn, Demand
  <1>2. Demand'[w] = MemoryMB[worker'[w].task.request] /\ Demand'[w] \in Nat
    BY TaskAssumption DEF Demand
  <1>3. IsFiniteSet(BusyOn(e))
    BY DEF FinitelyBusy
  <1>4. Reserved(e)' = SumFunctionOnSet(Demand', BusyOn(e) \cup {w})
    <2>1. Reserved(e)' = SumFunctionOnSet(Demand', BusyOn(e)')
      BY DEF Reserved, Demand, BusyOn
    <2> QED  BY <2>1
  <1>5. \A v \in BusyOn(e) : Demand[v] \in Nat
    BY ReservedNat
  <1>6. Reserved(e) = SumFunctionOnSet(Demand, BusyOn(e))
    BY ReservedIs
  <1> HIDE DEF Demand, BusyOn
  <1>7. SumFunctionOnSet(Demand', BusyOn(e) \cup {w}) =
            Demand'[w] + SumFunctionOnSet(Demand', BusyOn(e))
    <2>1. \A v \in BusyOn(e) \cup {w} : Demand'[v] \in Int
      BY <1>1, <1>2, <1>5
    <2> QED  BY <1>3, <2>1, SumAdd
  <1>8. SumFunctionOnSet(Demand', BusyOn(e)) = SumFunctionOnSet(Demand, BusyOn(e))
    BY <1>1, <1>3, SumSame
  <1> QED  BY <1>2, <1>3, <1>4, <1>6, <1>7, <1>8, FS_AddElement

LEMMA ReservedLess ==
    ASSUME ExecutorTypeOK, FinitelyBusy, NEW e \in Executors, NEW w \in BusyOn(e),
           BusyOn(e)' = BusyOn(e) \ {w},
           \A v \in BusyOn(e) \ {w} :
                worker'[v].task.request = worker[v].task.request
    PROVE  /\ Reserved(e) = MemoryMB[worker[w].task.request] + Reserved(e)'
           /\ Reserved(e)' \in Nat
           /\ IsFiniteSet(BusyOn(e)')
  <1>1. \A v \in BusyOn(e) \ {w} : Demand'[v] = Demand[v]
    BY DEF BusyOn, Demand
  <1>2. Demand[w] = MemoryMB[worker[w].task.request]
    BY DEF BusyOn, Demand
  <1>3. IsFiniteSet(BusyOn(e)) /\ IsFiniteSet(BusyOn(e) \ {w})
    BY FS_Subset DEF FinitelyBusy
  <1>4. Reserved(e)' = SumFunctionOnSet(Demand', BusyOn(e) \ {w})
    <2>1. Reserved(e)' = SumFunctionOnSet(Demand', BusyOn(e)')
      BY DEF Reserved, Demand, BusyOn
    <2> QED  BY <2>1
  <1>5. \A v \in BusyOn(e) : Demand[v] \in Nat
    BY ReservedNat
  <1>6. Reserved(e) = SumFunctionOnSet(Demand, BusyOn(e))
    BY ReservedIs
  <1> HIDE DEF Demand, BusyOn
  <1>7. SumFunctionOnSet(Demand, BusyOn(e)) =
            Demand[w] + SumFunctionOnSet(Demand, BusyOn(e) \ {w})
    <2>1. \A v \in BusyOn(e) : Demand[v] \in Int
      BY <1>5
    <2> QED  BY <1>3, <2>1, SumRemove
  <1>8. SumFunctionOnSet(Demand', BusyOn(e) \ {w}) =
            SumFunctionOnSet(Demand, BusyOn(e) \ {w})
    BY <1>1, <1>3, SumSame
  <1>9. SumFunctionOnSet(Demand, BusyOn(e) \ {w}) \in Nat
    BY <1>3, <1>5, SumNat
  <1> QED  BY <1>2, <1>3, <1>4, <1>6, <1>7, <1>8, <1>9

LEMMA MemoryInit == Init => MemoryInv
  <1> SUFFICES ASSUME Init, NEW e \in Executors
               PROVE  /\ IsFiniteSet(BusyOn(e))
                      /\ memory[e] >= 0 /\ memory[e] + Reserved(e) = MaxMemory
    BY DEF MemoryInv, FinitelyBusy, MemoryConserved
  <1>1. BusyOn(e) = {}
    BY TaskAssumption DEF BusyOn, Init, ExecutorInit, NoWork, Work
  <1>2. Reserved(e) = 0
    BY <1>1, ReservedIs, SumEmpty
  <1>3. memory[e] = MaxMemory
    BY DEF Init, ExecutorInit
  <1> QED  BY <1>1, <1>2, <1>3, FS_EmptySet, MemoryAssumption

LEMMA MemoryUntouched ==
    ASSUME MemoryInv, UNCHANGED <<worker, memory>>
    PROVE  MemoryInv'
  BY DEF MemoryInv, FinitelyBusy, MemoryConserved, BusyOn, Reserved

\* A goroutine that goes on works for the request it was kicked about.
LEMMA MemoryGoesOn ==
    ASSUME ExecutorTypeOK, MemoryInv, NEW w \in Workers, NEW pc, NEW new,
           new.request = worker[w].task.request,
           worker' = [worker EXCEPT ![w] = Work(pc, worker[w].exec, new)],
           UNCHANGED memory
    PROVE  MemoryInv'
  <1>1. \A v \in Workers : /\ worker'[v].exec = worker[v].exec
                           /\ worker'[v].task.request = worker[v].task.request
    BY DEF ExecutorTypeOK, Work
  <1>2. ASSUME NEW e \in Executors
        PROVE  BusyOn(e)' = BusyOn(e) /\ Reserved(e)' = Reserved(e)
    <2>1. BusyOn(e)' = BusyOn(e)
      BY <1>1 DEF BusyOn
    <2>2. \A v \in BusyOn(e) : worker'[v].task.request = worker[v].task.request
      BY <1>1 DEF BusyOn
    <2> QED  BY <2>1, <2>2, ReservedSame DEF MemoryInv
  <1> QED  BY <1>2 DEF MemoryInv, FinitelyBusy, MemoryConserved

\* One that returns gives back what it has reserved, and only that.
LEMMA MemoryReturned ==
    ASSUME ExecutorTypeOK, MemoryInv, NEW w \in Workers, worker[w].pc # "idle",
           Return(w)
    PROVE  MemoryInv'
  <1>1. PICK at \in Executors, mb \in Nat :
            at = worker[w].exec /\ mb = MemoryMB[worker[w].task.request]
    BY WorkType, TaskAssumption
  <1>2. /\ \A v \in Workers : worker'[v] = IF v = w THEN NoWork ELSE worker[v]
        /\ \A e \in Executors :
            memory'[e] = IF e = at THEN memory[e] + mb ELSE memory[e]
    BY <1>1 DEF Return, ExecutorTypeOK
  <1>3. NoWork.exec \notin Executors
    BY TaskAssumption DEF NoWork, Work
  <1>4. ASSUME NEW e \in Executors, e # at
        PROVE  /\ IsFiniteSet(BusyOn(e)')
               /\ memory'[e] >= 0 /\ memory'[e] + Reserved(e)' = MaxMemory
    <2>1. BusyOn(e)' = BusyOn(e)
      BY <1>1, <1>2, <1>3, <1>4 DEF BusyOn
    <2>2. \A v \in BusyOn(e) : worker'[v].task.request = worker[v].task.request
      BY <1>1, <1>2, <1>4 DEF BusyOn
    <2>3. Reserved(e)' = Reserved(e)
      BY <2>1, <2>2, ReservedSame DEF MemoryInv
    <2> QED
      BY <1>2, <1>4, <2>1, <2>3 DEF MemoryInv, FinitelyBusy, MemoryConserved
  <1>5. /\ IsFiniteSet(BusyOn(at)')
        /\ memory'[at] >= 0 /\ memory'[at] + Reserved(at)' = MaxMemory
    <2>1. BusyOn(at)' = BusyOn(at) \ {w} /\ w \in BusyOn(at)
      BY <1>1, <1>2, <1>3 DEF BusyOn
    <2>2. \A v \in BusyOn(at) \ {w} :
                worker'[v].task.request = worker[v].task.request
      BY <1>2 DEF BusyOn
    <2>3. /\ Reserved(at) = mb + Reserved(at)'
          /\ Reserved(at)' \in Nat
          /\ IsFiniteSet(BusyOn(at)')
      BY <1>1, <2>1, <2>2, ReservedLess DEF MemoryInv
    <2>4. /\ memory[at] >= 0 /\ memory[at] + Reserved(at) = MaxMemory
          /\ memory[at] \in Int /\ memory'[at] = memory[at] + mb
      BY <1>1, <1>2 DEF MemoryInv, MemoryConserved, ExecutorTypeOK
    <2> QED  BY <2>3, <2>4
  <1> QED  BY <1>4, <1>5 DEF MemoryInv, FinitelyBusy, MemoryConserved

\* A handler reserves what is there.
LEMMA MemoryTaken ==
    ASSUME BoardTypeOK, ExecutorTypeOK, MemoryInv,
           NEW w \in Workers, NEW at \in Executors, NEW k \in kicks,
           ReceiveDesired(w, at, k)
    PROVE  MemoryInv'
  <1> DEFINE mb == MemoryMB[k.task.request]
  <1>1. k.task.request \in Requests /\ mb \in Nat
    BY PathType, TaskAssumption DEF BoardTypeOK, Kick
  <1>2. worker[w].exec \notin Executors
    BY DemandNat DEF ReceiveDesired
  <1>3. /\ memory[at] >= mb
        /\ \A e \in Executors :
            memory'[e] = IF e = at THEN memory[e] - mb ELSE memory[e]
        /\ \A v \in Workers : worker'[v] = IF v = w THEN Work("claim", at, k.task)
                                                    ELSE worker[v]
    BY DEF ReceiveDesired, ReserveMemory, ExecutorTypeOK
  <1>4. worker'[w].exec = at /\ worker'[w].task = k.task
    BY <1>3 DEF Work
  <1>5. ASSUME NEW e \in Executors, e # at
        PROVE  /\ IsFiniteSet(BusyOn(e)')
               /\ memory'[e] >= 0 /\ memory'[e] + Reserved(e)' = MaxMemory
    <2>1. BusyOn(e)' = BusyOn(e)
      BY <1>2, <1>3, <1>4, <1>5 DEF BusyOn
    <2>2. \A v \in BusyOn(e) : worker'[v].task.request = worker[v].task.request
      BY <1>2, <1>3, <1>5 DEF BusyOn
    <2>3. Reserved(e)' = Reserved(e)
      BY <2>1, <2>2, ReservedSame DEF MemoryInv
    <2> QED
      BY <1>3, <1>5, <2>1, <2>3 DEF MemoryInv, FinitelyBusy, MemoryConserved
  <1>6. /\ IsFiniteSet(BusyOn(at)')
        /\ memory'[at] >= 0 /\ memory'[at] + Reserved(at)' = MaxMemory
    <2>1. BusyOn(at)' = BusyOn(at) \cup {w} /\ w \notin BusyOn(at)
      BY <1>2, <1>3, <1>4 DEF BusyOn
    <2>2. \A v \in BusyOn(at) : worker'[v].task.request = worker[v].task.request
      BY <1>2, <1>3 DEF BusyOn
    <2>3. Reserved(at)' = mb + Reserved(at) /\ IsFiniteSet(BusyOn(at)')
      BY <1>1, <1>4, <2>1, <2>2, ReservedMore DEF MemoryInv
    <2>4. /\ memory[at] + Reserved(at) = MaxMemory
          /\ memory[at] \in Int /\ memory'[at] = memory[at] - mb
          /\ Reserved(at) \in Nat
      BY <1>3, ReservedNat DEF MemoryInv, MemoryConserved, ExecutorTypeOK
    <2> HIDE DEF mb
    <2> QED  BY <1>1, <1>3, <2>3, <2>4
  <1> QED  BY <1>5, <1>6 DEF MemoryInv, FinitelyBusy, MemoryConserved

\* An executor that dies takes its goroutines along.
LEMMA MemoryGone ==
    ASSUME ExecutorTypeOK, MemoryInv, NEW at \in Executors, Die(at)
    PROVE  MemoryInv'
  <1>1. /\ \A v \in Workers :
            worker'[v] = IF worker[v].exec = at THEN NoWork ELSE worker[v]
        /\ \A e \in Executors :
            memory'[e] = IF e = at THEN MaxMemory ELSE memory[e]
    BY DEF Die, ExecutorTypeOK
  <1>2. NoWork.exec \notin Executors
    BY TaskAssumption DEF NoWork, Work
  <1>3. ASSUME NEW e \in Executors, e # at
        PROVE  /\ IsFiniteSet(BusyOn(e)')
               /\ memory'[e] >= 0 /\ memory'[e] + Reserved(e)' = MaxMemory
    <2>1. BusyOn(e)' = BusyOn(e)
      BY <1>1, <1>2, <1>3 DEF BusyOn
    <2>2. \A v \in BusyOn(e) : worker'[v].task.request = worker[v].task.request
      BY <1>1, <1>3 DEF BusyOn
    <2>3. Reserved(e)' = Reserved(e)
      BY <2>1, <2>2, ReservedSame DEF MemoryInv
    <2> QED
      BY <1>1, <1>3, <2>1, <2>3 DEF MemoryInv, FinitelyBusy, MemoryConserved
  <1>4. /\ IsFiniteSet(BusyOn(at)')
        /\ memory'[at] >= 0 /\ memory'[at] + Reserved(at)' = MaxMemory
    <2>1. BusyOn(at)' = {}
      BY <1>1, <1>2 DEF BusyOn
    <2>2. Reserved(at)' = 0
      <3>1. Reserved(at)' = SumFunctionOnSet(Demand', BusyOn(at)')
        BY DEF Reserved, Demand, BusyOn
      <3> QED  BY <2>1, <3>1, SumEmpty
    <2> QED  BY <1>1, <2>1, <2>2, FS_EmptySet, MemoryAssumption
  <1> QED  BY <1>3, <1>4 DEF MemoryInv, FinitelyBusy, MemoryConserved

LEMMA MemoryStep == TypeOK /\ MemoryInv /\ [Next]_vars => MemoryInv'
  <1> SUFFICES ASSUME TypeOK, MemoryInv, [Next]_vars PROVE MemoryInv'
    OBVIOUS
  <1>0. BoardTypeOK /\ ExecutorTypeOK
    BY DEF TypeOK
  <1>1. ASSUME NEW e \in Executors,
               \/ Boot(e) \/ Announce(e)
               \/ LosePresence(e) \/ RegainPresence(e) \/ ExpirePresence(e)
        PROVE  MemoryInv'
    BY <1>1, MemoryUntouched
    DEF Boot, Announce, LosePresence, RegainPresence, ExpirePresence
  <1>2. ASSUME NEW w \in Workers, NEW e \in Executors, NEW k \in kicks,
               ReceiveDesired(w, e, k)
        PROVE  MemoryInv'
    BY <1>0, <1>2, MemoryTaken
  <1>3. ASSUME NEW w \in Workers, NEW pc, NEW new, worker[w].pc # "idle",
               new.request = worker[w].task.request,
               \/ /\ worker' = [worker EXCEPT ![w] = Work(pc, worker[w].exec, new)]
                  /\ UNCHANGED memory
               \/ UNCHANGED <<worker, memory>>
               \/ Return(w)
        PROVE  MemoryInv'
    BY <1>0, <1>3, MemoryGoesOn, MemoryUntouched, MemoryReturned
  <1>4. ASSUME NEW w \in Workers, ClaimTask(w)
        PROVE  MemoryInv'
    <2> DEFINE old == worker[w].task
               new == Claimed(old, worker[w].exec, Now(TaskPath(old)))
    <2>1. worker[w].pc # "idle" /\ new.request = old.request
      BY <1>0, <1>4, WorkType DEF ClaimTask, Claimed, TaskRecord
    <2>2. \/ /\ worker' = [worker EXCEPT ![w] = Work("start", worker[w].exec, new)]
             /\ UNCHANGED memory
          \/ UNCHANGED <<worker, memory>>
          \/ Return(w)
      BY <1>4 DEF ClaimTask, RetryCompareAndSwap
    <2> HIDE DEF new
    <2> QED  BY <1>3, <2>1, <2>2
  <1>5. ASSUME NEW w \in Workers, StartTask(w)
        PROVE  MemoryInv'
    <2> DEFINE old == worker[w].task
               new == Started(old, Now(TaskPath(old)))
    <2>1. worker[w].pc # "idle" /\ new.request = old.request
      BY <1>0, <1>5, WorkType DEF StartTask, Started, TaskRecord
    <2>2. \/ /\ worker' = [worker EXCEPT ![w] = Work("running", worker[w].exec, new)]
             /\ UNCHANGED memory
          \/ UNCHANGED <<worker, memory>>
          \/ Return(w)
      BY <1>0, <1>5 DEF StartTask, RetryCompareAndSwap, ExecutorTypeOK
    <2> HIDE DEF new
    <2> QED  BY <1>3, <2>1, <2>2
  <1>6. ASSUME NEW w \in Workers, CompleteTask(w)
        PROVE  MemoryInv'
    <2> DEFINE old == worker[w].task
               new == Finished(old, Now(TaskPath(old)))
    <2>1. worker[w].pc # "idle" /\ new.request = old.request
      BY <1>0, <1>6, WorkType DEF CompleteTask, Finished, TaskRecord
    <2>2. \/ /\ worker' = [worker EXCEPT ![w] = Work("kick", worker[w].exec, new)]
             /\ UNCHANGED memory
          \/ UNCHANGED <<worker, memory>>
          \/ Return(w)
      BY <1>0, <1>6 DEF CompleteTask, RetryCompareAndSwap, ExecutorTypeOK
    <2> HIDE DEF new
    <2> QED  BY <1>3, <2>1, <2>2
  <1>7. ASSUME NEW w \in Workers, KickCompleted(w)
        PROVE  MemoryInv'
    BY <1>0, <1>7, MemoryReturned DEF KickCompleted
  <1>8. ASSUME NEW e \in Executors, ExecutorExit(e)
        PROVE  MemoryInv'
    BY <1>0, <1>8, MemoryGone DEF ExecutorExit, Exit, Crash
  <1>9. CASE ByExecutor(ExecutorNext)
    BY <1>1, <1>2, <1>4, <1>5, <1>6, <1>7, <1>9
    DEF ByExecutor, ExecutorNext, WorkerStep
  <1>10. CASE ByConverger(ConvergerNext)
    <2>1. \/ \E e \in Executors : ExecutorExit(e)
          \/ UNCHANGED <<worker, memory>>
      BY <1>10 DEF ByConverger, ConvergerNext, ExpireLock, LoseLock, AcquireLock,
                   PassStep, ListTasks, ListExecutors, SwapPair, executorVars
    <2> QED  BY <1>8, <2>1, MemoryUntouched
  <1>11. CASE ByStager(StagerNext)
    BY <1>11, MemoryUntouched DEF ByStager, executorVars
  <1>12. ASSUME NEW g \in Guids, ThirtySeconds(g) \/ TimeToClaim(g)
         PROVE  MemoryInv'
    BY <1>12, MemoryUntouched DEF ThirtySeconds, TimeToClaim, executorVars
  <1>13. CASE UNCHANGED vars
    BY <1>13, MemoryUntouched DEF vars, executorVars
  <1> QED  BY <1>9, <1>10, <1>11, <1>12, <1>13 DEF Next

\* No reservation leaks and none is given back twice, with any number of
\* handlers and runs of any number of executors, whatever fails and whoever
\* dies (executor/handler.go: reserveMemory, releaseMemory).
THEOREM MemoryIsConserved == Spec => []MemoryConserved
  <1>1. MemoryInv => MemoryConserved
    BY DEF MemoryInv
  <1> QED
    BY <1>1, MemoryInit, MemoryStep, TypeCorrect, PTL DEF Spec
=============================================================================
