---------------------------- MODULE PresenceProofs --------------------------
(***************************************************************************)
(* Theorems about executors and their runs, for every number of requests,  *)
(* executors, goroutines and faults: none is taken for dead while it is    *)
(* there, and what it runs is not taken away from it.                      *)
(***************************************************************************)
EXTENDS RepliesProofs

-----------------------------------------------------------------------------
(* What a step does, one variable at a time.  The arguments below need no   *)
(* more of the actions than this.                                           *)

\* What a write makes of the task it finds on the board.
Edit(old, new) ==
    \/ \E w \in Workers, n \in Nat :
        /\ worker[w].task = old
        /\ \/ /\ worker[w].pc = "claim"
              /\ new = Claimed(old, worker[w].exec, n)
              /\ exec[worker[w].exec] = "booting" => worker[w].exec \in early'
           \/ worker[w].pc = "start" /\ new = Started(old, n)
           \/ worker[w].pc = "running" /\ new = Finished(old, n)
    \/ \E r \in Resolvers, n \in Nat :
        /\ resolver[r].pc = "resolving" /\ resolver[r].task = old
        /\ new = Resolving(old, n)
    \/ \E c \in Convergers, n \in Nat : \E p \in pass[c].pairs :
        p.old = old /\ new = Stamped(p.new, n)

\* A write to the key g: by SetMulti, by Delete or by a compare-and-swap.
Write(g) ==
    \/ \E d \in Requests, created \in Nat, n \in Nat :
        /\ desire[d].pc = "set" /\ GuidOf[d] = g
        /\ store'[g] = Desired(d, created, n)
        /\ sets'[d] = sets[d] + 1
        /\ desire'[d].pc \in {"idle", "set"} => "setAck" \in Faults
    \/ /\ store'[g] = NoTask
       /\ \E r \in Resolvers :
            resolver[r].pc = "delete" /\ TaskPath(resolver[r].task) = g
    \/ store[g] # NoTask /\ Edit(store[g], store'[g])

LEMMA PutShape ==
    ASSUME TypeOK, NEW t \in TaskRecord, Put(t), NEW g \in Guids
    PROVE  store'[g] = store[g] \/ (g = TaskPath(t) /\ store'[g] = t)
  BY PathType DEF Put, TypeOK, BoardTypeOK

LEMMA SwapShape ==
    ASSUME TypeOK, NEW old \in TaskRecord, NEW new \in TaskRecord,
           new.request = old.request,
           Swap(old, new) \/ UNCHANGED store,
           NEW g \in Guids
    PROVE  \/ store'[g] = store[g]
           \/ store[g] = old /\ store'[g] = new /\ store[g] # NoTask
  BY PathType, NoTaskAssumption DEF Swap, Put, TaskPath, TypeOK, BoardTypeOK

LEMMA WorkerWrites ==
    ASSUME CreditInv, NEW w \in Workers, WorkerStep(w), NEW g \in Guids
    PROVE  store'[g] = store[g] \/ Write(g)
  <1> USE DEF CreditInv
  <1> DEFINE old == worker[w].task
             e == worker[w].exec
             now == Now(TaskPath(old))
  <1>1. worker[w].pc # "idle"
    BY DEF WorkerStep, ClaimTask, StartTask, CompleteTask, KickCompleted
  <1>2. old \in TaskRecord /\ e \in Executors /\ now \in Nat
    BY <1>1, WorkType, NowType DEF TypeOK
  <1>3. /\ Claimed(old, e, now) \in TaskRecord
        /\ Started(old, now) \in TaskRecord
        /\ Finished(old, now) \in TaskRecord
        /\ Claimed(old, e, now).request = old.request
        /\ Started(old, now).request = old.request
        /\ Finished(old, now).request = old.request
    <2> HIDE DEF old, e, now
    <2> QED
      BY <1>2, EditsType, EditsFields
  <1>4. CASE ClaimTask(w)
    <2> DEFINE new == Claimed(old, e, now)
    <2>1. /\ worker[w].pc = "claim"
          /\ Swap(old, new) \/ UNCHANGED store
          /\ exec[e] = "booting" /\ store' # store => e \in early'
      BY <1>4 DEF ClaimTask, RetryCompareAndSwap
    <2>2. \/ store'[g] = store[g]
          \/ store[g] = old /\ store'[g] = new /\ store[g] # NoTask
      <3> HIDE DEF old, e, now, new
      <3> QED
        BY <1>2, <1>3, <2>1, SwapShape DEF new
    <2>3. store'[g] # store[g] => store' # store
      OBVIOUS
    <2> QED
      BY <1>2, <2>1, <2>2, <2>3 DEF Write, Edit
  <1>5. CASE StartTask(w)
    <2> DEFINE new == Started(old, now)
    <2>1. /\ worker[w].pc = "start"
          /\ Swap(old, new) \/ UNCHANGED store
      BY <1>5 DEF StartTask, RetryCompareAndSwap
    <2>2. \/ store'[g] = store[g]
          \/ store[g] = old /\ store'[g] = new /\ store[g] # NoTask
      <3> HIDE DEF old, e, now, new
      <3> QED
        BY <1>2, <1>3, <2>1, SwapShape DEF new
    <2> QED
      BY <1>2, <2>1, <2>2 DEF Write, Edit
  <1>6. CASE CompleteTask(w)
    <2> DEFINE new == Finished(old, now)
    <2>1. /\ worker[w].pc = "running"
          /\ Swap(old, new) \/ UNCHANGED store
      BY <1>6 DEF CompleteTask, RetryCompareAndSwap
    <2>2. \/ store'[g] = store[g]
          \/ store[g] = old /\ store'[g] = new /\ store[g] # NoTask
      <3> HIDE DEF old, e, now, new
      <3> QED
        BY <1>2, <1>3, <2>1, SwapShape DEF new
    <2> QED
      BY <1>2, <2>1, <2>2 DEF Write, Edit
  <1>7. CASE KickCompleted(w)
    BY <1>7 DEF KickCompleted
  <1> QED
    BY <1>4, <1>5, <1>6, <1>7 DEF WorkerStep

LEMMA StagerWrites ==
    ASSUME CreditInv, StagerNext, NEW g \in Guids
    PROVE  store'[g] = store[g] \/ Write(g)
  <1> USE DEF CreditInv
  <1>1. ASSUME NEW d \in Requests, DesireTask(d)
        PROVE  store'[g] = store[g] \/ Write(g)
    <2> DEFINE now == Now(GuidOf[d])
               created == IF desire[d].createdAt = 0 THEN now
                                                     ELSE desire[d].createdAt
               t == Desired(d, created, now)
    <2>1. now \in Nat /\ created \in Nat
      BY TaskAssumption
      DEF Now, DesireProcess, TypeOK, BoardTypeOK, StagerTypeOK
    <2>2. t \in TaskRecord /\ TaskPath(t) = GuidOf[d]
      BY <2>1, DesiredType DEF Desired, TaskPath
    <2>3. /\ desire[d].pc = "set"
          /\ \/ /\ Put(t) /\ sets' = [sets EXCEPT ![d] = @ + 1]
                /\ \/ desire' = [desire EXCEPT ![d] = Desire("kick", 0, t)]
                   \/ "setAck" \in Faults
             \/ UNCHANGED store
      BY <1>1 DEF DesireTask, SetTask, Fault
    <2> HIDE DEF t, now, created
    <2>4. CASE UNCHANGED store
      BY <2>4
    <2>5. CASE /\ Put(t) /\ sets' = [sets EXCEPT ![d] = @ + 1]
               /\ \/ desire' = [desire EXCEPT ![d] = Desire("kick", 0, t)]
                  \/ "setAck" \in Faults
      <3>1. store'[g] = store[g] \/ (GuidOf[d] = g /\ store'[g] = t)
        BY <2>2, <2>5, PutShape
      <3>2. sets'[d] = sets[d] + 1
        BY <2>5 DEF TypeOK, StagerTypeOK
      <3>3. desire'[d].pc \in {"idle", "set"} => "setAck" \in Faults
        BY <2>5 DEF Desire, TypeOK, StagerTypeOK
      <3> QED
        BY <2>1, <2>3, <3>1, <3>2, <3>3 DEF Write, t
    <2> QED
      BY <2>3, <2>4, <2>5
  <1>2. ASSUME NEW r \in Resolvers, ResolvingTask(r)
        PROVE  store'[g] = store[g] \/ Write(g)
    <2> DEFINE old == resolver[r].task
               now == Now(TaskPath(old))
               new == Resolving(old, now)
    <2>1. /\ resolver[r].pc = "resolving"
          /\ Swap(old, new) \/ UNCHANGED store
      BY <1>2 DEF ResolvingTask, RetryCompareAndSwap
    <2>2. old \in TaskRecord
      BY <2>1 DEF ResolverProcess, Unresolved, TypeOK, StagerTypeOK
    <2>3. now \in Nat
      BY <2>2, NowType DEF TypeOK
    <2> HIDE DEF old, now
    <2>4. new \in TaskRecord /\ new.request = old.request
      BY <2>2, <2>3, EditsType, EditsFields
    <2>5. \/ store'[g] = store[g]
          \/ store[g] = old /\ store'[g] = new /\ store[g] # NoTask
      <3> HIDE DEF new
      <3> QED
        BY <2>1, <2>2, <2>4, SwapShape
    <2> QED
      BY <2>1, <2>3, <2>5 DEF Write, Edit, old
  <1>3. ASSUME NEW r \in Resolvers, ResolveTask(r)
        PROVE  store'[g] = store[g] \/ Write(g)
    BY <1>3 DEF ResolveTask, Write, TypeOK, BoardTypeOK
  <1>4. ASSUME NEW d \in Requests, HandleStaging(d) \/ KickDesired(d) \/ DesireCrash(d)
        PROVE  UNCHANGED store
    BY <1>4 DEF HandleStaging, KickDesired, DesireCrash, boardVars
  <1>5. ASSUME NEW r \in Resolvers,
               \/ PublishReply(r) \/ ResolverCrash(r)
               \/ \E k \in kicks : ReceiveCompleted(r, k)
        PROVE  UNCHANGED store
    BY <1>5 DEF PublishReply, ResolverCrash, ReceiveCompleted, boardVars
  <1> QED
    BY <1>1, <1>2, <1>3, <1>4, <1>5 DEF StagerNext, DesireStep, ResolverStep

LEMMA ConvergerWrites ==
    ASSUME CreditInv, ConvergerNext, NEW g \in Guids
    PROVE  store'[g] = store[g] \/ Write(g)
  <1> USE DEF CreditInv
  <1>1. ASSUME NEW c \in Convergers, NEW p \in pass[c].pairs, SwapPair(c, p)
        PROVE  store'[g] = store[g] \/ Write(g)
    <2> DEFINE now == Now(TaskPath(p.old))
               new == Stamped(p.new, now)
    <2>1. p.old \in TaskRecord /\ p.new \in TaskRecord
      BY DEF Pass, Pair, TypeOK, ConvergerTypeOK
    <2>2. now \in Nat
      BY <2>1, NowType DEF TypeOK
    <2>3. Swap(p.old, new) \/ UNCHANGED store
      BY <1>1 DEF SwapPair
    <2>4. p.new.request = p.old.request
      BY DEF HeldInv, PairStates
    <2> HIDE DEF now
    <2>5. new \in TaskRecord /\ new.request = p.old.request
      BY <2>1, <2>2, <2>4, EditsType, EditsFields
    <2>6. \/ store'[g] = store[g]
          \/ store[g] = p.old /\ store'[g] = new /\ store[g] # NoTask
      <3> HIDE DEF new
      <3> QED
        BY <2>1, <2>3, <2>5, SwapShape
    <2> QED
      BY <2>2, <2>6 DEF Write, Edit
  <1>2. ASSUME NEW c \in Convergers, AcquireLock(c) \/ ListTasks(c) \/ ListExecutors(c)
        PROVE  UNCHANGED store
    BY <1>2 DEF AcquireLock, ListTasks, ListExecutors, boardVars
  <1>3. ASSUME ExpireLock \/ LoseLock \/ \E e \in Executors : ExecutorExit(e)
        PROVE  UNCHANGED store
    BY <1>3 DEF ExpireLock, LoseLock, ExecutorExit, Exit, Crash, Die, boardVars
  <1> QED
    BY <1>1, <1>2, <1>3 DEF ConvergerNext, PassStep

\* Nothing is written to the board but the edits of what it shows, new tasks
\* and deletions.
LEMMA BoardShape ==
    ASSUME CreditInv, [Next]_vars, NEW g \in Guids
    PROVE  store'[g] = store[g] \/ Write(g)
  <1>1. CASE ByStager(StagerNext)
    BY <1>1, StagerWrites DEF ByStager
  <1>2. CASE ByConverger(ConvergerNext)
    BY <1>2, ConvergerWrites DEF ByConverger
  <1>3. CASE ByExecutor(ExecutorNext)
    <2>1. ASSUME NEW w \in Workers, WorkerStep(w)
          PROVE  store'[g] = store[g] \/ Write(g)
      BY <2>1, WorkerWrites
    <2>2. ASSUME \/ \E e \in Executors :
                    \/ Boot(e) \/ Announce(e)
                    \/ LosePresence(e) \/ RegainPresence(e) \/ ExpirePresence(e)
                 \/ \E w \in Workers, e \in Executors, k \in kicks :
                        ReceiveDesired(w, e, k)
          PROVE  UNCHANGED store
      BY <2>2 DEF Boot, Announce, LosePresence, RegainPresence, ExpirePresence,
                  ReceiveDesired, boardVars
    <2> QED
      BY <1>3, <2>1, <2>2 DEF ByExecutor, ExecutorNext
  <1>4. CASE \E h \in Guids : ThirtySeconds(h) \/ TimeToClaim(h)
    BY <1>4 DEF ThirtySeconds, GrowOld, TimeToClaim
  <1>5. CASE UNCHANGED vars
    BY <1>5 DEF vars, boardVars
  <1> QED
    BY <1>1, <1>2, <1>3, <1>4, <1>5 DEF Next

-----------------------------------------------------------------------------
(* Processes.                                                               *)

\* Where a process can go, and what goes with it.
ExecStep(e) ==
    \/ exec'[e] = exec[e]
    \/ exec[e] = "off" /\ exec'[e] \in Process!Serving
    \/ exec[e] = "booting" /\ exec'[e] = "up"
    \/ exec[e] = "up" /\ exec'[e] = "lost"
    \/ /\ exec'[e] = "dead"
       /\ \A w \in Workers : worker[w].exec = e => worker'[w] = NoWork

UpShown == \A e \in Executors : exec[e] = "up" => e \in present

LEMMA ExecShape ==
    ASSUME TypeOK, UpShown, [Next]_vars
    PROVE  /\ \A e \in Executors : ExecStep(e)
           /\ UpShown'
           /\ early \subseteq early'
  <1> USE DEF TypeOK, ExecutorTypeOK
  <1> DEFINE Claim == /\ \A e \in Executors : ExecStep(e)
                      /\ UpShown'
                      /\ early \subseteq early'
  <1>1. ASSUME UNCHANGED <<exec, present>>, early \subseteq early'
        PROVE  Claim
    BY <1>1 DEF UpShown, ExecStep
  <1>2. ASSUME NEW e \in Executors,
               \/ Boot(e) \/ Announce(e)
               \/ LosePresence(e) \/ RegainPresence(e) \/ ExpirePresence(e)
        PROVE  Claim
    <2>1. early' = early
      BY <1>2 DEF Boot, Announce, LosePresence, RegainPresence, ExpirePresence
    <2>2. \A f \in Executors : ExecStep(f) /\ (exec'[f] = "up" => f \in present')
      BY <1>2 DEF Boot, Announce, LosePresence, RegainPresence, ExpirePresence,
                  Process!Serve, Process!ServeLost, Process!Announce, Process!Lose,
                  Process!Regain, Process!Expire, Process!Move, Process!Serving,
                  Process!ExecutorState, UpShown, ExecStep
    <2> QED
      BY <2>1, <2>2 DEF UpShown
  <1>3. ASSUME NEW e \in Executors, ExecutorExit(e)
        PROVE  Claim
    <2>1. Die(e)
      BY <1>3 DEF ExecutorExit, Exit, Crash
    <2> QED
      BY <2>1 DEF Die, Process!End, Process!Move, UpShown, ExecStep
  <1>4. CASE ByStager(StagerNext)
    BY <1>1, <1>4 DEF ByStager, executorVars
  <1>5. CASE ByExecutor(ExecutorNext)
    <2>1. ASSUME NEW w \in Workers,
                 \/ WorkerStep(w)
                 \/ \E e \in Executors, k \in kicks : ReceiveDesired(w, e, k)
          PROVE  Claim
      BY <1>1, <2>1 DEF WorkerStep, ClaimTask, StartTask, CompleteTask,
                        KickCompleted, ReceiveDesired, processVars
    <2> QED
      BY <1>2, <1>5, <2>1 DEF ByExecutor, ExecutorNext
  <1>6. CASE ByConverger(ConvergerNext)
    <2>1. ASSUME \/ ExpireLock \/ LoseLock
                 \/ \E c \in Convergers : AcquireLock(c) \/ PassStep(c)
          PROVE  Claim
      BY <1>1, <2>1 DEF ExpireLock, LoseLock, AcquireLock, PassStep, ListTasks,
                        ListExecutors, SwapPair, executorVars
    <2> QED
      BY <1>3, <1>6, <2>1 DEF ByConverger, ConvergerNext
  <1>7. CASE \E g \in Guids : ThirtySeconds(g) \/ TimeToClaim(g)
    BY <1>1, <1>7 DEF ThirtySeconds, TimeToClaim, executorVars
  <1>8. CASE UNCHANGED vars
    BY <1>1, <1>8 DEF vars, executorVars
  <1> QED
    BY <1>4, <1>5, <1>6, <1>7, <1>8 DEF Next

-----------------------------------------------------------------------------
(* What the goroutines hold.                                                *)

\* The board shows t after the step.
Shows(t) == TaskPath(t) \in Guids /\ store'[TaskPath(t)] = t

\* A worker stays as it is, returns, takes a kick or goes on with what it
\* wrote.
WorkerMove(w) ==
    LET old == worker[w].task
        e == worker[w].exec
    IN  \/ worker'[w] \in {worker[w], NoWork}
        \/ \E k \in kicks, f \in Executors :
            /\ k.host = "executor" /\ exec'[f] \in Process!Serving
            /\ worker'[w] = Work("claim", f, k.task)
        \/ /\ Shows(worker'[w].task)
           /\ \E n \in Nat :
                \/ /\ worker[w].pc = "claim"
                   /\ worker'[w] = Work("start", e, Claimed(old, e, n))
                \/ /\ worker[w].pc = "start"
                   /\ worker'[w] = Work("running", e, Started(old, n))
                \/ /\ worker[w].pc = "running"
                   /\ worker'[w] = Work("kick", e, Finished(old, n))

\* A task that was put is on the board.
LEMMA PutShows ==
    ASSUME TypeOK, NEW old \in TaskRecord, NEW t \in TaskRecord,
           Put(t) \/ Swap(old, t)
    PROVE  Shows(t)
  BY PathType DEF Swap, Put, Shows, TaskPath, TypeOK, BoardTypeOK

LEMMA OwnMove ==
    ASSUME CreditInv, NEW w \in Workers, WorkerStep(w)
    PROVE  /\ WorkerMove(w)
           /\ \A v \in Workers : v # w => worker'[v] = worker[v]
  <1> USE DEF CreditInv
  <1> DEFINE old == worker[w].task
             e == worker[w].exec
             now == Now(TaskPath(old))
             Claim == /\ WorkerMove(w)
                      /\ \A v \in Workers : v # w => worker'[v] = worker[v]
  <1>1. worker[w].pc # "idle"
    BY DEF WorkerStep, ClaimTask, StartTask, CompleteTask, KickCompleted
  <1>2. old \in TaskRecord /\ e \in Executors /\ now \in Nat
    BY <1>1, WorkType, NowType DEF TypeOK
  <1>3. /\ Claimed(old, e, now) \in TaskRecord
        /\ Started(old, now) \in TaskRecord
        /\ Finished(old, now) \in TaskRecord
    <2> HIDE DEF old, e, now
    <2> QED
      BY <1>2, EditsType, EditsFields
  <1>4. worker \in [Workers -> WorkerProcess]
    BY DEF TypeOK, ExecutorTypeOK
  <1>5. ASSUME Return(w) \/ UNCHANGED worker
        PROVE  Claim
    BY <1>4, <1>5 DEF Return, WorkerMove
  <1>6. ASSUME NEW pc, NEW new \in TaskRecord, Swap(old, new),
               worker' = [worker EXCEPT ![w] = Work(pc, e, new)],
               \/ worker[w].pc = "claim" /\ pc = "start" /\ new = Claimed(old, e, now)
               \/ worker[w].pc = "start" /\ pc = "running" /\ new = Started(old, now)
               \/ worker[w].pc = "running" /\ pc = "kick" /\ new = Finished(old, now)
        PROVE  Claim
    <2>1. worker'[w] = Work(pc, e, new) /\ worker'[w].task = new
      BY <1>4, <1>6 DEF Work
    <2>2. Shows(new)
      BY <1>2, <1>6, PutShows
    <2>3. Shows(worker'[w].task)
      BY <2>1, <2>2 DEF Shows, TaskPath
    <2> QED
      BY <1>2, <1>4, <1>6, <2>1, <2>3 DEF WorkerMove
  <1>7. CASE ClaimTask(w)
    <2>1. /\ worker[w].pc = "claim"
          /\ \/ /\ Swap(old, Claimed(old, e, now))
                /\ worker' = [worker EXCEPT ![w] = Work("start", e, Claimed(old, e, now))]
             \/ Return(w) \/ UNCHANGED worker
      BY <1>7 DEF ClaimTask, RetryCompareAndSwap
    <2> HIDE DEF old, e, now
    <2> QED
      BY <1>3, <1>5, <1>6, <2>1
  <1>8. CASE StartTask(w)
    <2>1. /\ worker[w].pc = "start"
          /\ \/ /\ Swap(old, Started(old, now))
                /\ worker' = [worker EXCEPT ![w] = Work("running", e, Started(old, now))]
             \/ Return(w) \/ UNCHANGED worker
      BY <1>8 DEF StartTask, RetryCompareAndSwap
    <2> HIDE DEF old, e, now
    <2> QED
      BY <1>3, <1>5, <1>6, <2>1
  <1>9. CASE CompleteTask(w)
    <2>1. /\ worker[w].pc = "running"
          /\ \/ /\ Swap(old, Finished(old, now))
                /\ worker' = [worker EXCEPT ![w] = Work("kick", e, Finished(old, now))]
             \/ Return(w) \/ UNCHANGED worker
      BY <1>9 DEF CompleteTask, RetryCompareAndSwap
    <2> HIDE DEF old, e, now
    <2> QED
      BY <1>3, <1>5, <1>6, <2>1
  <1>10. CASE KickCompleted(w)
    BY <1>5, <1>10 DEF KickCompleted
  <1> QED
    BY <1>7, <1>8, <1>9, <1>10 DEF WorkerStep

LEMMA WorkerShape ==
    ASSUME CreditInv, [Next]_vars, NEW w \in Workers
    PROVE  WorkerMove(w)
  <1> USE DEF CreditInv
  <1>1. ASSUME UNCHANGED worker
        PROVE  WorkerMove(w)
    BY <1>1 DEF WorkerMove
  <1>2. CASE ByStager(StagerNext)
    BY <1>1, <1>2 DEF ByStager, executorVars
  <1>3. CASE ByExecutor(ExecutorNext)
    <2>1. ASSUME NEW v \in Workers, WorkerStep(v)
          PROVE  WorkerMove(w)
      BY <2>1, OwnMove DEF WorkerMove
    <2>2. ASSUME NEW v \in Workers, NEW e \in Executors, NEW k \in kicks,
                 ReceiveDesired(v, e, k)
          PROVE  WorkerMove(w)
      <3>1. /\ k.host = "executor" /\ exec'[e] \in Process!Serving
            /\ worker'[w] \in {worker[w], Work("claim", e, k.task)}
        BY <2>2 DEF ReceiveDesired, processVars, TypeOK, ExecutorTypeOK
      <3> QED
        BY <3>1 DEF WorkerMove
    <2>3. ASSUME \E e \in Executors :
                    \/ Boot(e) \/ Announce(e)
                    \/ LosePresence(e) \/ RegainPresence(e) \/ ExpirePresence(e)
          PROVE  UNCHANGED worker
      BY <2>3 DEF Boot, Announce, LosePresence, RegainPresence, ExpirePresence
    <2> QED
      BY <1>1, <1>3, <2>1, <2>2, <2>3 DEF ByExecutor, ExecutorNext
  <1>4. CASE ByConverger(ConvergerNext)
    <2>1. ASSUME \/ ExpireLock \/ LoseLock
                 \/ \E c \in Convergers : AcquireLock(c) \/ PassStep(c)
          PROVE  UNCHANGED worker
      BY <2>1 DEF ExpireLock, LoseLock, AcquireLock, PassStep, ListTasks,
                  ListExecutors, SwapPair, executorVars
    <2>2. ASSUME NEW e \in Executors, ExecutorExit(e)
          PROVE  WorkerMove(w)
      <3>1. worker'[w] \in {worker[w], NoWork}
        BY <2>2 DEF ExecutorExit, Exit, Crash, Die
      <3> QED
        BY <3>1 DEF WorkerMove
    <2> QED
      BY <1>1, <1>4, <2>1, <2>2 DEF ByConverger, ConvergerNext
  <1>5. CASE \E g \in Guids : ThirtySeconds(g) \/ TimeToClaim(g)
    BY <1>1, <1>5 DEF ThirtySeconds, TimeToClaim, executorVars
  <1>6. CASE UNCHANGED vars
    BY <1>1, <1>6 DEF vars, executorVars
  <1> QED
    BY <1>2, <1>3, <1>4, <1>5, <1>6 DEF Next

\* A resolver has what it had, what a kick brought, or what it wrote.
ResolverMove(r) ==
    \/ resolver'[r].task \in {resolver[r].task, NoTask}
    \/ \E k \in kicks : resolver'[r].task = k.task
    \/ Shows(resolver'[r].task)

\* So has the goroutine of a request, which sets its task once unless the
\* answer is lost.
DesireMove(d) ==
    /\ \/ desire'[d].task \in {desire[d].task, NoTask}
       \/ Shows(desire'[d].task)
    /\ desire'[d].pc \in {"idle", "set"} => desire[d].pc \in {"idle", "set"}

LEMMA StagerShape ==
    ASSUME CreditInv, [Next]_vars
    PROVE  /\ \A r \in Resolvers : ResolverMove(r)
           /\ \A d \in Requests : DesireMove(d)
  <1> USE DEF CreditInv
  <1> DEFINE Claim == /\ \A r \in Resolvers : ResolverMove(r)
                      /\ \A d \in Requests : DesireMove(d)
  <1>0. /\ resolver \in [Resolvers -> ResolverProcess]
        /\ desire \in [Requests -> DesireProcess]
    BY DEF TypeOK, StagerTypeOK
  <1>1. ASSUME UNCHANGED <<resolver, desire>>
        PROVE  Claim
    BY <1>1 DEF ResolverMove, DesireMove
  <1>2. ASSUME NEW d \in Requests, DesireTask(d)
        PROVE  Claim
    <2> DEFINE now == Now(GuidOf[d])
               created == IF desire[d].createdAt = 0 THEN now
                                                     ELSE desire[d].createdAt
               t == Desired(d, created, now)
    <2>1. t \in TaskRecord
      <3>1. now \in Nat
        BY TaskAssumption DEF Now, TypeOK, BoardTypeOK
      <3>2. created \in Nat
        BY <3>1 DEF DesireProcess, TypeOK, StagerTypeOK
      <3> QED
        BY <3>1, <3>2, DesiredType
    <2>2. /\ desire[d].pc = "set" /\ UNCHANGED resolver
          /\ \/ Put(t) /\ desire' = [desire EXCEPT ![d] = Desire("kick", 0, t)]
             \/ desire' = [desire EXCEPT ![d] = Desire("set", t.createdAt, NoTask)]
             \/ desire' = [desire EXCEPT ![d] = Desire("failed", 0, NoTask)]
      BY <1>2 DEF DesireTask, SetTask
    <2> HIDE DEF t
    <2>3. \A b \in Requests : b # d => desire'[b] = desire[b]
      BY <1>0, <2>2
    <2>4. desire'[d].task = NoTask \/ Shows(desire'[d].task)
      <3>1. CASE Put(t) /\ desire' = [desire EXCEPT ![d] = Desire("kick", 0, t)]
        <4>1. Shows(t) /\ desire'[d].task = t
          BY <1>0, <2>1, <3>1, PutShows DEF Desire
        <4> QED
          BY <4>1 DEF Shows, TaskPath
      <3> QED
        BY <1>0, <2>2, <3>1 DEF Desire
    <2>5. desire'[d].pc \in {"kick", "set", "failed"}
      BY <1>0, <2>2 DEF Desire
    <2> QED
      BY <2>2, <2>3, <2>4, <2>5 DEF ResolverMove, DesireMove
  <1>3. ASSUME NEW d \in Requests, HandleStaging(d) \/ KickDesired(d) \/ DesireCrash(d)
        PROVE  Claim
    BY <1>0, <1>3 DEF HandleStaging, KickDesired, DesireCrash, Desire, ResolverMove,
                      DesireMove
  <1>4. ASSUME NEW r \in Resolvers, NEW k \in kicks, ReceiveCompleted(r, k)
        PROVE  Claim
    BY <1>0, <1>4 DEF ReceiveCompleted, ResolverMove, DesireMove
  <1>5. ASSUME NEW r \in Resolvers, ResolvingTask(r)
        PROVE  Claim
    <2> DEFINE old == resolver[r].task
               now == Now(TaskPath(old))
               new == Resolving(old, now)
    <2>1. old \in TaskRecord
      BY <1>5 DEF ResolvingTask, ResolverProcess, Unresolved, TypeOK, StagerTypeOK
    <2>2. new \in TaskRecord
      BY <2>1, NowType, EditsType DEF TypeOK
    <2>3. /\ UNCHANGED desire
          /\ \/ /\ Swap(old, new)
                /\ resolver' = [resolver EXCEPT ![r] = [pc |-> "publish", task |-> new]]
             \/ resolver' = [resolver EXCEPT ![r] = Unresolved]
             \/ UNCHANGED resolver
      BY <1>5 DEF ResolvingTask, RetryCompareAndSwap
    <2> HIDE DEF old, new
    <2>4. CASE /\ Swap(old, new)
               /\ resolver' = [resolver EXCEPT ![r] = [pc |-> "publish", task |-> new]]
      <3>1. Shows(new)
        BY <2>1, <2>2, <2>4, PutShows
      <3>2. Shows(resolver'[r].task)
        BY <1>0, <2>4, <3>1 DEF Shows, TaskPath
      <3> QED
        BY <1>0, <2>3, <2>4, <3>2 DEF ResolverMove, DesireMove
    <2> QED
      BY <1>0, <2>3, <2>4 DEF Unresolved, ResolverMove, DesireMove
  <1>6. ASSUME NEW r \in Resolvers, PublishReply(r) \/ ResolveTask(r) \/ ResolverCrash(r)
        PROVE  Claim
    BY <1>0, <1>6 DEF PublishReply, ResolveTask, ResolverCrash, Unresolved,
                      ResolverMove, DesireMove
  <1>7. CASE ByStager(StagerNext)
    BY <1>2, <1>3, <1>4, <1>5, <1>6, <1>7
    DEF ByStager, StagerNext, DesireStep, ResolverStep
  <1>8. CASE ByExecutor(ExecutorNext)
    BY <1>1, <1>8 DEF ByExecutor, stagerVars
  <1>9. CASE ByConverger(ConvergerNext)
    BY <1>1, <1>9 DEF ByConverger, stagerVars
  <1>10. CASE \E g \in Guids : ThirtySeconds(g) \/ TimeToClaim(g)
    BY <1>1, <1>10 DEF ThirtySeconds, TimeToClaim, stagerVars
  <1>11. CASE UNCHANGED vars
    BY <1>1, <1>11 DEF vars, stagerVars
  <1> QED
    BY <1>7, <1>8, <1>9, <1>10, <1>11 DEF Next

\* A kick is about a task somebody holds: a new one, a finished run, or one a
\* converger listed.
KickMove(k) ==
    \/ k \in kicks
    \/ \E d \in Requests : k.task = desire[d].task
    \/ \E w \in Workers : k.task = worker[w].task
    \/ \E c \in Convergers : k.task \in pass[c].tasks

\* A converger lists what the board shows, and decides about what it listed.
PassMove(c) ==
    /\ pass'[c].tasks \subseteq pass[c].tasks \cup StoredTasks
    /\ \A p \in pass'[c].pairs :
        \/ p \in pass[c].pairs
        \/ p.old \in pass[c].tasks /\ p.new \in Repairs(p.old, present)

LEMMA PassShape ==
    ASSUME TypeOK, [Next]_vars
    PROVE  /\ \A k \in kicks' : KickMove(k)
           /\ \A c \in Convergers : PassMove(c)
  <1> DEFINE Claim == /\ \A k \in kicks' : KickMove(k)
                      /\ \A c \in Convergers : PassMove(c)
  <1>0. pass \in [Convergers -> Pass]
    BY DEF TypeOK, ConvergerTypeOK
  <1>1. ASSUME UNCHANGED <<kicks, pass>>
        PROVE  Claim
    BY <1>1 DEF KickMove, PassMove
  <1>2. ASSUME UNCHANGED kicks, NEW c \in Convergers,
               \A b \in Convergers : b # c => pass'[b] = pass[b],
               PassMove(c)
        PROVE  Claim
    BY <1>2 DEF KickMove, PassMove
  <1>3. ASSUME NEW c \in Convergers, ListTasks(c)
        PROVE  Claim
    <2>1. /\ pass' = [pass EXCEPT ![c] = [pc |-> "listed", tasks |-> StoredTasks,
                                          pairs |-> {}]]
          /\ UNCHANGED kicks
      BY <1>3 DEF ListTasks, boardVars
    <2>2. /\ \A b \in Convergers : b # c => pass'[b] = pass[b]
          /\ PassMove(c)
      BY <1>0, <2>1 DEF PassMove
    <2> QED
      BY <1>2, <2>1, <2>2
  <1>4. ASSUME NEW c \in Convergers, ListExecutors(c)
        PROVE  Claim
    <2> DEFINE tasks == pass[c].tasks
               pairs == UNION {{[old |-> t, new |-> n] : n \in Repairs(t, present)} :
                                   t \in tasks}
    <2>1. /\ kicks' \subseteq kicks \cup KicksFor(tasks)
          /\ \/ pass' = [pass EXCEPT ![c] = Remaining(pairs)]
             \/ pass' = [pass EXCEPT ![c] = NoPass]
      BY <1>4 DEF ListExecutors
    <2>2. \A k \in KicksFor(tasks) : k.task \in tasks
      BY DEF KicksFor
    <2>3. \A k \in kicks' : KickMove(k)
      BY <2>1, <2>2 DEF KickMove
    <2>4. \A p \in pairs : p.old \in tasks /\ p.new \in Repairs(p.old, present)
      OBVIOUS
    <2> HIDE DEF pairs
    <2>5. /\ Remaining(pairs).tasks = {} /\ Remaining(pairs).pairs \subseteq pairs
          /\ NoPass.tasks = {} /\ NoPass.pairs = {}
      BY DEF Remaining, NoPass
    <2>6. \A b \in Convergers :
            IF b = c THEN pass'[b] \in {Remaining(pairs), NoPass}
                     ELSE pass'[b] = pass[b]
      BY <1>0, <2>1
    <2> QED
      BY <2>3, <2>4, <2>5, <2>6 DEF PassMove
  <1>5. ASSUME NEW c \in Convergers, NEW p \in pass[c].pairs, SwapPair(c, p)
        PROVE  Claim
    <2>1. /\ UNCHANGED kicks
          /\ pass' = [pass EXCEPT ![c] = Remaining(pass[c].pairs \ {p})]
      BY <1>5 DEF SwapPair
    <2>2. /\ \A b \in Convergers : b # c => pass'[b] = pass[b]
          /\ pass'[c].tasks = {} /\ pass'[c].pairs \subseteq pass[c].pairs
      BY <1>0, <2>1 DEF Remaining, NoPass
    <2>3. PassMove(c)
      BY <2>2 DEF PassMove
    <2> QED
      BY <1>2, <2>1, <2>2, <2>3
  <1>6. CASE ByConverger(ConvergerNext)
    <2>1. ASSUME ExpireLock \/ LoseLock \/ \E c \in Convergers : AcquireLock(c)
          PROVE  Claim
      BY <1>1, <2>1 DEF ExpireLock, LoseLock, AcquireLock, boardVars
    <2>2. ASSUME NEW e \in Executors, ExecutorExit(e)
          PROVE  Claim
      BY <2>2 DEF ExecutorExit, Exit, Crash, Die, boardVars, NoPass, KickMove, PassMove
    <2> QED
      BY <1>3, <1>4, <1>5, <1>6, <2>1, <2>2 DEF ByConverger, ConvergerNext, PassStep
  <1>7. ASSUME UNCHANGED pass, \A k \in kicks' : KickMove(k)
        PROVE  Claim
    BY <1>7 DEF PassMove
  <1>8. CASE ByStager(StagerNext)
    <2>1. ASSUME NEW d \in Requests, HandleStaging(d) \/ DesireStep(d) \/ DesireCrash(d)
          PROVE  \A k \in kicks' : KickMove(k)
      BY <2>1 DEF HandleStaging, DesireStep, DesireTask, KickDesired, KickDesire,
                  DesireCrash, boardVars, KickMove
    <2>2. ASSUME NEW r \in Resolvers,
                 \/ \E k \in kicks : ReceiveCompleted(r, k)
                 \/ ResolverStep(r) \/ ResolverCrash(r)
          PROVE  \A k \in kicks' : KickMove(k)
      BY <2>2 DEF ReceiveCompleted, ResolverStep, ResolvingTask, PublishReply,
                  ResolveTask, ResolverCrash, boardVars, KickMove
    <2> QED
      BY <1>7, <1>8, <2>1, <2>2 DEF ByStager, StagerNext, convergerVars
  <1>9. CASE ByExecutor(ExecutorNext)
    <2>1. ASSUME NEW w \in Workers, WorkerStep(w)
          PROVE  \A k \in kicks' : KickMove(k)
      <3>1. CASE KickCompleted(w)
        BY <3>1 DEF KickCompleted, KickComplete, KickMove
      <3>2. CASE ClaimTask(w) \/ StartTask(w) \/ CompleteTask(w)
        <4>1. UNCHANGED kicks
          BY <3>2 DEF ClaimTask, StartTask, CompleteTask
        <4> QED
          BY <4>1 DEF KickMove
      <3> QED
        BY <2>1, <3>1, <3>2 DEF WorkerStep
    <2>2. ASSUME \/ \E e \in Executors :
                    \/ Boot(e) \/ Announce(e)
                    \/ LosePresence(e) \/ RegainPresence(e) \/ ExpirePresence(e)
                 \/ \E w \in Workers, e \in Executors, k \in kicks :
                        ReceiveDesired(w, e, k)
          PROVE  \A k \in kicks' : KickMove(k)
      BY <2>2 DEF Boot, Announce, LosePresence, RegainPresence, ExpirePresence,
                  ReceiveDesired, boardVars, KickMove
    <2> QED
      BY <1>7, <1>9, <2>1, <2>2 DEF ByExecutor, ExecutorNext, convergerVars
  <1>10. CASE \E g \in Guids : ThirtySeconds(g) \/ TimeToClaim(g)
    BY <1>1, <1>10 DEF ThirtySeconds, GrowOld, TimeToClaim, convergerVars
  <1>11. CASE UNCHANGED vars
    BY <1>1, <1>11 DEF vars, boardVars, convergerVars
  <1> QED
    BY <1>6, <1>8, <1>9, <1>10, <1>11 DEF Next

-----------------------------------------------------------------------------
\* The tasks that the board shows or has shown, as far as anybody knows them.
\* What a converger is about to write is not among them.
Written ==
    ({store[g] : g \in Guids}
     \cup {k.task : k \in kicks}
     \cup {worker[w].task : w \in Workers}
     \cup {resolver[r].task : r \in Resolvers}
     \cup {desire[d].task : d \in Requests}
     \cup UNION {pass[c].tasks : c \in Convergers}) \ {NoTask}

LEMMA WrittenType == TypeOK => Written \subseteq TaskRecord
  BY DEF TypeOK, BoardTypeOK, StagerTypeOK, ExecutorTypeOK, ConvergerTypeOK,
         Written, MaybeTask, Kick, WorkerProcess, NoWork, Work, ResolverProcess,
         Unresolved, DesireProcess, Pass

\* A task becomes known by being written.
LEMMA WrittenShape ==
    ASSUME CreditInv, [Next]_vars, NEW t \in Written', t \notin Written
    PROVE  \E g \in Guids : store'[g] = t /\ store[g] # t
  <1>1. t # NoTask
    BY DEF Written
  <1>2. SUFFICES \E g \in Guids : store'[g] = t
    BY <1>1 DEF Written
  <1>3. CASE \E k \in kicks' : k.task = t
    BY <1>1, <1>3, PassShape DEF CreditInv, KickMove, Written
  <1>4. CASE \E w \in Workers : worker'[w].task = t
    <2>1. PICK w \in Workers : worker'[w].task = t
      BY <1>4
    <2>2. \/ t \in {worker[w].task, NoTask}
          \/ \E k \in kicks : t = k.task
          \/ Shows(t)
      <3>1. WorkerMove(w)
        BY WorkerShape
      <3>2. CASE Shows(worker'[w].task)
        BY <2>1, <3>2
      <3>3. CASE worker'[w] \in {worker[w], NoWork}
        BY <2>1, <3>3 DEF Work, NoWork
      <3>4. CASE \E k \in kicks, f \in Executors : worker'[w] = Work("claim", f, k.task)
        BY <2>1, <3>4 DEF Work
      <3> QED
        BY <3>1, <3>2, <3>3, <3>4 DEF WorkerMove
    <2> QED
      BY <1>1, <2>1, <2>2 DEF Shows, Written
  <1>5. CASE \E r \in Resolvers : resolver'[r].task = t
    BY <1>1, <1>5, StagerShape DEF ResolverMove, Shows, Written
  <1>6. CASE \E d \in Requests : desire'[d].task = t
    BY <1>1, <1>6, StagerShape DEF DesireMove, Shows, Written
  <1>7. CASE \E c \in Convergers : t \in pass'[c].tasks
    BY <1>1, <1>7, PassShape DEF CreditInv, PassMove, StoredTasks, Written
  <1> QED
    BY <1>3, <1>4, <1>5, <1>6, <1>7 DEF Written

-----------------------------------------------------------------------------
(* No executor is taken for dead while it is there.                         *)
(*                                                                          *)
(* A claimed task was in the hands of an executor that was present, or of   *)
(* one that claimed early, before the converger listed it; the executors    *)
(* are listed after it, so one that is not among them has left.  That       *)
(* stays true, for an executor does not come back.                          *)

Arrived(e) == e \in Executors /\ (e \in early \/ exec[e] \in {"up", "lost", "dead"})
Departed(e) == e \in Executors /\ (e \in early \/ exec[e] \in {"lost", "dead"})

Truthful(t) ==
    /\ t.state \in {"pending", "claimed", "running"} => t.failure = "none"
    /\ t.state \in {"claimed", "running"} => Arrived(t.executorID)
    /\ t.failure = "disappeared" => Departed(t.executorID)

\* Nobody works for a process that is not there.
WorkersServed ==
    \A w \in Workers : worker[w].pc # "idle" => exec[worker[w].exec] \in Process!Serving

AllTruthful ==
    /\ \A t \in Written : Truthful(t)
    /\ \A c \in Convergers : \A p \in pass[c].pairs : Truthful(p.new)

DeathInv == CreditInv /\ UpShown /\ WorkersServed /\ AllTruthful

LEMMA DeathInit == Init => DeathInv
  <1> SUFFICES ASSUME Init PROVE DeathInv
    OBVIOUS
  <1>1. UpShown /\ WorkersServed
    BY DEF Init, ExecutorInit, Process!Init, UpShown, WorkersServed, NoWork, Work
  <1>2. Written = {}
    BY DEF Init, BoardInit, StagerInit, ExecutorInit, ConvergerInit, Written,
           Unresolved, Desire, NoWork, Work, NoPass
  <1>3. AllTruthful
    BY <1>2 DEF Init, ConvergerInit, NoPass, AllTruthful
  <1> QED
    BY <1>1, <1>3, CreditInit DEF DeathInv

LEMMA TruthKept ==
    ASSUME TypeOK, UpShown, [Next]_vars, NEW t \in TaskRecord, Truthful(t)
    PROVE  Truthful(t)'
  <1>1. ASSUME NEW e
        PROVE  (Arrived(e) => Arrived(e)') /\ (Departed(e) => Departed(e)')
    BY ExecShape DEF ExecStep, Arrived, Departed
  <1> QED
    BY <1>1 DEF Truthful

LEMMA ServedStep ==
    ASSUME CreditInv, UpShown, WorkersServed, [Next]_vars
    PROVE  WorkersServed'
  <1> SUFFICES ASSUME NEW w \in Workers, worker'[w].pc # "idle"
               PROVE  exec'[worker'[w].exec] \in Process!Serving
    BY DEF WorkersServed
  <1>1. worker'[w] # NoWork
    BY DEF NoWork, Work
  <1>2. CASE worker[w].pc # "idle" /\ worker'[w].exec = worker[w].exec
    <2>1. /\ exec[worker[w].exec] \in Process!Serving
          /\ worker[w].exec \in Executors
      BY <1>2, WorkType DEF WorkersServed, CreditInv, TypeOK
    <2>2. ExecStep(worker[w].exec)
      BY <2>1, ExecShape DEF CreditInv
    <2> QED
      BY <1>1, <1>2, <2>1, <2>2 DEF ExecStep, Process!Serving
  <1>3. CASE \E k \in kicks, f \in Executors :
                /\ exec'[f] \in Process!Serving
                /\ worker'[w] = Work("claim", f, k.task)
    BY <1>3 DEF Work
  <1>4. CASE \E t : \E pc \in {"start", "running", "kick"} :
                worker[w].pc # "idle" /\ worker'[w] = Work(pc, worker[w].exec, t)
    <2>1. worker'[w].exec = worker[w].exec
      BY <1>4 DEF Work
    <2> QED
      BY <1>2, <1>4, <2>1
  <1>5. WorkerMove(w)
    BY WorkerShape
  <1> QED
    BY <1>1, <1>2, <1>3, <1>4, <1>5 DEF WorkerMove

\* What the converger decides about a task it listed.
LEMMA RepairsTruthful ==
    ASSUME TypeOK, UpShown, NEW t \in TaskRecord, Truthful(t),
           NEW n \in Repairs(t, present)
    PROVE  Truthful(n)
  <1>1. /\ MarkTaskFailed(t, "disappeared").failure = "disappeared"
        /\ MarkTaskFailed(t, "unclaimed").failure = "unclaimed"
        /\ \A reason : /\ MarkTaskFailed(t, reason).state = "completed"
                       /\ MarkTaskFailed(t, reason).executorID = t.executorID
        /\ DemoteToPending(t).state = "pending"
        /\ DemoteToPending(t).failure = t.failure
        /\ DemoteToCompleted(t).state = "completed"
        /\ DemoteToCompleted(t).failure = t.failure
        /\ DemoteToCompleted(t).executorID = t.executorID
    BY DEF TaskRecord, MarkTaskFailed, DemoteToPending, DemoteToCompleted
  <1>2. CASE t.state = "pending" /\ n = MarkTaskFailed(t, "unclaimed")
    BY <1>1, <1>2 DEF Truthful
  <1>3. CASE /\ t.state \in {"claimed", "running"} /\ t.executorID \notin present
             /\ n = MarkTaskFailed(t, "disappeared")
    <2>1. Departed(t.executorID)
      BY <1>3 DEF Truthful, Arrived, Departed, UpShown
    <2> QED
      BY <1>1, <1>3, <2>1 DEF Truthful
  <1>4. CASE t.state = "claimed" /\ n = DemoteToPending(t)
    BY <1>1, <1>4 DEF Truthful
  <1>5. CASE t.state = "resolving" /\ n = DemoteToCompleted(t)
    BY <1>1, <1>5 DEF Truthful
  <1> QED
    BY <1>2, <1>3, <1>4, <1>5 DEF Repairs

\* What is written over a truthful task is as truthful.
LEMMA EditTruthful ==
    ASSUME DeathInv, [Next]_vars, NEW old \in Written, NEW new, Edit(old, new)
    PROVE  Truthful(new)'
  <1> USE DEF DeathInv, CreditInv
  <1>1. old \in TaskRecord /\ Truthful(old)
    BY WrittenType DEF AllTruthful
  <1>2. Truthful(old)'
    BY <1>1, TruthKept
  <1>3. ASSUME NEW w \in Workers, NEW n \in Nat, worker[w].task = old,
               worker[w].pc = "claim", new = Claimed(old, worker[w].exec, n),
               exec[worker[w].exec] = "booting" => worker[w].exec \in early'
        PROVE  Truthful(new)'
    <2>0. PICK e : e = worker[w].exec
      OBVIOUS
    <2>1. e \in Executors /\ exec[e] \in Process!Serving /\ old.state = "pending"
      BY <1>3, <2>0, WorkType DEF TypeOK, WorkersServed, HeldInv, WorkerStates
    <2>2. /\ new.state = "claimed" /\ new.executorID = e /\ new.failure = "none"
      BY <1>1, <1>3, <2>0, <2>1 DEF Claimed, TaskRecord, Truthful
    <2>3. Arrived(e)'
      BY <1>3, <2>0, <2>1, ExecShape DEF ExecStep, Arrived, Process!Serving
    <2> QED
      BY <2>2, <2>3 DEF Truthful
  <1>4. ASSUME NEW w \in Workers, NEW n \in Nat, worker[w].task = old,
               worker[w].pc = "start", new = Started(old, n)
        PROVE  Truthful(new)'
    <2>1. old.state = "claimed"
      BY <1>4 DEF HeldInv, WorkerStates
    <2>2. /\ new.state = "running" /\ new.executorID = old.executorID
          /\ new.failure = old.failure
      BY <1>1, <1>4 DEF Started, TaskRecord
    <2> QED
      BY <1>2, <2>1, <2>2 DEF Truthful
  <1>5. ASSUME NEW n \in Nat, new = Finished(old, n)
        PROVE  Truthful(new)'
    <2>1. new.state = "completed" /\ new.failure = "none"
      BY <1>1, <1>5 DEF Finished, TaskRecord
    <2> QED
      BY <2>1 DEF Truthful
  <1>6. ASSUME NEW n \in Nat, new = Resolving(old, n)
        PROVE  Truthful(new)'
    <2>1. /\ new.state = "resolving" /\ new.executorID = old.executorID
          /\ new.failure = old.failure
      BY <1>1, <1>6 DEF Resolving, TaskRecord
    <2> QED
      BY <1>2, <2>1 DEF Truthful
  <1>7. ASSUME NEW c \in Convergers, NEW n \in Nat, NEW p \in pass[c].pairs,
               new = Stamped(p.new, n)
        PROVE  Truthful(new)'
    <2>1. p.new \in TaskRecord
      BY DEF Pass, Pair, TypeOK, ConvergerTypeOK
    <2>2. Truthful(p.new)'
      BY <2>1, TruthKept DEF AllTruthful
    <2>3. /\ new.state = p.new.state /\ new.executorID = p.new.executorID
          /\ new.failure = p.new.failure
      BY <1>7, <2>1 DEF Stamped, TaskRecord
    <2> QED
      BY <2>2, <2>3 DEF Truthful
  <1> QED
    BY <1>3, <1>4, <1>5, <1>6, <1>7 DEF Edit

LEMMA DeathStep == DeathInv /\ [Next]_vars => DeathInv'
  <1> SUFFICES ASSUME DeathInv, [Next]_vars PROVE DeathInv'
    OBVIOUS
  <1> USE DEF DeathInv
  <1>1. CreditInv' /\ UpShown' /\ WorkersServed' /\ TypeOK
    BY CreditStep, ExecShape, ServedStep DEF CreditInv
  <1>2. ASSUME NEW t \in Written'
        PROVE  Truthful(t)'
    <2>1. CASE t \in Written
      BY <1>1, <2>1, WrittenType, TruthKept DEF AllTruthful
    <2>2. CASE t \notin Written
      <3>1. PICK g \in Guids : store'[g] = t /\ store[g] # t
        BY <2>2, WrittenShape
      <3>2. t # NoTask
        BY DEF Written
      <3>3. Write(g)
        BY <3>1, BoardShape
      <3>4. CASE \E d \in Requests, created \in Nat, n \in Nat : t = Desired(d, created, n)
        BY <3>4 DEF Desired, Truthful
      <3>5. CASE store[g] # NoTask /\ Edit(store[g], t)
        <4>1. store[g] \in Written
          BY <3>5 DEF Written
        <4> QED
          BY <3>5, <4>1, EditTruthful
      <3> QED
        BY <3>1, <3>2, <3>3, <3>4, <3>5 DEF Write
    <2> QED
      BY <2>1, <2>2
  <1>3. ASSUME NEW c \in Convergers, NEW p \in pass'[c].pairs
        PROVE  Truthful(p.new)'
    <2>1. CASE p \in pass[c].pairs
      <3>1. p.new \in TaskRecord
        BY <1>1, <2>1 DEF Pass, Pair, TypeOK, ConvergerTypeOK
      <3> QED
        BY <1>1, <2>1, <3>1, TruthKept DEF AllTruthful
    <2>2. CASE p.old \in pass[c].tasks /\ p.new \in Repairs(p.old, present)
      <3>1. p.old \in TaskRecord
        BY <1>1, <2>2 DEF Pass, TypeOK, ConvergerTypeOK
      <3>2. p.old \in Written
        BY <2>2, <3>1, NoTaskAssumption DEF Written
      <3>3. Truthful(p.new)
        BY <1>1, <2>2, <3>1, <3>2, RepairsTruthful DEF AllTruthful
      <3>4. p.new \in TaskRecord
        BY <2>2, <3>1, RepairsType
      <3> QED
        BY <1>1, <3>3, <3>4, TruthKept
    <2> QED
      BY <1>1, <2>1, <2>2, PassShape DEF PassMove
  <1> QED
    BY <1>1, <1>2, <1>3 DEF AllTruthful

\* An executor that a task blames for having disappeared has left, or had
\* claimed before anybody could see it: through lost leases, regained presence,
\* slow passes and stale pairs (executor_bbs.go: ConvergeTasks).
THEOREM NoExecutorIsBuriedAlive == Spec => []NoFalseDeath
  <1>1. DeathInv => NoFalseDeath
    BY DEF DeathInv, AllTruthful, Written, Truthful, Departed, NoFalseDeath
  <1> QED
    BY <1>1, DeathInit, DeathStep, PTL DEF Spec
=============================================================================
