---------------------------- MODULE StagingProofs ---------------------------
(***************************************************************************)
(* Theorems about the course of a task, for every number of requests,      *)
(* executors, goroutines and faults.  What is claimed or running is in     *)
(* somebody's hands, and a requester hears no more verdicts than tasks     *)
(* were set for it; and of a task that is set once under a key of its own, *)
(* an executor that is there keeps what it runs, nothing is run after the  *)
(* answer, and whatever stagers, executors and converger do is what        *)
(* Staging allows to be done to a request.                                 *)
(***************************************************************************)
EXTENDS PresenceProofs

-----------------------------------------------------------------------------
(* The assumptions, and what they buy.                                      *)

\* A key belongs to one request, and SetMulti is not applied and answered by a
\* timeout: a task is set once.
SetOnce == DistinctGuids /\ "setAck" \notin Faults

\* Until its task is set nobody knows a task of the request.
Fresh ==
    \A d \in Requests : desire[d].pc \in {"idle", "set"} =>
        \A t \in Written : t.request # d

Over(t) == t.state \in {"completed", "resolving"}

WorkerTasks ==
    \A w \in Workers :
        /\ worker[w].pc \in {"start", "running"} =>
            worker[w].task.executorID = worker[w].exec
        /\ worker[w].pc = "running" => worker[w].task.state = "running"

\* A converger takes a run away only as that of an executor that disappeared,
\* and leaves the verdict of a resolving task alone.
PairEdits ==
    \A c \in Convergers : \A p \in pass[c].pairs :
        /\ p.old.state # "completed"
        /\ p.old.state = "running" =>
            p.new.failure = "disappeared" /\ p.new.executorID = p.old.executorID
        /\ p.old.state = "resolving" => p.new.failure = p.old.failure
        /\ p.old.state \in {"pending", "claimed"} /\ p.new.state = "completed" =>
            p.new.failure # "none"

FateInv == DeathInv /\ EarnedInv /\ WorkerTasks /\ PairEdits

TaskInv == FateInv /\ Fresh

\* What a write can make of a run and of a verdict.
LEMMA EditFate ==
    ASSUME FateInv, NEW old \in TaskRecord, NEW new, Edit(old, new)
    PROVE  /\ new.request = old.request
           /\ Over(old) => Over(new) /\ new.failure = old.failure
           /\ old.state = "running" =>
                /\ Over(new) /\ new.failure # "unclaimed"
                /\ new.failure # "none" => Departed(old.executorID)
           /\ old.state \in {"pending", "claimed"} =>
                \/ new.state \in {"pending", "claimed", "running"}
                \/ Over(new) /\ new.failure # "none"
  <1> USE DEF FateInv, DeathInv, CreditInv
  <1>1. ASSUME NEW w \in Workers, NEW n \in Nat, worker[w].task = old,
               worker[w].pc = "claim", new = Claimed(old, worker[w].exec, n)
        PROVE  /\ new.request = old.request
               /\ old.state = "pending" /\ new.state = "claimed"
    BY <1>1, EditsFields DEF HeldInv, WorkerStates
  <1>2. ASSUME NEW w \in Workers, NEW n \in Nat, worker[w].task = old,
               worker[w].pc = "start", new = Started(old, n)
        PROVE  /\ new.request = old.request
               /\ old.state = "claimed" /\ new.state = "running"
    BY <1>2, EditsFields DEF HeldInv, WorkerStates
  <1>3. ASSUME NEW w \in Workers, NEW n \in Nat, worker[w].task = old,
               worker[w].pc = "running", new = Finished(old, n)
        PROVE  /\ new.request = old.request /\ old.state = "running"
               /\ Over(new) /\ new.failure = "none"
    BY <1>3 DEF WorkerTasks, Finished, Over, TaskRecord
  <1>4. ASSUME NEW r \in Resolvers, NEW n \in Nat, resolver[r].pc = "resolving",
               resolver[r].task = old, new = Resolving(old, n)
        PROVE  /\ new.request = old.request /\ Over(old)
               /\ Over(new) /\ new.failure = old.failure
    BY <1>4 DEF EarnedInv, ResolversEarned, Resolving, Over, TaskRecord
  <1>5. ASSUME NEW c \in Convergers, NEW n \in Nat, NEW p \in pass[c].pairs,
               p.old = old, new = Stamped(p.new, n)
        PROVE  /\ new.request = old.request
               /\ Over(old) => Over(new) /\ new.failure = old.failure
               /\ old.state = "running" =>
                    /\ Over(new) /\ new.failure # "unclaimed"
                    /\ new.failure # "none" => Departed(old.executorID)
               /\ old.state \in {"pending", "claimed"} =>
                    \/ new.state \in {"pending", "claimed", "running"}
                    \/ Over(new) /\ new.failure # "none"
    <2>1. p.new \in TaskRecord
      BY DEF Pass, Pair, TypeOK, ConvergerTypeOK
    <2>2. /\ new.request = p.new.request /\ new.state = p.new.state
          /\ new.failure = p.new.failure
      BY <1>5, <2>1 DEF Stamped, TaskRecord
    <2>3. /\ p.new.request = old.request
          /\ old.state # "claimed" => p.new.state = "completed"
          /\ p.new.state \in {"pending", "completed"}
      BY <1>5 DEF HeldInv, PairStates
    <2>4. old.state = "running" => Departed(old.executorID)
      BY <1>5 DEF PairEdits, AllTruthful, Truthful
    <2>5. Over(old) => new.failure = old.failure
      BY <1>5, <2>2 DEF PairEdits, Over
    <2>6. old.state = "running" => new.failure # "unclaimed"
      BY <1>5, <2>2 DEF PairEdits
    <2>7. old.state \in {"pending", "claimed"} /\ new.state = "completed" =>
            new.failure # "none"
      BY <1>5, <2>2 DEF PairEdits
    <2> QED
      BY <2>2, <2>3, <2>4, <2>5, <2>6, <2>7 DEF Over
  <1> QED
    BY <1>1, <1>2, <1>3, <1>4, <1>5 DEF Edit, Over

LEMMA FreshStep ==
    ASSUME SetOnce, TaskInv, [Next]_vars
    PROVE  Fresh'
  <1> USE DEF TaskInv, FateInv, DeathInv
  <1> SUFFICES ASSUME NEW d \in Requests, desire'[d].pc \in {"idle", "set"},
                      NEW t \in Written', t.request = d
               PROVE  FALSE
    BY DEF Fresh
  <1>1. desire[d].pc \in {"idle", "set"}
    BY StagerShape DEF DesireMove
  <1>2. t \notin Written
    BY <1>1 DEF Fresh
  <1>3. PICK g \in Guids : store'[g] = t /\ store[g] # t
    BY <1>2, WrittenShape
  <1>4. t # NoTask /\ Write(g)
    BY <1>3, BoardShape DEF Written
  <1>5. ASSUME NEW b \in Requests, NEW created \in Nat, NEW n \in Nat,
               t = Desired(b, created, n),
               desire'[b].pc \in {"idle", "set"} => "setAck" \in Faults
        PROVE  FALSE
    BY <1>5 DEF Desired, SetOnce
  <1>6. ASSUME store[g] # NoTask, Edit(store[g], t)
        PROVE  FALSE
    <2>1. store[g] \in Written /\ store[g] \in TaskRecord
      BY <1>6 DEF Written, CreditInv, TypeOK, BoardTypeOK, MaybeTask
    <2>2. store[g].request = d
      BY <1>6, <2>1, EditFate
    <2> QED
      BY <1>1, <2>1, <2>2 DEF Fresh
  <1> QED
    BY <1>3, <1>4, <1>5, <1>6 DEF Write

LEMMA WorkerTasksStep ==
    ASSUME FateInv, [Next]_vars
    PROVE  WorkerTasks'
  <1> USE DEF FateInv, DeathInv
  <1> SUFFICES ASSUME NEW w \in Workers
               PROVE  /\ worker'[w].pc \in {"start", "running"} =>
                            worker'[w].task.executorID = worker'[w].exec
                      /\ worker'[w].pc = "running" => worker'[w].task.state = "running"
    BY DEF WorkerTasks
  <1>1. CASE worker'[w] \in {worker[w], NoWork}
    BY <1>1 DEF WorkerTasks, NoWork, Work
  <1>3. ASSUME NEW n \in Nat, worker[w].pc = "claim",
               worker'[w] = Work("start", worker[w].exec,
                                 Claimed(worker[w].task, worker[w].exec, n))
        PROVE  worker'[w].task.executorID = worker'[w].exec /\ worker'[w].pc = "start"
    <2>1. PICK t, e : t = worker[w].task /\ e = worker[w].exec
      OBVIOUS
    <2>2. t \in TaskRecord
      BY <1>3, <2>1, WorkType DEF CreditInv, TypeOK
    <2>3. Claimed(t, e, n).executorID = e
      BY <2>2 DEF Claimed, TaskRecord
    <2> QED
      BY <1>3, <2>1, <2>3 DEF Work
  <1>4. ASSUME NEW n \in Nat, worker[w].pc = "start",
               worker'[w] = Work("running", worker[w].exec, Started(worker[w].task, n))
        PROVE  /\ worker'[w].task.executorID = worker'[w].exec
               /\ worker'[w].task.state = "running"
    <2>1. PICK t, e : t = worker[w].task /\ e = worker[w].exec
      OBVIOUS
    <2>2. t \in TaskRecord /\ t.executorID = e
      BY <1>4, <2>1, WorkType DEF CreditInv, TypeOK, WorkerTasks
    <2>3. Started(t, n).executorID = e /\ Started(t, n).state = "running"
      BY <2>2 DEF Started, TaskRecord
    <2> QED
      BY <1>4, <2>1, <2>3 DEF Work
  <1>5. WorkerMove(w)
    BY WorkerShape
  <1>6. ASSUME NEW t, NEW f, worker'[w] = Work("claim", f, t) \/ worker'[w] = Work("kick", f, t)
        PROVE  worker'[w].pc \in {"claim", "kick"}
    BY <1>6 DEF Work
  <1>7. CASE worker'[w].pc \in {"start", "running"} /\ worker'[w] \notin {worker[w], NoWork}
    <2>1. \E n \in Nat :
            \/ /\ worker[w].pc = "claim"
               /\ worker'[w] = Work("start", worker[w].exec,
                                    Claimed(worker[w].task, worker[w].exec, n))
            \/ /\ worker[w].pc = "start"
               /\ worker'[w] = Work("running", worker[w].exec, Started(worker[w].task, n))
      <3> HIDE DEF Work
      <3> QED
        BY <1>5, <1>6, <1>7 DEF WorkerMove
    <2> QED
      BY <1>3, <1>4, <2>1
  <1> QED
    BY <1>1, <1>7

LEMMA PairEditsStep ==
    ASSUME FateInv, [Next]_vars
    PROVE  PairEdits'
  <1> USE DEF FateInv, DeathInv
  <1> SUFFICES ASSUME NEW c \in Convergers, NEW p \in pass'[c].pairs
               PROVE  /\ p.old.state # "completed"
                      /\ p.old.state = "running" =>
                            /\ p.new.failure = "disappeared"
                            /\ p.new.executorID = p.old.executorID
                      /\ p.old.state = "resolving" => p.new.failure = p.old.failure
                      /\ /\ p.old.state \in {"pending", "claimed"}
                         /\ p.new.state = "completed"
                         => p.new.failure # "none"
    BY DEF PairEdits
  <1>1. CASE p \in pass[c].pairs
    BY <1>1 DEF PairEdits
  <1>2. CASE p.old \in pass[c].tasks /\ p.new \in Repairs(p.old, present)
    <2>1. p.old \in TaskRecord
      BY <1>2 DEF Pass, CreditInv, TypeOK, ConvergerTypeOK
    <2> DEFINE t == p.old
    <2>2. /\ MarkTaskFailed(t, "disappeared").failure = "disappeared"
          /\ MarkTaskFailed(t, "disappeared").executorID = t.executorID
          /\ MarkTaskFailed(t, "unclaimed").failure = "unclaimed"
          /\ DemoteToPending(t).state = "pending"
          /\ DemoteToCompleted(t).failure = t.failure
      BY <2>1 DEF TaskRecord, MarkTaskFailed, DemoteToPending,
                  DemoteToCompleted
    <2> QED
      BY <1>2, <2>2 DEF Repairs
  <1> QED
    BY <1>1, <1>2, PassShape DEF CreditInv, PassMove

LEMMA FateInit == Init => FateInv
  <1> SUFFICES ASSUME Init PROVE FateInv
    OBVIOUS
  <1>1. WorkerTasks /\ PairEdits
    BY DEF Init, ExecutorInit, ConvergerInit, NoWork, Work, NoPass, WorkerTasks,
           PairEdits
  <1> QED
    BY <1>1, DeathInit, EarnedInit DEF FateInv

LEMMA FateStep == FateInv /\ [Next]_vars => FateInv'
  BY DeathStep, EarnedStep, WorkerTasksStep, PairEditsStep DEF FateInv

LEMMA WrittenInit == Init => Written = {}
  BY DEF Init, BoardInit, StagerInit, ExecutorInit, ConvergerInit, Written,
         Unresolved, Desire, NoWork, Work, NoPass

LEMMA TaskInit == Init => TaskInv
  BY FateInit, WrittenInit DEF TaskInv, Fresh

LEMMA TaskStep ==
    ASSUME SetOnce
    PROVE  TaskInv /\ [Next]_vars => TaskInv'
  BY FateStep, FreshStep DEF TaskInv

-----------------------------------------------------------------------------
(* What is claimed or running is in hand.                                   *)
(*                                                                          *)
(* A write is made by the goroutine that goes on with it, and a goroutine   *)
(* goes on until its own write is refused, which is when the board shows    *)
(* somebody else's, or until its process ends.                              *)

\* Every compare-and-swap of an executor is answered with what it did.
WritesAnswered == "casAck" \notin Faults /\ "storeError" \notin Faults

Hands(t) == Work(IF t.state = "claimed" THEN "start" ELSE "running", t.executorID, t)

Taken(t) == t # NoTask /\ t.state \in {"claimed", "running"}

InHand(g) ==
    Taken(store[g]) =>
        /\ store[g].executorID \in Executors /\ exec[store[g].executorID] # "off"
        /\ exec[store[g].executorID] \in Process!Serving =>
                \E w \in Workers : worker[w] = Hands(store[g])

HandInv == FateInv /\ \A g \in Guids : InHand(g)

\* Stagers and convergers leave no task claimed or running that was not.
LEMMA TakenByNoOther ==
    ASSUME FateInv, StagerNext \/ ConvergerNext, NEW g \in Guids
    PROVE  store'[g] = store[g] \/ ~Taken(store'[g])
  <1> USE DEF FateInv, DeathInv, CreditInv
  <1>1. ASSUME NEW d \in Requests, DesireTask(d)
        PROVE  store'[g] = store[g] \/ ~Taken(store'[g])
    <2>1. PICK created, now : Put(Desired(d, created, now)) \/ UNCHANGED store
      BY <1>1 DEF DesireTask, SetTask
    <2>2. Desired(d, created, now).state = "pending"
      BY DEF Desired
    <2>3. store'[g] \in {store[g], Desired(d, created, now)}
      BY <2>1 DEF Put, TypeOK, BoardTypeOK
    <2> QED
      BY <2>2, <2>3 DEF Taken
  <1>2. ASSUME NEW r \in Resolvers, ResolvingTask(r)
        PROVE  store'[g] = store[g] \/ ~Taken(store'[g])
    <2>1. PICK old, now : /\ old = resolver[r].task
                          /\ Swap(old, Resolving(old, now)) \/ UNCHANGED store
      BY <1>2 DEF ResolvingTask, RetryCompareAndSwap
    <2>2. old \in TaskRecord
      BY <1>2, <2>1 DEF ResolvingTask, ResolverProcess, Unresolved, TypeOK, StagerTypeOK
    <2>3. Resolving(old, now).state = "resolving"
      BY <2>2 DEF Resolving, TaskRecord
    <2>4. store'[g] \in {store[g], Resolving(old, now)}
      BY <2>1 DEF Swap, Put, TypeOK, BoardTypeOK
    <2> QED
      BY <2>3, <2>4 DEF Taken
  <1>3. ASSUME NEW r \in Resolvers, ResolveTask(r)
        PROVE  store'[g] \in {store[g], NoTask}
    BY <1>3 DEF ResolveTask, TypeOK, BoardTypeOK
  <1>4. ASSUME NEW c \in Convergers, NEW p \in pass[c].pairs, SwapPair(c, p)
        PROVE  store'[g] = store[g] \/ ~Taken(store'[g])
    <2>1. PICK now : Swap(p.old, Stamped(p.new, now)) \/ UNCHANGED store
      BY <1>4 DEF SwapPair
    <2>2. p.new \in TaskRecord /\ p.new.state \in {"pending", "completed"}
      BY DEF Pass, Pair, TypeOK, ConvergerTypeOK, HeldInv, PairStates
    <2>3. Stamped(p.new, now).state = p.new.state
      BY <2>2 DEF Stamped, TaskRecord
    <2>4. store'[g] \in {store[g], Stamped(p.new, now)}
      BY <2>1 DEF Swap, Put, TypeOK, BoardTypeOK
    <2> QED
      BY <2>2, <2>3, <2>4 DEF Taken
  <1>5. ASSUME \/ \E d \in Requests : HandleStaging(d) \/ KickDesired(d) \/ DesireCrash(d)
               \/ \E r \in Resolvers :
                    \/ PublishReply(r) \/ ResolverCrash(r)
                    \/ \E k \in kicks : ReceiveCompleted(r, k)
               \/ \E c \in Convergers :
                    AcquireLock(c) \/ ListTasks(c) \/ ListExecutors(c)
               \/ ExpireLock \/ LoseLock \/ \E e \in Executors : ExecutorExit(e)
        PROVE  UNCHANGED store
    BY <1>5 DEF HandleStaging, KickDesired, DesireCrash, PublishReply, ResolverCrash,
                ReceiveCompleted, AcquireLock, ListTasks, ListExecutors, ExpireLock,
                LoseLock, ExecutorExit, Exit, Crash, Die, boardVars
  <1>6. CASE StagerNext
    BY <1>1, <1>2, <1>3, <1>5, <1>6 DEF StagerNext, DesireStep, ResolverStep, Taken
  <1>7. CASE ConvergerNext
    BY <1>4, <1>5, <1>7 DEF ConvergerNext, PassStep
  <1> QED
    BY <1>6, <1>7

\* A worker that writes a claim or a run goes on with what it wrote.
LEMMA TakenInHand ==
    ASSUME FateInv, WritesAnswered, NEW w \in Workers, WorkerStep(w),
           NEW g \in Guids, store'[g] # store[g], Taken(store'[g])
    PROVE  /\ store'[g].executorID \in Executors
           /\ exec'[store'[g].executorID] \in Process!Serving
           /\ worker'[w] = Hands(store'[g])
  <1> USE DEF FateInv, DeathInv, CreditInv
  <1>1. PICK old, e, now : /\ old = worker[w].task /\ e = worker[w].exec
                           /\ now = Now(TaskPath(old))
    OBVIOUS
  <1>2. worker[w].pc # "idle"
    BY DEF WorkerStep, ClaimTask, StartTask, CompleteTask, KickCompleted
  <1>3. old \in TaskRecord /\ e \in Executors /\ exec[e] \in Process!Serving
    BY <1>1, <1>2, WorkType DEF TypeOK, WorkersServed
  <1>4. worker \in [Workers -> WorkerProcess] /\ store \in [Guids -> MaybeTask]
    BY DEF TypeOK, ExecutorTypeOK, BoardTypeOK
  <1>5. ASSUME NEW new, Swap(old, new)
        PROVE  store'[g] = new
    BY <1>4, <1>5 DEF Swap, Put
  <1>6. CASE ClaimTask(w)
    <2>1. PICK new : new = Claimed(old, e, now)
      OBVIOUS
    <2>2. /\ Swap(old, new) /\ worker' = [worker EXCEPT ![w] = Work("start", e, new)]
          /\ UNCHANGED exec
      BY <1>1, <1>6, <2>1 DEF ClaimTask, RetryCompareAndSwap, WritesAnswered, Fault
    <2>3. new.state = "claimed" /\ new.executorID = e
      BY <1>3, <2>1 DEF Claimed, TaskRecord
    <2> QED
      BY <1>3, <1>4, <1>5, <2>2, <2>3 DEF Hands
  <1>7. CASE StartTask(w)
    <2>1. PICK new : new = Started(old, now)
      OBVIOUS
    <2>2. /\ Swap(old, new) /\ worker' = [worker EXCEPT ![w] = Work("running", e, new)]
          /\ UNCHANGED exec /\ worker[w].pc = "start"
      BY <1>1, <1>7, <2>1
      DEF StartTask, RetryCompareAndSwap, WritesAnswered, Fault, processVars
    <2>3. new.state = "running" /\ new.executorID = e
      BY <1>1, <1>3, <2>1, <2>2 DEF Started, TaskRecord, WorkerTasks
    <2> QED
      BY <1>3, <1>4, <1>5, <2>2, <2>3 DEF Hands
  <1>8. CASE CompleteTask(w)
    <2>1. PICK new : new = Finished(old, now)
      OBVIOUS
    <2>2. Swap(old, new)
      BY <1>1, <1>8, <2>1 DEF CompleteTask, RetryCompareAndSwap, WritesAnswered, Fault
    <2>3. new.state = "completed"
      BY <1>3, <2>1 DEF Finished, TaskRecord
    <2> QED
      BY <1>5, <2>2, <2>3 DEF Taken
  <1>9. CASE KickCompleted(w)
    BY <1>9 DEF KickCompleted
  <1> QED
    BY <1>6, <1>7, <1>8, <1>9 DEF WorkerStep

\* A worker lets go of what the board still shows only when its process ends.
LEMMA HandsKept ==
    ASSUME FateInv, WritesAnswered, [Next]_vars, NEW g \in Guids, NEW w \in Workers,
           Taken(store[g]), store'[g] = store[g], worker[w] = Hands(store[g]),
           exec'[store[g].executorID] # "dead"
    PROVE  worker'[w] = worker[w]
  <1> USE DEF FateInv, DeathInv, CreditInv
  <1>1. PICK t : t = store[g]
    OBVIOUS
  <1>2. /\ t \in TaskRecord /\ TaskPath(t) = g
        /\ t.state \in {"claimed", "running"}
    BY <1>1 DEF TypeOK, BoardTypeOK, MaybeTask, Taken, BoardInv, Filed, TaskPath
  <1>3. /\ worker[w].task = t /\ worker[w].exec = t.executorID
        /\ worker[w].pc = IF t.state = "claimed" THEN "start" ELSE "running"
    BY <1>1 DEF Hands, Work
  <1>4. worker \in [Workers -> WorkerProcess] /\ store \in [Guids -> MaybeTask]
    BY DEF TypeOK, ExecutorTypeOK, BoardTypeOK
  <1>5. CASE WorkerStep(w)
    <2>1. PICK now : now = Now(TaskPath(t))
      OBVIOUS
    <2>2. ASSUME NEW new, Swap(t, new), new.request = t.request,
                 new.state # t.state
          PROVE  FALSE
      <3>1. TaskPath(new) = g
        BY <1>2, <2>2 DEF TaskPath
      <3>2. store'[g] = new
        BY <1>4, <2>2, <3>1 DEF Swap, Put
      <3> QED
        BY <1>1, <2>2, <3>2
    <2>3. CASE StartTask(w)
      <3>1. worker[w].pc = "start" /\ (Swap(t, Started(t, now)) \/ store[g] # t)
        BY <1>2, <1>3, <2>1, <2>3
        DEF StartTask, RetryCompareAndSwap, WritesAnswered, Fault
      <3>2. Started(t, now).state = "running" /\ t.state = "claimed"
        BY <1>2, <1>3, <3>1, EditsFields
      <3>3. Started(t, now).request = t.request
        BY <1>2, EditsFields
      <3> QED
        BY <1>1, <2>2, <3>1, <3>2, <3>3
    <2>4. CASE CompleteTask(w)
      <3>1. Swap(t, Finished(t, now)) \/ store[g] # t
        BY <1>2, <1>3, <2>1, <2>4
        DEF CompleteTask, RetryCompareAndSwap, WritesAnswered, Fault
      <3>2. Finished(t, now).state = "completed" /\ Finished(t, now).request = t.request
        BY <1>2, EditsFields
      <3> QED
        BY <1>1, <1>2, <2>2, <3>1, <3>2
    <2> QED
      BY <1>3, <1>5, <2>3, <2>4 DEF WorkerStep, ClaimTask, KickCompleted
  <1>6. CASE ByExecutor(ExecutorNext)
    <2>1. ASSUME NEW v \in Workers, v # w, WorkerStep(v)
          PROVE  worker'[w] = worker[w]
      BY <2>1, OwnMove
    <2>2. ASSUME NEW v \in Workers, NEW e \in Executors, NEW k \in kicks,
                 ReceiveDesired(v, e, k)
          PROVE  worker'[w] = worker[w]
      BY <1>3, <1>4, <2>2 DEF ReceiveDesired
    <2>3. ASSUME \E e \in Executors :
                    \/ Boot(e) \/ Announce(e)
                    \/ LosePresence(e) \/ RegainPresence(e) \/ ExpirePresence(e)
          PROVE  UNCHANGED worker
      BY <2>3 DEF Boot, Announce, LosePresence, RegainPresence, ExpirePresence
    <2> QED
      BY <1>5, <1>6, <2>1, <2>2, <2>3 DEF ByExecutor, ExecutorNext
  <1>7. CASE ByConverger(ConvergerNext)
    <2>1. ASSUME \/ ExpireLock \/ LoseLock
                 \/ \E c \in Convergers : AcquireLock(c) \/ PassStep(c)
          PROVE  UNCHANGED worker
      BY <2>1 DEF ExpireLock, LoseLock, AcquireLock, PassStep, ListTasks,
                  ListExecutors, SwapPair, executorVars
    <2>2. ASSUME NEW e \in Executors, ExecutorExit(e)
          PROVE  worker'[w] = worker[w]
      <3>1. /\ exec'[e] = "dead"
            /\ worker' = [v \in Workers |-> IF worker[v].exec = e THEN NoWork
                                                                 ELSE worker[v]]
        BY <2>2 DEF ExecutorExit, Exit, Crash, Die, Process!End, Process!Move,
                    TypeOK, ExecutorTypeOK
      <3> QED
        BY <1>1, <1>3, <3>1
    <2> QED
      BY <1>7, <2>1, <2>2 DEF ByConverger, ConvergerNext
  <1>8. CASE ByStager(StagerNext)
    BY <1>8 DEF ByStager, executorVars
  <1>9. CASE \E h \in Guids : ThirtySeconds(h) \/ TimeToClaim(h)
    BY <1>9 DEF ThirtySeconds, TimeToClaim, executorVars
  <1>10. CASE UNCHANGED vars
    BY <1>10 DEF vars, executorVars
  <1> QED
    BY <1>6, <1>7, <1>8, <1>9, <1>10 DEF Next

LEMMA HandStep ==
    ASSUME WritesAnswered
    PROVE  HandInv /\ [Next]_vars => HandInv'
  <1> SUFFICES ASSUME HandInv, [Next]_vars, NEW g \in Guids, Taken(store'[g])
               PROVE  /\ store'[g].executorID \in Executors
                      /\ exec'[store'[g].executorID] # "off"
                      /\ exec'[store'[g].executorID] \in Process!Serving =>
                            \E w \in Workers : worker'[w] = Hands(store'[g])
    BY FateStep DEF HandInv, InHand, Taken, Hands
  <1> USE DEF HandInv, FateInv, DeathInv
  <1>1. CASE store'[g] = store[g]
    <2>1. PICK e : e = store[g].executorID
      OBVIOUS
    <2>2. /\ e \in Executors /\ exec[e] # "off" /\ ExecStep(e)
          /\ exec[e] \in Process!Serving =>
                \E w \in Workers : worker[w] = Hands(store[g])
      BY <1>1, <2>1, ExecShape DEF InHand, CreditInv
    <2>3. exec'[e] # "off" /\ (exec'[e] \in Process!Serving => exec[e] \in Process!Serving)
      BY <2>2 DEF ExecStep, Process!Serving
    <2>4. ASSUME NEW w \in Workers, worker[w] = Hands(store[g]), exec'[e] # "dead"
          PROVE  worker'[w] = Hands(store'[g])
      BY <1>1, <2>1, <2>4, HandsKept
    <2> QED
      BY <1>1, <2>1, <2>2, <2>3, <2>4 DEF Process!Serving
  <1>2. CASE store'[g] # store[g]
    <2>1. ~(StagerNext \/ ConvergerNext)
      BY <1>2, TakenByNoOther
    <2>2. ASSUME NEW w \in Workers, NEW e \in Executors, NEW k \in kicks,
                 ReceiveDesired(w, e, k)
          PROVE  UNCHANGED store
      BY <2>2 DEF ReceiveDesired, boardVars
    <2>3. ASSUME \E e \in Executors :
                    \/ Boot(e) \/ Announce(e)
                    \/ LosePresence(e) \/ RegainPresence(e) \/ ExpirePresence(e)
          PROVE  UNCHANGED store
      BY <2>3 DEF Boot, Announce, LosePresence, RegainPresence, ExpirePresence, boardVars
    <2>4. ASSUME \/ \E h \in Guids : ThirtySeconds(h) \/ TimeToClaim(h)
                 \/ UNCHANGED vars
          PROVE  UNCHANGED store
      BY <2>4 DEF ThirtySeconds, GrowOld, TimeToClaim, vars, boardVars
    <2>5. PICK w \in Workers : WorkerStep(w)
      BY <1>2, <2>1, <2>2, <2>3, <2>4
      DEF Next, ByStager, ByConverger, ByExecutor, ExecutorNext
    <2> QED
      BY <1>2, <2>5, TakenInHand DEF Process!Serving
  <1> QED
    BY <1>1, <1>2

\* What the board shows claimed or running by a process that serves is in the
\* hands of one of its goroutines, unless a write was applied and answered by a
\* timeout or met a store error: every other task that is claimed or running is
\* one that the converger repairs (executor_bbs.go: ConvergeTasks).
THEOREM TasksAreInHand ==
    ASSUME WritesAnswered
    PROVE  Spec => []NoOrphans
  <1>1. Init => HandInv
    BY FateInit DEF Init, BoardInit, HandInv, InHand, Taken
  <1>2. HandInv => NoOrphans
    BY DEF HandInv, InHand, Taken, Hands, NoOrphans
  <1> QED
    BY <1>1, <1>2, HandStep, PTL DEF Spec

-----------------------------------------------------------------------------
(* A run is not revoked.                                                    *)

\* The board shows the run, its success, or nothing any more.
Kept(now, t) == now = t \/ now = NoTask \/ (Over(now) /\ now.failure = "none")

RunsKept ==
    \A w \in Workers :
        /\ worker[w].pc = "running"
        /\ exec[worker[w].exec] = "up" /\ worker[w].exec \notin early
        => Kept(store[TaskPath(worker[w].task)], worker[w].task)

LEMMA RunsKeptStep ==
    ASSUME SetOnce, TaskInv, RunsKept, [Next]_vars
    PROVE  RunsKept'
  <1> USE DEF TaskInv, FateInv, DeathInv, CreditInv
  <1> SUFFICES ASSUME NEW w \in Workers, worker'[w].pc = "running",
                      exec'[worker'[w].exec] = "up", worker'[w].exec \notin early'
               PROVE  Kept(store'[TaskPath(worker'[w].task)], worker'[w].task)
    BY DEF RunsKept, Kept, TaskPath
  <1>1. CASE worker'[w] = worker[w]
    <2>1. PICK e, t : e = worker[w].exec /\ t = worker[w].task
      OBVIOUS
    <2>2. /\ e \in Executors /\ t \in TaskRecord /\ exec[e] \in Process!Serving
          /\ t.executorID = e /\ t.state = "running"
      BY <1>1, <2>1, WorkType DEF TypeOK, WorkersServed, WorkerTasks
    <2>3. t \in Written
      BY <2>1, <2>2, NoTaskAssumption DEF Written
    <2>4. e \notin early
      BY <1>1, <2>1, ExecShape
    <2>5. exec[e] = "up"
      <3>1. Arrived(e)
        BY <2>2, <2>3 DEF AllTruthful, Truthful
      <3>2. ExecStep(e) /\ exec'[e] = "up"
        BY <1>1, <2>1, <2>2, ExecShape
      <3> QED
        BY <2>2, <2>4, <3>1, <3>2 DEF ExecStep, Arrived, Process!Serving
    <2>6. PICK g \in Guids : g = TaskPath(t) /\ g = GuidOf[t.request]
      BY <2>2, PathType DEF TaskPath
    <2>7. Kept(store[g], t)
      BY <1>1, <2>1, <2>4, <2>5, <2>6 DEF RunsKept
    <2>8. ASSUME NEW d \in Requests, desire[d].pc = "set", GuidOf[d] = g
          PROVE  FALSE
      BY <2>2, <2>3, <2>6, <2>8, PathType DEF SetOnce, DistinctGuids, Fresh
    <2>9. ASSUME store[g] # NoTask, Edit(store[g], store'[g])
          PROVE  Kept(store'[g], t)
      <3>1. store[g] \in TaskRecord
        BY <2>9 DEF TypeOK, BoardTypeOK, MaybeTask
      <3>2. ~Departed(e)
        BY <2>4, <2>5 DEF Departed
      <3> QED
        BY <2>2, <2>7, <2>9, <3>1, <3>2, EditFate DEF Kept
    <2>10. Kept(store'[g], t)
      BY <2>7, <2>8, <2>9, BoardShape DEF Write, Kept
    <2> QED
      BY <1>1, <2>1, <2>6, <2>10
  <1>2. CASE Shows(worker'[w].task)
    BY <1>2 DEF Shows, Kept
  <1>3. ASSUME NEW f, NEW t, worker'[w] = NoWork \/ worker'[w] = Work("claim", f, t)
        PROVE  FALSE
    BY <1>3 DEF NoWork, Work
  <1>4. WorkerMove(w)
    BY WorkerShape
  <1> QED
    BY <1>1, <1>2, <1>3, <1>4 DEF WorkerMove

\* When a task is set once, the board shows the run of an executor that kept
\* its presence as running or done, whatever the converger decided about older
\* tasks and whoever it lost its lock to (executor_bbs.go: ConvergeTasks).
THEOREM RunsAreNotRevoked ==
    ASSUME SetOnce
    PROVE  Spec => []RunNotRevoked
  <1> DEFINE Inv == TaskInv /\ RunsKept
  <1>1. Init => Inv
    BY TaskInit DEF Init, ExecutorInit, NoWork, Work, RunsKept
  <1>2. Inv /\ [Next]_vars => Inv'
    BY TaskStep, RunsKeptStep
  <1>3. Inv => RunNotRevoked
    <2> SUFFICES ASSUME Inv, NEW w \in Workers, worker[w].pc = "running",
                        exec[worker[w].exec] = "up", worker[w].exec \notin early,
                        store[TaskPath(worker[w].task)] # NoTask
                 PROVE  LET now == store[TaskPath(worker[w].task)]
                        IN  now.state \notin {"pending", "claimed"} /\ now.failure = "none"
      BY DEF RunNotRevoked
    <2> DEFINE t == worker[w].task
    <2>1. t \in TaskRecord /\ t.state = "running"
      BY WorkType DEF TaskInv, FateInv, DeathInv, CreditInv, TypeOK, WorkerTasks
    <2>2. t \in Written
      BY <2>1, NoTaskAssumption DEF Written
    <2>3. t.failure = "none"
      BY <2>1, <2>2 DEF TaskInv, FateInv, DeathInv, AllTruthful, Truthful
    <2>4. Kept(store[TaskPath(t)], t)
      BY DEF RunsKept
    <2> QED
      BY <2>1, <2>3, <2>4 DEF Kept, Over
  <1> HIDE DEF Inv
  <1> QED
    BY <1>1, <1>2, <1>3, PTL DEF Spec

-----------------------------------------------------------------------------
(* A requester hears one verdict.                                           *)
(*                                                                          *)
(* Once a finished task of a request is known, its key holds a finished     *)
(* task or nothing, and what is written over a finished task repeats its    *)
(* verdict.  So all finished tasks of the request agree, and every reply    *)
(* was taken from one of them.                                              *)

Settled(g) == store[g] = NoTask \/ Over(store[g])

Told(d) == {replies[d][i] : i \in DOMAIN replies[d]}

Known == \A t \in Written : sets[t.request] > 0

OneVerdict ==
    /\ \A t, u \in Written :
        t.request = u.request /\ Over(t) /\ Over(u) => t.failure = u.failure
    /\ \A t \in Written : Over(t) => Settled(TaskPath(t))

ToldVerdict ==
    /\ \A t \in Written : Over(t) => Told(t.request) \subseteq {t.failure}
    /\ \A d \in Requests :
        /\ \A x, y \in Told(d) : x = y
        /\ Told(d) # {} =>
            /\ Settled(GuidOf[d])
            /\ desire[d].pc \notin {"idle", "set"}
            /\ sets[d] > 0

VerdictInv == TaskInv /\ Known /\ OneVerdict /\ ToldVerdict

\* What a step does to the histories of a request.
HistoryMove(d) ==
    /\ sets'[d] >= sets[d]
    /\ \/ replies'[d] = replies[d]
       \/ \E r \in Resolvers :
            /\ resolver[r].pc = "publish" /\ resolver[r].task.request = d
            /\ replies'[d] = Append(replies[d], resolver[r].task.failure)
            /\ UNCHANGED store

LEMMA HistoryShape ==
    ASSUME TypeOK, [Next]_vars, NEW d \in Requests
    PROVE  HistoryMove(d)
  <1>0. /\ sets \in [Requests -> Nat] /\ replies \in [Requests -> Seq(Failure)]
        /\ sets[d] \in Nat
    BY DEF TypeOK, StagerTypeOK
  <1>1. ASSUME UNCHANGED <<sets, replies>>
        PROVE  HistoryMove(d)
    BY <1>0, <1>1 DEF HistoryMove
  <1>2. ASSUME NEW b \in Requests, DesireTask(b)
        PROVE  HistoryMove(d)
    <2>1. /\ sets' = [sets EXCEPT ![b] = @ + 1] \/ UNCHANGED sets
          /\ UNCHANGED replies
      BY <1>2 DEF DesireTask, SetTask
    <2>2. sets'[d] \in {sets[d], sets[d] + 1} /\ replies'[d] = replies[d]
      BY <1>0, <2>1
    <2> QED
      BY <1>0, <2>2 DEF HistoryMove
  <1>3. ASSUME NEW r \in Resolvers, PublishReply(r)
        PROVE  HistoryMove(d)
    <2> DEFINE t == resolver[r].task
    <2>1. /\ resolver[r].pc = "publish" /\ UNCHANGED <<store, sets>>
          /\ \/ replies' = [replies EXCEPT ![t.request] = Append(@, t.failure)]
             \/ UNCHANGED replies
      BY <1>3 DEF PublishReply
    <2>2. \/ replies'[d] = replies[d]
          \/ d = t.request /\ replies'[d] = Append(replies[d], t.failure)
      <3> HIDE DEF t
      <3> QED
        BY <1>0, <2>1
    <2> QED
      BY <1>0, <2>1, <2>2 DEF HistoryMove
  <1>4. CASE ByStager(StagerNext)
    <2>1. ASSUME NEW b \in Requests, HandleStaging(b) \/ KickDesired(b) \/ DesireCrash(b)
          PROVE  UNCHANGED <<sets, replies>>
      BY <2>1 DEF HandleStaging, KickDesired, DesireCrash
    <2>2. ASSUME NEW r \in Resolvers,
                 \/ \E k \in kicks : ReceiveCompleted(r, k)
                 \/ ResolvingTask(r) \/ ResolveTask(r) \/ ResolverCrash(r)
          PROVE  UNCHANGED <<sets, replies>>
      BY <2>2 DEF ReceiveCompleted, ResolvingTask, ResolveTask, ResolverCrash
    <2> QED
      BY <1>1, <1>2, <1>3, <1>4, <2>1, <2>2
      DEF ByStager, StagerNext, DesireStep, ResolverStep
  <1>5. CASE ByExecutor(ExecutorNext)
    BY <1>1, <1>5 DEF ByExecutor, stagerVars
  <1>6. CASE ByConverger(ConvergerNext)
    BY <1>1, <1>6 DEF ByConverger, stagerVars
  <1>7. CASE \E g \in Guids : ThirtySeconds(g) \/ TimeToClaim(g)
    BY <1>1, <1>7 DEF ThirtySeconds, TimeToClaim, stagerVars
  <1>8. CASE UNCHANGED vars
    BY <1>1, <1>8 DEF vars, stagerVars
  <1> QED
    BY <1>4, <1>5, <1>6, <1>7, <1>8 DEF Next

\* A reply adds what it says to what the requester was told.
LEMMA ToldMore ==
    ASSUME NEW s \in Seq(Failure), NEW x, NEW more, more = Append(s, x)
    PROVE  {more[i] : i \in DOMAIN more} = {s[i] : i \in DOMAIN s} \cup {x}
  <1>1. /\ DOMAIN s = 1 .. Len(s) /\ DOMAIN more = 1 .. (Len(s) + 1)
        /\ Len(s) \in Nat
        /\ \A i \in 1 .. Len(s) : more[i] = s[i]
        /\ more[Len(s) + 1] = x
    OBVIOUS
  <1>2. \A i \in 1 .. (Len(s) + 1) : i \in 1 .. Len(s) \/ i = Len(s) + 1
    BY <1>1
  <1>3. 1 .. Len(s) \subseteq 1 .. (Len(s) + 1) /\ Len(s) + 1 \in 1 .. (Len(s) + 1)
    BY <1>1
  <1> QED
    BY <1>1, <1>2, <1>3

LEMMA ToldShape ==
    ASSUME TypeOK, [Next]_vars, NEW d \in Requests
    PROVE  \/ Told(d)' = Told(d)
           \/ \E r \in Resolvers :
                /\ resolver[r].pc = "publish" /\ resolver[r].task.request = d
                /\ Told(d)' = Told(d) \cup {resolver[r].task.failure}
                /\ UNCHANGED store
  <1>1. HistoryMove(d)
    BY HistoryShape
  <1>2. replies[d] \in Seq(Failure)
    BY DEF TypeOK, StagerTypeOK
  <1>3. Told(d)' = {replies'[d][i] : i \in DOMAIN replies'[d]}
    BY DEF Told
  <1>4. CASE replies'[d] = replies[d]
    BY <1>3, <1>4 DEF Told
  <1>5. ASSUME NEW x, replies'[d] = Append(replies[d], x)
        PROVE  Told(d)' = Told(d) \cup {x}
    <2>1. PICK s, more : s = replies[d] /\ more = replies'[d]
      OBVIOUS
    <2>2. {more[i] : i \in DOMAIN more} = {s[i] : i \in DOMAIN s} \cup {x}
      <3>1. s \in Seq(Failure) /\ more = Append(s, x)
        BY <1>2, <1>5, <2>1
      <3> QED
        BY <3>1, ToldMore
    <2>3. Told(d)' = {more[i] : i \in DOMAIN more} /\ Told(d) = {s[i] : i \in DOMAIN s}
      BY <1>3, <2>1 DEF Told
    <2> QED
      BY <2>2, <2>3
  <1> QED
    BY <1>1, <1>4, <1>5 DEF HistoryMove

\* The board does not go back on a finished task.
LEMMA SettledKept ==
    ASSUME SetOnce, TaskInv, [Next]_vars, NEW d \in Requests,
           Settled(GuidOf[d]), desire[d].pc # "set"
    PROVE  Settled(GuidOf[d])'
  <1> USE DEF TaskInv, FateInv, DeathInv, CreditInv
  <1> DEFINE g == GuidOf[d]
  <1>1. g \in Guids
    BY TaskAssumption
  <1>2. store'[g] = store[g] \/ Write(g)
    BY <1>1, BoardShape
  <1>3. \A b \in Requests : GuidOf[b] = g => desire[b].pc # "set"
    BY DEF SetOnce, DistinctGuids
  <1>4. ASSUME store[g] # NoTask, Edit(store[g], store'[g])
        PROVE  Over(store'[g])
    <2>1. store[g] \in TaskRecord
      BY <1>1, <1>4 DEF TypeOK, BoardTypeOK, MaybeTask
    <2> QED
      BY <1>4, <2>1, EditFate DEF Settled
  <1> QED
    BY <1>2, <1>3, <1>4 DEF Write, Settled, Over

\* A new finished task is an edit of what the board showed of its request.
LEMMA NewVerdict ==
    ASSUME FateInv, [Next]_vars, NEW t \in Written', t \notin Written, Over(t)
    PROVE  /\ t.request \in Requests /\ TaskPath(t) \in Guids
           /\ store'[TaskPath(t)] = t
           /\ store[TaskPath(t)] \in Written
           /\ store[TaskPath(t)].request = t.request
           /\ Over(store[TaskPath(t)]) => t.failure = store[TaskPath(t)].failure
  <1> USE DEF FateInv, DeathInv, CreditInv
  <1>1. PICK g \in Guids : store'[g] = t /\ store[g] # t
    BY WrittenShape
  <1>2. t # NoTask /\ Write(g) /\ CreditInv'
    BY <1>1, BoardShape, CreditStep DEF Written
  <1>3. t \in TaskRecord /\ TaskPath(t) = g
    BY <1>1, <1>2 DEF TypeOK, BoardTypeOK, MaybeTask, BoardInv, Filed, TaskPath
  <1>4. store[g] # NoTask /\ Edit(store[g], t)
    BY <1>1, <1>2 DEF Write, Desired, Over
  <1>5. store[g] \in Written /\ store[g] \in TaskRecord
    BY <1>4 DEF Written, TypeOK, BoardTypeOK, MaybeTask
  <1>6. /\ store[g].request = t.request
        /\ Over(store[g]) => t.failure = store[g].failure
    BY <1>4, <1>5, EditFate
  <1> QED
    BY <1>1, <1>3, <1>5, <1>6, PathType

LEMMA KnownStep ==
    ASSUME TaskInv, Known, [Next]_vars
    PROVE  Known'
  <1> USE DEF TaskInv, FateInv, DeathInv, CreditInv
  <1> SUFFICES ASSUME NEW t \in Written' PROVE sets'[t.request] > 0
    BY DEF Known
  <1>1. ASSUME NEW d \in Requests, sets[d] > 0 PROVE sets'[d] > 0
    BY <1>1, HistoryShape, StepType DEF HistoryMove, TypeOK, StagerTypeOK
  <1>2. CASE t \in Written
    BY <1>1, <1>2, WrittenType, PathType DEF Known
  <1>3. CASE t \notin Written
    <2>1. PICK g \in Guids : store'[g] = t /\ store[g] # t
      BY <1>3, WrittenShape
    <2>2. t # NoTask /\ Write(g)
      BY <2>1, BoardShape DEF Written
    <2>3. CASE \E d \in Requests, created \in Nat, n \in Nat :
                    t = Desired(d, created, n) /\ sets'[d] = sets[d] + 1
      BY <2>3, StepType DEF Desired, TypeOK, StagerTypeOK
    <2>4. CASE store[g] # NoTask /\ Edit(store[g], t)
      <3>1. store[g] \in Written /\ store[g] \in TaskRecord
        BY <2>4 DEF Written, TypeOK, BoardTypeOK, MaybeTask
      <3>2. store[g].request = t.request
        BY <2>4, <3>1, EditFate
      <3> QED
        BY <1>1, <3>1, <3>2, PathType DEF Known
    <2> QED
      BY <2>1, <2>2, <2>3, <2>4 DEF Write
  <1> QED
    BY <1>2, <1>3

LEMMA OneVerdictStep ==
    ASSUME SetOnce, TaskInv, OneVerdict, [Next]_vars
    PROVE  OneVerdict'
  <1> USE DEF TaskInv, FateInv, DeathInv, CreditInv
  <1>1. ASSUME NEW t \in Written, Over(t)
        PROVE  Settled(TaskPath(t))'
    <2>1. t.request \in Requests /\ Settled(GuidOf[t.request])
      BY <1>1, WrittenType, PathType DEF OneVerdict, TaskPath
    <2>2. desire[t.request].pc # "set"
      BY <2>1 DEF Fresh
    <2> QED
      BY <2>1, <2>2, SettledKept DEF TaskPath
  <1>2. ASSUME NEW t \in Written', t \notin Written, Over(t)
        PROVE  Settled(TaskPath(t))'
    BY <1>2, NewVerdict DEF Settled, TaskPath
  <1>3. ASSUME NEW t \in Written', t \notin Written, Over(t),
               NEW u \in Written, Over(u), u.request = t.request
        PROVE  t.failure = u.failure
    <2>1. /\ store[TaskPath(t)] \in Written
          /\ store[TaskPath(t)].request = t.request
          /\ Over(store[TaskPath(t)]) => t.failure = store[TaskPath(t)].failure
      BY <1>3, NewVerdict
    <2>2. Settled(TaskPath(t)) /\ store[TaskPath(t)] # NoTask
      BY <1>3, <2>1 DEF OneVerdict, TaskPath, Written
    <2> QED
      BY <1>3, <2>1, <2>2 DEF OneVerdict, Settled
  <1>4. ASSUME NEW t \in Written', t \notin Written, Over(t),
               NEW u \in Written', u \notin Written, Over(u), u.request = t.request
        PROVE  t = u
    BY <1>4, NewVerdict DEF TaskPath
  <1>5. ASSUME NEW t \in Written', NEW u \in Written', t.request = u.request,
               Over(t), Over(u)
        PROVE  t.failure = u.failure
    BY <1>3, <1>4, <1>5 DEF OneVerdict
  <1>6. ASSUME NEW t \in Written', Over(t)
        PROVE  Settled(TaskPath(t))'
    BY <1>1, <1>2, <1>6
  <1> QED
    BY <1>5, <1>6 DEF OneVerdict, Over

\* A resolver holds a finished task that was on the board.
LEMMA PublishedTask ==
    ASSUME FateInv, NEW r \in Resolvers, resolver[r].pc = "publish"
    PROVE  resolver[r].task \in Written /\ Over(resolver[r].task)
  <1>1. resolver[r].task \in TaskRecord
    BY DEF FateInv, DeathInv, CreditInv, TypeOK, StagerTypeOK, ResolverProcess, Unresolved
  <1>2. resolver[r].task \in Written
    BY <1>1, NoTaskAssumption DEF Written
  <1> QED
    BY <1>2 DEF FateInv, EarnedInv, ResolversEarned, Over

\* What the finished tasks say, the old ones and a new one, is what the
\* requester was told.
LEMMA ToldBefore ==
    ASSUME VerdictInv, [Next]_vars, NEW t \in Written', Over(t)
    PROVE  t.request \in Requests /\ Told(t.request) \subseteq {t.failure}
  <1> USE DEF VerdictInv, TaskInv, FateInv, DeathInv, CreditInv
  <1>1. CASE t \in Written
    BY <1>1, WrittenType, PathType DEF ToldVerdict
  <1>2. CASE t \notin Written
    <2> DEFINE old == store[TaskPath(t)]
    <2>1. /\ t.request \in Requests
          /\ old \in Written /\ old.request = t.request
          /\ Over(old) => t.failure = old.failure
      BY <1>2, NewVerdict
    <2>2. CASE Told(t.request) = {}
      BY <2>1, <2>2
    <2>3. CASE Told(t.request) # {}
      <3>1. Settled(TaskPath(t)) /\ old # NoTask
        BY <2>1, <2>3 DEF ToldVerdict, TaskPath, Written
      <3>2. Over(old) /\ Told(t.request) \subseteq {old.failure}
        BY <2>1, <3>1 DEF Settled, ToldVerdict
      <3> QED
        BY <2>1, <3>2
    <2> QED
      BY <2>2, <2>3
  <1> QED
    BY <1>1, <1>2

LEMMA ToldVerdictStep ==
    ASSUME SetOnce, VerdictInv, [Next]_vars
    PROVE  ToldVerdict'
  <1> USE DEF VerdictInv, TaskInv, FateInv, DeathInv, CreditInv
  <1>0. OneVerdict'
    BY OneVerdictStep
  <1>1. ASSUME NEW r \in Resolvers, resolver[r].pc = "publish", UNCHANGED store,
               NEW d, resolver[r].task.request = d
        PROVE  \A t \in Written' :
                  t.request = d /\ Over(t) => t.failure = resolver[r].task.failure
    <2>1. \A t \in Written' : t \in Written
      BY <1>1, WrittenShape
    <2>2. resolver[r].task \in Written /\ Over(resolver[r].task)
      BY <1>1, PublishedTask
    <2> QED
      BY <1>1, <2>1, <2>2 DEF OneVerdict
  <1>2. ASSUME NEW t \in Written', Over(t)
        PROVE  Told(t.request)' \subseteq {t.failure}
    <2>1. PICK d \in Requests : d = t.request /\ Told(d) \subseteq {t.failure}
      BY <1>2, ToldBefore
    <2>2. Told(d)' \subseteq {t.failure}
      BY <1>1, <1>2, <2>1, ToldShape
    <2> QED
      BY <2>1, <2>2
  <1>3. ASSUME NEW d \in Requests
        PROVE  \A x, y \in Told(d)' : x = y
    <2>1. CASE Told(d)' = Told(d)
      BY <2>1 DEF ToldVerdict
    <2>2. ASSUME NEW r \in Resolvers, resolver[r].pc = "publish",
                 resolver[r].task.request = d,
                 Told(d)' = Told(d) \cup {resolver[r].task.failure}
          PROVE  \A x, y \in Told(d)' : x = y
      <3>1. Told(d) \subseteq {resolver[r].task.failure}
        BY <2>2, PublishedTask DEF ToldVerdict
      <3> QED
        BY <2>2, <3>1
    <2> QED
      BY <2>1, <2>2, ToldShape
  <1>4. ASSUME NEW d \in Requests, Told(d)' # {}
        PROVE  /\ Settled(GuidOf[d])'
               /\ desire'[d].pc \notin {"idle", "set"}
               /\ sets'[d] > 0
    <2>1. /\ Settled(GuidOf[d])
          /\ desire[d].pc \notin {"idle", "set"}
          /\ sets[d] > 0
      <3>1. CASE Told(d) # {}
        BY <3>1 DEF ToldVerdict
      <3>2. ASSUME NEW r \in Resolvers, resolver[r].pc = "publish",
                   resolver[r].task.request = d
            PROVE  /\ Settled(GuidOf[d])
                   /\ desire[d].pc \notin {"idle", "set"}
                   /\ sets[d] > 0
        BY <3>2, PublishedTask DEF OneVerdict, TaskPath, Fresh, Known
      <3> QED
        BY <1>4, <3>1, <3>2, ToldShape
    <2>2. Settled(GuidOf[d])'
      BY <2>1, SettledKept
    <2>3. desire'[d].pc \notin {"idle", "set"}
      BY <2>1, StagerShape DEF DesireMove
    <2>4. sets'[d] > 0
      BY <2>1, HistoryShape, StepType DEF HistoryMove, TypeOK, StagerTypeOK
    <2> QED
      BY <2>2, <2>3, <2>4
  <1> QED
    BY <1>2, <1>3, <1>4 DEF ToldVerdict, Over

LEMMA ToldInit == Init => \A d \in Requests : Told(d) = {}
  <1> SUFFICES ASSUME Init PROVE \A d \in Requests : Told(d) = {}
    OBVIOUS
  <1>1. DOMAIN <<>> = {}
    OBVIOUS
  <1>2. \A d \in Requests : DOMAIN replies[d] = {}
    BY <1>1 DEF Init, StagerInit
  <1> QED
    BY <1>2 DEF Told

LEMMA VerdictInit == Init => VerdictInv
  BY WrittenInit, ToldInit, TaskInit DEF VerdictInv, Known, OneVerdict, ToldVerdict

LEMMA VerdictStep ==
    ASSUME SetOnce
    PROVE  VerdictInv /\ [Next]_vars => VerdictInv'
  <1> SUFFICES ASSUME VerdictInv, [Next]_vars PROVE VerdictInv'
    OBVIOUS
  <1> QED
    BY TaskStep, KnownStep, OneVerdictStep, ToldVerdictStep DEF VerdictInv

-----------------------------------------------------------------------------
(* Nobody is run after the answer.                                          *)
(*                                                                          *)
(* A container is started by a swap of the claim that the board shows, and  *)
(* the board shows no claim on a task that was replied to.                  *)

\* A run is started from a claim on the board.
LEMMA StartsShape ==
    ASSUME CreditInv, [Next]_vars, NEW d \in Requests, starts'[d] # starts[d]
    PROVE  \E g \in Guids : /\ store[g] # NoTask /\ store[g].request = d
                            /\ store[g].state = "claimed" /\ g = GuidOf[d]
  <1> USE DEF CreditInv
  <1>1. CASE \E w \in Workers : StartTask(w)
    <2>1. PICK w \in Workers : StartTask(w)
      BY <1>1
    <2>2. PICK old, now : old = worker[w].task /\ now = Now(TaskPath(old))
      OBVIOUS
    <2>3. /\ worker[w].pc = "start"
          /\ Swap(old, Started(old, now)) \/ starts' = starts
          /\ starts' \in {starts, [starts EXCEPT ![old.request] = @ + 1]}
      BY <2>1, <2>2 DEF StartTask, RetryCompareAndSwap, Return
    <2>4. old \in TaskRecord /\ old.state = "claimed"
      BY <2>2, <2>3, WorkType DEF TypeOK, HeldInv, WorkerStates
    <2>5. old.request = d
      BY <2>3, <2>4 DEF TypeOK, ExecutorTypeOK
    <2>6. TaskPath(old) \in Guids /\ store[TaskPath(old)] = old
      BY <2>3, <2>4, PathType DEF Swap
    <2> QED
      BY <2>4, <2>5, <2>6, NoTaskAssumption DEF TaskPath
  <1>2. ASSUME NEW w \in Workers,
               \/ ClaimTask(w) \/ CompleteTask(w) \/ KickCompleted(w)
               \/ \E e \in Executors, k \in kicks : ReceiveDesired(w, e, k)
        PROVE  UNCHANGED starts
    BY <1>2 DEF ClaimTask, CompleteTask, KickCompleted, ReceiveDesired
  <1>3. ASSUME NEW e \in Executors,
               \/ Boot(e) \/ Announce(e)
               \/ LosePresence(e) \/ RegainPresence(e) \/ ExpirePresence(e)
        PROVE  UNCHANGED starts
    BY <1>3 DEF Boot, Announce, LosePresence, RegainPresence, ExpirePresence
  <1>4. ASSUME ConvergerNext
        PROVE  UNCHANGED starts
    <2>1. ASSUME \/ ExpireLock \/ LoseLock
                 \/ \E c \in Convergers : AcquireLock(c) \/ PassStep(c)
          PROVE  UNCHANGED starts
      BY <2>1 DEF ExpireLock, LoseLock, AcquireLock, PassStep, ListTasks,
                  ListExecutors, SwapPair, executorVars
    <2>2. ASSUME NEW e \in Executors, ExecutorExit(e)
          PROVE  UNCHANGED starts
      BY <2>2 DEF ExecutorExit, Exit, Crash, Die
    <2> QED
      BY <1>4, <2>1, <2>2 DEF ConvergerNext
  <1>5. UNCHANGED executorVars => UNCHANGED starts
    BY DEF executorVars
  <1>6. UNCHANGED vars => UNCHANGED starts
    BY DEF vars, executorVars
  <1>7. ASSUME NEW g \in Guids, ThirtySeconds(g) \/ TimeToClaim(g)
        PROVE  UNCHANGED starts
    BY <1>5, <1>7 DEF ThirtySeconds, TimeToClaim
  <1> QED
    BY <1>1, <1>2, <1>3, <1>4, <1>5, <1>6, <1>7
    DEF Next, ByStager, ByConverger, ByExecutor, ExecutorNext, WorkerStep

\* When a task is set once, no container is run for a requester that was told a
\* verdict, whatever old kicks and claims are still about (executor_bbs.go:
\* StartTask).
THEOREM AnsweredNeverRun ==
    ASSUME SetOnce
    PROVE  Spec => NoRunAfterAnswer
  <1>1. ASSUME VerdictInv, [Next]_vars, NEW d \in Requests, replies[d] # <<>>
        PROVE  starts'[d] = starts[d]
    <2>1. replies[d] \in Seq(Failure)
      BY <1>1 DEF VerdictInv, TaskInv, FateInv, DeathInv, CreditInv, TypeOK, StagerTypeOK
    <2>2. 1 \in DOMAIN replies[d]
      BY <1>1, <2>1
    <2>3. Told(d) # {}
      BY <2>2 DEF Told
    <2>4. Settled(GuidOf[d])
      BY <1>1, <2>3 DEF VerdictInv, ToldVerdict
    <2>5. CreditInv
      BY <1>1 DEF VerdictInv, TaskInv, FateInv, DeathInv
    <2>6. ASSUME starts'[d] # starts[d] PROVE FALSE
      BY <1>1, <2>4, <2>5, <2>6, StartsShape DEF Settled, Over
    <2> QED
      BY <2>6
  <1>2. VerdictInv /\ [Next]_vars =>
            [\A d \in Requests : replies[d] # <<>> => starts'[d] = starts[d]]_vars
    BY <1>1
  <1> QED
    BY <1>2, VerdictInit, VerdictStep, PTL DEF Spec, NoRunAfterAnswer

-----------------------------------------------------------------------------
(* As many verdicts as settings, when tasks share keys or are set again.    *)
(*                                                                          *)
(* A setting makes a task that is open, and a finished task is an edit of   *)
(* an open one or repeats a verdict: a setting whose task is still open on  *)
(* the board has had no verdict.                                            *)

\* What a requester was told or may still be told.
Verdicts(d) ==
    {t.failure : t \in {u \in Written : u.request = d /\ Over(u)}} \cup Told(d)

Open(d) ==
    LET t == store[GuidOf[d]]
    IN  t # NoTask /\ t.request = d /\ ~Over(t)

Counted(d) ==
    IF Open(d) THEN Cardinality(Verdicts(d)) < sets[d]
               ELSE Cardinality(Verdicts(d)) <= sets[d]

CountInv == FateInv /\ \A d \in Requests : Counted(d)

LEMMA VerdictsFinite ==
    ASSUME TypeOK, NEW d \in Requests
    PROVE  /\ IsFiniteSet(Verdicts(d)) /\ IsFiniteSet(Told(d))
           /\ Cardinality(Verdicts(d)) \in Nat
           /\ Cardinality(Told(d)) <= Cardinality(Verdicts(d))
  <1>1. IsFiniteSet(Failure)
    <2>1. Failure = (({} \cup {"none"}) \cup {"unclaimed"}) \cup {"disappeared"}
      BY DEF Failure
    <2> QED
      BY <2>1, FS_EmptySet, FS_AddElement
  <1>2. Told(d) \subseteq Failure
    <2>1. replies[d] \in Seq(Failure)
      BY DEF TypeOK, StagerTypeOK
    <2> QED
      BY <2>1 DEF Told
  <1>3. Verdicts(d) \subseteq Failure
    BY <1>2, WrittenType DEF Verdicts, TaskRecord
  <1>4. IsFiniteSet(Verdicts(d)) /\ Told(d) \subseteq Verdicts(d)
    BY <1>1, <1>3, FS_Subset DEF Verdicts
  <1> QED
    BY <1>4, FS_Subset, FS_CardinalityType

\* A verdict is new only when a task that was open has just been finished.
LEMMA VerdictsMove ==
    ASSUME FateInv, [Next]_vars, NEW d \in Requests
    PROVE  \/ Verdicts(d)' \subseteq Verdicts(d)
           \/ /\ Open(d) /\ ~Open(d)'
              /\ \E x : Verdicts(d)' \subseteq Verdicts(d) \cup {x}
  <1> USE DEF FateInv, DeathInv, CreditInv
  <1> DEFINE old == store[GuidOf[d]]
             new == store'[GuidOf[d]]
  <1>1. Told(d)' \subseteq Verdicts(d)
    <2>1. ASSUME NEW r \in Resolvers, resolver[r].pc = "publish",
                 resolver[r].task.request = d
          PROVE  resolver[r].task.failure \in Verdicts(d)
      BY <2>1, PublishedTask DEF Verdicts
    <2> QED
      BY <2>1, ToldShape DEF Verdicts
  <1>2. ASSUME NEW t \in Written', t.request = d, Over(t)
        PROVE  t.failure \in Verdicts(d) \/ (Open(d) /\ t = new /\ ~Open(d)')
    <2>1. CASE t \in Written
      BY <1>2, <2>1 DEF Verdicts
    <2>2. CASE t \notin Written
      <3>1. /\ new = t
            /\ old \in Written /\ old.request = d
            /\ Over(old) => t.failure = old.failure
        BY <1>2, <2>2, NewVerdict DEF TaskPath
      <3>2. CASE Over(old)
        BY <3>1, <3>2 DEF Verdicts
      <3>3. CASE ~Over(old)
        BY <1>2, <3>1, <3>3 DEF Open, Over, Written
      <3> QED
        BY <3>2, <3>3
    <2> QED
      BY <2>1, <2>2
  <1>3. Verdicts(d)' =
            {t.failure : t \in {u \in Written' : u.request = d /\ Over(u)}} \cup Told(d)'
    BY DEF Verdicts, Over
  <1>4. CASE Open(d) /\ ~Open(d)'
    <2>1. Verdicts(d)' \subseteq Verdicts(d) \cup {new.failure}
      BY <1>1, <1>2, <1>3
    <2> QED
      BY <1>4, <2>1
  <1>5. CASE ~(Open(d) /\ ~Open(d)')
    BY <1>1, <1>2, <1>3, <1>5
  <1> QED
    BY <1>4, <1>5

\* A task is opened by being set.
LEMMA OpenMove ==
    ASSUME FateInv, [Next]_vars, NEW d \in Requests, Open(d)'
    PROVE  Open(d) \/ sets'[d] = sets[d] + 1
  <1> USE DEF FateInv, DeathInv, CreditInv
  <1>1. PICK g \in Guids : g = GuidOf[d]
    BY TaskAssumption
  <1>2. store'[g] = store[g] \/ Write(g)
    BY BoardShape
  <1>3. CASE store'[g] = store[g]
    BY <1>1, <1>3 DEF Open, Over
  <1>4. ASSUME NEW b \in Requests, NEW created, NEW n,
               store'[g] = Desired(b, created, n), sets'[b] = sets[b] + 1
        PROVE  sets'[d] = sets[d] + 1
    BY <1>1, <1>4 DEF Open, Desired
  <1>5. CASE store'[g] = NoTask
    BY <1>1, <1>5 DEF Open
  <1>6. CASE store[g] # NoTask /\ Edit(store[g], store'[g])
    <2>1. store[g] \in TaskRecord
      BY <1>6 DEF TypeOK, BoardTypeOK, MaybeTask
    <2>2. /\ store'[g].request = store[g].request
          /\ Over(store[g]) => Over(store'[g])
      BY <1>6, <2>1, EditFate
    <2> QED
      BY <1>1, <1>6, <2>2 DEF Open, Over
  <1> QED
    BY <1>2, <1>3, <1>4, <1>5, <1>6 DEF Write

LEMMA CountStep == CountInv /\ [Next]_vars => CountInv'
  <1> SUFFICES ASSUME CountInv, [Next]_vars, NEW d \in Requests PROVE Counted(d)'
    BY FateStep DEF CountInv
  <1> USE DEF CountInv, FateInv, DeathInv, CreditInv
  <1>1. TypeOK /\ TypeOK'
    BY StepType
  <1> DEFINE V == Verdicts(d)
             W == Verdicts(d)'
  <1>2. IsFiniteSet(V) /\ Cardinality(V) \in Nat
    BY <1>1, VerdictsFinite
  <1>3. sets[d] \in Nat /\ sets'[d] \in Nat /\ sets'[d] >= sets[d]
    BY <1>1, HistoryShape DEF HistoryMove, TypeOK, StagerTypeOK
  <1>4. IF Open(d) THEN Cardinality(V) < sets[d] ELSE Cardinality(V) <= sets[d]
    BY DEF Counted
  <1>5. SUFFICES IF Open(d)' THEN Cardinality(W) < sets'[d] ELSE Cardinality(W) <= sets'[d]
    BY DEF Counted
  <1>6. \/ W \subseteq V
        \/ Open(d) /\ ~Open(d)' /\ \E x : W \subseteq V \cup {x}
    BY VerdictsMove
  <1>7. Open(d)' => Open(d) \/ sets'[d] = sets[d] + 1
    BY OpenMove
  <1> HIDE DEF V, W, CountInv, FateInv, DeathInv, CreditInv
  <1>8. CASE W \subseteq V
    <2>1. Cardinality(W) \in Nat /\ Cardinality(W) <= Cardinality(V)
      BY <1>2, <1>8, FS_Subset, FS_CardinalityType
    <2> QED
      BY <1>2, <1>3, <1>4, <1>7, <2>1
  <1>9. ASSUME NEW x, W \subseteq V \cup {x}, Open(d), ~Open(d)'
        PROVE  Cardinality(W) <= sets'[d]
    <2>1. /\ IsFiniteSet(V \cup {x})
          /\ Cardinality(V \cup {x}) \in Nat
          /\ Cardinality(V \cup {x}) <= Cardinality(V) + 1
      <3>1. /\ IsFiniteSet(V \cup {x})
            /\ Cardinality(V \cup {x}) =
                    IF x \in V THEN Cardinality(V) ELSE Cardinality(V) + 1
        BY <1>2, FS_AddElement
      <3> QED
        BY <1>2, <3>1
    <2>2. Cardinality(W) \in Nat /\ Cardinality(W) <= Cardinality(V \cup {x})
      BY <1>9, <2>1, FS_Subset, FS_CardinalityType
    <2> QED
      BY <1>2, <1>3, <1>4, <1>9, <2>1, <2>2
  <1> QED
    BY <1>6, <1>8, <1>9

\* However often its requester is replied to, and whoever replies, a task that
\* is set once hears one verdict, and never more of them than it was set
\* (stager/handler.go: resolveTask; executor_bbs.go: ConvergeTasks).
THEOREM VerdictsAgree == Spec => []RepliesAgree
  <1>1. Init => CountInv
    <2> SUFFICES ASSUME Init PROVE CountInv
      OBVIOUS
    <2>1. \A d \in Requests : Verdicts(d) = {} /\ ~Open(d) /\ sets[d] = 0
      BY WrittenInit, ToldInit, TaskAssumption
      DEF Init, BoardInit, StagerInit, Verdicts, Open
    <2> QED
      BY <2>1, FateInit, FS_EmptySet DEF CountInv, Counted
  <1>2. CountInv => RepliesAgree
    <2> SUFFICES ASSUME CountInv, NEW d \in Requests
                 PROVE  Cardinality(Told(d)) <= sets[d]
      BY DEF RepliesAgree, Told
    <2>1. TypeOK /\ sets[d] \in Nat
      BY DEF CountInv, FateInv, DeathInv, CreditInv, TypeOK, StagerTypeOK
    <2>2. IsFiniteSet(Told(d)) /\ Cardinality(Told(d)) \in Nat
      BY <2>1, VerdictsFinite, FS_CardinalityType
    <2> QED
      BY <2>1, <2>2, VerdictsFinite DEF CountInv, Counted
  <1> QED
    BY <1>1, <1>2, CountStep, PTL DEF Spec

-----------------------------------------------------------------------------
(* The refinement.                                                          *)

\* A task that is still to be set has not been set before.
Unset == \A d \in Requests : desire[d].pc \in {"idle", "set"} => sets[d] = 0

RefineInv == VerdictInv /\ KeptInv /\ Unset

-----------------------------------------------------------------------------
(* What a step changes of what the requester sees.                          *)

\* One key and the request it was set for, or nothing at all.
KeyChange(g) ==
    /\ UNCHANGED replies
    /\ \A h \in Guids : h # g => store'[h] = store[h]
    /\ \A d \in Requests :
        sets'[d] # sets[d] =>
            /\ GuidOf[d] = g /\ store'[g] # NoTask
            /\ desire[d].pc = "set"
            /\ desire'[d].pc \in {"idle", "set"} => "setAck" \in Faults

\* One more reply.
Reply(r) ==
    LET t == resolver[r].task
    IN  /\ UNCHANGED <<store, sets>>
        /\ resolver[r].pc = "publish"
        /\ replies' = [replies EXCEPT ![t.request] = Append(@, t.failure)]

Effect ==
    \/ UNCHANGED <<store, sets, replies>>
    \/ \E g \in Guids : KeyChange(g)
    \/ \E r \in Resolvers : Reply(r)

LEMMA PutEffect ==
    ASSUME TypeOK, NEW old \in TaskRecord, NEW new, new.request = old.request,
           Swap(old, new) \/ UNCHANGED store, UNCHANGED <<sets, replies>>
    PROVE  Effect
  BY PathType DEF Swap, Put, TaskPath, Effect, KeyChange, TypeOK, BoardTypeOK

LEMMA WorkerEffect ==
    ASSUME CreditInv, NEW w \in Workers, WorkerStep(w), UNCHANGED <<sets, replies>>
    PROVE  Effect
  <1> USE DEF CreditInv
  <1> DEFINE old == worker[w].task
             e == worker[w].exec
             now == Now(TaskPath(old))
  <1>1. worker[w].pc # "idle"
    BY DEF WorkerStep, ClaimTask, StartTask, CompleteTask, KickCompleted
  <1>2. old \in TaskRecord /\ e \in Executors /\ now \in Nat
    BY <1>1, WorkType, NowType DEF TypeOK
  <1>3. \/ Swap(old, Claimed(old, e, now))
        \/ Swap(old, Started(old, now))
        \/ Swap(old, Finished(old, now))
        \/ UNCHANGED store
    BY DEF WorkerStep, ClaimTask, StartTask, CompleteTask, KickCompleted,
           RetryCompareAndSwap
  <1> HIDE DEF old, e, now
  <1>4. /\ Claimed(old, e, now).request = old.request
        /\ Started(old, now).request = old.request
        /\ Finished(old, now).request = old.request
    BY <1>2, EditsFields
  <1> QED
    BY <1>2, <1>3, <1>4, PutEffect

LEMMA StagerEffect ==
    ASSUME CreditInv, StagerNext
    PROVE  Effect
  <1> USE DEF CreditInv
  <1>1. ASSUME NEW d \in Requests, DesireTask(d)
        PROVE  Effect
    <2> DEFINE now == Now(GuidOf[d])
               created == IF desire[d].createdAt = 0 THEN now
                                                     ELSE desire[d].createdAt
               t == Desired(d, created, now)
    <2>1. now \in Nat /\ created \in Nat
      BY TaskAssumption
      DEF Now, DesireProcess, TypeOK, BoardTypeOK, StagerTypeOK
    <2>2. t \in TaskRecord /\ TaskPath(t) = GuidOf[d]
      BY <2>1, DesiredType DEF Desired, TaskPath
    <2>3. /\ desire[d].pc = "set" /\ UNCHANGED replies
          /\ \/ /\ Put(t) /\ sets' = [sets EXCEPT ![d] = @ + 1]
                /\ \/ desire' = [desire EXCEPT ![d] = Desire("kick", 0, t)]
                   \/ "setAck" \in Faults
             \/ UNCHANGED <<store, sets>>
      BY <1>1 DEF DesireTask, SetTask, Fault
    <2> HIDE DEF t, now, created
    <2>4. CASE UNCHANGED <<store, sets>>
      BY <2>3, <2>4 DEF Effect
    <2>5. CASE /\ Put(t) /\ sets' = [sets EXCEPT ![d] = @ + 1]
               /\ \/ desire' = [desire EXCEPT ![d] = Desire("kick", 0, t)]
                  \/ "setAck" \in Faults
      <3>1. desire'[d].pc \in {"idle", "set"} => "setAck" \in Faults
        BY <2>5 DEF Desire, TypeOK, StagerTypeOK
      <3>2. \A b \in Requests : b # d => sets'[b] = sets[b]
        BY <2>5 DEF TypeOK, StagerTypeOK
      <3>3. store'[GuidOf[d]] = t /\ t # NoTask
        BY <2>2, <2>5, TaskAssumption, NoTaskAssumption DEF Put, TypeOK, BoardTypeOK
      <3>4. \A h \in Guids : h # GuidOf[d] => store'[h] = store[h]
        BY <2>2, <2>5 DEF Put, TypeOK, BoardTypeOK
      <3>5. KeyChange(GuidOf[d])
        BY <2>3, <3>1, <3>2, <3>3, <3>4 DEF KeyChange
      <3> QED
        BY <3>5, TaskAssumption DEF Effect
    <2> QED
      BY <2>3, <2>4, <2>5
  <1>2. ASSUME NEW r \in Resolvers, ResolvingTask(r)
        PROVE  Effect
    <2> DEFINE old == resolver[r].task
               now == Now(TaskPath(old))
               new == Resolving(old, now)
    <2>1. /\ resolver[r].pc = "resolving" /\ UNCHANGED <<sets, replies>>
          /\ Swap(old, new) \/ UNCHANGED store
      BY <1>2 DEF ResolvingTask, RetryCompareAndSwap
    <2>2. old \in TaskRecord
      BY <2>1 DEF ResolverProcess, Unresolved, TypeOK, StagerTypeOK
    <2>3. now \in Nat
      BY <2>2, NowType DEF TypeOK
    <2> HIDE DEF old, now
    <2>4. new.request = old.request
      BY <2>2, <2>3, EditsFields
    <2> HIDE DEF new
    <2> QED
      BY <2>1, <2>2, <2>4, PutEffect
  <1>3. ASSUME NEW r \in Resolvers, ResolveTask(r)
        PROVE  Effect
    <2>1. TaskPath(resolver[r].task) \in Guids
      BY <1>3, PathType DEF ResolveTask, ResolverProcess, Unresolved, TypeOK,
                            StagerTypeOK
    <2>2. /\ UNCHANGED <<sets, replies>>
          /\ \/ store' = [store EXCEPT ![TaskPath(resolver[r].task)] = NoTask]
             \/ UNCHANGED store
      BY <1>3 DEF ResolveTask
    <2> QED
      BY <2>1, <2>2 DEF Effect, KeyChange, TypeOK, BoardTypeOK
  <1>4. ASSUME NEW r \in Resolvers, PublishReply(r)
        PROVE  Effect
    BY <1>4 DEF PublishReply, Effect, Reply
  <1>5. ASSUME NEW d \in Requests, HandleStaging(d) \/ KickDesired(d) \/ DesireCrash(d)
        PROVE  Effect
    BY <1>5 DEF HandleStaging, KickDesired, DesireCrash, boardVars, Effect
  <1>6. ASSUME NEW r \in Resolvers,
               ResolverCrash(r) \/ \E k \in kicks : ReceiveCompleted(r, k)
        PROVE  Effect
    BY <1>6 DEF ResolverCrash, ReceiveCompleted, boardVars, Effect
  <1> QED
    BY <1>1, <1>2, <1>3, <1>4, <1>5, <1>6 DEF StagerNext, DesireStep, ResolverStep

LEMMA StepEffect ==
    ASSUME CreditInv, [Next]_vars
    PROVE  Effect
  <1>1. CASE ByStager(StagerNext)
    BY <1>1, StagerEffect DEF ByStager
  <1>2. CASE ByExecutor(ExecutorNext)
    <2>0. UNCHANGED <<sets, replies>>
      BY <1>2 DEF ByExecutor, stagerVars
    <2>1. ASSUME NEW w \in Workers, WorkerStep(w)
          PROVE  Effect
      BY <2>0, <2>1, WorkerEffect
    <2>2. ASSUME \/ \E e \in Executors :
                    \/ Boot(e) \/ Announce(e)
                    \/ LosePresence(e) \/ RegainPresence(e) \/ ExpirePresence(e)
                 \/ \E w \in Workers, e \in Executors, k \in kicks :
                        ReceiveDesired(w, e, k)
          PROVE  UNCHANGED store
      BY <2>2 DEF Boot, Announce, LosePresence, RegainPresence, ExpirePresence,
                  ReceiveDesired, boardVars
    <2> QED
      BY <1>2, <2>0, <2>1, <2>2 DEF ByExecutor, ExecutorNext, Effect
  <1>3. CASE ByConverger(ConvergerNext)
    <2>0. UNCHANGED <<sets, replies>>
      BY <1>3 DEF ByConverger, stagerVars
    <2>1. ASSUME NEW c \in Convergers, NEW p \in pass[c].pairs, SwapPair(c, p)
          PROVE  Effect
      <3> DEFINE new == Stamped(p.new, Now(TaskPath(p.old)))
      <3>1. p.old \in TaskRecord /\ p.new \in TaskRecord
        BY DEF Pass, Pair, CreditInv, TypeOK, ConvergerTypeOK
      <3>2. Swap(p.old, new) \/ UNCHANGED store
        BY <2>1 DEF SwapPair
      <3>3. new.request = p.old.request
        BY <3>1, NowType, EditsFields DEF CreditInv, TypeOK, HeldInv, PairStates
      <3> HIDE DEF new
      <3> QED
        BY <2>0, <3>1, <3>2, <3>3, PutEffect DEF CreditInv
    <2>2. ASSUME \/ ExpireLock \/ LoseLock
                 \/ \E c \in Convergers :
                        AcquireLock(c) \/ ListTasks(c) \/ ListExecutors(c)
                 \/ \E e \in Executors : ExecutorExit(e)
          PROVE  UNCHANGED store
      BY <2>2 DEF ExpireLock, LoseLock, AcquireLock, ListTasks, ListExecutors,
                  ExecutorExit, Exit, Crash, Die, boardVars
    <2> QED
      BY <1>3, <2>0, <2>1, <2>2 DEF ByConverger, ConvergerNext, PassStep, Effect
  <1>4. CASE \E h \in Guids : ThirtySeconds(h) \/ TimeToClaim(h)
    BY <1>4 DEF ThirtySeconds, GrowOld, TimeToClaim, stagerVars, Effect
  <1>5. CASE UNCHANGED vars
    BY <1>5 DEF vars, boardVars, stagerVars, Effect
  <1> QED
    BY <1>1, <1>2, <1>3, <1>4, <1>5 DEF Next

LEMMA UnsetStep ==
    ASSUME SetOnce, RefineInv, [Next]_vars
    PROVE  Unset'
  <1> USE DEF RefineInv, VerdictInv, TaskInv, FateInv, DeathInv
  <1> SUFFICES ASSUME NEW d \in Requests, desire'[d].pc \in {"idle", "set"}
               PROVE  sets'[d] = 0
    BY DEF Unset
  <1>1. sets[d] = 0
    BY StagerShape DEF DesireMove, Unset
  <1>2. sets'[d] = sets[d]
    BY StepEffect DEF Effect, KeyChange, Reply, SetOnce
  <1> QED
    BY <1>1, <1>2

-----------------------------------------------------------------------------
(* Where a request is, and where a step takes it.                           *)

\* What the board shows of a request decides its phase.
LEMMA PhaseOf ==
    ASSUME TypeOK, NEW d \in Requests
    PROVE  LET t == store[GuidOf[d]]
           IN  /\ t = NoTask => Phase(d) = IF sets[d] = 0 THEN "asked" ELSE "closed"
               /\ t # NoTask =>
                    /\ t.state \in {"pending", "claimed"} => Phase(d) = "queued"
                    /\ t.state = "running" => Phase(d) = "running"
                    /\ Over(t) => Phase(d) = "finished"
                    /\ \/ t.state \in {"pending", "claimed", "running"}
                       \/ Over(t)
  <1>1. store[GuidOf[d]] \in MaybeTask
    BY TaskAssumption DEF TypeOK, BoardTypeOK
  <1>2. store[GuidOf[d]] # NoTask => store[GuidOf[d]].state \in TaskState
    BY <1>1 DEF MaybeTask, TaskRecord
  <1> QED
    BY <1>2 DEF Phase, Over, TaskState

LEMMA VerdictOf ==
    ASSUME NEW d \in Requests
    PROVE  /\ Phase(d) = "finished" => Verdict(d) = store[GuidOf[d]].failure
           /\ Phase(d) = "closed" /\ replies[d] # <<>> =>
                Verdict(d) = replies[d][Len(replies[d])]
           /\ Phase(d) \in {"asked", "queued", "running"} => Verdict(d) = "undecided"
  <1> HIDE DEF Phase
  <1> QED
    BY DEF Verdict

\* The last reply is one of those the requester was told.
LEMMA LastTold ==
    ASSUME TypeOK, NEW d \in Requests, replies[d] # <<>>
    PROVE  replies[d][Len(replies[d])] \in Told(d)
  <1>1. replies[d] \in Seq(Failure)
    BY DEF TypeOK, StagerTypeOK
  <1>2. Len(replies[d]) \in DOMAIN replies[d]
    BY <1>1
  <1> QED
    BY <1>2 DEF Told

\* The task under the key of a request is a task of the request.
LEMMA OwnTask ==
    ASSUME SetOnce, CreditInv, NEW d \in Requests, store[GuidOf[d]] # NoTask
    PROVE  /\ store[GuidOf[d]] \in TaskRecord /\ store[GuidOf[d]] \in Written
           /\ store[GuidOf[d]].request = d
  <1> DEFINE t == store[GuidOf[d]]
  <1>1. t \in TaskRecord /\ t \in Written /\ TaskPath(t) = GuidOf[d]
    BY TaskAssumption DEF CreditInv, TypeOK, BoardTypeOK, MaybeTask, BoardInv,
                          Filed, Written
  <1>2. t.request \in Requests /\ GuidOf[t.request] = GuidOf[d]
    BY <1>1, PathType DEF TaskPath
  <1> QED
    BY <1>1, <1>2 DEF SetOnce, DistinctGuids

LEMMA ClosedIsAnswered ==
    ASSUME RefineInv, NEW d \in Requests, Phase(d) = "closed"
    PROVE  replies[d] # <<>>
  <1>1. TypeOK /\ Gone
    BY DEF RefineInv, KeptInv, CreditInv
  <1>2. PICK t : t = store[GuidOf[d]]
    OBVIOUS
  <1>3. t = NoTask /\ sets[d] # 0
    <2>1. /\ t = NoTask => Phase(d) = IF sets[d] = 0 THEN "asked" ELSE "closed"
          /\ t # NoTask => Phase(d) \in {"queued", "running", "finished"}
      BY <1>1, <1>2, PhaseOf
    <2> QED
      BY <2>1
  <1>4. sets[d] > 0
    <2>1. sets[d] \in Nat
      BY <1>1 DEF TypeOK, StagerTypeOK
    <2> QED
      BY <1>3, <2>1
  <1> QED
    BY <1>1, <1>2, <1>3, <1>4 DEF Gone

LEMMA EditWritesTask ==
    ASSUME CreditInv, NEW old \in TaskRecord, NEW new, Edit(old, new)
    PROVE  new \in TaskRecord
  <1>1. ASSUME NEW w \in Workers, NEW n \in Nat, worker[w].task = old,
               worker[w].pc = "claim", new = Claimed(old, worker[w].exec, n)
        PROVE  new \in TaskRecord
    BY <1>1, WorkType, EditsType DEF CreditInv, TypeOK
  <1>2. ASSUME NEW c \in Convergers, NEW n \in Nat, NEW p \in pass[c].pairs,
               new = Stamped(p.new, n)
        PROVE  new \in TaskRecord
    <2>1. p.new \in TaskRecord
      BY DEF Pass, Pair, CreditInv, TypeOK, ConvergerTypeOK
    <2> QED
      BY <1>2, <2>1, EditsType
  <1> QED
    BY <1>1, <1>2, EditsType DEF Edit

\* What a step without a reply can make of a request.
Goes(d, from, to) == Phase(d) = from /\ Phase(d)' = to

RequestMove(d) ==
    \/ Phase(d)' = Phase(d) /\ Verdict(d)' = Verdict(d)
    \/ /\ Goes(d, "asked", "queued") \/ Goes(d, "queued", "running")
       /\ Verdict(d)' = Verdict(d)
    \/ /\ Verdict(d)' \in Failure
       /\ \/ Goes(d, "queued", "finished") /\ Verdict(d)' # "none"
          \/ Goes(d, "running", "finished") /\ Verdict(d)' # "unclaimed"
    \/ /\ Goes(d, "finished", "closed")
       /\ Verdict(d)' = Verdict(d)
       /\ replies[d] # <<>>

LEMMA RequestStep ==
    ASSUME SetOnce, RefineInv, TypeOK', [Next]_vars,
           NEW d \in Requests, replies'[d] = replies[d],
           store'[GuidOf[d]] = NoTask => sets'[d] = sets[d]
    PROVE  RequestMove(d)
  <1> USE DEF RefineInv, VerdictInv, TaskInv, FateInv, DeathInv
  <1>0. CreditInv /\ TypeOK
    BY DEF CreditInv
  <1> DEFINE g == GuidOf[d]
  <1>1. PICK old, new : old = store[g] /\ new = store'[g]
    OBVIOUS
  <1>2. g \in Guids /\ old \in MaybeTask /\ new \in MaybeTask
    BY <1>0, <1>1, TaskAssumption DEF TypeOK, BoardTypeOK
  <1>3. /\ old = NoTask => Phase(d) = IF sets[d] = 0 THEN "asked" ELSE "closed"
        /\ old # NoTask =>
            /\ old.state \in {"pending", "claimed"} => Phase(d) = "queued"
            /\ old.state = "running" => Phase(d) = "running"
            /\ Over(old) => Phase(d) = "finished"
            /\ old.state \in {"pending", "claimed", "running"} \/ Over(old)
    BY <1>0, <1>1, PhaseOf
  <1>4. /\ new = NoTask => Phase(d)' = IF sets'[d] = 0 THEN "asked" ELSE "closed"
        /\ new # NoTask =>
            /\ new.state \in {"pending", "claimed"} => Phase(d)' = "queued"
            /\ new.state = "running" => Phase(d)' = "running"
            /\ Over(new) => Phase(d)' = "finished"
            /\ new.state \in {"pending", "claimed", "running"} \/ Over(new)
    <2>1. new # NoTask => new.state \in TaskState
      BY <1>2 DEF MaybeTask, TaskRecord
    <2> QED
      BY <1>1, <2>1 DEF Phase, Over, TaskState
  <1>5. /\ Phase(d)' = "finished" => Verdict(d)' = new.failure
        /\ Phase(d)' = "closed" /\ replies[d] # <<>> =>
                Verdict(d)' = replies[d][Len(replies[d])]
        /\ Phase(d)' \in {"asked", "queued", "running"} => Verdict(d)' = "undecided"
    <2> HIDE DEF Phase
    <2> QED
      BY <1>1 DEF Verdict
  <1>6. /\ Phase(d) = "finished" => Verdict(d) = old.failure
        /\ Phase(d) = "closed" /\ replies[d] # <<>> =>
                Verdict(d) = replies[d][Len(replies[d])]
        /\ Phase(d) \in {"asked", "queued", "running"} => Verdict(d) = "undecided"
    BY <1>1, VerdictOf
  <1> HIDE DEF Phase, Verdict
  <1>7. CASE new = old
    <2>1. Phase(d)' = Phase(d)
      <3>1. CASE new = NoTask
        BY <1>1, <1>3, <1>4, <1>7, <3>1
      <3>2. CASE new # NoTask
        BY <1>3, <1>4, <1>7, <3>2
      <3> QED
        BY <3>1, <3>2
    <2>2. Phase(d) = "closed" => replies[d] # <<>>
      BY ClosedIsAnswered
    <2>3. Phase(d) \in {"asked", "queued", "running", "finished", "closed"}
      BY <1>3
    <2>4. Verdict(d)' = Verdict(d)
      BY <1>5, <1>6, <1>7, <2>1, <2>2, <2>3
    <2> QED
      BY <2>1, <2>4 DEF RequestMove
  <1>8. CASE new # old
    <2>1. Write(g)
      BY <1>0, <1>1, <1>2, <1>8, BoardShape
    <2>2. ASSUME NEW b \in Requests, NEW created \in Nat, NEW n \in Nat,
                 desire[b].pc = "set", GuidOf[b] = g, new = Desired(b, created, n)
          PROVE  RequestMove(d)
      <3>1. b = d
        BY <2>2 DEF SetOnce, DistinctGuids
      <3>2. old = NoTask
        BY <1>0, <1>1, <2>2, <3>1, OwnTask DEF Fresh
      <3>3. Phase(d) = "asked"
        BY <1>3, <2>2, <3>1, <3>2 DEF Unset
      <3>4. new # NoTask /\ new.state = "pending"
        BY <2>2, DesiredType, NoTaskAssumption DEF Desired
      <3>5. Phase(d)' = "queued"
        BY <1>4, <3>4
      <3> QED
        BY <1>5, <1>6, <3>3, <3>5 DEF RequestMove, Goes
    <2>3. ASSUME new = NoTask, NEW r \in Resolvers, resolver[r].pc = "delete",
                 TaskPath(resolver[r].task) = g
          PROVE  RequestMove(d)
      <3>1. resolver[r].task.request = d
        <4>1. resolver[r].task \in TaskRecord
          BY <1>0, <2>3 DEF ResolverProcess, Unresolved, TypeOK, StagerTypeOK
        <4> QED
          BY <2>3, <4>1, PathType DEF SetOnce, DistinctGuids, TaskPath
      <3>2. replies[d] # <<>>
        BY <2>3, <3>1 DEF KeptInv, Published
      <3>3. replies[d][Len(replies[d])] \in Told(d)
        BY <1>0, <3>2, LastTold
      <3>4. Over(old) /\ old \in Written /\ old.request = d
        BY <1>0, <1>1, <1>8, <2>3, <3>3, OwnTask DEF ToldVerdict, Settled
      <3>5. sets[d] > 0 /\ sets[d] \in Nat
        BY <1>0, <3>3 DEF ToldVerdict, TypeOK, StagerTypeOK
      <3>6. Phase(d) = "finished" /\ Phase(d)' = "closed"
        BY <1>1, <1>3, <1>4, <1>8, <2>3, <3>4, <3>5
      <3>7. replies[d][Len(replies[d])] = old.failure
        BY <3>3, <3>4 DEF ToldVerdict
      <3> QED
        BY <1>5, <1>6, <3>2, <3>6, <3>7 DEF RequestMove, Goes
    <2>4. ASSUME old # NoTask, Edit(old, new)
          PROVE  RequestMove(d)
      <3>1. /\ Over(old) => Over(new) /\ new.failure = old.failure
            /\ old.state = "running" => Over(new) /\ new.failure # "unclaimed"
            /\ old.state \in {"pending", "claimed"} =>
                \/ new.state \in {"pending", "claimed", "running"}
                \/ Over(new) /\ new.failure # "none"
        BY <1>2, <2>4, EditFate DEF MaybeTask
      <3>2. new # NoTask /\ new.failure \in Failure
        <4>1. new # NoTask
          BY <1>0, <1>2, <2>4, EditWritesTask, NoTaskAssumption DEF MaybeTask
        <4> QED
          BY <1>2, <4>1 DEF MaybeTask, TaskRecord
      <3>3. CASE Over(old)
        BY <1>3, <1>4, <1>5, <1>6, <2>4, <3>1, <3>2, <3>3 DEF RequestMove
      <3>4. CASE old.state = "running"
        BY <1>3, <1>4, <1>5, <1>6, <2>4, <3>1, <3>2, <3>4 DEF RequestMove, Goes
      <3>5. CASE old.state \in {"pending", "claimed"}
        BY <1>3, <1>4, <1>5, <1>6, <2>4, <3>1, <3>2, <3>5 DEF RequestMove, Goes
      <3> QED
        BY <1>3, <2>4, <3>3, <3>4, <3>5
    <2> QED
      BY <1>1, <2>1, <2>2, <2>3, <2>4 DEF Write
  <1> QED
    BY <1>7, <1>8

-----------------------------------------------------------------------------
(* The theorem.                                                             *)

LEMMA RefineInit == Init => RefineInv
  BY VerdictInit, CreditInit
  DEF SetOnce, RefineInv, KeptInv, Gone, Published, Unset, Init, StagerInit, Unresolved

LEMMA RefineStep ==
    ASSUME SetOnce
    PROVE  RefineInv /\ [Next]_vars => RefineInv'
  <1> SUFFICES ASSUME RefineInv, [Next]_vars PROVE RefineInv'
    OBVIOUS
  <1> QED
    BY VerdictStep, KeptStep, UnsetStep DEF RefineInv, SetOnce

\* A reply is the answer to a finished request, or repeats one.
LEMMA ReplyStep ==
    ASSUME SetOnce, RefineInv, RefineInv', [Next]_vars, NEW r \in Resolvers, Reply(r)
    PROVE  LET d == resolver[r].task.request
           IN  /\ d \in Requests
               /\ \A b \in Requests :
                    /\ Phase(b)' = Phase(b) /\ Verdict(b)' = Verdict(b)
                    /\ replies'[b] # <<>> <=> b = d \/ replies[b] # <<>>
               /\ Phase(d) = "finished" \/ replies[d] # <<>>
  <1> USE DEF RefineInv, VerdictInv, TaskInv, FateInv, DeathInv
  <1>0. CreditInv /\ TypeOK /\ TypeOK'
    BY DEF CreditInv
  <1>1. PICK t : t = resolver[r].task
    OBVIOUS
  <1>2. /\ t \in TaskRecord /\ t \in Written /\ Over(t)
        /\ t.request \in Requests /\ t.failure \in Failure
    <2>1. t \in Written /\ Over(t)
      BY <1>1, PublishedTask DEF Reply
    <2>2. t \in TaskRecord
      BY <1>0, <2>1, WrittenType
    <2> QED
      BY <2>1, <2>2 DEF TaskRecord
  <1>3. PICK d \in Requests : d = t.request
    BY <1>2
  <1>4. /\ UNCHANGED <<store, sets>>
        /\ replies' = [replies EXCEPT ![d] = Append(@, t.failure)]
    BY <1>1, <1>3 DEF Reply
  <1>5. \A b \in Requests : replies[b] \in Seq(Failure)
    BY <1>0 DEF TypeOK, StagerTypeOK
  <1>6. /\ replies'[d] = Append(replies[d], t.failure)
        /\ \A b \in Requests : b # d => replies'[b] = replies[b]
    BY <1>0, <1>4 DEF TypeOK, StagerTypeOK
  <1>7. replies'[d] # <<>>
    <2>1. replies[d] \in Seq(Failure)
      BY <1>5
    <2> QED
      BY <1>2, <1>6, <2>1
  <1>8. \A b \in Requests : Phase(b)' = Phase(b)
    BY <1>4 DEF Phase
  <1>9. Phase(d) = "finished" \/ (Phase(d) = "closed" /\ replies[d] # <<>>)
    <2>1. sets[d] \in Nat
      BY <1>0 DEF TypeOK, StagerTypeOK
    <2>2. Settled(GuidOf[d]) /\ sets[d] > 0
      BY <1>2, <1>3 DEF OneVerdict, Known, TaskPath
    <2>3. PICK u : u = store[GuidOf[d]]
      OBVIOUS
    <2>4. /\ u = NoTask => Phase(d) = IF sets[d] = 0 THEN "asked" ELSE "closed"
          /\ u # NoTask /\ Over(u) => Phase(d) = "finished"
      BY <1>0, <2>3, PhaseOf
    <2>5. CASE u = NoTask
      <3>1. replies[d] # <<>>
        BY <2>2, <2>3, <2>5 DEF KeptInv, Gone
      <3>2. sets[d] # 0
        BY <2>1, <2>2
      <3> QED
        BY <2>4, <2>5, <3>1, <3>2
    <2>6. CASE u # NoTask
      BY <2>2, <2>3, <2>4, <2>6 DEF Settled
    <2> QED
      BY <2>5, <2>6
  <1>10. replies[d] # <<>> =>
            replies'[d][Len(replies'[d])] = replies[d][Len(replies[d])]
    <2> SUFFICES ASSUME replies[d] # <<>>
                 PROVE  replies'[d][Len(replies'[d])] = replies[d][Len(replies[d])]
      OBVIOUS
    <2>1. replies[d][Len(replies[d])] \in Told(d)
      BY <1>0, LastTold
    <2>2. replies[d][Len(replies[d])] = t.failure
      BY <1>2, <1>3, <2>1 DEF ToldVerdict
    <2>3. replies'[d][Len(replies'[d])] = t.failure
      <3>1. replies[d] \in Seq(Failure)
        BY <1>5
      <3> QED
        BY <1>2, <1>6, <3>1
    <2> QED
      BY <2>2, <2>3
  <1>11. ASSUME NEW b \in Requests
         PROVE  Verdict(b)' = Verdict(b)
    <2>1. Phase(b) = "closed" => replies[b] # <<>>
      BY ClosedIsAnswered
    <2>2. /\ Phase(b)' = "finished" => Verdict(b)' = store'[GuidOf[b]].failure
          /\ Phase(b)' = "closed" /\ replies'[b] # <<>> =>
                Verdict(b)' = replies'[b][Len(replies'[b])]
          /\ Phase(b)' \in {"asked", "queued", "running"} => Verdict(b)' = "undecided"
      <3> HIDE DEF Phase
      <3> QED
        BY DEF Verdict
    <2>3. Phase(b) \in {"asked", "queued", "running", "finished", "closed"}
      BY <1>0, PhaseOf
    <2>4. CASE b = d
      BY <1>4, <1>7, <1>8, <1>9, <1>10, <2>2, <2>4, VerdictOf
    <2>5. CASE b # d
      BY <1>4, <1>6, <1>8, <2>1, <2>2, <2>3, <2>5, VerdictOf
    <2> QED
      BY <2>4, <2>5
  <1> QED
    BY <1>1, <1>3, <1>6, <1>7, <1>8, <1>9, <1>11

\* A request whose key does not change stays where it is.
LEMMA KeyStep ==
    ASSUME SetOnce, RefineInv, RefineInv', [Next]_vars, NEW g \in Guids, KeyChange(g)
    PROVE  \A d \in Requests :
                IF GuidOf[d] = g THEN RequestMove(d)
                ELSE Phase(d)' = Phase(d) /\ Verdict(d)' = Verdict(d)
  <1> SUFFICES ASSUME NEW d \in Requests
               PROVE  IF GuidOf[d] = g THEN RequestMove(d)
                      ELSE Phase(d)' = Phase(d) /\ Verdict(d)' = Verdict(d)
    OBVIOUS
  <1>1. CASE GuidOf[d] = g
    <2>1. TypeOK'
      BY DEF RefineInv, KeptInv, CreditInv
    <2>2. replies'[d] = replies[d] /\ (store'[GuidOf[d]] = NoTask => sets'[d] = sets[d])
      BY <1>1 DEF KeyChange
    <2> QED
      BY <1>1, <2>1, <2>2, RequestStep
  <1>2. CASE GuidOf[d] # g
    <2>1. /\ store'[GuidOf[d]] = store[GuidOf[d]]
          /\ sets'[d] = sets[d] /\ replies'[d] = replies[d]
      BY <1>2, TaskAssumption DEF KeyChange
    <2>2. Phase(d)' = Phase(d)
      BY <2>1 DEF Phase
    <2>3. Verdict(d)' = Verdict(d)
      <3> HIDE DEF Phase
      <3> QED
        BY <2>1, <2>2 DEF Verdict
    <2> QED
      BY <1>2, <2>2, <2>3
  <1> QED
    BY <1>1, <1>2

\* Every step is one that Staging allows, or does not show there.
LEMMA PromiseStep ==
    ASSUME SetOnce, RefineInv, RefineInv', [Next]_vars
    PROVE  [Promise!Next]_(Promise!stagingVars)
  <1> DEFINE phase == [d \in Requests |-> Phase(d)]
             verdict == [d \in Requests |-> Verdict(d)]
             answered == {d \in Requests : replies[d] # <<>>}
  <1>0. CreditInv /\ TypeOK
    BY DEF RefineInv, KeptInv, CreditInv
  <1>1. CASE UNCHANGED <<store, sets, replies>>
    <2>1. \A d \in Requests : Phase(d)' = Phase(d)
      BY <1>1 DEF Phase
    <2>2. \A d \in Requests : Verdict(d)' = Verdict(d)
      <3> HIDE DEF Phase
      <3> QED
        BY <1>1, <2>1 DEF Verdict
    <2> HIDE DEF Phase, Verdict
    <2> QED
      BY <1>1, <2>1, <2>2 DEF Promise!stagingVars
  <1>2. ASSUME NEW g \in Guids, KeyChange(g)
        PROVE  [Promise!Next]_(Promise!stagingVars)
    <2> HIDE DEF Phase, Verdict
    <2>1. \A d \in Requests :
                IF GuidOf[d] = g THEN RequestMove(d)
                ELSE Phase(d)' = Phase(d) /\ Verdict(d)' = Verdict(d)
      BY <1>2, KeyStep
    <2>2. UNCHANGED answered
      BY <1>2 DEF KeyChange
    <2>3. CASE \A d \in Requests : Phase(d)' = Phase(d) /\ Verdict(d)' = Verdict(d)
      BY <2>2, <2>3 DEF Promise!stagingVars
    <2>4. ASSUME NEW d \in Requests,
                 ~(Phase(d)' = Phase(d) /\ Verdict(d)' = Verdict(d))
          PROVE  Promise!Next
      <3>1. RequestMove(d) /\ GuidOf[d] = g
        BY <2>1, <2>4
      <3>2. \A b \in Requests : b # d =>
                Phase(b)' = Phase(b) /\ Verdict(b)' = Verdict(b)
        BY <2>1, <3>1 DEF SetOnce, DistinctGuids
      <3>3. phase' = [phase EXCEPT ![d] = Phase(d)']
        BY <3>2
      <3>4. verdict' = [verdict EXCEPT ![d] = Verdict(d)']
        BY <3>2
      <3>5. Verdict(d)' = Verdict(d) => verdict' = verdict
        BY <3>2
      <3>6. phase[d] = Phase(d)
        OBVIOUS
      <3>7. CASE Goes(d, "asked", "queued") /\ Verdict(d)' = Verdict(d)
        <4>1. Promise!Queue(d)
          BY <2>2, <3>3, <3>5, <3>6, <3>7 DEF Goes, Promise!Queue, Promise!Move
        <4> QED
          BY <4>1 DEF Promise!Next
      <3>8. CASE Goes(d, "queued", "running") /\ Verdict(d)' = Verdict(d)
        <4>1. Promise!Run(d)
          BY <2>2, <3>3, <3>5, <3>6, <3>8 DEF Goes, Promise!Run, Promise!Move
        <4> QED
          BY <4>1 DEF Promise!Next
      <3>9. CASE /\ Verdict(d)' \in Failure
                 /\ \/ Goes(d, "queued", "finished") /\ Verdict(d)' # "none"
                    \/ Goes(d, "running", "finished") /\ Verdict(d)' # "unclaimed"
        <4>1. PICK v \in Failure : v = Verdict(d)'
          BY <3>9
        <4>2. Promise!Finish(d, v)
          BY <2>2, <3>3, <3>4, <3>6, <3>9, <4>1 DEF Goes, Promise!Finish, Promise!Move
        <4> QED
          BY <4>2 DEF Promise!Next
      <3>10. CASE /\ Goes(d, "finished", "closed")
                  /\ Verdict(d)' = Verdict(d)
                  /\ replies[d] # <<>>
        <4>1. Promise!Close(d)
          BY <2>2, <3>3, <3>5, <3>6, <3>10 DEF Goes, Promise!Close, Promise!Move
        <4> QED
          BY <4>1 DEF Promise!Next
      <3> QED
        BY <2>4, <3>1, <3>7, <3>8, <3>9, <3>10 DEF RequestMove
    <2> QED
      BY <2>3, <2>4
  <1>3. ASSUME NEW r \in Resolvers, Reply(r)
        PROVE  [Promise!Next]_(Promise!stagingVars)
    <2>1. PICK d \in Requests :
            /\ \A b \in Requests :
                /\ Phase(b)' = Phase(b) /\ Verdict(b)' = Verdict(b)
                /\ replies'[b] # <<>> <=> b = d \/ replies[b] # <<>>
            /\ Phase(d) = "finished" \/ replies[d] # <<>>
      BY <1>3, ReplyStep
    <2> HIDE DEF Phase, Verdict
    <2>2. UNCHANGED <<phase, verdict>>
      BY <2>1
    <2>3. answered' = answered \cup {d}
      BY <2>1
    <2>4. CASE replies[d] # <<>>
      <3>1. UNCHANGED answered
        BY <2>3, <2>4
      <3> QED
        BY <2>2, <3>1 DEF Promise!stagingVars
    <2>5. CASE Phase(d) = "finished"
      <3>1. Promise!Answer(d)
        BY <2>2, <2>3, <2>5 DEF Promise!Answer
      <3> QED
        BY <3>1 DEF Promise!Next
    <2> QED
      BY <2>1, <2>4, <2>5
  <1> QED
    BY <1>0, <1>1, <1>2, <1>3, StepEffect DEF Effect

\* A task that is set once goes the way its requester was promised, whatever
\* executors, stagers and convergers make of it, crash, lose and repeat
\* (runtime-schema/models/run_once.go: TaskState; stager/handler.go: resolveTask).
THEOREM PromiseIsKept ==
    ASSUME SetOnce
    PROVE  Spec => ImplementsStaging
  <1>1. Init => Promise!Init
    <2> SUFFICES ASSUME Init PROVE Promise!Init
      OBVIOUS
    <2>1. \A d \in Requests : store[GuidOf[d]] = NoTask /\ sets[d] = 0 /\ replies[d] = <<>>
      BY TaskAssumption DEF Init, BoardInit, StagerInit
    <2>2. \A d \in Requests : Phase(d) = "asked"
      BY <2>1 DEF Phase
    <2>3. \A d \in Requests : Verdict(d) = "undecided"
      BY <2>2, VerdictOf
    <2> HIDE DEF Phase, Verdict
    <2> QED
      BY <2>1, <2>2, <2>3 DEF Promise!Init
  <1>2. RefineInv /\ RefineInv' /\ [Next]_vars => [Promise!Next]_(Promise!stagingVars)
    BY PromiseStep
  <1> QED
    BY <1>1, <1>2, RefineInit, RefineStep, PTL DEF Spec, ImplementsStaging, Promise!Spec
=============================================================================
