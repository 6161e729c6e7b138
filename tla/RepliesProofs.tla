---------------------------- MODULE RepliesProofs ---------------------------
(***************************************************************************)
(* Theorems about what a requester is told, for every number of requests,  *)
(* executors, goroutines and faults of every kind: a success was earned by *)
(* a run, and a task is not dropped before it was replied to.              *)
(***************************************************************************)
EXTENDS DiegoProofs

-----------------------------------------------------------------------------
(* A success was earned.                                                    *)
(*                                                                          *)
(* Whoever holds a task that is finished and did not fail, on the board, in *)
(* a kick, in a resolver or in a convergence pass, holds the task of a      *)
(* request whose container was run.  A running task is no evidence: after a *)
(* timed-out StartTask the board shows it running, and nobody runs it.      *)

Earned(t, s) ==
    t.state \in {"completed", "resolving"} /\ t.failure = "none" => s[t.request] > 0

BoardEarned == \A g \in Guids : store[g] # NoTask => Earned(store[g], starts)

KicksEarned ==
    \A k \in kicks : k.host = "stager" =>
        k.task.state = "completed" /\ Earned(k.task, starts)

ResolversEarned ==
    \A r \in Resolvers : resolver[r].pc # "idle" =>
        /\ resolver[r].task.state \in {"completed", "resolving"}
        /\ Earned(resolver[r].task, starts)

WorkersEarned ==
    \A w \in Workers :
        /\ worker[w].pc \in {"running", "kick"} => starts[worker[w].task.request] > 0
        /\ worker[w].pc = "kick" => worker[w].task.state = "completed"

PassesEarned ==
    \A c \in Convergers :
        /\ \A t \in pass[c].tasks : Earned(t, starts)
        /\ \A p \in pass[c].pairs : Earned(p.new, starts)

EarnedInv ==
    /\ TypeOK
    /\ BoardEarned /\ KicksEarned /\ ResolversEarned /\ WorkersEarned /\ PassesEarned
    /\ VerdictEarned

\* Runs are only ever added.
StartsGrow == \A d \in Requests : starts'[d] >= starts[d]

LEMMA EarnedKept ==
    ASSUME TypeOK, StartsGrow, TypeOK', NEW t \in TaskRecord, Earned(t, starts)
    PROVE  Earned(t, starts')
  BY PathType DEF StartsGrow, Earned, TypeOK, ExecutorTypeOK

\* A write of an earned task, or none.
LEMMA SwapEarned ==
    ASSUME TypeOK, TypeOK', BoardEarned, StartsGrow,
           NEW old, NEW new \in TaskRecord, Earned(new, starts'),
           Swap(old, new) \/ Put(new) \/ UNCHANGED store
    PROVE  BoardEarned'
  <1>1. TaskPath(new) \in Guids
    BY PathType
  <1>2. \A g \in Guids : store'[g] \in {store[g], new}
    BY <1>1 DEF Swap, Put, TypeOK, BoardTypeOK
  <1>3. \A g \in Guids : store[g] # NoTask => Earned(store[g], starts')
    BY EarnedKept DEF BoardEarned, TypeOK, BoardTypeOK, MaybeTask
  <1> QED
    BY <1>2, <1>3 DEF BoardEarned

LEMMA EarnedInit == Init => EarnedInv
  <1> SUFFICES ASSUME Init PROVE EarnedInv
    OBVIOUS
  <1>1. BoardEarned /\ KicksEarned
    BY DEF Init, BoardInit, BoardEarned, KicksEarned
  <1>2. ResolversEarned /\ VerdictEarned
    BY DEF Init, StagerInit, Unresolved, ResolversEarned, VerdictEarned
  <1>3. WorkersEarned
    BY DEF Init, ExecutorInit, NoWork, Work, WorkersEarned
  <1>4. PassesEarned
    BY DEF Init, ConvergerInit, NoPass, PassesEarned
  <1> QED
    BY <1>1, <1>2, <1>3, <1>4, InitType DEF EarnedInv

\* The stager passes on what it was kicked about.
LEMMA StagerEarned ==
    ASSUME EarnedInv, TypeOK', ByStager(StagerNext)
    PROVE  EarnedInv'
  <1> USE DEF EarnedInv
  <1> DEFINE Rest == BoardEarned /\ KicksEarned /\ ResolversEarned /\ VerdictEarned
  <1>0. UNCHANGED <<starts, worker, pass>>
    BY DEF ByStager, executorVars, convergerVars
  <1>1. WorkersEarned' /\ PassesEarned'
    BY <1>0 DEF WorkersEarned, PassesEarned
  <1>2. StartsGrow
    BY <1>0 DEF StartsGrow, TypeOK, ExecutorTypeOK
  <1>3. ASSUME NEW d \in Requests, DesireTask(d)
        PROVE  Rest'
    <2> DEFINE now == Now(GuidOf[d])
               created == IF desire[d].createdAt = 0 THEN now
                                                     ELSE desire[d].createdAt
               t == Desired(d, created, now)
    <2>1. t \in TaskRecord /\ t.state = "pending"
      <3>1. now \in Nat
        BY TaskAssumption DEF Now, TypeOK, BoardTypeOK
      <3>2. created \in Nat
        BY <3>1 DEF DesireProcess, TypeOK, StagerTypeOK
      <3> QED
        BY <3>1, <3>2, DesiredType DEF Desired
    <2>2. Put(t) \/ UNCHANGED store
      BY <1>3 DEF DesireTask, SetTask
    <2>3. UNCHANGED <<kicks, resolver, replies>>
      BY <1>3 DEF DesireTask
    <2> HIDE DEF t
    <2>4. BoardEarned'
      BY <1>2, <2>1, <2>2, SwapEarned DEF Earned
    <2> QED
      BY <1>0, <2>3, <2>4 DEF KicksEarned, ResolversEarned, VerdictEarned
  <1>4. ASSUME NEW d \in Requests,
               HandleStaging(d) \/ KickDesired(d) \/ DesireCrash(d)
        PROVE  Rest'
    <2>1. UNCHANGED <<store, resolver, replies>>
      BY <1>4 DEF HandleStaging, KickDesired, DesireCrash, boardVars
    <2>2. \A k \in kicks' : k \in kicks \/ k.host = "executor"
      BY <1>4 DEF HandleStaging, KickDesired, DesireCrash, KickDesire, boardVars
    <2> QED
      BY <1>0, <2>1, <2>2
      DEF BoardEarned, KicksEarned, ResolversEarned, VerdictEarned
  <1>5. ASSUME NEW r \in Resolvers, NEW k \in kicks, ReceiveCompleted(r, k)
        PROVE  Rest'
    <2>1. UNCHANGED <<store, kicks, replies>>
      BY <1>5 DEF ReceiveCompleted, boardVars
    <2>2. k.task.state = "completed" /\ Earned(k.task, starts)
      BY <1>5 DEF ReceiveCompleted, KicksEarned
    <2>3. \A q \in Resolvers :
            resolver'[q] \in {resolver[q], [pc |-> "resolving", task |-> k.task]}
      BY <1>5 DEF ReceiveCompleted, TypeOK, StagerTypeOK
    <2>4. ResolversEarned'
      BY <1>0, <2>2, <2>3 DEF ResolversEarned
    <2> QED
      BY <1>0, <2>1, <2>4 DEF BoardEarned, KicksEarned, VerdictEarned
  <1>6. ASSUME NEW r \in Resolvers, ResolvingTask(r)
        PROVE  Rest'
    <2> DEFINE old == resolver[r].task
               new == Resolving(old, Now(TaskPath(old)))
    <2>1. old \in TaskRecord
      BY <1>6 DEF ResolvingTask, ResolverProcess, Unresolved, TypeOK, StagerTypeOK
    <2>2. old.state \in {"completed", "resolving"} /\ Earned(old, starts)
      BY <1>6 DEF ResolvingTask, ResolversEarned
    <2>3. Now(TaskPath(old)) \in Nat
      BY <2>1, NowType DEF TypeOK
    <2>4. /\ Swap(old, new) \/ UNCHANGED store
          /\ \/ resolver' = [resolver EXCEPT ![r] = [pc |-> "publish", task |-> new]]
             \/ UNCHANGED resolver
             \/ resolver' = [resolver EXCEPT ![r] = Unresolved]
      BY <1>6 DEF ResolvingTask, RetryCompareAndSwap
    <2>5. UNCHANGED <<kicks, replies>>
      BY <1>6 DEF ResolvingTask
    <2>6. new \in TaskRecord /\ new.state = "resolving" /\ Earned(new, starts)
      <3> HIDE DEF old
      <3>1. new \in TaskRecord
        BY <2>1, <2>3, EditsType
      <3>2. /\ new.state = "resolving" /\ new.request = old.request
            /\ new.failure = old.failure
        BY <2>1 DEF Resolving, TaskRecord
      <3> QED
        BY <2>2, <3>1, <3>2 DEF Earned
    <2> HIDE DEF old, new
    <2>7. BoardEarned'
      BY <1>0, <1>2, <2>4, <2>6, SwapEarned
    <2>8. \A q \in Resolvers :
            resolver'[q] \in {resolver[q], Unresolved, [pc |-> "publish", task |-> new]}
      BY <2>4 DEF TypeOK, StagerTypeOK
    <2>9. ResolversEarned'
      BY <1>0, <2>6, <2>8 DEF ResolversEarned, Unresolved
    <2> QED
      BY <1>0, <2>5, <2>7, <2>9 DEF KicksEarned, VerdictEarned
  <1>7. ASSUME NEW r \in Resolvers, PublishReply(r)
        PROVE  Rest'
    <2> DEFINE t == resolver[r].task
    <2>1. UNCHANGED <<store, kicks>>
      BY <1>7 DEF PublishReply
    <2>2. /\ t \in TaskRecord /\ t.state \in {"completed", "resolving"}
          /\ Earned(t, starts)
      BY <1>7 DEF PublishReply, ResolversEarned, ResolverProcess, Unresolved,
                  TypeOK, StagerTypeOK
    <2>3. /\ \/ replies' = [replies EXCEPT ![t.request] = Append(@, t.failure)]
             \/ UNCHANGED replies
          /\ \/ resolver' = [resolver EXCEPT ![r] = [pc |-> "delete", task |-> t]]
             \/ resolver' = [resolver EXCEPT ![r] = Unresolved]
      BY <1>7 DEF PublishReply
    <2> HIDE DEF t
    <2>4. ResolversEarned'
      <3>1. \A q \in Resolvers :
              resolver'[q] \in {resolver[q], Unresolved, [pc |-> "delete", task |-> t]}
        BY <2>3 DEF TypeOK, StagerTypeOK
      <3> QED
        BY <1>0, <2>2, <3>1 DEF ResolversEarned, Unresolved
    <2>5. ASSUME NEW d \in Requests, NEW i \in DOMAIN replies'[d],
                 replies'[d][i] = "none"
          PROVE  starts[d] > 0
      <3>1. replies[d] \in Seq(Failure) /\ t.failure \in Failure
        BY <2>2 DEF TypeOK, StagerTypeOK, TaskRecord
      <3>2. CASE replies'[d] = replies[d]
        BY <2>5, <3>2 DEF VerdictEarned
      <3>3. CASE d = t.request /\ replies'[d] = Append(replies[d], t.failure)
        <4>1. CASE i \in DOMAIN replies[d]
          BY <2>5, <3>1, <3>3, <4>1 DEF VerdictEarned
        <4>2. CASE i \notin DOMAIN replies[d]
          <5>1. replies'[d][i] = t.failure
            BY <2>5, <3>1, <3>3, <4>2
          <5> QED
            BY <2>2, <2>5, <3>3, <5>1 DEF Earned
        <4> QED
          BY <4>1, <4>2
      <3> QED
        BY <2>3, <3>2, <3>3 DEF TypeOK, StagerTypeOK
    <2>6. VerdictEarned'
      BY <1>0, <2>5 DEF VerdictEarned
    <2> QED
      BY <1>0, <2>1, <2>4, <2>6 DEF BoardEarned, KicksEarned
  <1>8. ASSUME NEW r \in Resolvers, ResolveTask(r) \/ ResolverCrash(r)
        PROVE  Rest'
    <2>1. UNCHANGED <<kicks, replies>>
      BY <1>8 DEF ResolveTask, ResolverCrash
    <2>2. \A g \in Guids : store'[g] \in {store[g], NoTask}
      BY <1>8 DEF ResolveTask, ResolverCrash, TypeOK, BoardTypeOK
    <2>3. \A q \in Resolvers : resolver'[q] \in {resolver[q], Unresolved}
      BY <1>8 DEF ResolveTask, ResolverCrash, TypeOK, StagerTypeOK
    <2>4. ResolversEarned'
      BY <1>0, <2>3 DEF ResolversEarned, Unresolved
    <2> QED
      BY <1>0, <2>1, <2>2, <2>4 DEF BoardEarned, KicksEarned, VerdictEarned
  <1> QED
    BY <1>1, <1>3, <1>4, <1>5, <1>6, <1>7, <1>8
    DEF ByStager, StagerNext, DesireStep, ResolverStep

\* The executor: only a goroutine that has run the container completes a task.
LEMMA ExecutorEarned ==
    ASSUME EarnedInv, TypeOK', ByExecutor(ExecutorNext)
    PROVE  EarnedInv'
  <1> USE DEF EarnedInv
  <1> DEFINE Rest == BoardEarned /\ KicksEarned /\ WorkersEarned
  <1>0. UNCHANGED <<resolver, replies, pass>>
    BY DEF ByExecutor, stagerVars, convergerVars
  <1>1. ASSUME StartsGrow
        PROVE  ResolversEarned' /\ PassesEarned' /\ VerdictEarned'
    <2>1. \A r \in Resolvers : resolver[r].pc # "idle" => resolver[r].task \in TaskRecord
      BY DEF ResolverProcess, Unresolved, TypeOK, StagerTypeOK
    <2>2. ResolversEarned'
      BY <1>0, <1>1, <2>1, EarnedKept DEF ResolversEarned
    <2>3. \A c \in Convergers :
            pass[c].tasks \subseteq TaskRecord /\ pass[c].pairs \subseteq Pair
      BY DEF Pass, TypeOK, ConvergerTypeOK
    <2>4. PassesEarned'
      BY <1>0, <1>1, <2>3, EarnedKept DEF PassesEarned, Pair
    <2>5. VerdictEarned'
      BY <1>0, <1>1 DEF StartsGrow, VerdictEarned, TypeOK, ExecutorTypeOK
    <2> QED
      BY <2>2, <2>4, <2>5
  <1>2. ASSUME NEW e \in Executors,
               \/ Boot(e) \/ Announce(e)
               \/ LosePresence(e) \/ RegainPresence(e) \/ ExpirePresence(e)
        PROVE  StartsGrow /\ Rest'
    <2>1. UNCHANGED <<store, kicks, starts, worker>>
      BY <1>2 DEF Boot, Announce, LosePresence, RegainPresence, ExpirePresence, boardVars
    <2> QED
      BY <2>1 DEF StartsGrow, BoardEarned, KicksEarned, WorkersEarned, TypeOK,
                  ExecutorTypeOK
  <1>3. ASSUME NEW w \in Workers, NEW e \in Executors, NEW k \in kicks,
               ReceiveDesired(w, e, k)
        PROVE  StartsGrow /\ Rest'
    <2>1. UNCHANGED <<store, kicks, starts>>
      BY <1>3 DEF ReceiveDesired, boardVars
    <2>2. \A v \in Workers : worker'[v] \in {worker[v], Work("claim", e, k.task)}
      BY <1>3 DEF ReceiveDesired, TypeOK, ExecutorTypeOK
    <2>3. WorkersEarned'
      BY <2>1, <2>2 DEF WorkersEarned, Work
    <2> QED
      BY <2>1, <2>3 DEF StartsGrow, BoardEarned, KicksEarned, TypeOK, ExecutorTypeOK
  <1>4. ASSUME NEW w \in Workers, ClaimTask(w)
        PROVE  StartsGrow /\ Rest'
    <2> DEFINE old == worker[w].task
               e == worker[w].exec
               new == Claimed(old, e, Now(TaskPath(old)))
    <2>1. worker[w].pc # "idle" /\ old \in TaskRecord /\ e \in Executors
      BY <1>4, WorkType DEF ClaimTask, TypeOK
    <2>2. new \in TaskRecord /\ new.state = "claimed"
      <3>1. Now(TaskPath(old)) \in Nat
        BY <2>1, NowType DEF TypeOK
      <3> HIDE DEF old, e
      <3> QED
        BY <2>1, <3>1, EditsType, EditsFields
    <2>3. /\ Swap(old, new) \/ UNCHANGED store
          /\ \/ worker' = [worker EXCEPT ![w] = Work("start", e, new)]
             \/ UNCHANGED worker
             \/ Return(w)
          /\ UNCHANGED <<kicks, starts>>
      BY <1>4 DEF ClaimTask, RetryCompareAndSwap
    <2> HIDE DEF old, e, new
    <2>4. StartsGrow
      BY <2>3 DEF StartsGrow, TypeOK, ExecutorTypeOK
    <2>5. BoardEarned'
      BY <2>2, <2>3, <2>4, SwapEarned DEF Earned
    <2>6. \A v \in Workers : worker'[v] \in {worker[v], NoWork, Work("start", e, new)}
      BY <2>3 DEF Return, TypeOK, ExecutorTypeOK
    <2>7. WorkersEarned'
      BY <2>3, <2>6 DEF WorkersEarned, NoWork, Work
    <2> QED
      BY <2>3, <2>4, <2>5, <2>7 DEF KicksEarned
  <1>5. ASSUME NEW w \in Workers, StartTask(w)
        PROVE  StartsGrow /\ Rest'
    <2> DEFINE old == worker[w].task
               new == Started(old, Now(TaskPath(old)))
               e == worker[w].exec
    <2>1. /\ worker[w].pc # "idle" /\ old \in TaskRecord /\ old.request \in Requests
          /\ worker[w].exec \in Executors
      BY <1>5, WorkType, PathType DEF StartTask, TypeOK
    <2>2. /\ new \in TaskRecord /\ new.request = old.request /\ new.state = "running"
      <3>1. Now(TaskPath(old)) \in Nat
        BY <2>1, NowType DEF TypeOK
      <3> HIDE DEF old
      <3> QED
        BY <2>1, <3>1, EditsType, EditsFields
    <2>3. /\ Swap(old, new) \/ UNCHANGED store
          /\ UNCHANGED kicks
          /\ \/ /\ worker' = [worker EXCEPT ![w] = Work("running", e, new)]
                /\ starts' = [starts EXCEPT ![old.request] = @ + 1]
             \/ (UNCHANGED worker \/ Return(w)) /\ UNCHANGED starts
      BY <1>5 DEF StartTask, RetryCompareAndSwap
    <2> HIDE DEF old, e, new
    <2>4. /\ \A d \in Requests : starts[d] \in Nat /\ starts'[d] \in Nat
          /\ StartsGrow
      BY <2>3 DEF StartsGrow, TypeOK, ExecutorTypeOK
    <2>5. BoardEarned'
      BY <2>2, <2>3, <2>4, SwapEarned DEF Earned
    <2>6. KicksEarned'
      BY <2>3, <2>4, EarnedKept DEF KicksEarned, TypeOK, BoardTypeOK, Kick
    <2>7. ASSUME worker' = [worker EXCEPT ![w] = Work("running", e, new)],
                 starts' = [starts EXCEPT ![old.request] = @ + 1]
          PROVE  WorkersEarned'
      <3>1. \A v \in Workers :
                worker'[v] = IF v = w THEN Work("running", e, new) ELSE worker[v]
        BY <2>7 DEF TypeOK, ExecutorTypeOK
      <3>2. starts'[old.request] > 0
        BY <2>1, <2>4, <2>7 DEF TypeOK, ExecutorTypeOK
      <3>3. \A v \in Workers : worker[v].pc # "idle" => worker[v].task.request \in Requests
        BY WorkType, PathType DEF TypeOK
      <3>4. \A v \in Workers : worker[v].pc \in {"running", "kick"} =>
                starts'[worker[v].task.request] > 0
        BY <2>4, <3>3 DEF WorkersEarned, StartsGrow
      <3> QED
        BY <2>2, <3>1, <3>2, <3>4 DEF WorkersEarned, Work
    <2>8. ASSUME UNCHANGED worker \/ Return(w), UNCHANGED starts
          PROVE  WorkersEarned'
      <3>1. \A v \in Workers : worker'[v] \in {worker[v], NoWork}
        BY <2>8 DEF Return, TypeOK, ExecutorTypeOK
      <3> QED
        BY <2>8, <3>1 DEF WorkersEarned, NoWork, Work
    <2> QED
      BY <2>3, <2>4, <2>5, <2>6, <2>7, <2>8
  <1>6. ASSUME NEW w \in Workers, CompleteTask(w)
        PROVE  StartsGrow /\ Rest'
    <2> DEFINE old == worker[w].task
               new == Finished(old, Now(TaskPath(old)))
               e == worker[w].exec
    <2>1. worker[w].pc # "idle" /\ old \in TaskRecord /\ starts[old.request] > 0
      BY <1>6, WorkType DEF CompleteTask, TypeOK, WorkersEarned
    <2>2. new \in TaskRecord /\ new.request = old.request /\ new.state = "completed"
      <3>1. Now(TaskPath(old)) \in Nat
        BY <2>1, NowType DEF TypeOK
      <3> HIDE DEF old
      <3> QED
        BY <2>1, <3>1, EditsType, EditsFields
    <2>3. /\ Swap(old, new) \/ UNCHANGED store
          /\ \/ worker' = [worker EXCEPT ![w] = Work("kick", e, new)]
             \/ UNCHANGED worker
             \/ Return(w)
          /\ UNCHANGED <<kicks, starts>>
      BY <1>6 DEF CompleteTask, RetryCompareAndSwap
    <2> HIDE DEF old, e, new
    <2>4. StartsGrow
      BY <2>3 DEF StartsGrow, TypeOK, ExecutorTypeOK
    <2>5. BoardEarned'
      BY <2>1, <2>2, <2>3, <2>4, SwapEarned DEF Earned
    <2>6. \A v \in Workers : worker'[v] \in {worker[v], NoWork, Work("kick", e, new)}
      BY <2>3 DEF Return, TypeOK, ExecutorTypeOK
    <2>7. WorkersEarned'
      BY <2>1, <2>2, <2>3, <2>6 DEF WorkersEarned, NoWork, Work
    <2> QED
      BY <2>3, <2>4, <2>5, <2>7 DEF KicksEarned
  <1>7. ASSUME NEW w \in Workers, KickCompleted(w)
        PROVE  StartsGrow /\ Rest'
    <2>1. UNCHANGED <<store, starts>> /\ Return(w) /\ worker[w].pc = "kick"
      BY <1>7 DEF KickCompleted
    <2>2. /\ worker[w].task.state = "completed"
          /\ starts[worker[w].task.request] > 0
      BY <2>1 DEF WorkersEarned
    <2>3. KicksEarned'
      BY <1>7, <2>1, <2>2 DEF KickCompleted, KickComplete, KicksEarned, Earned
    <2>4. \A v \in Workers : worker'[v] \in {worker[v], NoWork}
      BY <2>1 DEF Return, TypeOK, ExecutorTypeOK
    <2>5. WorkersEarned'
      BY <2>1, <2>4 DEF WorkersEarned, NoWork, Work
    <2> QED
      BY <2>1, <2>3, <2>5 DEF StartsGrow, BoardEarned, TypeOK, ExecutorTypeOK
  <1> QED
    BY <1>1, <1>2, <1>3, <1>4, <1>5, <1>6, <1>7
    DEF ByExecutor, ExecutorNext, WorkerStep

\* What the converger writes over an earned task is earned.
LEMMA RepairsEarned ==
    ASSUME NEW t \in TaskRecord, Earned(t, starts), NEW listed,
           NEW n \in Repairs(t, listed)
    PROVE  Earned(n, starts)
  <1>1. \/ n \in {MarkTaskFailed(t, "unclaimed"), MarkTaskFailed(t, "disappeared")}
        \/ n = DemoteToPending(t)
        \/ n = DemoteToCompleted(t) /\ t.state = "resolving"
    BY DEF Repairs
  <1>2. ASSUME NEW reason \in {"unclaimed", "disappeared"}, n = MarkTaskFailed(t, reason)
        PROVE  n.failure # "none"
    BY <1>2 DEF MarkTaskFailed, TaskRecord
  <1>3. CASE n = DemoteToPending(t)
    BY <1>3 DEF DemoteToPending, TaskRecord, Earned
  <1>4. CASE n = DemoteToCompleted(t) /\ t.state = "resolving"
    BY <1>4 DEF DemoteToCompleted, TaskRecord, Earned
  <1> QED
    BY <1>1, <1>2, <1>3, <1>4 DEF Earned

\* The converger: it fails tasks, and repeats verdicts that were earned before.
LEMMA ConvergerEarned ==
    ASSUME EarnedInv, TypeOK', ByConverger(ConvergerNext)
    PROVE  EarnedInv'
  <1> USE DEF EarnedInv
  <1> DEFINE Rest == BoardEarned /\ KicksEarned /\ WorkersEarned /\ PassesEarned
  <1>0. UNCHANGED <<resolver, replies>>
    BY DEF ByConverger, stagerVars
  <1>1. ASSUME NEW c \in Convergers, NEW p \in pass[c].pairs
        PROVE  /\ p.old \in TaskRecord /\ p.new \in TaskRecord
               /\ Earned(p.new, starts)
    BY DEF PassesEarned, Pass, Pair, TypeOK, ConvergerTypeOK
  <1>2. ASSUME ExpireLock \/ LoseLock \/ \E c \in Convergers : AcquireLock(c)
        PROVE  UNCHANGED starts /\ Rest'
    <2>1. UNCHANGED <<store, kicks, executorVars, pass>>
      BY <1>2 DEF ExpireLock, LoseLock, AcquireLock, boardVars
    <2> QED
      BY <2>1 DEF executorVars, BoardEarned, KicksEarned, WorkersEarned, PassesEarned
  <1>3. ASSUME NEW c \in Convergers, ListTasks(c)
        PROVE  UNCHANGED starts /\ Rest'
    <2>1. UNCHANGED <<store, kicks, executorVars>>
      BY <1>3 DEF ListTasks, boardVars
    <2>2. \A b \in Convergers :
            \/ pass'[b] = pass[b]
            \/ pass'[b].tasks = StoredTasks /\ pass'[b].pairs = {}
      BY <1>3 DEF ListTasks, TypeOK, ConvergerTypeOK
    <2>3. \A t \in StoredTasks : Earned(t, starts)
      BY DEF StoredTasks, BoardEarned
    <2>4. PassesEarned'
      BY <2>1, <2>2, <2>3 DEF executorVars, PassesEarned
    <2> QED
      BY <2>1, <2>4 DEF executorVars, BoardEarned, KicksEarned, WorkersEarned
  <1>4. ASSUME NEW c \in Convergers, ListExecutors(c)
        PROVE  UNCHANGED starts /\ Rest'
    <2> DEFINE tasks == pass[c].tasks
               pairs == UNION {{[old |-> t, new |-> n] : n \in Repairs(t, present)} :
                                   t \in tasks}
    <2>1. UNCHANGED <<store, executorVars>>
      BY <1>4 DEF ListExecutors
    <2>2. \A t \in tasks : t \in TaskRecord /\ Earned(t, starts)
      BY DEF PassesEarned, Pass, TypeOK, ConvergerTypeOK
    <2>3. \A p \in pairs : Earned(p.new, starts)
      BY <2>2, RepairsEarned
    <2>4. kicks' \in {kicks \cup KicksFor(tasks), kicks}
      BY <1>4 DEF ListExecutors
    <2>5. KicksEarned'
      BY <2>1, <2>2, <2>4 DEF executorVars, KicksEarned, KicksFor
    <2>6. \/ pass' = [pass EXCEPT ![c] = Remaining(pairs)]
          \/ pass' = [pass EXCEPT ![c] = NoPass]
      BY <1>4 DEF ListExecutors
    <2> HIDE DEF pairs
    <2>7. \A b \in Convergers :
            \/ pass'[b] = pass[b]
            \/ pass'[b].tasks = {} /\ pass'[b].pairs \in {pairs, {}}
      BY <2>6 DEF Remaining, NoPass, TypeOK, ConvergerTypeOK
    <2>8. PassesEarned'
      BY <2>1, <2>3, <2>7 DEF executorVars, PassesEarned
    <2> QED
      BY <2>1, <2>5, <2>8 DEF executorVars, BoardEarned, WorkersEarned
  <1>5. ASSUME NEW c \in Convergers, NEW p \in pass[c].pairs, SwapPair(c, p)
        PROVE  UNCHANGED starts /\ Rest'
    <2> DEFINE new == Stamped(p.new, Now(TaskPath(p.old)))
    <2>1. new \in TaskRecord /\ Earned(new, starts)
      <3>1. p.old \in TaskRecord /\ p.new \in TaskRecord /\ Earned(p.new, starts)
        BY <1>1
      <3>2. new \in TaskRecord
        BY <3>1, NowType, EditsType DEF TypeOK
      <3>3. /\ new.state = p.new.state /\ new.request = p.new.request
            /\ new.failure = p.new.failure
        BY <3>1 DEF Stamped, TaskRecord
      <3> QED
        BY <3>1, <3>2, <3>3 DEF Earned
    <2>2. Swap(p.old, new) \/ UNCHANGED store
      BY <1>5 DEF SwapPair
    <2>3. UNCHANGED <<kicks, executorVars>>
      BY <1>5 DEF SwapPair
    <2> HIDE DEF new
    <2>4. starts' = starts /\ StartsGrow
      BY <2>3 DEF executorVars, StartsGrow, TypeOK, ExecutorTypeOK
    <2>5. BoardEarned'
      BY <2>1, <2>2, <2>4, SwapEarned
    <2>6. \A b \in Convergers :
            \/ pass'[b] = pass[b]
            \/ pass'[b].tasks = {} /\ pass'[b].pairs \subseteq pass[b].pairs
      BY <1>5 DEF SwapPair, Remaining, NoPass, TypeOK, ConvergerTypeOK
    <2>7. PassesEarned'
      BY <2>4, <2>6 DEF PassesEarned
    <2> QED
      BY <2>3, <2>4, <2>5, <2>7 DEF executorVars, KicksEarned, WorkersEarned
  <1>6. ASSUME NEW e \in Executors, ExecutorExit(e)
        PROVE  UNCHANGED starts /\ Rest'
    <2>1. UNCHANGED <<store, kicks, starts>> /\ Die(e)
      BY <1>6 DEF ExecutorExit, Exit, Crash, Die, boardVars
    <2>2. \A w \in Workers : worker'[w] \in {worker[w], NoWork}
      BY <2>1 DEF Die
    <2>3. WorkersEarned'
      BY <2>1, <2>2 DEF WorkersEarned, NoWork, Work
    <2>4. PassesEarned'
      BY <1>6, <2>1 DEF ExecutorExit, NoPass, PassesEarned
    <2> QED
      BY <2>1, <2>3, <2>4 DEF BoardEarned, KicksEarned
  <1>7. ASSUME UNCHANGED starts
        PROVE  ResolversEarned' /\ VerdictEarned'
    BY <1>0, <1>7 DEF ResolversEarned, VerdictEarned
  <1>8. ConvergerNext
    BY DEF ByConverger
  <1>9. UNCHANGED starts /\ Rest'
    <2> HIDE DEF Rest
    <2> QED
      BY <1>2, <1>3, <1>4, <1>5, <1>6, <1>8 DEF ConvergerNext, PassStep
  <1> QED
    BY <1>7, <1>9

LEMMA EarnedStep == EarnedInv /\ [Next]_vars => EarnedInv'
  <1> SUFFICES ASSUME EarnedInv, [Next]_vars PROVE EarnedInv'
    OBVIOUS
  <1>1. TypeOK'
    BY StepType DEF EarnedInv
  <1>2. ASSUME UNCHANGED <<store, kicks, stagerVars, executorVars, convergerVars>>
        PROVE  EarnedInv'
    BY <1>1, <1>2 DEF stagerVars, executorVars, convergerVars, EarnedInv,
                      BoardEarned, KicksEarned, ResolversEarned, WorkersEarned,
                      PassesEarned, VerdictEarned
  <1>3. ASSUME NEW g \in Guids, ThirtySeconds(g) \/ TimeToClaim(g)
        PROVE  EarnedInv'
    BY <1>2, <1>3 DEF ThirtySeconds, GrowOld, TimeToClaim
  <1>4. CASE UNCHANGED vars
    BY <1>2, <1>4 DEF vars, boardVars
  <1> QED
    BY <1>1, <1>3, <1>4, StagerEarned, ExecutorEarned, ConvergerEarned DEF Next

\* A requester is told of success only when the container of its task was run,
\* through stale kicks, demotions, retries and overwritten tasks
\* (executor_bbs.go: CompleteTask, ConvergeTasks; stager/handler.go: resolveTask).
THEOREM VerdictsAreEarned == Spec => []VerdictEarned
  <1>1. EarnedInv => VerdictEarned
    BY DEF EarnedInv
  <1> QED
    BY <1>1, EarnedInit, EarnedStep, PTL DEF Spec

-----------------------------------------------------------------------------
(* A task is kept until it was replied to.                                  *)
(*                                                                          *)
(* Delete does not compare, so this needs every key to belong to one        *)
(* request.  A resolver that goes to delete has replied for the request of  *)
(* its task, and that is the request whose key it clears.                   *)

DistinctGuids == \A d, e \in Requests : GuidOf[d] = GuidOf[e] => d = e

Gone == \A d \in Requests : sets[d] > 0 /\ store[GuidOf[d]] = NoTask => replies[d] # <<>>

Published ==
    \A r \in Resolvers :
        resolver[r].pc = "delete" => replies[resolver[r].task.request] # <<>>

KeptInv == CreditInv /\ Gone /\ Published

\* No key is cleared.
NoneCleared == \A g \in Guids : store[g] # NoTask => store'[g] # NoTask

LEMMA PutClearsNone ==
    ASSUME TypeOK, NEW old, NEW new \in TaskRecord,
           Put(new) \/ Swap(old, new) \/ UNCHANGED store
    PROVE  NoneCleared
  BY PathType, NoTaskAssumption DEF NoneCleared, Put, Swap, TypeOK, BoardTypeOK

\* A step that clears no key, replies to nobody and sets nothing.
LEMMA GoneKept ==
    ASSUME TypeOK, Gone, NoneCleared, UNCHANGED <<sets, replies>>
    PROVE  Gone'
  BY TaskAssumption DEF Gone, NoneCleared

\* Executors write tasks and clear none.
LEMMA ExecutorClearsNone ==
    ASSUME TypeOK, ExecutorNext
    PROVE  NoneCleared
  <1>1. ASSUME NEW e \in Executors,
               \/ Boot(e) \/ Announce(e)
               \/ LosePresence(e) \/ RegainPresence(e) \/ ExpirePresence(e)
        PROVE  NoneCleared
    BY <1>1 DEF Boot, Announce, LosePresence, RegainPresence, ExpirePresence, boardVars, NoneCleared
  <1>2. ASSUME NEW w \in Workers, NEW e \in Executors, NEW k \in kicks,
               ReceiveDesired(w, e, k)
        PROVE  NoneCleared
    BY <1>2 DEF ReceiveDesired, boardVars, NoneCleared
  <1>3. ASSUME NEW w \in Workers, WorkerStep(w)
        PROVE  NoneCleared
    <2> DEFINE old == worker[w].task
               e == worker[w].exec
               now == Now(TaskPath(old))
    <2>1. worker[w].pc # "idle"
      BY <1>3 DEF WorkerStep, ClaimTask, StartTask, CompleteTask, KickCompleted
    <2>2. old \in TaskRecord /\ e \in Executors /\ now \in Nat
      BY <2>1, WorkType, NowType DEF TypeOK
    <2>3. \/ Swap(old, Claimed(old, e, now))
          \/ Swap(old, Started(old, now))
          \/ Swap(old, Finished(old, now))
          \/ UNCHANGED store
      BY <1>3 DEF WorkerStep, ClaimTask, StartTask, CompleteTask, KickCompleted,
                  RetryCompareAndSwap
    <2> HIDE DEF old, e, now
    <2>4. /\ Claimed(old, e, now) \in TaskRecord
          /\ Started(old, now) \in TaskRecord
          /\ Finished(old, now) \in TaskRecord
      BY <2>2, EditsType
    <2>5. CASE UNCHANGED store
      BY <2>5 DEF NoneCleared
    <2> QED
      BY <2>3, <2>4, <2>5, PutClearsNone
  <1> QED
    BY <1>1, <1>2, <1>3 DEF ExecutorNext

\* So does the converger.
LEMMA ConvergerClearsNone ==
    ASSUME TypeOK, ConvergerNext
    PROVE  NoneCleared
  <1>1. ASSUME UNCHANGED store
        PROVE  NoneCleared
    BY <1>1 DEF NoneCleared
  <1>2. ASSUME ExpireLock \/ LoseLock
        PROVE  UNCHANGED store
    BY <1>2 DEF ExpireLock, LoseLock, boardVars
  <1>3. ASSUME NEW c \in Convergers, AcquireLock(c) \/ ListTasks(c) \/ ListExecutors(c)
        PROVE  UNCHANGED store
    BY <1>3 DEF AcquireLock, ListTasks, ListExecutors, boardVars
  <1>4. ASSUME NEW e \in Executors, ExecutorExit(e)
        PROVE  UNCHANGED store
    BY <1>4 DEF ExecutorExit, Exit, Crash, Die, boardVars
  <1>5. ASSUME NEW c \in Convergers, NEW p \in pass[c].pairs, SwapPair(c, p)
        PROVE  NoneCleared
    <2> DEFINE new == Stamped(p.new, Now(TaskPath(p.old)))
    <2>1. p.old \in TaskRecord /\ p.new \in TaskRecord
      BY DEF Pass, Pair, TypeOK, ConvergerTypeOK
    <2>2. new \in TaskRecord
      BY <2>1, NowType, EditsType DEF TypeOK
    <2>3. Swap(p.old, new) \/ UNCHANGED store
      BY <1>5 DEF SwapPair
    <2> HIDE DEF new
    <2> QED
      BY <2>2, <2>3, PutClearsNone
  <1> QED
    BY <1>1, <1>2, <1>3, <1>4, <1>5 DEF ConvergerNext, PassStep

LEMMA StagerKeeps ==
    ASSUME DistinctGuids, KeptInv, StagerNext
    PROVE  Gone' /\ Published'
  <1> USE DEF KeptInv, CreditInv
  <1>1. ASSUME NEW d \in Requests, DesireTask(d)
        PROVE  Gone' /\ Published'
    <2> DEFINE now == Now(GuidOf[d])
               created == IF desire[d].createdAt = 0 THEN now
                                                     ELSE desire[d].createdAt
               t == Desired(d, created, now)
    <2>1. t \in TaskRecord
      <3>1. now \in Nat
        BY TaskAssumption DEF Now, TypeOK, BoardTypeOK
      <3>2. created \in Nat
        BY <3>1 DEF DesireProcess, TypeOK, StagerTypeOK
      <3> QED
        BY <3>1, <3>2, DesiredType
    <2>2. TaskPath(t) = GuidOf[d]
      BY DEF Desired, TaskPath
    <2>3. /\ UNCHANGED <<resolver, replies>>
          /\ \/ Put(t) /\ sets' = [sets EXCEPT ![d] = @ + 1]
             \/ UNCHANGED <<store, sets>>
      BY <1>1 DEF DesireTask, SetTask
    <2> HIDE DEF t
    <2>4. NoneCleared
      BY <2>1, <2>3, PutClearsNone
    <2>5. UNCHANGED sets \/ store'[GuidOf[d]] # NoTask
      BY <2>1, <2>2, <2>3, TaskAssumption, NoTaskAssumption
      DEF Put, TypeOK, BoardTypeOK
    <2>6. \A b \in Requests : b # d => sets'[b] = sets[b]
      BY <2>3 DEF TypeOK, StagerTypeOK
    <2>7. Gone'
      BY <2>3, <2>4, <2>5, <2>6, TaskAssumption DEF Gone, NoneCleared
    <2> QED
      BY <2>3, <2>7 DEF Published
  <1>2. ASSUME NEW d \in Requests, HandleStaging(d) \/ KickDesired(d) \/ DesireCrash(d)
        PROVE  Gone' /\ Published'
    <2>1. UNCHANGED <<store, sets, replies, resolver>>
      BY <1>2 DEF HandleStaging, KickDesired, DesireCrash, boardVars
    <2> QED
      BY <2>1 DEF Gone, Published
  <1>3. ASSUME NEW r \in Resolvers,
               \/ \E k \in kicks : ReceiveCompleted(r, k)
               \/ ResolvingTask(r) \/ ResolverCrash(r)
        PROVE  Gone' /\ Published'
    <2>1. UNCHANGED <<sets, replies>>
      BY <1>3 DEF ReceiveCompleted, ResolvingTask, ResolverCrash
    <2>2. \A q \in Resolvers :
            resolver'[q].pc = "delete" => resolver'[q] = resolver[q]
      BY <1>3 DEF ReceiveCompleted, ResolvingTask, ResolverCrash, RetryCompareAndSwap,
                  Unresolved, TypeOK, StagerTypeOK
    <2>3. NoneCleared
      <3>1. CASE UNCHANGED store
        BY <3>1 DEF NoneCleared
      <3>2. CASE ResolvingTask(r)
        <4> DEFINE old == resolver[r].task
                   new == Resolving(old, Now(TaskPath(old)))
        <4>1. old \in TaskRecord
          BY <3>2 DEF ResolvingTask, ResolverProcess, Unresolved, TypeOK, StagerTypeOK
        <4>2. new \in TaskRecord
          BY <4>1, NowType, EditsType DEF TypeOK
        <4>3. Swap(old, new) \/ UNCHANGED store
          BY <3>2 DEF ResolvingTask, RetryCompareAndSwap
        <4> HIDE DEF old, new
        <4> QED
          BY <4>2, <4>3, PutClearsNone
      <3> QED
        BY <1>3, <3>1, <3>2 DEF ReceiveCompleted, ResolverCrash, boardVars
    <2> QED
      BY <2>1, <2>2, <2>3, GoneKept DEF Published
  <1>4. ASSUME NEW r \in Resolvers, PublishReply(r)
        PROVE  Gone' /\ Published'
    <2> DEFINE t == resolver[r].task
    <2>1. UNCHANGED <<store, sets>>
      BY <1>4 DEF PublishReply
    <2>2. t \in TaskRecord /\ t.request \in Requests /\ t.failure \in Failure
      BY <1>4, PathType DEF PublishReply, ResolverProcess, Unresolved, TypeOK,
                            StagerTypeOK, TaskRecord
    <2>3. \/ /\ replies' = [replies EXCEPT ![t.request] = Append(@, t.failure)]
             /\ resolver' = [resolver EXCEPT ![r] = [pc |-> "delete", task |-> t]]
          \/ UNCHANGED replies /\ resolver' = [resolver EXCEPT ![r] = Unresolved]
      BY <1>4 DEF PublishReply
    <2> HIDE DEF t
    <2>4. \A d \in Requests : replies[d] # <<>> => replies'[d] # <<>>
      <3>1. \A d \in Requests : replies[d] \in Seq(Failure)
        BY DEF TypeOK, StagerTypeOK
      <3> QED
        BY <2>2, <2>3, <3>1 DEF TypeOK, StagerTypeOK
    <2>5. resolver'[r].pc = "delete" =>
            resolver'[r].task = t /\ replies'[t.request] # <<>>
      <3>1. replies[t.request] \in Seq(Failure)
        BY <2>2 DEF TypeOK, StagerTypeOK
      <3> QED
        BY <2>2, <2>3, <3>1 DEF TypeOK, StagerTypeOK, Unresolved
    <2>6. \A q \in Resolvers : q # r => resolver'[q] = resolver[q]
      BY <2>3 DEF TypeOK, StagerTypeOK
    <2>7. \A q \in Resolvers :
            resolver[q].pc = "delete" => resolver[q].task.request \in Requests
      BY PathType DEF ResolverProcess, Unresolved, TypeOK, StagerTypeOK
    <2>8. Published'
      BY <2>4, <2>5, <2>6, <2>7 DEF Published
    <2> QED
      BY <2>1, <2>4, <2>8 DEF Gone
  <1>5. ASSUME NEW r \in Resolvers, ResolveTask(r)
        PROVE  Gone' /\ Published'
    <2> DEFINE t == resolver[r].task
    <2>1. t \in TaskRecord /\ t.request \in Requests /\ replies[t.request] # <<>>
      BY <1>5, PathType DEF ResolveTask, ResolverProcess, Unresolved, TypeOK,
                            StagerTypeOK, Published
    <2>2. /\ UNCHANGED <<sets, replies>>
          /\ \/ store' = [store EXCEPT ![GuidOf[t.request]] = NoTask]
             \/ UNCHANGED store
          /\ resolver' = [resolver EXCEPT ![r] = Unresolved] \/ UNCHANGED resolver
      BY <1>5 DEF ResolveTask, TaskPath
    <2> HIDE DEF t
    <2>3. \A d \in Requests : d # t.request => store'[GuidOf[d]] = store[GuidOf[d]]
      BY <2>1, <2>2, TaskAssumption DEF DistinctGuids, TypeOK, BoardTypeOK
    <2>4. Gone'
      BY <2>1, <2>2, <2>3 DEF Gone
    <2>5. \A q \in Resolvers : resolver'[q] \in {resolver[q], Unresolved}
      BY <2>2 DEF TypeOK, StagerTypeOK
    <2> QED
      BY <2>2, <2>4, <2>5 DEF Published, Unresolved
  <1> QED
    BY <1>1, <1>2, <1>3, <1>4, <1>5 DEF StagerNext, DesireStep, ResolverStep

LEMMA KeptStep ==
    ASSUME DistinctGuids
    PROVE  KeptInv /\ [Next]_vars => KeptInv'
  <1> SUFFICES ASSUME KeptInv, [Next]_vars PROVE KeptInv'
    OBVIOUS
  <1>1. TypeOK /\ CreditInv'
    BY CreditStep DEF KeptInv, CreditInv
  <1>2. ASSUME NoneCleared, UNCHANGED <<sets, replies, resolver>>
        PROVE  KeptInv'
    BY <1>1, <1>2, GoneKept DEF KeptInv, Published
  <1>3. ASSUME UNCHANGED store
        PROVE  NoneCleared
    BY <1>3 DEF NoneCleared
  <1>4. CASE ByStager(StagerNext)
    BY <1>1, <1>4, StagerKeeps DEF ByStager, KeptInv
  <1>5. CASE ByExecutor(ExecutorNext)
    BY <1>1, <1>2, <1>5, ExecutorClearsNone DEF ByExecutor, stagerVars
  <1>6. CASE ByConverger(ConvergerNext)
    BY <1>1, <1>2, <1>6, ConvergerClearsNone DEF ByConverger, stagerVars
  <1>7. CASE \E g \in Guids : ThirtySeconds(g) \/ TimeToClaim(g)
    BY <1>2, <1>3, <1>7 DEF ThirtySeconds, GrowOld, TimeToClaim, stagerVars
  <1>8. CASE UNCHANGED vars
    BY <1>2, <1>3, <1>8 DEF vars, boardVars, stagerVars
  <1> QED
    BY <1>4, <1>5, <1>6, <1>7, <1>8 DEF Next

\* When no two requests share a task key, the board keeps a task until its
\* reply was sent, whoever resolves it, crashes or is slow about it
\* (stager/handler.go: resolveTask; stager_bbs.go: ResolveTask).
THEOREM TasksAreKept ==
    ASSUME DistinctGuids
    PROVE  Spec => []KeptUntilReplied
  <1>1. Init => KeptInv
    BY CreditInit DEF KeptInv, Gone, Published, Init, StagerInit, Unresolved
  <1>2. KeptInv /\ [Next]_vars => KeptInv'
    BY KeptStep
  <1>3. KeptInv => KeptUntilReplied
    <2> SUFFICES ASSUME KeptInv, NEW d \in Requests, sets[d] > 0,
                        \/ store[GuidOf[d]] = NoTask
                        \/ store[GuidOf[d]].request # d
                 PROVE  replies[d] # <<>>
      BY DEF KeptUntilReplied
    <2> DEFINE t == store[GuidOf[d]]
    <2>1. CASE t = NoTask
      BY <2>1 DEF KeptInv, Gone
    <2>2. CASE t # NoTask
      <3>1. t \in TaskRecord /\ TaskPath(t) = GuidOf[d]
        BY <2>2, TaskAssumption
        DEF KeptInv, CreditInv, TypeOK, BoardTypeOK, MaybeTask, BoardInv, Filed
      <3>2. t.request \in Requests /\ GuidOf[t.request] = GuidOf[d]
        BY <3>1, PathType DEF TaskPath
      <3> QED
        BY <2>2, <3>2 DEF DistinctGuids
    <2> QED
      BY <2>1, <2>2
  <1> QED
    BY <1>1, <1>2, <1>3, PTL DEF Spec
=============================================================================
