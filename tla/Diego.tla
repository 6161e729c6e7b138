------------------------------- MODULE Diego --------------------------------
(***************************************************************************)
(* The whole system: stagers, executors and the converger around one       *)
(* bulletin board, and the passage of time.                                *)
(***************************************************************************)
EXTENDS Stager, Converger, FiniteSets

vars == <<boardVars, stagerVars, executorVars, convergerVars>>

TypeOK ==
    /\ BoardTypeOK
    /\ StagerTypeOK
    /\ ExecutorTypeOK
    /\ ConvergerTypeOK

Init ==
    /\ BoardInit
    /\ StagerInit
    /\ ExecutorInit
    /\ ConvergerInit

-----------------------------------------------------------------------------
(* Time.                                                                    *)

\* Somebody is about to take the stored task out of the state it is in.
Held(g) ==
    \/ \E w \in Workers : worker[w].pc = "start" /\ worker[w].task = store[g]
    \/ \E r \in Resolvers :
        resolver[r].pc \in {"publish", "delete"} /\ resolver[r].task = store[g]

\* A task has been claimed or resolving for thirty seconds.  Its holder takes
\* about a second, so this is a fault unless the holder is gone.
GrowOld(g) ==
    /\ store[g] # NoTask
    /\ store[g].state \in {"claimed", "resolving"}
    /\ ~Aged(store[g])
    /\ agedTo' = [agedTo EXCEPT ![g] = store[g].updatedAt]
    /\ UNCHANGED <<store, writes, kicks, overdueTo>>

ThirtySeconds(g) ==
    /\ GrowOld(g)
    /\ IF Held(g) THEN Fault("slow") ELSE UNCHANGED faults
    /\ UNCHANGED <<stagerVars, executorVars, convergerVars>>

\* timeToClaim has passed since a pending task was created, or since it was
\* last made pending.
TimeToClaim(g) ==
    /\ store[g] # NoTask
    /\ store[g].state = "pending"
    /\ \E horizon \in {store[g].createdAt, store[g].updatedAt} :
        /\ horizon > overdueTo[g]
        /\ overdueTo' = [overdueTo EXCEPT ![g] = horizon]
    /\ UNCHANGED <<store, writes, kicks, agedTo, faults>>
    /\ UNCHANGED <<stagerVars, executorVars, convergerVars>>

-----------------------------------------------------------------------------
ByStager(A) == A /\ UNCHANGED <<executorVars, convergerVars>>
ByExecutor(A) == A /\ UNCHANGED <<stagerVars, convergerVars>>
ByConverger(A) == A /\ UNCHANGED stagerVars

Next ==
    \/ ByStager(StagerNext)
    \/ ByExecutor(ExecutorNext)
    \/ ByConverger(ConvergerNext)
    \/ \E g \in Guids : ThirtySeconds(g) \/ TimeToClaim(g)

Spec == Init /\ [][Next]_vars

-----------------------------------------------------------------------------
(* Fairness: goroutines go on, leases of dead processes run out, time       *)
(* passes, and some stager gets the kick about a completed task (the        *)
(* converger sends it again in every pass).  Nobody has to take a pending   *)
(* task, start a stager goroutine for a message, or suffer a fault.         *)

ReceiveStored(g) ==
    \E r \in Resolvers, k \in kicks :
        k.task = store[g] /\ ReceiveCompleted(r, k)

Fairness ==
    /\ \A d \in Requests : WF_vars(ByStager(DesireStep(d)))
    /\ \A r \in Resolvers : WF_vars(ByStager(ResolverStep(r)))
    /\ \A g \in Guids : SF_vars(ByStager(ReceiveStored(g)))
    /\ \A w \in Workers : WF_vars(ByExecutor(WorkerStep(w)))
    /\ \A e \in Executors :
        /\ WF_vars(ByExecutor(Boot(e) \/ Announce(e) \/ ExpirePresence(e)))
        /\ WF_vars(ByConverger(ExecutorExit(e) /\ exec[e] = "lost"))
    /\ WF_vars(ByConverger(ExpireLock))
    /\ WF_vars(ByConverger(\E c \in Convergers : AcquireLock(c)))
    /\ \A c \in Convergers : WF_vars(ByConverger(PassStep(c)))
    /\ \A g \in Guids :
        /\ WF_vars(~Held(g) /\ ThirtySeconds(g))
        /\ WF_vars(TimeToClaim(g))

FairSpec == Spec /\ Fairness

-----------------------------------------------------------------------------
(* What the system promises.  The abstract specification speaks of one      *)
(* setting of a task under one key: an instance in which SetMulti is        *)
(* applied and still answered by a timeout, or in which two stagers number  *)
(* their tasks alike, does not implement it.                                *)

Phase(d) ==
    LET t == store[GuidOf[d]]
    IN  IF t = NoTask THEN IF sets[d] = 0 THEN "asked" ELSE "closed"
        ELSE CASE t.state \in {"pending", "claimed"} -> "queued"
               [] t.state = "running" -> "running"
               [] t.state \in {"completed", "resolving"} -> "finished"

Verdict(d) ==
    CASE Phase(d) = "finished" -> store[GuidOf[d]].failure
      [] Phase(d) = "closed" /\ replies[d] # <<>> -> replies[d][Len(replies[d])]
      [] OTHER -> "undecided"

Promise == INSTANCE Staging WITH
    Verdicts <- Failure, Success <- "none", Unclaimed <- "unclaimed",
    NoVerdict <- "undecided",
    phase <- [d \in Requests |-> Phase(d)],
    verdict <- [d \in Requests |-> Verdict(d)],
    answered <- {d \in Requests : replies[d] # <<>>}

\* Every step of stagers, executors and converger is a step of the abstract
\* specification or does not show there.
ImplementsStaging == Promise!Spec

\* A task that was set is replied to, through crashes, lost presence, lost
\* leases, failed publishes and slow holders.
EveryTaskAnswered == \A d \in Requests : sets[d] > 0 ~> replies[d] # <<>>

-----------------------------------------------------------------------------
(* Safety.                                                                  *)

\* The container of a task is run no more often than the task was set:
\* demotions, stale kicks and retries never lead to a second run
\* (executor_bbs.go: StartTask).
RunOnce == \A d \in Requests : starts[d] <= sets[d]

\* The board keeps a task until its reply was sent (stager/handler.go:
\* resolveTask), however many stagers resolve it and whoever writes the key.
KeptUntilReplied ==
    \A d \in Requests :
        /\ sets[d] > 0
        /\ store[GuidOf[d]] = NoTask \/ store[GuidOf[d]].request # d
        => replies[d] # <<>>

\* However often a request is replied to, it hears one verdict for each time
\* its task was set: demotions and slow resolvers repeat the verdict and never
\* change it (stager/handler.go: resolveTask).
RepliesAgree ==
    \A d \in Requests :
        Cardinality({replies[d][i] : i \in DOMAIN replies[d]}) <= sets[d]

\* The converger reads the executors after the tasks, so an executor it
\* finds missing has stopped, or had claimed before it was present.
NoFalseDeath ==
    \A g \in Guids :
        store[g] # NoTask /\ store[g].failure = "disappeared" =>
            \/ exec[store[g].executorID] \in {"lost", "dead"}
            \/ store[g].executorID \in early

\* While an executor that kept its presence runs a container, nobody takes the
\* task away from it: the board shows the run or its own completion, never a
\* failure and never a task for others to claim.
RunNotRevoked ==
    \A w \in Workers :
        LET now == store[TaskPath(worker[w].task)]
        IN  /\ worker[w].pc = "running"
            /\ exec[worker[w].exec] = "up"
            /\ worker[w].exec \notin early
            /\ now # NoTask
            => now.state \notin {"pending", "claimed"} /\ now.failure = "none"

\* A container is never run for a requester who was told the verdict already,
\* however old the kick and the claim are (executor_bbs.go: StartTask).
NoRunAfterAnswer ==
    [][\A d \in Requests : replies[d] # <<>> => starts'[d] = starts[d]]_vars

\* What the board shows claimed or running by a process that serves is in the
\* hands of one of its goroutines: the converger repairs no task that is running
\* on an executor that is present (executor_bbs.go: ConvergeTasks).  An applied
\* write that was answered by a timeout, or a store error, breaks it.
NoOrphans ==
    \A g \in Guids :
        LET t == store[g]
        IN  /\ t # NoTask
            /\ t.state \in {"claimed", "running"}
            /\ exec[t.executorID] \in Process!Serving
            => \E w \in Workers :
                worker[w] = Work(IF t.state = "claimed" THEN "start" ELSE "running",
                                 t.executorID, t)

\* A success is only ever reported for a task whose container was run.
VerdictEarned ==
    \A d \in Requests :
        (\E i \in DOMAIN replies[d] : replies[d][i] = "none") => starts[d] > 0

-----------------------------------------------------------------------------
(* What comments of the source say, and the code does not do.               *)

\* executor_bbs.go:50 and :73: a StartTask or CompleteTask that fails has met
\* the work of somebody else.
GivesUpOnlyToOthers ==
    [][\A w \in Workers :
        LET t == worker[w].task
            Given(n) == store[TaskPath(t)] = Stamped(n, writes[TaskPath(t)])
        IN  /\ worker[w].pc \in {"start", "running"}
            /\ worker'[w].pc = "idle"
            /\ exec'[worker[w].exec] = exec[worker[w].exec]
            => ~Given(Started(t, 0)) /\ ~Given(Finished(t, 0))]_vars

\* executor_bbs.go:108: a task is failed as unclaimed when it has been pending
\* for timeToClaim.
PendingAllTheTime ==
    [][\A g \in Guids :
        /\ store'[g] # store[g]
        /\ store'[g] # NoTask
        /\ store'[g].failure = "unclaimed" /\ store[g].state = "pending"
        => store[g].updatedAt <= overdueTo[g]]_vars

\* executor_bbs.go:109: only an executor that has stopped maintaining its
\* presence is said to have disappeared.
OnlyStoppedExecutorsDisappear ==
    \A g \in Guids :
        store[g] # NoTask /\ store[g].failure = "disappeared" =>
            exec[store[g].executorID] \in {"lost", "dead"}

\* stager_bbs.go:19: a request that could not be put on the board gets the
\* reply of a failure to stage.
RefusedTasksAnswered ==
    \A d \in Requests : desire[d].pc = "failed" ~> replies[d] # <<>>
=============================================================================
