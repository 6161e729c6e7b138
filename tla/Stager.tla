------------------------------- MODULE Stager -------------------------------
(***************************************************************************)
(* The stager (src/stager): the "stage" subscription turns requests into   *)
(* tasks on the board, and the HTTP handler answers kicks about completed  *)
(* tasks by replying over NATS and deleting the task.                      *)
(*                                                                         *)
(* Every goroutine is a process of its own.  A stager that crashes loses   *)
(* its goroutines; they are lost one by one here, which also covers every  *)
(* way in which the members of a group of stagers can crash.               *)
(***************************************************************************)
EXTENDS Board, Sequences

CONSTANT Resolvers      \* bound: resolveTask goroutines alive at a time

VARIABLES
    desire,         \* request -> its DesireTask goroutine
    resolver,       \* the resolveTask goroutines
    sets,           \* history: request -> times its task was set
    replies         \* history: request -> the verdicts sent to ReplyTo

stagerVars == <<desire, resolver, sets, replies>>

DesireProcess ==
    [pc: {"idle", "set", "done", "failed", "dead"}, createdAt: Nat, task: {NoTask}]
    \cup [pc: {"kick"}, createdAt: Nat, task: TaskRecord]

\* createdAt is what an earlier attempt stamped on the task, or 0.
Desire(pc, createdAt, task) ==
    [pc |-> pc, createdAt |-> createdAt, task |-> task]

Unresolved == [pc |-> "idle", task |-> NoTask]

ResolverProcess ==
    {Unresolved} \cup [pc: {"resolving", "publish", "delete"}, task: TaskRecord]

StagerTypeOK ==
    /\ desire \in [Requests -> DesireProcess]
    /\ resolver \in [Resolvers -> ResolverProcess]
    /\ sets \in [Requests -> Nat]
    /\ replies \in [Requests -> Seq(Failure)]

StagerInit ==
    /\ desire = [d \in Requests |-> Desire("idle", 0, NoTask)]
    /\ resolver = [r \in Resolvers |-> Unresolved]
    /\ sets = [d \in Requests |-> 0]
    /\ replies = [d \in Requests |-> <<>>]

-----------------------------------------------------------------------------
(* Desiring a task.                                                         *)

\* One turn of the loop over message.Count.
HandleStaging(d) ==
    /\ desire[d].pc = "idle"
    /\ desire' = [desire EXCEPT ![d] = Desire("set", 0, NoTask)]
    /\ UNCHANGED <<boardVars, resolver, sets, replies>>

\* SetMulti overwrites whatever the key holds.  After a timeout the next
\* attempt keeps CreatedAt and draws UpdatedAt anew.
SetTask(d, t) ==
    \/ /\ Put(t)
       /\ sets' = [sets EXCEPT ![d] = @ + 1]
       /\ \/ /\ desire' = [desire EXCEPT ![d] = Desire("kick", 0, t)]
             /\ UNCHANGED faults
          \/ /\ Fault("setAck")
             /\ desire' = [desire EXCEPT ![d] = Desire("set", t.createdAt, NoTask)]
    \/ /\ Fault("storeError")
       /\ desire' = [desire EXCEPT ![d] = Desire("failed", 0, NoTask)]
       /\ UNCHANGED <<store, writes, sets>>

DesireTask(d) ==
    /\ desire[d].pc = "set"
    /\ LET now == Now(GuidOf[d])
           created == IF desire[d].createdAt = 0 THEN now
                                                 ELSE desire[d].createdAt
       IN  SetTask(d, Desired(d, created, now))
    /\ UNCHANGED <<kicks, timeVars, resolver, replies>>

KickDesired(d) ==
    /\ desire[d].pc = "kick"
    /\ KickDesire(desire[d].task)
    /\ desire' = [desire EXCEPT ![d] = Desire("done", 0, NoTask)]
    /\ UNCHANGED <<store, writes, timeVars, faults, resolver, sets, replies>>

DesireCrash(d) ==
    /\ desire[d].pc \in {"set", "kick"}
    /\ Fault("crash")
    /\ desire' = [desire EXCEPT ![d] = Desire("dead", 0, NoTask)]
    /\ UNCHANGED <<store, writes, kicks, timeVars, resolver, sets, replies>>

-----------------------------------------------------------------------------
(* Resolving a completed task.                                              *)

ReceiveCompleted(r, k) ==
    /\ k.host = "stager"
    /\ resolver[r].pc = "idle"
    /\ resolver' = [resolver EXCEPT ![r] = [pc |-> "resolving", task |-> k.task]]
    /\ UNCHANGED <<boardVars, desire, sets, replies>>

ResolvingTask(r) ==
    LET old == resolver[r].task
        new == Resolving(old, Now(TaskPath(old)))
    IN  /\ resolver[r].pc = "resolving"
        /\ RetryCompareAndSwap(old, new,
               resolver' = [resolver EXCEPT ![r] = [pc |-> "publish", task |-> new]],
               UNCHANGED resolver,
               resolver' = [resolver EXCEPT ![r] = Unresolved])
        /\ UNCHANGED <<kicks, timeVars, desire, sets, replies>>

\* Mutant: the error of Publish is not looked at.
PublishAndForget(r) ==
    LET t == resolver[r].task
    IN  /\ resolver[r].pc = "publish"
        /\ \/ /\ replies' = [replies EXCEPT ![t.request] = Append(@, t.failure)]
              /\ UNCHANGED faults
           \/ Fault("publish") /\ UNCHANGED replies
        /\ resolver' = [resolver EXCEPT ![r] = [pc |-> "delete", task |-> t]]
        /\ UNCHANGED <<store, writes, kicks, timeVars, desire, sets>>

\* A failed publish leaves the task resolving, for the converger to demote.
PublishReply(r) ==
    LET t == resolver[r].task
    IN  /\ resolver[r].pc = "publish"
        /\ \/ /\ replies' = [replies EXCEPT ![t.request] = Append(@, t.failure)]
              /\ resolver' = [resolver EXCEPT ![r] = [pc |-> "delete", task |-> t]]
              /\ UNCHANGED faults
           \/ /\ Fault("publish")
              /\ resolver' = [resolver EXCEPT ![r] = Unresolved]
              /\ UNCHANGED replies
        /\ UNCHANGED <<store, writes, kicks, timeVars, desire, sets>>

\* Delete does not compare: it takes whatever the key holds.
ResolveTask(r) ==
    LET g == TaskPath(resolver[r].task)
        Deleted == store' = [store EXCEPT ![g] = NoTask]
        Return == resolver' = [resolver EXCEPT ![r] = Unresolved]
    IN  /\ resolver[r].pc = "delete"
        /\ \/ store[g] # NoTask /\ Deleted /\ Return /\ UNCHANGED faults
           \/ store[g] # NoTask /\ Deleted /\ Fault("casAck") /\ UNCHANGED resolver
           \/ store[g] = NoTask /\ Return /\ UNCHANGED <<store, faults>>
           \/ Fault("storeError") /\ Return /\ UNCHANGED store
        /\ UNCHANGED <<writes, kicks, timeVars, desire, sets, replies>>

ResolverCrash(r) ==
    /\ resolver[r].pc # "idle"
    /\ Fault("crash")
    /\ resolver' = [resolver EXCEPT ![r] = Unresolved]
    /\ UNCHANGED <<store, writes, kicks, timeVars, desire, sets, replies>>

-----------------------------------------------------------------------------
DesireStep(d) == DesireTask(d) \/ KickDesired(d)
ResolverStep(r) == ResolvingTask(r) \/ PublishReply(r) \/ ResolveTask(r)

StagerNext ==
    \/ \E d \in Requests : HandleStaging(d) \/ DesireStep(d) \/ DesireCrash(d)
    \/ \E r \in Resolvers :
        \/ \E k \in kicks : ReceiveCompleted(r, k)
        \/ ResolverStep(r)
        \/ ResolverCrash(r)
=============================================================================
