-------------------------------- MODULE Task --------------------------------
(***************************************************************************)
(* The task record that stager, executor and converger exchange through    *)
(* the bulletin board (runtime-schema/models/run_once.go), and the edits   *)
(* the bbs functions make to it before they write it back.                 *)
(*                                                                         *)
(* A request is one iteration of the loop in stager/main.go:handleStaging: *)
(* it fixes the guid, the memory and the reply address of the task for     *)
(* good, so a task carries its request in their place.  Failed and         *)
(* FailureReason are one field.  Result, ContainerHandle, Actions and the  *)
(* rest of the payload are copied around and never looked at, so they are  *)
(* left out.                                                               *)
(***************************************************************************)
EXTENDS Naturals

CONSTANTS
    Requests,       \* tasks asked for by staging messages
    Guids,          \* task guids, the keys under /v2/run_once
    GuidOf,         \* the guid handleStaging gives to a request
    MemoryMB,       \* the memory a request asks for
    Executors,      \* executor ids; a restarted executor has a new one
    NoExecutor,     \* the empty ExecutorID
    NoTask          \* no node stored under a key

ASSUME TaskAssumption ==
    /\ GuidOf \in [Requests -> Guids]
    /\ MemoryMB \in [Requests -> Nat]
    /\ NoExecutor \notin Executors

TaskState == {"pending", "claimed", "running", "completed", "resolving"}

\* Failed with its FailureReason: "none" stands for Failed = false.
Failure == {"none", "unclaimed", "disappeared"}

TaskRecord ==
    [request: Requests, createdAt: Nat, updatedAt: Nat, state: TaskState,
     executorID: Executors \cup {NoExecutor}, failure: Failure]

ASSUME NoTaskAssumption == NoTask \notin TaskRecord

MaybeTask == TaskRecord \cup {NoTask}

\* The key of the task's node.
TaskPath(t) == GuidOf[t.request]

-----------------------------------------------------------------------------
(* The task a request starts from, and the edits of the bbs functions. The  *)
(* argument now is the clock reading that goes into UpdatedAt.              *)

\* Mutant: DesireTask does not set the state.
DesiredWithoutState(d, created, now) ==
    [request |-> d, createdAt |-> created, updatedAt |-> now,
     state |-> "invalid", executorID |-> NoExecutor, failure |-> "none"]

Desired(d, created, now) ==
    [request |-> d, createdAt |-> created, updatedAt |-> now,
     state |-> "pending", executorID |-> NoExecutor, failure |-> "none"]

Claimed(t, e, now) ==
    [t EXCEPT !.updatedAt = now, !.state = "claimed", !.executorID = e]

Started(t, now) == [t EXCEPT !.updatedAt = now, !.state = "running"]

Finished(t, now) ==
    [t EXCEPT !.updatedAt = now, !.state = "completed", !.failure = "none"]

Resolving(t, now) == [t EXCEPT !.updatedAt = now, !.state = "resolving"]

\* Mutants: a failure that is not marked as one, and demotions that lose it or
\* go back too far.
MarkTaskCompleted(t, reason) == [t EXCEPT !.state = "completed"]
DemoteToSuccess(t) == [t EXCEPT !.state = "completed", !.failure = "none"]
DemoteToStart(t) == [t EXCEPT !.state = "pending", !.executorID = NoExecutor]

\* The converger's edits leave UpdatedAt to batchCompareAndSwapTasks, which
\* stamps what it writes.
Stamped(t, now) == [t EXCEPT !.updatedAt = now]

MarkTaskFailed(t, reason) ==
    [t EXCEPT !.state = "completed", !.failure = reason]

DemoteToPending(t) ==
    [t EXCEPT !.state = "pending", !.executorID = NoExecutor]

DemoteToCompleted(t) == [t EXCEPT !.state = "completed"]
=============================================================================
