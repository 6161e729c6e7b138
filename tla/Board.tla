------------------------------- MODULE Board --------------------------------
(***************************************************************************)
(* What the processes share: the task nodes in etcd, the kicks posted to   *)
(* the hurler and the passage of time.                                     *)
(*                                                                         *)
(* The store compares whole values, and every write carries a fresh        *)
(* nanosecond reading of the clock in UpdatedAt.  Here UpdatedAt counts    *)
(* the writes to the key, and is drawn when the write is applied: a        *)
(* reading that belongs to no stored value is never seen by anybody.       *)
(* Elapsed time is a horizon: the writes up to agedTo[g] are thirty        *)
(* seconds old, those up to overdueTo[g] are timeToClaim old.  No lower    *)
(* bound is put on how long anything takes.                                *)
(*                                                                         *)
(* A kick may be lost, delivered late, and delivered to several endpoints  *)
(* (the hurler tries the next one when an answer is late), so kicks only   *)
(* grows and nobody has to read it.                                        *)
(***************************************************************************)
EXTENDS Task

CONSTANTS
    Faults,         \* the kinds of fault this instance may suffer
    MaxFaults       \* bound: how many of them may happen

FaultKind == {"setAck", "casAck", "storeError", "publish", "crash",
              "presence", "lock", "slow"}

ASSUME FaultAssumption == Faults \subseteq FaultKind /\ MaxFaults \in Nat

VARIABLES
    store,          \* guid -> task stored under its key, or NoTask
    writes,         \* guid -> number of writes made under its key
    kicks,          \* tasks posted to the hurler, with their Host header
    agedTo,         \* guid -> horizon of writes thirty seconds old
    overdueTo,      \* guid -> horizon of writes timeToClaim old
    faults          \* faults still to come

boardVars == <<store, writes, kicks, agedTo, overdueTo, faults>>
timeVars == <<agedTo, overdueTo>>

Kick == [host: {"executor", "stager"}, task: TaskRecord]

BoardTypeOK ==
    /\ store \in [Guids -> MaybeTask]
    /\ writes \in [Guids -> Nat]
    /\ kicks \subseteq Kick
    /\ agedTo \in [Guids -> Nat]
    /\ overdueTo \in [Guids -> Nat]
    /\ faults \in 0 .. MaxFaults

BoardInit ==
    /\ store = [g \in Guids |-> NoTask]
    /\ writes = [g \in Guids |-> 0]
    /\ kicks = {}
    /\ agedTo = [g \in Guids |-> 0]
    /\ overdueTo = [g \in Guids |-> 0]
    /\ faults = MaxFaults

Fault(kind) == kind \in Faults /\ faults > 0 /\ faults' = faults - 1

Now(g) == writes[g] + 1
Aged(t) == t.updatedAt <= agedTo[TaskPath(t)]
Overdue(t) == t.createdAt <= overdueTo[TaskPath(t)]

KickDesire(t) == kicks' = kicks \cup {[host |-> "executor", task |-> t]}
KickComplete(t) == kicks' = kicks \cup {[host |-> "stager", task |-> t]}

-----------------------------------------------------------------------------
(* The store adapter.  Swap and the like are the applied operation; a call  *)
(* that etcd answers with a timeout before applying it is the same as one   *)
(* not yet made, since the caller tries again.                              *)

Put(t) ==
    /\ store' = [store EXCEPT ![TaskPath(t)] = t]
    /\ writes' = [writes EXCEPT ![TaskPath(t)] = t.updatedAt]

\* Mutant: the write does not look at what it replaces.
SetInstead(old, new) == Put(new)

Swap(old, new) == store[TaskPath(old)] = old /\ Put(new)

\* retryIndefinitelyOnStoreTimeout around one CompareAndSwap.  The call is
\* applied and answered; or applied and answered by a timeout, so that the
\* loop will try again with the same original value; or it fails because the
\* node has another value by now (or is gone); or it fails for another reason.
RetryCompareAndSwap(old, new, Success, Again, Failed) ==
    \/ Swap(old, new) /\ Success /\ UNCHANGED faults
    \/ Swap(old, new) /\ Fault("casAck") /\ Again
    \/ store[TaskPath(old)] # old /\ Failed /\ UNCHANGED <<store, writes, faults>>
    \/ Fault("storeError") /\ Failed /\ UNCHANGED <<store, writes>>
=============================================================================
