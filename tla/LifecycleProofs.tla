--------------------------- MODULE LifecycleProofs --------------------------
(***************************************************************************)
(* Theorems about how an executor or a stager comes up and goes down, for  *)
(* both, and for every order in which their goroutines and MaintainNode    *)
(* proceed.                                                                *)
(***************************************************************************)
EXTENDS Lifecycle, FiniteSetTheorems, TLAPS

-----------------------------------------------------------------------------
(* The inductive invariant.                                                 *)

Registered == {n \in Watched : watcher[n] # "none"}
Busy == {n \in Watched : watcher[n] \in Running}

\* main registers the nodes in their order, and then serves.
InOrder ==
    /\ main = "register" => count < Len(Nodes)
    /\ main \in {"serve", "wait", "up"} => count = Len(Nodes)
    /\ \A i \in 1 .. Len(Nodes) : Nodes[i] \in Registered <=> i <= count

\* Nothing is known of a node that was not registered.
Untouched ==
    \A n \in Watched \ Registered :
        /\ n \notin armed /\ n \notin release
        /\ node[n] = "none" /\ past[n] = "unwritten"

\* Each watcher announces its node once: the messages that were sent are those
\* main has received and the one in the channel.  A failure to register the
\* presence sends one of its own, but then main does not receive any.
Announced == Registered \ armed

Messages ==
    /\ main # "fatal" => got + ready = Cardinality(Announced)
    /\ main \in {"register", "serve", "fatal"} => got = 0
    /\ \A n \in Watched : watcher[n] = "announce" => n \in armed

\* A watcher that has ended has seen the status closed, and those that were
\* there when stop was closed have all come to an end when the process exits.
Cleared ==
    /\ \A n \in Watched : watcher[n] = "ended" => node[n] = "closed"
    /\ before \subseteq Registered
    /\ cleanup = "exited" => tasks = 0

\* A node that was written and not lost or cleared since is there.
Past ==
    \A n \in Watched :
        /\ past[n] = "written" => node[n] = "held"
        /\ node[n] = "held" => past[n] # "unwritten"

LifeInv ==
    /\ TypeOK
    /\ InOrder /\ Untouched /\ Messages /\ Cleared /\ Past
    /\ UpMeansReady

-----------------------------------------------------------------------------
(* The nodes.                                                               *)

LEMMA NodesFacts ==
    /\ Len(Nodes) \in Nat \ {0}
    /\ DOMAIN Nodes = 1 .. Len(Nodes)
    /\ \A i \in 1 .. Len(Nodes) : Nodes[i] \in Watched
    /\ \A n \in Watched : \E i \in 1 .. Len(Nodes) : Nodes[i] = n
    /\ \A i, j \in 1 .. Len(Nodes) : Nodes[i] = Nodes[j] => i = j
    /\ \A i \in 1 .. Len(Nodes) : Nodes[i] = "presence" => i = 1
  BY NodesAssumption DEF Watched, Range

LEMMA WatchedFinite ==
    /\ IsFiniteSet(Watched) /\ Cardinality(Watched) = Len(Nodes)
    /\ \A S \in SUBSET Watched : IsFiniteSet(S) /\ Cardinality(S) \in Nat
    /\ \A S \in SUBSET Watched : Cardinality(S) <= Len(Nodes)
    /\ \A S \in SUBSET Watched : Cardinality(S) = Len(Nodes) => S = Watched
  <1>1. IsFiniteSet(1 .. Len(Nodes)) /\ Cardinality(1 .. Len(Nodes)) = Len(Nodes)
    BY NodesFacts, FS_Interval
  <1>2. Nodes \in Bijection(1 .. Len(Nodes), Watched)
    <2>1. Nodes \in [1 .. Len(Nodes) -> Watched]
      BY NodesFacts, NodesAssumption
    <2> QED
      BY <2>1, NodesFacts DEF Bijection, Injection, Surjection, IsInjective
  <1>3. IsFiniteSet(Watched) /\ Cardinality(Watched) = Len(Nodes)
    BY <1>1, <1>2, FS_Bijection DEF ExistsBijection
  <1> QED  BY <1>3, FS_Subset, FS_CardinalityType

\* One element more, or one less.
LEMMA CountMore ==
    ASSUME NEW S \in SUBSET Watched, NEW n \in Watched, n \notin S
    PROVE  Cardinality(S \cup {n}) = Cardinality(S) + 1
  BY WatchedFinite, FS_AddElement

LEMMA CountLess ==
    ASSUME NEW S \in SUBSET Watched, NEW n \in S
    PROVE  Cardinality(S \ {n}) = Cardinality(S) - 1
  BY WatchedFinite, FS_RemoveElement

-----------------------------------------------------------------------------
LEMMA LifeInit == Init => LifeInv
  <1> SUFFICES ASSUME Init PROVE LifeInv
    OBVIOUS
  <1>1. Registered = {} /\ Announced = {} /\ Busy = {}
    BY DEF Init, Registered, Announced, Busy, Running
  <1>2. TypeOK
    <2>1. tasks = Cardinality({n \in Watched : watcher[n] \in Running})
      BY <1>1, FS_EmptySet DEF Init, Busy
    <2>2. 0 \in 0 .. Len(Nodes)
      BY NodesFacts
    <2>3. /\ watcher \in [Watched -> Running \cup {"none", "fatal", "ended"}]
          /\ node \in [Watched -> {"none", "acquiring", "held", "closed"}]
          /\ past \in [Watched -> {"unwritten", "written", "gone"}]
          /\ offer \in [Watched -> {"nothing", "locked", "lost"}]
      BY DEF Init
    <2>4. /\ main = "register" /\ count = 0 /\ got = 0 /\ ready = 0
          /\ armed = {} /\ release = {} /\ before = {}
          /\ cleanup = "none"
      BY DEF Init
    <2>5. stop \in BOOLEAN
      BY DEF Init
    <2> QED  BY <2>1, <2>2, <2>3, <2>4, <2>5 DEF TypeOK
  <1>3. InOrder /\ Untouched
    BY <1>1, NodesFacts DEF Init, InOrder, Untouched
  <1>4. Messages
    BY <1>1, FS_EmptySet DEF Init, Messages
  <1>5. Cleared /\ Past /\ UpMeansReady
    BY DEF Init, Cleared, Past, UpMeansReady
  <1> QED  BY <1>2, <1>3, <1>4, <1>5 DEF LifeInv

\* The steps of cleanup, and a signal.
LEMMA ExitSteps ==
    ASSUME LifeInv, cleanup # "exited", Interrupted \/ CleanupStep
    PROVE  LifeInv'
  <1> USE DEF mainVars, watcherVars, nodeVars, exitVars
  <1>1. UNCHANGED <<mainVars, ready, watcherVars, nodeVars>>
    BY DEF Interrupted, CleanupStep, CloseStop, FinishCleanup
  <1>2. /\ Registered' = Registered /\ Announced' = Announced
        /\ {n \in Watched : watcher[n] \in Running}' =
                {n \in Watched : watcher[n] \in Running}
    BY <1>1 DEF Registered, Announced
  <1>3. /\ stop' \in BOOLEAN /\ cleanup' \in {"none", "asked", "running", "exited"}
        /\ before' \in SUBSET Registered
        /\ cleanup' = "exited" => tasks = 0
    BY DEF LifeInv, TypeOK, Cleared, Interrupted, AskExit, CleanupStep, CloseStop,
           FinishCleanup, Registered
  <1>4. TypeOK'
    BY <1>1, <1>2, <1>3 DEF LifeInv, TypeOK, Registered
  <1>5. InOrder' /\ Untouched' /\ Messages' /\ Past' /\ UpMeansReady'
    BY <1>1, <1>2 DEF LifeInv, InOrder, Untouched, Messages, Past, UpMeansReady
  <1>6. Cleared'
    BY <1>1, <1>2, <1>3 DEF LifeInv, Cleared
  <1> QED  BY <1>4, <1>5, <1>6 DEF LifeInv

LEMMA RegisterStep ==
    ASSUME LifeInv, cleanup # "exited", Register
    PROVE  LifeInv'
  <1>0. count \in Nat /\ count < Len(Nodes) /\ count + 1 \in 1 .. Len(Nodes)
    <2>1. count \in 0 .. Len(Nodes) /\ main = "register"
      BY DEF LifeInv, TypeOK, Register
    <2>2. count < Len(Nodes)
      BY <2>1 DEF LifeInv, InOrder
    <2> QED  BY <2>1, <2>2, NodesFacts
  <1>1. PICK n \in Watched : n = Nodes[count + 1] /\ n \notin Registered
    <2>1. Nodes[count + 1] \in Watched
      BY <1>0, NodesFacts
    <2>2. ~ (count + 1 <= count)
      BY <1>0
    <2> QED  BY <1>0, <2>1, <2>2 DEF LifeInv, InOrder
  <1>2. /\ main = "register" /\ count' = count + 1
        /\ main' = IF count' = Len(Nodes) THEN "serve" ELSE "register"
        /\ tasks' = tasks + 1
        /\ watcher' = [watcher EXCEPT ![n] = "select"]
        /\ armed' = armed \cup {n}
        /\ node' = [node EXCEPT ![n] = "acquiring"]
        /\ UNCHANGED <<got, ready, past, offer, release, stop, before, cleanup>>
    BY <1>1 DEF Register, exitVars
  <1>3. watcher[n] = "none"
    BY <1>1 DEF Registered
  <1>4. \A m \in Watched :
            /\ watcher'[m] = IF m = n THEN "select" ELSE watcher[m]
            /\ node'[m] = IF m = n THEN "acquiring" ELSE node[m]
    BY <1>2 DEF LifeInv, TypeOK
  <1>5. /\ Registered' = Registered \cup {n}
        /\ Announced' = Announced
        /\ Busy' = Busy \cup {n} /\ n \notin Busy
    BY <1>1, <1>2, <1>3, <1>4 DEF Registered, Announced, Busy, Running
  <1>6. TypeOK'
    <2>1. tasks' = Cardinality(Busy')
      BY <1>1, <1>2, <1>5, CountMore DEF LifeInv, TypeOK, Busy
    <2>2. /\ watcher' \in [Watched -> Running \cup {"none", "fatal", "ended"}]
          /\ node' \in [Watched -> {"none", "acquiring", "held", "closed"}]
      BY <1>2 DEF LifeInv, TypeOK, Running
    <2>3. /\ main' \in {"register", "serve"} /\ count' \in 0 .. Len(Nodes)
          /\ armed' \subseteq Watched
      BY <1>0, <1>1, <1>2 DEF LifeInv, TypeOK
    <2> QED
      BY <1>2, <2>1, <2>2, <2>3 DEF LifeInv, TypeOK, Busy
  <1>7. InOrder'
    <2>1. \A i \in 1 .. Len(Nodes) : Nodes[i] = n <=> i = count + 1
      BY <1>0, <1>1, NodesFacts
    <2>2. \A i \in 1 .. Len(Nodes) : Nodes[i] \in Registered' <=> i <= count'
      <3>1. \A i \in 1 .. Len(Nodes) : Nodes[i] \in Registered <=> i <= count
        BY DEF LifeInv, InOrder
      <3>2. \A i \in 1 .. Len(Nodes) : i <= count + 1 <=> i <= count \/ i = count + 1
        BY <1>0, NodesFacts
      <3> QED  BY <1>2, <1>5, <2>1, <3>1, <3>2
    <2>3. /\ main' = "register" => count' < Len(Nodes)
          /\ main' \in {"serve", "wait", "up"} => count' = Len(Nodes)
      <3>1. count + 1 <= Len(Nodes) /\ Len(Nodes) \in Nat
        BY <1>0, NodesFacts
      <3>2. count' # Len(Nodes) => count' < Len(Nodes)
        BY <1>0, <1>2, <3>1
      <3> QED  BY <1>2, <3>2
    <2> QED  BY <2>2, <2>3 DEF InOrder
  <1>8. Untouched'
    BY <1>2, <1>4, <1>5 DEF LifeInv, Untouched
  <1>9. Messages'
    BY <1>2, <1>4, <1>5 DEF LifeInv, Messages
  <1>10. Cleared'
    BY <1>2, <1>4, <1>5 DEF LifeInv, Cleared
  <1>11. Past'
    BY <1>1, <1>2, <1>4 DEF LifeInv, Past, Untouched
  <1>12. UpMeansReady'
    BY <1>2 DEF UpMeansReady
  <1> QED  BY <1>6, <1>7, <1>8, <1>9, <1>10, <1>11, <1>12 DEF LifeInv

LEMMA RegisterFailsStep ==
    ASSUME LifeInv, cleanup # "exited", RegisterFails
    PROVE  LifeInv'
  <1> USE DEF watcherVars, nodeVars, exitVars
  <1>1. /\ main = "register" /\ main' = "fatal"
        /\ UNCHANGED <<count, got, watcherVars, nodeVars, exitVars>>
        /\ cleanup' \in {"asked", cleanup}
        /\ ready' = IF Nodes[count + 1] = "presence" THEN ready + 1 ELSE ready
    BY DEF RegisterFails, AskExit
  <1>2. Nodes[count + 1] = "presence" => ready = 0
    <2> SUFFICES ASSUME Nodes[count + 1] = "presence" PROVE ready = 0
      OBVIOUS
    <2>1. count = 0
      BY <1>1, NodesFacts DEF LifeInv, TypeOK, InOrder
    <2>2. Registered = {}
      BY <2>1, NodesFacts DEF LifeInv, InOrder, Registered
    <2>3. got + ready = 0
      BY <1>1, <2>2, FS_EmptySet DEF LifeInv, Messages, Announced
    <2> QED  BY <2>3, NodesFacts DEF LifeInv, TypeOK
  <1>3. /\ Registered' = Registered
        /\ {n \in Watched : watcher[n] \in Running}' =
                {n \in Watched : watcher[n] \in Running}
    BY <1>1 DEF Registered
  <1>4. TypeOK'
    BY <1>1, <1>2, <1>3 DEF LifeInv, TypeOK
  <1>5. InOrder' /\ Untouched' /\ Messages' /\ Past' /\ UpMeansReady'
    BY <1>1, <1>3 DEF LifeInv, InOrder, Untouched, Messages, Past, UpMeansReady
  <1>6. Cleared'
    BY <1>1, <1>3 DEF LifeInv, Cleared
  <1> QED  BY <1>4, <1>5, <1>6 DEF LifeInv

LEMMA MainSteps ==
    ASSUME LifeInv, cleanup # "exited", Serve \/ TakeReady
    PROVE  LifeInv'
  <1> USE DEF watcherVars, nodeVars, exitVars
  <1>1. UNCHANGED <<count, watcherVars, nodeVars, exitVars, cleanup>>
    BY DEF Serve, TakeReady
  <1>2. /\ Registered' = Registered /\ Announced' = Announced
        /\ {n \in Watched : watcher[n] \in Running}' =
                {n \in Watched : watcher[n] \in Running}
    BY <1>1 DEF Registered, Announced
  <1>3. /\ main \in {"serve", "wait"} /\ main' \in {"wait", "up"}
        /\ got \in Nat /\ ready \in 0 .. 1
        /\ got + ready = Cardinality(Announced)
        /\ \/ main' = "wait" /\ UNCHANGED <<got, ready>>
           \/ /\ ready = 1 /\ ready' = 0 /\ got' = got + 1
              /\ main' = "up" => got' = Len(Nodes)
    BY NodesFacts DEF LifeInv, TypeOK, Messages, Serve, TakeReady
  <1>4. Announced \subseteq Watched
    BY DEF Announced, Registered
  <1>5. got' \in 0 .. Len(Nodes) /\ ready' \in 0 .. 1
    BY <1>3, <1>4, WatchedFinite, NodesFacts DEF LifeInv, TypeOK
  <1>6. TypeOK'
    BY <1>1, <1>2, <1>3, <1>5 DEF LifeInv, TypeOK
  <1>7. InOrder' /\ Untouched' /\ Past'
    BY <1>1, <1>2, <1>3 DEF LifeInv, InOrder, Untouched, Past
  <1>8. Messages'
    BY <1>1, <1>2, <1>3 DEF LifeInv, Messages
  <1>9. Cleared'
    BY <1>1, <1>2 DEF LifeInv, Cleared
  <1>10. UpMeansReady'
    <2> SUFFICES ASSUME main' = "up" PROVE armed = {}
      BY <1>1 DEF UpMeansReady
    <2>1. Cardinality(Announced) = Len(Nodes)
      BY <1>3
    <2>2. Announced = Watched
      BY <1>4, <2>1, WatchedFinite
    <2> QED  BY <2>2 DEF Announced, LifeInv, TypeOK
  <1> QED  BY <1>6, <1>7, <1>8, <1>9, <1>10 DEF LifeInv

\* What MaintainNode does.
LEMMA NodeSteps ==
    ASSUME LifeInv, cleanup # "exited", NEW n \in Watched,
           Hold(n) \/ Lose(n) \/ Release(n)
    PROVE  LifeInv'
  <1> USE DEF mainVars, watcherVars, exitVars
  <1>1. UNCHANGED <<mainVars, ready, watcherVars, release, exitVars, cleanup>>
    BY DEF Hold, Lose, Release
  <1>2. /\ Registered' = Registered /\ Announced' = Announced
        /\ {m \in Watched : watcher[m] \in Running}' =
                {m \in Watched : watcher[m] \in Running}
    BY <1>1 DEF Registered, Announced
  <1>3. /\ node' \in [Watched -> {"none", "acquiring", "held", "closed"}]
        /\ past' \in [Watched -> {"unwritten", "written", "gone"}]
        /\ offer' \in [Watched -> {"nothing", "locked", "lost"}]
    BY DEF LifeInv, TypeOK, Hold, Lose, Release
  <1>4. \A m \in Watched : m # n => node'[m] = node[m] /\ past'[m] = past[m]
    BY DEF LifeInv, TypeOK, Hold, Lose, Release
  <1>5. /\ node[n] = "closed" => node'[n] = "closed"
        /\ past'[n] = "written" => node'[n] = "held"
        /\ node'[n] = "held" => past'[n] # "unwritten"
    <2>1. CASE Hold(n)
      BY <2>1 DEF LifeInv, TypeOK, Past, Hold
    <2>2. CASE Lose(n)
      BY <2>2 DEF LifeInv, TypeOK, Past, Lose
    <2>3. CASE Release(n)
      BY <2>3 DEF LifeInv, TypeOK, Past, Release
    <2> QED  BY <2>1, <2>2, <2>3
  <1>10. n \in Registered
    BY DEF LifeInv, Untouched, Hold, Lose, Release
  <1>6. TypeOK'
    BY <1>1, <1>2, <1>3 DEF LifeInv, TypeOK
  <1>7. InOrder' /\ Messages' /\ UpMeansReady'
    BY <1>1, <1>2 DEF LifeInv, InOrder, Messages, UpMeansReady
  <1>8. Untouched' /\ Past'
    BY <1>1, <1>2, <1>4, <1>5, <1>10 DEF LifeInv, Untouched, Past
  <1>9. Cleared'
    BY <1>1, <1>2, <1>4, <1>5 DEF LifeInv, Cleared
  <1> QED  BY <1>6, <1>7, <1>8, <1>9 DEF LifeInv

\* A watcher that goes on.
LEMMA WatcherGoesOn ==
    ASSUME LifeInv, cleanup # "exited", NEW n \in Watched,
           ReceiveLocked(n) \/ Removed(n) \/ Drain(n) \/ Stop(n)
    PROVE  LifeInv'
  <1> USE DEF mainVars, exitVars
  <1>1. UNCHANGED <<mainVars, ready, armed, tasks, node, past, exitVars, cleanup>>
    BY DEF ReceiveLocked, Removed, Drain, Stop, watcherVars, nodeVars
  <1>2. PICK to \in Running :
            /\ watcher[n] \in Running
            /\ watcher' = [watcher EXCEPT ![n] = to]
            /\ to = "announce" => n \in armed
    <2>1. CASE Drain(n)
      <3>1. watcher[n] = "drain" /\ watcher' = watcher
        BY <2>1 DEF Drain, watcherVars
      <3>2. watcher' = [watcher EXCEPT ![n] = "drain"]
        BY <3>1 DEF LifeInv, TypeOK
      <3> QED  BY <3>1, <3>2 DEF Running
    <2>2. CASE ReceiveLocked(n) \/ Removed(n) \/ Stop(n)
      BY <2>2 DEF ReceiveLocked, Removed, Stop, Move, Running
    <2> QED  BY <2>1, <2>2
  <1>3. \A m \in Watched : watcher'[m] = IF m = n THEN to ELSE watcher[m]
    BY <1>2 DEF LifeInv, TypeOK
  <1>4. Registered' = Registered /\ Announced' = Announced /\ Busy' = Busy
    BY <1>1, <1>2, <1>3 DEF Registered, Announced, Busy, Running
  <1>5. n \in Registered
    BY <1>2 DEF Registered, Running
  <1>6. /\ watcher' \in [Watched -> Running \cup {"none", "fatal", "ended"}]
        /\ offer' \in [Watched -> {"nothing", "locked", "lost"}]
        /\ release' \in {release, release \cup {n}}
    <2>1. watcher' \in [Watched -> Running \cup {"none", "fatal", "ended"}]
      BY <1>2 DEF LifeInv, TypeOK
    <2>2. offer' \in [Watched -> {"nothing", "locked", "lost"}]
      BY DEF LifeInv, TypeOK, ReceiveLocked, Removed, Drain, Stop, Receive, nodeVars
    <2>3. release' \in {release, release \cup {n}}
      BY DEF ReceiveLocked, Removed, Drain, Stop, nodeVars
    <2> QED  BY <2>1, <2>2, <2>3
  <1>7. TypeOK'
    BY <1>1, <1>4, <1>6 DEF LifeInv, TypeOK, Busy
  <1>8. InOrder' /\ UpMeansReady' /\ Past'
    BY <1>1, <1>4 DEF LifeInv, InOrder, UpMeansReady, Past
  <1>9. Untouched'
    BY <1>1, <1>4, <1>5, <1>6 DEF LifeInv, Untouched
  <1>10. Messages'
    BY <1>1, <1>2, <1>3, <1>4 DEF LifeInv, Messages
  <1>11. Cleared'
    BY <1>1, <1>3, <1>4 DEF LifeInv, Cleared, Running
  <1> QED  BY <1>7, <1>8, <1>9, <1>10, <1>11 DEF LifeInv

\* One that has nothing more to do.
LEMMA WatcherEnds ==
    ASSUME LifeInv, cleanup # "exited", NEW n \in Watched,
           ReceiveLost(n) \/ Done(n)
    PROVE  LifeInv'
  <1> USE DEF mainVars, exitVars
  <1>1. /\ UNCHANGED <<mainVars, ready, armed, node, past, release, exitVars>>
        /\ tasks' = tasks - 1
        /\ cleanup' \in {"asked", cleanup}
    BY DEF ReceiveLost, Done, AskExit, nodeVars
  <1>2. PICK to \in {"fatal", "ended"} :
            /\ watcher[n] \in {"select", "drain"}
            /\ watcher' = [watcher EXCEPT ![n] = to]
            /\ to = "ended" => node[n] = "closed"
    BY DEF ReceiveLost, Done, Move
  <1>3. \A m \in Watched : watcher'[m] = IF m = n THEN to ELSE watcher[m]
    BY <1>2 DEF LifeInv, TypeOK
  <1>4. /\ Registered' = Registered /\ Announced' = Announced
        /\ Busy' = Busy \ {n} /\ n \in Busy
    BY <1>1, <1>2, <1>3 DEF Registered, Announced, Busy, Running
  <1>5. /\ watcher' \in [Watched -> Running \cup {"none", "fatal", "ended"}]
        /\ offer' \in [Watched -> {"nothing", "locked", "lost"}]
    <2>1. watcher' \in [Watched -> Running \cup {"none", "fatal", "ended"}]
      BY <1>2 DEF LifeInv, TypeOK
    <2>2. offer' \in [Watched -> {"nothing", "locked", "lost"}]
      BY DEF LifeInv, TypeOK, ReceiveLost, Done, Receive, nodeVars
    <2> QED  BY <2>1, <2>2
  <1>6. tasks' = Cardinality(Busy')
    <2>1. tasks = Cardinality(Busy) /\ Busy \subseteq Watched
      BY DEF LifeInv, TypeOK, Busy
    <2> QED  BY <1>1, <1>4, <2>1, CountLess
  <1>7. TypeOK'
    BY <1>1, <1>5, <1>6 DEF LifeInv, TypeOK, Busy
  <1>8. InOrder' /\ UpMeansReady' /\ Past' /\ Untouched'
    BY <1>1, <1>4 DEF LifeInv, InOrder, UpMeansReady, Past, Untouched
  <1>9. Messages'
    BY <1>1, <1>3, <1>4 DEF LifeInv, Messages
  <1>10. Cleared'
    BY <1>1, <1>2, <1>3, <1>4 DEF LifeInv, Cleared
  <1> QED  BY <1>7, <1>8, <1>9, <1>10 DEF LifeInv

\* The one message of a watcher.
LEMMA AnnounceStep ==
    ASSUME LifeInv, cleanup # "exited", NEW n \in Watched, Announce(n)
    PROVE  LifeInv'
  <1> USE DEF mainVars, exitVars, nodeVars
  <1>1. /\ UNCHANGED <<mainVars, tasks, nodeVars, exitVars, cleanup>>
        /\ watcher[n] = "announce" /\ watcher' = [watcher EXCEPT ![n] = "select"]
        /\ ready = 0 /\ ready' = 1
        /\ armed' = armed \ {n}
    BY DEF Announce, Move
  <1>2. \A m \in Watched : watcher'[m] = IF m = n THEN "select" ELSE watcher[m]
    BY <1>1 DEF LifeInv, TypeOK
  <1>3. n \in armed /\ n \in Registered
    BY <1>1 DEF LifeInv, Messages, Registered
  <1>4. /\ Registered' = Registered /\ Busy' = Busy
        /\ Announced' = Announced \cup {n} /\ n \notin Announced
        /\ Announced \subseteq Watched
    BY <1>1, <1>2, <1>3 DEF Registered, Announced, Busy, Running
  <1>5. TypeOK'
    <2>1. watcher' \in [Watched -> Running \cup {"none", "fatal", "ended"}]
      BY <1>1 DEF LifeInv, TypeOK, Running
    <2>2. tasks' = Cardinality(Busy')
      BY <1>1, <1>4 DEF LifeInv, TypeOK, Busy
    <2>3. armed' \subseteq Watched /\ ready' \in 0 .. 1
      BY <1>1 DEF LifeInv, TypeOK
    <2> QED  BY <1>1, <2>1, <2>2, <2>3 DEF LifeInv, TypeOK, Busy
  <1>6. InOrder' /\ UpMeansReady' /\ Past'
    BY <1>1, <1>4 DEF LifeInv, InOrder, UpMeansReady, Past
  <1>7. Untouched'
    BY <1>1, <1>4 DEF LifeInv, Untouched
  <1>8. Messages'
    <2>1. main' # "fatal" => got' + ready' = Cardinality(Announced')
      <3>1. Cardinality(Announced') = Cardinality(Announced) + 1
        BY <1>4, CountMore
      <3>2. got \in Nat
        BY NodesFacts DEF LifeInv, TypeOK
      <3> QED  BY <1>1, <3>1, <3>2 DEF LifeInv, Messages
    <2>2. \A m \in Watched : watcher'[m] = "announce" => m \in armed'
      BY <1>1, <1>2 DEF LifeInv, Messages
    <2> QED  BY <1>1, <2>1, <2>2 DEF LifeInv, Messages
  <1>9. Cleared'
    BY <1>1, <1>2, <1>4 DEF LifeInv, Cleared
  <1> QED  BY <1>5, <1>6, <1>7, <1>8, <1>9 DEF LifeInv

LEMMA LifeSame == LifeInv /\ UNCHANGED vars => LifeInv'
  BY DEF vars, mainVars, watcherVars, nodeVars, exitVars, LifeInv, TypeOK, InOrder,
         Untouched, Messages, Cleared, Past, UpMeansReady, Registered, Announced

LEMMA LifeStep == LifeInv /\ [Next]_vars => LifeInv'
  <1> SUFFICES ASSUME LifeInv, [Next]_vars PROVE LifeInv'
    OBVIOUS
  <1>1. CASE UNCHANGED vars  BY <1>1, LifeSame
  <1>2. CASE Next
    <2>1. cleanup # "exited"
      BY <1>2 DEF Next
    <2>2. CASE Register \/ RegisterFails
      BY <2>1, <2>2, RegisterStep, RegisterFailsStep
    <2>3. CASE Serve \/ TakeReady
      BY <2>1, <2>3, MainSteps
    <2>4. CASE Interrupted \/ CleanupStep
      BY <2>1, <2>4, ExitSteps
    <2>5. ASSUME NEW n \in Watched,
                 WatcherStep(n) \/ Stop(n) \/ Hold(n) \/ Lose(n) \/ Release(n)
          PROVE  LifeInv'
      BY <2>1, <2>5, WatcherGoesOn, WatcherEnds, AnnounceStep, NodeSteps
      DEF WatcherStep
    <2> QED  BY <1>2, <2>2, <2>3, <2>4, <2>5 DEF Next, MainStep
  <1> QED  BY <1>1, <1>2

LEMMA LifeInvariant == Spec => []LifeInv
  BY LifeInit, LifeStep, PTL DEF Spec

-----------------------------------------------------------------------------
\* The channel ready never holds more than the message it has room for, main
\* receives no more of them than it waits for, and the WaitGroup counts the
\* watchers that still have to call Done and so is never negative.
THEOREM LifecycleTyped == Spec => []TypeOK
  <1>1. LifeInv => TypeOK  BY DEF LifeInv
  <1> QED  BY <1>1, LifeInvariant, PTL

\* A process says it is up only when each of its nodes has been written
\* (executor/main.go:176-177, stager/main.go).
THEOREM UpOnlyWhenReady == Spec => []UpMeansReady
  <1>1. LifeInv => UpMeansReady  BY DEF LifeInv
  <1> QED  BY <1>1, LifeInvariant, PTL

\* A process that exits has cleared the nodes it had registered when it was told
\* to stop, but for those whose loss brought it down (executor/main.go:110-117):
\* when the WaitGroup is at zero no watcher is left between its select and Done.
THEOREM ExitClearsNodes == Spec => []NodesCleared
  <1>1. LifeInv => NodesCleared
    <2> SUFFICES ASSUME LifeInv, cleanup = "exited", NEW n \in before
                 PROVE  node[n] = "closed" \/ watcher[n] = "fatal"
      BY DEF NodesCleared
    <2>1. Cardinality(Busy) = 0 /\ IsFiniteSet(Busy)
      BY WatchedFinite DEF LifeInv, TypeOK, Cleared, Busy
    <2>2. Busy = {}
      BY <2>1, FS_EmptySet
    <2>3. n \in Registered /\ n \in Watched /\ n \notin Busy
      BY <2>2 DEF LifeInv, Cleared, Registered
    <2>4. watcher[n] \in {"fatal", "ended"}
      BY <2>3 DEF LifeInv, TypeOK, Registered, Busy
    <2> QED  BY <2>3, <2>4 DEF LifeInv, Cleared
  <1> QED  BY <1>1, LifeInvariant, PTL

-----------------------------------------------------------------------------
(* The refinement: what the others see of an executor is what Presence      *)
(* allows.                                                                  *)

\* What the others see, written out.
LEMMA PhaseIs ==
    /\ ~Serving => Phase = "off"
    /\ Serving /\ cleanup = "exited" => Phase = "dead"
    /\ Serving /\ cleanup # "exited" =>
        /\ past["presence"] = "unwritten" => Phase = "booting"
        /\ past["presence"] = "written" => Phase = "up"
        /\ past["presence"] = "gone" => Phase = "lost"
  BY DEF Phase

There == Serving /\ node["presence"] = "held"

LEMMA MovesAs ==
    ASSUME NEW from, NEW to, Phase \in from, Phase' = to
    PROVE  Process!Move("self", from, to)
  BY DEF Process!Move

\* What does not show.
LEMMA NotSeen ==
    ASSUME Phase' = Phase, There' <=> There
    PROVE  UNCHANGED Process!presenceVars
  BY DEF Process!presenceVars, There

LEMMA NotServing ==
    ASSUME ~Serving, ~Serving'
    PROVE  UNCHANGED Process!presenceVars
  <1>1. Phase = "off" /\ Phase' = "off"
    BY DEF Phase
  <1> QED  BY <1>1, NotSeen DEF There

LEMMA SameSeen ==
    ASSUME Serving' <=> Serving,
           cleanup' = "exited" <=> cleanup = "exited",
           past'["presence"] = past["presence"], node'["presence"] = node["presence"]
    PROVE  UNCHANGED Process!presenceVars
  <1>1. Phase' = Phase
    BY DEF Phase
  <1> QED  BY <1>1, NotSeen DEF There

LEMMA PhaseNext ==
    /\ Serving' /\ cleanup' = "exited" => Phase' = "dead"
    /\ Serving' /\ cleanup' # "exited" =>
        /\ past'["presence"] = "unwritten" => Phase' = "booting"
        /\ past'["presence"] = "written" => Phase' = "up"
        /\ past'["presence"] = "gone" => Phase' = "lost"
  BY DEF Phase

LEMMA PresentAs ==
    /\ There' => {e \in {"self"} : Serving /\ node["presence"] = "held"}' = {"self"}
    /\ ~There' => {e \in {"self"} : Serving /\ node["presence"] = "held"}' = {}
    /\ There => {e \in {"self"} : Serving /\ node["presence"] = "held"} = {"self"}
    /\ ~There => {e \in {"self"} : Serving /\ node["presence"] = "held"} = {}
  BY DEF There

\* main begins to serve, with the node in whatever state it is by then.
LEMMA ServeSeen ==
    ASSUME LifeInv, "presence" \in Watched, cleanup # "exited", Serve
    PROVE  Process!Next
  <1>1. /\ ~Serving /\ Serving' /\ cleanup' # "exited"
        /\ past'["presence"] = past["presence"]
        /\ node'["presence"] = node["presence"]
    BY DEF Serve, Serving, nodeVars
  <1>2. Phase = "off" /\ ~There
    BY <1>1, PhaseIs DEF There
  <1>3. /\ past["presence"] \in {"unwritten", "written", "gone"}
        /\ past["presence"] = "written" => node["presence"] = "held"
        /\ node["presence"] = "held" => past["presence"] # "unwritten"
    BY DEF LifeInv, TypeOK, Past
  <1>4. CASE past["presence"] = "unwritten"
    <2>1. Process!Move("self", {"off"}, "booting")
      BY <1>1, <1>2, <1>4, PhaseNext, MovesAs
    <2>2. ~There'
      BY <1>1, <1>3, <1>4 DEF There
    <2> QED  BY <1>2, <2>1, <2>2, PresentAs DEF Process!Next, Process!Serve
  <1>5. CASE past["presence"] = "written"
    <2>1. Process!Move("self", {"off"}, "up")
      BY <1>1, <1>2, <1>5, PhaseNext, MovesAs
    <2>2. There'
      BY <1>1, <1>3, <1>5 DEF There
    <2> QED  BY <1>2, <2>1, <2>2, PresentAs DEF Process!Next, Process!Serve
  <1>6. CASE past["presence"] = "gone"
    <2>1. Process!Move("self", {"off"}, "lost")
      BY <1>1, <1>2, <1>6, PhaseNext, MovesAs
    <2> QED  BY <1>2, <2>1, PresentAs DEF Process!Next, Process!ServeLost
  <1> QED  BY <1>3, <1>4, <1>5, <1>6

\* The end of main, while it serves.
LEMMA ExitSeen ==
    ASSUME LifeInv, "presence" \in Watched, cleanup # "exited", FinishCleanup,
           Serving
    PROVE  Process!Next
  <1>1. Serving' /\ cleanup' = "exited" /\ node' = node
    BY DEF FinishCleanup, Serving, mainVars, nodeVars
  <1>2. Phase \in {"booting", "up", "lost"}
    <2> past["presence"] \in {"unwritten", "written", "gone"}
      BY DEF LifeInv, TypeOK
    <2> QED  BY PhaseIs
  <1>3. Process!Move("self", {"booting", "up", "lost"}, "dead")
    BY <1>1, <1>2, PhaseNext, MovesAs
  <1>4. There' <=> There
    BY <1>1 DEF There
  <1> QED
    BY <1>3, <1>4, PresentAs DEF Process!Next, Process!End, Process!Serving

\* What MaintainNode does to the presence node while main serves.
LEMMA NodeSeen ==
    ASSUME LifeInv, "presence" \in Watched, cleanup # "exited", Serving,
           Hold("presence") \/ Lose("presence") \/ Release("presence")
    PROVE  Process!Next \/ UNCHANGED Process!presenceVars
  <1> DEFINE p == "presence"
  <1>1. Serving' /\ cleanup' # "exited"
    BY DEF Hold, Lose, Release, Serving, mainVars
  <1>2. /\ past[p] \in {"unwritten", "written", "gone"}
        /\ past[p] = "written" => node[p] = "held"
        /\ node[p] = "held" => past[p] # "unwritten"
    BY DEF LifeInv, TypeOK, Past
  <1>3. CASE Hold(p)
    <2>1. There' /\ past'[p] = IF past[p] = "unwritten" THEN "written" ELSE past[p]
      BY <1>1, <1>3 DEF Hold, There, LifeInv, TypeOK
    <2>2. CASE past[p] = "unwritten"
      <3>1. Process!Move("self", {"booting"}, "up")
        BY <1>1, <2>1, <2>2, PhaseIs, PhaseNext, MovesAs
      <3>2. ~There
        BY <1>2, <2>2 DEF There
      <3> QED
        BY <2>1, <3>1, <3>2, PresentAs DEF Process!Next, Process!Announce
    <2>3. CASE past[p] = "written"
      <3>1. Phase = "up" /\ Phase' = "up"
        BY <1>1, <2>1, <2>3, PhaseIs, PhaseNext
      <3>2. There
        BY <1>2, <2>3 DEF There
      <3> QED  BY <2>1, <3>1, <3>2, NotSeen
    <2>4. CASE past[p] = "gone"
      <3>1. Phase = "lost" /\ Phase' = "lost"
        BY <1>1, <2>1, <2>4, PhaseIs, PhaseNext
      <3> QED
        BY <2>1, <3>1, PresentAs DEF Process!Next, Process!Regain
    <2> QED  BY <1>2, <2>2, <2>3, <2>4
  <1>4. ASSUME past'[p] = "gone", node'[p] # "held", past[p] # "unwritten"
        PROVE  Process!Next
    <2>1. Phase \in {"up", "lost"} /\ Phase' = "lost"
      BY <1>1, <1>2, <1>4, PhaseIs, PhaseNext
    <2>2. Process!Move("self", {"up", "lost"}, "lost")
      BY <2>1, MovesAs
    <2>3. ~There'
      BY <1>4 DEF There
    <2> QED  BY <2>2, <2>3, PresentAs DEF Process!Next, Process!Lose
  <1>5. CASE Lose(p)
    <2>1. past'[p] = "gone" /\ node'[p] # "held" /\ past[p] # "unwritten"
      BY <1>2, <1>5 DEF Lose, LifeInv, TypeOK
    <2> QED  BY <1>4, <2>1
  <1>6. CASE Release(p)
    <2>1. /\ node'[p] = "closed"
          /\ past'[p] = IF past[p] = "unwritten" THEN past[p] ELSE "gone"
      BY <1>6 DEF Release, LifeInv, TypeOK
    <2>2. CASE past[p] = "unwritten"
      <3>1. Phase = "booting" /\ Phase' = "booting"
        BY <1>1, <2>1, <2>2, PhaseIs, PhaseNext
      <3>2. ~There /\ ~There'
        BY <1>2, <2>1, <2>2 DEF There
      <3> QED  BY <3>1, <3>2, NotSeen
    <2>3. CASE past[p] # "unwritten"
      BY <1>4, <2>1, <2>3
    <2> QED  BY <2>2, <2>3
  <1> QED  BY <1>3, <1>5, <1>6

LEMMA PresenceInit ==
    ASSUME "presence" \in Watched, Init
    PROVE  Process!Init
  <1>1. ~Serving
    BY DEF Init, Serving
  <1>2. Phase = "off" /\ ~There
    BY <1>1, PhaseIs DEF There
  <1> QED  BY <1>2, PresentAs DEF Process!Init

LEMMA PresenceStep ==
    ASSUME "presence" \in Watched, LifeInv, [Next]_vars
    PROVE  [Process!Next]_Process!presenceVars
  <1> USE DEF mainVars, watcherVars, nodeVars, exitVars
  <1>1. CASE UNCHANGED vars
    <2>1. UNCHANGED <<main, cleanup, past, node>>
      BY <1>1 DEF vars
    <2> QED  BY <2>1, SameSeen DEF Serving
  <1>2. CASE Next
    <2>0. cleanup # "exited"
      BY <1>2 DEF Next
    <2>1. CASE Serve
      BY <2>0, <2>1, ServeSeen
    <2>2. CASE FinishCleanup
      <3>1. CASE Serving
        BY <2>0, <2>2, <3>1, ExitSeen
      <3>2. CASE ~Serving
        <4>1. ~Serving'
          BY <2>2, <3>2 DEF FinishCleanup, Serving
        <4> QED  BY <3>2, <4>1, NotServing
      <3> QED  BY <3>1, <3>2
    <2>3. CASE Register \/ RegisterFails
      <3>1. ~Serving /\ ~Serving'
        BY <2>3 DEF Register, RegisterFails, Serving
      <3> QED  BY <3>1, NotServing
    <2>4. ASSUME Serving' <=> Serving, cleanup' # "exited", UNCHANGED <<past, node>>
          PROVE  UNCHANGED Process!presenceVars
      BY <2>0, <2>4, SameSeen
    <2>5. CASE TakeReady \/ Interrupted \/ CloseStop
      <3>1. /\ Serving' <=> Serving
            /\ cleanup' # "exited" /\ UNCHANGED <<past, node>>
        BY <2>0, <2>5 DEF TakeReady, Interrupted, AskExit, CloseStop, Serving
      <3> QED  BY <2>4, <3>1
    <2>6. ASSUME NEW n \in Watched, WatcherStep(n) \/ Stop(n)
          PROVE  UNCHANGED Process!presenceVars
      <3>1. UNCHANGED <<main, past, node>> /\ cleanup' \in {"asked", cleanup}
        BY <2>6 DEF WatcherStep, Stop, ReceiveLocked, Announce, ReceiveLost, Removed,
                    Drain, Done, AskExit
      <3> QED  BY <2>0, <2>4, <3>1 DEF Serving
    <2>7. ASSUME NEW n \in Watched, Hold(n) \/ Lose(n) \/ Release(n)
          PROVE  Process!Next \/ UNCHANGED Process!presenceVars
      <3>1. UNCHANGED <<main, cleanup>>
        BY <2>7 DEF Hold, Lose, Release
      <3>2. CASE ~Serving
        BY <3>1, <3>2, NotServing DEF Serving
      <3>3. CASE n # "presence"
        <4>1. past'["presence"] = past["presence"] /\ node'["presence"] = node["presence"]
          BY <2>7, <3>3 DEF Hold, Lose, Release, LifeInv, TypeOK
        <4> QED  BY <3>1, <4>1, SameSeen DEF Serving
      <3>4. CASE n = "presence" /\ Serving
        BY <2>0, <2>7, <3>4, NodeSeen
      <3> QED  BY <3>2, <3>3, <3>4
    <2> QED
      BY <1>2, <2>1, <2>2, <2>3, <2>5, <2>6, <2>7
      DEF Next, MainStep, CleanupStep
  <1> QED  BY <1>1, <1>2

\* Seen from outside, an executor serves, is present, loses its presence and
\* ends as Presence has it, whatever its goroutines do (executor/main.go:173-177,
\* 196-224).  That it ends once its presence is lost is liveness.
THEOREM ExecutorsArePresences == "presence" \in Watched /\ Spec => ImplementsPresence
  <1> SUFFICES ASSUME "presence" \in Watched PROVE Spec => ImplementsPresence
    OBVIOUS
  <1>1. Init => Process!Init
    BY PresenceInit
  <1>2. LifeInv /\ [Next]_vars => [Process!Next]_Process!presenceVars
    BY PresenceStep
  <1> QED  BY <1>1, <1>2, LifeInvariant, PTL DEF Spec, Process!Spec, ImplementsPresence

=============================================================================
