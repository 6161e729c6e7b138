------------------------------ MODULE VizProofs ------------------------------
(***************************************************************************)
(* Theorems about a simulation and the page that shows it, for every       *)
(* number of tasks, executors and replies, for samples of every length and *)
(* any number of error lines.                                              *)
(***************************************************************************)
EXTENDS Viz, Sums, TLAPS

-----------------------------------------------------------------------------
(* The inductive invariant.                                                 *)

NoneTwice(data) == \A g \in Ours : Completions(data, g) <= 1

Ended(data) == {g \in Ours : Completions(data, g) > 0}

\* Before Wait nothing has been heard.
Unstarted ==
    main = "start" =>
        count = 0 /\ finishing = 0 /\ taskTracker = Empty

\* While no task was completed twice, the tasks that were completed are those
\* Done was called for, and those it will be called for.
Accounted ==
    Listening /\ NoneTwice(taskTracker) =>
        Cardinality(Ended(taskTracker)) = finishing + (Cardinality(Ours) - count)

\* What Wait waits for.
Released == main = "released" => count <= 0

\* Executors are numbered in the order in which they are heard of.
Numbered ==
    \A e \in DOMAIN executorIndexes :
        executorIndexes[e] <= Cardinality(DOMAIN executorIndexes)

Tells(data) ==
    \A g \in DOMAIN data : data[g].ExecutorIndex = 0 <=> data[g].NumCompletions = 0

SimInv ==
    /\ TypeOK
    /\ Unstarted /\ Accounted /\ Released /\ Numbered
    /\ Tells(taskTracker) /\ Tells(result)
    /\ EndsWhenAllCompleted

-----------------------------------------------------------------------------
LEMMA EmptyHasNone ==
    DOMAIN Empty = {} /\ \A g : Completions(Empty, g) = 0
  BY DEF Empty, Completions

LEMMA CountsNat ==
    /\ Cardinality(Ours) \in Nat
    /\ Cardinality(Executors) \in Nat
  BY SimulatorAssumption, FS_CardinalityType

LEMMA CompletionsNat ==
    ASSUME TypeOK, NEW g
    PROVE  Completions(taskTracker, g) \in Nat
  BY DEF TypeOK, TaskData, Completions

\* The index of an executor, and the table it goes into.
LEMMA IndexType ==
    ASSUME TypeOK, Numbered, NEW e \in Executors,
           executorIndexes' = [f \in {e} \cup DOMAIN executorIndexes |-> Index(f)]
    PROVE  /\ Index(e) \in 1 .. Cardinality(Executors)
           /\ executorIndexes' \in
                Injection(DOMAIN executorIndexes', 1 .. Cardinality(Executors))
           /\ DOMAIN executorIndexes' \subseteq Executors
           /\ Numbered'
  <1> DEFINE D == DOMAIN executorIndexes
             n == Cardinality(D)
             N == Cardinality(Executors)
  <1>1. /\ executorIndexes \in [D -> 1 .. N] /\ D \subseteq Executors
        /\ \A a, b \in D : executorIndexes[a] = executorIndexes[b] => a = b
    BY DEF TypeOK, Injection, IsInjective
  <1>2. IsFiniteSet(D) /\ n \in Nat /\ N \in Nat
    BY <1>1, SimulatorAssumption, FS_Subset, FS_CardinalityType
  <1>3. CASE e \in D
    <2>1. {e} \cup D = D  BY <1>3
    <2>2. executorIndexes' = executorIndexes
      BY <2>1, <1>1 DEF Index
    <2> QED  BY <2>2, <1>1, <1>3 DEF Index, Numbered, TypeOK
  <1>4. CASE e \notin D
    <2>1. Cardinality({e} \cup D) = n + 1
      <3>1. Cardinality(D \cup {e}) = n + 1  BY <1>2, <1>4, FS_AddElement
      <3>2. D \cup {e} = {e} \cup D  OBVIOUS
      <3> QED  BY <3>1, <3>2
    <2>2. n + 1 <= N
      <3>1. {e} \cup D \in SUBSET Executors  BY <1>1
      <3> QED  BY <3>1, <2>1, SimulatorAssumption, FS_Subset
    <2>3. /\ DOMAIN executorIndexes' = {e} \cup D
          /\ executorIndexes'[e] = n + 1
          /\ \A f \in D : executorIndexes'[f] = executorIndexes[f]
      BY <1>4 DEF Index
    <2>4. \A f \in D : executorIndexes[f] \in 1 .. N /\ executorIndexes[f] <= n
      BY <1>1 DEF Numbered
    <2>5. \A f \in {e} \cup D : executorIndexes'[f] \in 1 .. N /\ executorIndexes'[f] <= n + 1
      BY <1>2, <2>2, <2>3, <2>4
    <2>6. \A a, b \in {e} \cup D : executorIndexes'[a] = executorIndexes'[b] => a = b
      BY <1>1, <1>2, <2>3, <2>4
    <2>7. executorIndexes' \in [{e} \cup D -> 1 .. N]  BY <2>3, <2>5
    <2>8. executorIndexes' \in Injection({e} \cup D, 1 .. N)
      BY <2>3, <2>6, <2>7 DEF Injection, IsInjective
    <2> QED  BY <1>1, <1>2, <1>4, <2>1, <2>2, <2>3, <2>5, <2>8 DEF Index, Numbered
  <1> QED  BY <1>3, <1>4

-----------------------------------------------------------------------------
(* One lemma for each step.                                                 *)

LEMMA SimulatorInit == Init => SimInv
  <1> SUFFICES ASSUME Init PROVE SimInv
    OBVIOUS
  <1>1. TypeOK /\ Numbered
    BY EmptyHasNone, CountsNat, SimulatorAssumption
    DEF Init, TypeOK, Numbered, Empty, Injection, IsInjective, TaskData
  <1>2. Tells(taskTracker) /\ Tells(result)
    BY EmptyHasNone DEF Init, Tells
  <1>3. Unstarted /\ Accounted /\ Released /\ EndsWhenAllCompleted
    BY DEF Init, Unstarted, Accounted, Released, Listening, EndsWhenAllCompleted
  <1> QED  BY <1>1, <1>2, <1>3 DEF SimInv

LEMMA StartStep == SimInv /\ Start => SimInv'
  <1> SUFFICES ASSUME SimInv, Start PROVE SimInv'
    OBVIOUS
  <1> USE DEF SimInv, Start, trackerVars
  <1>1. TypeOK'  BY CountsNat DEF TypeOK
  <1>2. Ended(taskTracker) = {}  BY EmptyHasNone DEF Unstarted, Ended
  <1>3. Accounted'  BY <1>2, FS_EmptySet, CountsNat DEF Accounted, Unstarted
  <1>4. Unstarted' /\ Released' /\ EndsWhenAllCompleted'
    BY DEF Unstarted, Released, EndsWhenAllCompleted
  <1>5. Numbered' /\ Tells(taskTracker)' /\ Tells(result)'  BY DEF Numbered
  <1> QED  BY <1>1, <1>3, <1>4, <1>5

LEMMA InterruptStep == SimInv /\ Interrupt => SimInv'
  <1> SUFFICES ASSUME SimInv, Interrupt PROVE SimInv'
    OBVIOUS
  <1> USE DEF SimInv, Interrupt, trackerVars
  <1>1. TypeOK' /\ Numbered'  BY DEF TypeOK, Numbered
  <1>2. Unstarted' /\ Released' /\ EndsWhenAllCompleted'
    BY DEF Unstarted, Released, EndsWhenAllCompleted
  <1>3. Accounted'  BY DEF Accounted, Listening
  <1> QED  BY <1>1, <1>2, <1>3

\* A wait that was released has had its tasks completed, unless one of them was
\* completed for two.
LEMMA ResultStep == SimInv /\ SimulationResult => SimInv'
  <1> SUFFICES ASSUME SimInv, SimulationResult PROVE SimInv'
    OBVIOUS
  <1> USE DEF SimInv, SimulationResult, trackerVars
  <1>1. TypeOK' /\ Numbered'  BY DEF TypeOK, Numbered
  <1>2. Unstarted' /\ Released' /\ Accounted'
    BY DEF Unstarted, Released, Accounted, Listening
  <1>3. Tells(result)' /\ Tells(taskTracker)'  BY DEF Tells
  <1>4. ASSUME main = "released", NoneTwice(taskTracker)
        PROVE  \A g \in Ours : Completions(taskTracker, g) > 0
    <2> DEFINE E == Ended(taskTracker)
    <2>1. Cardinality(E) = finishing + (Cardinality(Ours) - count)
      BY <1>4 DEF Accounted, Listening
    <2>2. count \in Int /\ count <= 0 /\ finishing \in Nat
      BY <1>4 DEF Released, TypeOK
    <2>3. Cardinality(E) >= Cardinality(Ours)  BY <2>1, <2>2, CountsNat
    <2>4. E \in SUBSET Ours  BY DEF Ended
    <2>5. Cardinality(E) <= Cardinality(Ours) /\ Cardinality(E) \in Nat
      BY <2>4, SimulatorAssumption, FS_Subset, FS_CardinalityType
    <2>6. E = Ours
      BY <2>3, <2>4, <2>5, CountsNat, SimulatorAssumption, FS_Subset
    <2> QED  BY <2>6 DEF Ended
  <1>5. \A g : Completions(result', g) = Completions(taskTracker, g)
    BY DEF Completions
  <1>6. EndsWhenAllCompleted'
    BY <1>4, <1>5, CompletionsNat DEF EndsWhenAllCompleted, NoneTwice
  <1> QED  BY <1>1, <1>2, <1>3, <1>6

LEMMA DoneStep == SimInv /\ Done => SimInv'
  <1> SUFFICES ASSUME SimInv, Done PROVE SimInv'
    OBVIOUS
  <1> USE DEF SimInv, Done, trackerVars
  <1>1. TypeOK' /\ Numbered'  BY DEF TypeOK, Numbered
  <1>2. Unstarted' /\ Released' /\ EndsWhenAllCompleted'
    BY DEF Unstarted, Released, EndsWhenAllCompleted, Listening, TypeOK
  <1>3. finishing' + (Cardinality(Ours) - count')
            = finishing + (Cardinality(Ours) - count)
    BY CountsNat DEF TypeOK
  <1>4. Accounted'  BY <1>3 DEF Accounted, Listening
  <1> QED  BY <1>1, <1>2, <1>4

LEMMA RegisterStep ==
    ASSUME SimInv, NEW g \in Ours, RegisterDesired(g)
    PROVE  SimInv'
  <1> USE DEF SimInv, RegisterDesired, trackerVars
  <1> DEFINE new == [ExecutorIndex |-> 0, NumCompletions |-> 0]
  <1>1. /\ DOMAIN taskTracker' = {g} \cup DOMAIN taskTracker
        /\ taskTracker'[g] = new
        /\ \A h \in DOMAIN taskTracker : taskTracker'[h] = taskTracker[h]
    OBVIOUS
  <1>2. new \in TaskData  BY CountsNat DEF TaskData
  <1>3. taskTracker' \in [{g} \cup DOMAIN taskTracker -> TaskData]
    <2>1. \A h \in DOMAIN taskTracker : taskTracker[h] \in TaskData  BY DEF TypeOK
    <2> QED  BY <2>1, <1>2
  <1>4. TypeOK' /\ Numbered'  BY <1>1, <1>3 DEF TypeOK, Numbered
  <1>5. \A h : Completions(taskTracker', h) = Completions(taskTracker, h)
    BY <1>1 DEF Completions
  <1>6. Accounted'  BY <1>5 DEF Accounted, NoneTwice, Ended, Listening
  <1>7. Tells(taskTracker)'  BY <1>1 DEF Tells
  <1>8. Unstarted' /\ Released' /\ EndsWhenAllCompleted'
    BY DEF Unstarted, Released, EndsWhenAllCompleted, Listening
  <1> QED  BY <1>4, <1>6, <1>7, <1>8

LEMMA CompletedStep ==
    ASSUME SimInv, NEW g \in Guids, NEW e \in Executors, Completed(g, e)
    PROVE  SimInv'
  <1> USE DEF SimInv, Completed
  <1>1. /\ Listening /\ UNCHANGED <<main, count, result>>
        /\ delivered[g] < MaxReplies
        /\ delivered' = [delivered EXCEPT ![g] = @ + 1]
        /\ executorIndexes' = [f \in {e} \cup DOMAIN executorIndexes |-> Index(f)]
    BY DEF Delivered
  <1>2. /\ Index(e) \in 1 .. Cardinality(Executors)
        /\ executorIndexes' \in
                Injection(DOMAIN executorIndexes', 1 .. Cardinality(Executors))
        /\ DOMAIN executorIndexes' \subseteq Executors
        /\ Numbered'
    BY <1>1, IndexType
  <1>3. delivered' \in [Guids -> 0 .. MaxReplies]
    BY <1>1, SimulatorAssumption DEF TypeOK
  <1>4. Unstarted' /\ Released' /\ EndsWhenAllCompleted' /\ Tells(result)'
    BY <1>1 DEF Unstarted, Released, EndsWhenAllCompleted, Listening
  <1>5. CASE g \notin DOMAIN taskTracker
    <2>1. UNCHANGED <<taskTracker, finishing>>  BY <1>5
    <2>2. TypeOK'  BY <2>1, <1>1, <1>2, <1>3 DEF TypeOK
    <2>3. Accounted'  BY <2>1, <1>1 DEF Accounted, Listening
    <2> QED  BY <2>1, <2>2, <2>3, <1>2, <1>4
  <1>6. CASE g \in DOMAIN taskTracker
    <2> DEFINE old == taskTracker[g]
               new == [ExecutorIndex |-> Index(e), NumCompletions |-> old.NumCompletions + 1]
    <2>1. old \in TaskData /\ g \in Ours  BY <1>6 DEF TypeOK
    <2>2. finishing' = finishing + 1 /\ taskTracker' = [taskTracker EXCEPT ![g] = new]
      BY <2>1, <1>6 DEF Track, TaskData
    <2>3. new \in TaskData /\ new.ExecutorIndex # 0 /\ new.NumCompletions # 0
      BY <2>1, <1>2, CountsNat DEF TaskData
    <2>4. TypeOK'
      BY <2>2, <2>3, <1>1, <1>2, <1>3 DEF TypeOK
    <2>5. Tells(taskTracker)'  BY <2>2, <2>3, <1>6 DEF Tells, TypeOK
    <2>6. /\ Completions(taskTracker', g) = Completions(taskTracker, g) + 1
          /\ \A h : h # g => Completions(taskTracker', h) = Completions(taskTracker, h)
      BY <2>2, <1>6 DEF Completions, TypeOK
    <2>7. Accounted'
      <3> SUFFICES ASSUME NoneTwice(taskTracker')
                   PROVE  Cardinality(Ended(taskTracker'))
                            = finishing' + (Cardinality(Ours) - count)
        BY <1>1 DEF Accounted
      <3>1. Completions(taskTracker, g) = 0
        BY <2>1, <2>6, CompletionsNat DEF NoneTwice
      <3>2. NoneTwice(taskTracker)
        BY <2>6, <3>1 DEF NoneTwice
      <3>3. /\ Ended(taskTracker') = Ended(taskTracker) \cup {g}
            /\ g \notin Ended(taskTracker)
        BY <2>1, <2>6, <3>1 DEF Ended
      <3>4. Ended(taskTracker) \in SUBSET Ours  BY DEF Ended
      <3>5. IsFiniteSet(Ended(taskTracker))
        BY <3>4, SimulatorAssumption, FS_Subset
      <3>6. Cardinality(Ended(taskTracker')) = Cardinality(Ended(taskTracker)) + 1
        BY <3>3, <3>5, FS_AddElement
      <3>7. Cardinality(Ended(taskTracker)) = finishing + (Cardinality(Ours) - count)
        BY <3>2, <1>1 DEF Accounted
      <3> QED  BY <3>6, <3>7, <2>2, CountsNat DEF TypeOK
    <2> QED  BY <2>4, <2>5, <2>7, <1>2, <1>4
  <1> QED  BY <1>5, <1>6

LEMMA SimulatorStep == SimInv /\ [Next]_vars => SimInv'
  <1> SUFFICES ASSUME SimInv, [Next]_vars PROVE SimInv'
    OBVIOUS
  <1>1. CASE UNCHANGED vars
    BY <1>1 DEF vars, trackerVars, SimInv, TypeOK, Unstarted, Accounted, Released,
        Numbered, EndsWhenAllCompleted, Listening
  <1> QED
    BY <1>1, StartStep, InterruptStep, ResultStep, DoneStep, RegisterStep, CompletedStep
    DEF Next

LEMMA SimulatorInvariant == Spec => []SimInv
  BY SimulatorInit, SimulatorStep, PTL DEF Spec

-----------------------------------------------------------------------------
\* The types of the simulator, in every state it can come to.
THEOREM SimulatorTyped == Spec => []TypeOK
  <1>1. SimInv => TypeOK  BY DEF SimInv
  <1> QED  BY <1>1, SimulatorInvariant, PTL

\* A simulation that ends by itself has seen all of its tasks completed, unless
\* its result shows one that was completed twice, for any number of tasks, of
\* executors and of replies, in any order (simulation.go:136-143).
THEOREM SimulationsEndCompleted == Spec => []EndsWhenAllCompleted
  <1>1. SimInv => EndsWhenAllCompleted  BY DEF SimInv
  <1> QED  BY <1>1, SimulatorInvariant, PTL

\* Number zero stands for no executor, and for the tasks that were not completed
\* (simulation.go:123-127, 191-194).
THEOREM ZeroIsNoExecutor == Spec => []DistributionTells
  <1>1. SimInv => DistributionTells  BY DEF SimInv, Tells, DistributionTells
  <1> QED  BY <1>1, SimulatorInvariant, PTL

-----------------------------------------------------------------------------
(* Rounding.                                                                *)

LEMMA MinOfTwo ==
    ASSUME NEW a \in Int, NEW b \in Int
    PROVE  Min({a, b}) = IF a <= b THEN a ELSE b
  BY DEF Min

\* Two values at most five units apart are rounded to the same second, or to
\* one and the next.
LEMMA Rounding ==
    ASSUME NEW v \in Nat
    PROVE  /\ Bucket(v) \in Nat
           /\ Bucket(v * Second) = v
           /\ \A u \in Nat : v <= u /\ u <= v + 5 => Bucket(u) \in {Bucket(v), Bucket(v) + 1}
           /\ Bucket(v) >= v \div Second
           /\ v \div Second \in Nat
           /\ (v \div Second) * Second <= v
           /\ v < (v \div Second) * Second + Second
  BY DEF Bucket, Second

\* Where the slider stands for a value the animation may reach.
LEMMA ShownType ==
    ASSUME VizTypeOK, NEW v \in Nat \cup {NaN}
    PROVE  Shown(v) \in 0 .. LastSecond
  <1>1. duration \in Nat  BY VizAssumption DEF VizTypeOK
  <1>2. LastSecond \in Nat  BY <1>1, Rounding DEF LastSecond
  <1>3. CASE v = NaN
    BY <1>2, <1>3 DEF Shown
  <1>4. CASE v # NaN
    <2>1. v \in Nat /\ Bucket(v) \in Nat  BY <1>4, Rounding
    <2>2. Shown(v) = Min({LastSecond, Bucket(v)})  BY <1>4 DEF Shown, Bucket
    <2> QED  BY <1>2, <2>1, <2>2, MinOfTwo
  <1> QED  BY <1>3, <1>4

LEMMA ShownSteps ==
    ASSUME VizTypeOK, NEW v \in Nat, NEW u \in Nat, v <= u, u <= v + 5
    PROVE  Shown(u) \in {Shown(v), Shown(v) + 1}
  <1>1. duration \in Nat /\ v # NaN /\ u # NaN  BY VizAssumption DEF VizTypeOK
  <1>2. LastSecond \in Nat  BY <1>1, Rounding DEF LastSecond
  <1>3. /\ Bucket(v) \in Nat /\ Bucket(u) \in Nat
        /\ Bucket(u) \in {Bucket(v), Bucket(v) + 1}
    BY Rounding
  <1>4. /\ Shown(v) = Min({LastSecond, Bucket(v)})
        /\ Shown(u) = Min({LastSecond, Bucket(u)})
    BY <1>1 DEF Shown, Bucket
  <1> QED  BY <1>2, <1>3, <1>4, MinOfTwo

LEMMA ShownSecond ==
    ASSUME VizTypeOK
    PROVE  /\ LastSecond \in Nat /\ duration \in Nat
           /\ LastSecond * Second <= duration
           /\ Shown(duration) = LastSecond
           /\ \A s \in 0 .. LastSecond :
                s * Second \in 0 .. duration /\ Shown(s * Second) = s
  <1>1. duration \in Nat /\ duration # NaN  BY VizAssumption DEF VizTypeOK
  <1>2. /\ LastSecond \in Nat /\ LastSecond * Second <= duration
        /\ Bucket(duration) >= LastSecond /\ Bucket(duration) \in Nat
    BY <1>1, Rounding DEF LastSecond
  <1>3. Shown(duration) = LastSecond
    <2>1. Shown(duration) = Min({LastSecond, Bucket(duration)})
      BY <1>1 DEF Shown, Bucket
    <2> QED  BY <2>1, <1>2, MinOfTwo
  <1>4. ASSUME NEW s \in 0 .. LastSecond
        PROVE  s * Second \in 0 .. duration /\ Shown(s * Second) = s
    <2>1. s \in Nat /\ s * Second \in Nat /\ s * Second <= LastSecond * Second
      BY <1>2 DEF Second
    <2>2. s * Second \in 0 .. duration  BY <2>1, <1>1, <1>2 DEF Second
    <2>3. s * Second # NaN  BY <2>1, VizAssumption
    <2>4. Shown(s * Second) = Min({LastSecond, Bucket(s * Second)})
      BY <2>3 DEF Shown, Bucket
    <2>5. Bucket(s * Second) = s  BY <2>1, Rounding
    <2> QED  BY <2>2, <2>4, <2>5, <1>2, MinOfTwo
  <1> QED  BY <1>1, <1>2, <1>3, <1>4

-----------------------------------------------------------------------------
(* The inductive invariant.                                                 *)

\* Nothing has been drawn or played before the page is loaded.
Unloaded ==
    ~loaded =>
        /\ slider = 0 /\ drawn = 0 /\ ~dragging
        /\ anim = Off /\ button = "play" /\ seen = {}

\* How far an animation has come: to the end, when it is over.
Reached ==
    IF anim = Off THEN LastSecond ELSE IF anim = NaN THEN 0 ELSE Shown(anim)

\* What an animation has begun with zero it has shown without a gap.
Gapless == 0 \in seen => 0 .. Reached \subseteq seen

PageInv ==
    /\ VizTypeOK
    /\ Unloaded /\ DrawnIsShown /\ ButtonTells /\ Gapless

LEMMA PageInit == VizInit => SimInv /\ PageInv
  <1> SUFFICES ASSUME VizInit PROVE SimInv /\ PageInv
    OBVIOUS
  <1>1. SimInv  BY SimulatorInit DEF VizInit
  <1>2. duration = 0 /\ LastSecond \in Nat
    <2>1. duration = 0 /\ 0 \in Nat  BY DEF VizInit
    <2> QED  BY <2>1, Rounding DEF LastSecond
  <1>3. PageInv
    <2>1. VizTypeOK
      <3>1. loaded \in BOOLEAN /\ dragging \in BOOLEAN  BY DEF VizInit
      <3>2. slider \in 0 .. LastSecond /\ drawn \in 0 .. LastSecond
        BY <1>2 DEF VizInit
      <3>3. /\ duration \in Durations \cup {0}
            /\ anim \in 0 .. duration \cup {Off, NaN}
            /\ button \in {"play", "stop"} /\ seen = {}
        BY DEF VizInit
      <3> QED  BY <3>1, <3>2, <3>3 DEF VizTypeOK
    <2>2. Unloaded /\ DrawnIsShown /\ ButtonTells
      BY DEF VizInit, Unloaded, DrawnIsShown, ButtonTells
    <2>3. Gapless  BY DEF VizInit, Gapless
    <2> QED  BY <2>1, <2>2, <2>3 DEF PageInv
  <1> QED  BY <1>1, <1>3

-----------------------------------------------------------------------------
(* One lemma for each event.                                                *)

LEMMA LoadStep == SimInv /\ PageInv /\ Load => SimInv' /\ PageInv'
  <1> SUFFICES ASSUME SimInv, PageInv, Load PROVE SimInv' /\ PageInv'
    OBVIOUS
  <1>1. /\ main \in {"ended", "aborted"} /\ UNCHANGED <<main, result>>
        /\ count' = 0 /\ finishing' = 0
        /\ taskTracker' = Empty /\ executorIndexes' = Empty
        /\ delivered' = [g \in Guids |-> 0]
    BY DEF Load
  <1>2. TypeOK'
    BY <1>1, EmptyHasNone, CountsNat, SimulatorAssumption
    DEF SimInv, TypeOK, Empty, Injection, IsInjective, TaskData
  <1>3. Tells(taskTracker)' /\ Tells(result)' /\ Numbered'
    BY <1>1, EmptyHasNone DEF SimInv, Tells, Numbered
  <1>4. Unstarted' /\ Released' /\ Accounted' /\ EndsWhenAllCompleted'
    BY <1>1 DEF SimInv, Unstarted, Released, Accounted, Listening, EndsWhenAllCompleted
  <1>5. SimInv'  BY <1>2, <1>3, <1>4 DEF SimInv
  <1>6. /\ ~loaded /\ loaded' = TRUE /\ duration' \in Durations
        /\ UNCHANGED <<slider, dragging, anim, button, drawn, seen>>
    BY DEF Load
  <1>7. /\ slider = 0 /\ drawn = 0 /\ ~dragging
        /\ anim = Off /\ button = "play" /\ seen = {}
    BY <1>6 DEF PageInv, Unloaded
  <1>8. LastSecond' \in Nat
    <2>1. duration' \in Nat  BY <1>6, VizAssumption
    <2> QED  BY <2>1, Rounding DEF LastSecond
  <1>9. PageInv'
    BY <1>6, <1>7, <1>8 DEF PageInv, VizTypeOK, Unloaded, DrawnIsShown, ButtonTells, Gapless
  <1> QED  BY <1>5, <1>9

LEMMA UserStep ==
    ASSUME PageInv, Drag \/ Change \/ Play \/ Stop
    PROVE  PageInv'
  <1> USE DEF PageInv
  <1>1. duration' = duration /\ loaded /\ loaded' = loaded /\ LastSecond' = LastSecond
    BY DEF Drag, Change, Play, Stop, Unloaded, LastSecond
  <1>2. CASE Drag \/ Change
    <2>1. VizTypeOK'  BY <1>1, <1>2 DEF Drag, Change, VizTypeOK
    <2>2. UNCHANGED <<anim, button, seen>> /\ DrawnIsShown'
      BY <1>2 DEF Drag, Change, DrawnIsShown
    <2>3. Gapless'  BY <2>2, <1>1 DEF Gapless, Reached, Shown
    <2>4. Unloaded' /\ ButtonTells'  BY <2>2, <1>1 DEF Unloaded, ButtonTells
    <2> QED  BY <2>1, <2>2, <2>3, <2>4
  <1>3. CASE Play
    <2>1. /\ slider \in 0 .. LastSecond /\ slider * Second \in 0 .. duration
          /\ Shown(slider * Second) = slider
      BY ShownSecond DEF VizTypeOK
    <2>2. /\ UNCHANGED <<slider, dragging>> /\ button' = "stop"
          /\ anim' = slider * Second /\ drawn' = slider /\ seen' = {slider}
      BY <1>3 DEF Play
    <2>3. anim' # Off /\ anim' # NaN  BY <2>1, <2>2, VizAssumption
    <2>4. VizTypeOK'  BY <1>1, <2>1, <2>2 DEF VizTypeOK
    <2>5. Reached' = slider
      BY <1>1, <2>1, <2>2, <2>3 DEF Reached, Shown
    <2>6. Gapless'  BY <2>1, <2>2, <2>5 DEF Gapless
    <2>7. Unloaded' /\ ButtonTells' /\ DrawnIsShown'
      BY <1>1, <2>2, <2>3 DEF Unloaded, ButtonTells, DrawnIsShown
    <2> QED  BY <2>4, <2>6, <2>7
  <1>4. CASE Stop
    <2>1. /\ UNCHANGED <<slider, dragging, drawn>> /\ button' = "play"
          /\ anim' = Off /\ seen' = {}
      BY <1>4 DEF Stop
    <2>2. VizTypeOK'  BY <1>1, <2>1 DEF VizTypeOK
    <2>3. Unloaded' /\ ButtonTells' /\ DrawnIsShown' /\ Gapless'
      BY <1>1, <2>1 DEF Unloaded, ButtonTells, DrawnIsShown, Gapless
    <2> QED  BY <2>2, <2>3
  <1> QED  BY <1>2, <1>3, <1>4

\* An animation that is not near its end has its next value before the end, or
\* was started at the end.
LEMMA NextReached ==
    ASSUME VizTypeOK, anim # Off, anim # NaN, anim # duration
    PROVE  /\ anim \in Nat /\ duration \in Nat /\ anim < duration
           /\ NextValue = anim + 3
           /\ Near(NextValue) => duration <= anim + 5
           /\ ~Near(NextValue) => NextValue \in 0 .. duration
  <1>1. anim \in 0 .. duration /\ duration \in Nat
    BY ShownSecond DEF VizTypeOK
  <1>2. anim \in Nat /\ anim < duration  BY <1>1
  <1>3. NextValue = anim + 3
    BY <1>2, <1>1, MinOfTwo DEF NextValue, DeltaV
  <1>4. NextValue # NaN  BY <1>2, <1>3, VizAssumption
  <1> QED  BY <1>1, <1>2, <1>3, <1>4 DEF Near, DeltaV

LEMMA TickStep == PageInv /\ Tick => PageInv'
  <1> SUFFICES ASSUME PageInv, Tick PROVE PageInv'
    OBVIOUS
  <1> USE DEF PageInv
  <1>1. /\ anim # Off /\ UNCHANGED <<duration, loaded, dragging>>
        /\ LastSecond' = LastSecond /\ loaded
    BY DEF Tick, LastSecond, Unloaded
  <1>2. \A v : Shown(v)' = Shown(v)  BY <1>1 DEF Shown
  <1>3. /\ LastSecond \in Nat /\ duration \in Nat /\ Shown(duration) = LastSecond
    BY ShownSecond
  <1>4. CASE Near(NextValue)
    <2>1. anim' = Off /\ Callback(duration) /\ button' = "play"
      BY <1>4 DEF Tick, Finish
    <2>2. /\ slider' = LastSecond /\ drawn' = LastSecond
          /\ seen' = seen \cup {LastSecond}
      BY <2>1, <1>3 DEF Callback
    <2>3. anim # NaN /\ anim # duration
      <3>1. NextValue # NaN  BY <1>4 DEF Near
      <3> QED  BY <3>1 DEF NextValue
    <2>4. /\ anim \in Nat /\ anim < duration /\ duration <= anim + 5
      BY <1>1, <1>4, <2>3, NextReached
    <2>5. LastSecond \in {Shown(anim), Shown(anim) + 1} /\ Shown(anim) \in Nat
      BY <1>3, <2>4, ShownSteps, ShownType
    <2>6. Reached = Shown(anim) /\ Reached' = LastSecond
      BY <1>1, <2>1, <2>3 DEF Reached
    <2>7. Gapless'
      <3>1. CASE 0 \in seen  BY <3>1, <1>3, <2>2, <2>5, <2>6 DEF Gapless
      <3>2. CASE 0 \notin seen  BY <3>2, <1>3, <2>2, <2>6 DEF Gapless
      <3> QED  BY <3>1, <3>2
    <2>8. VizTypeOK'  BY <1>1, <1>3, <2>1, <2>2 DEF VizTypeOK
    <2>9. Unloaded' /\ ButtonTells' /\ DrawnIsShown'
      BY <1>1, <2>1, <2>2 DEF Unloaded, ButtonTells, DrawnIsShown
    <2> QED  BY <2>7, <2>8, <2>9
  <1>5. CASE ~Near(NextValue)
    <2> DEFINE s == Shown(NextValue)
    <2>1. anim' = NextValue /\ Callback(NextValue) /\ UNCHANGED button
      BY <1>5 DEF Tick
    <2>2. slider' = s /\ drawn' = s /\ seen' = seen \cup {s}
      BY <2>1 DEF Callback
    <2>3. NextValue \in 0 .. duration \cup {NaN}
      <3>1. CASE anim \in {NaN, duration}  BY <3>1 DEF NextValue
      <3>2. CASE anim \notin {NaN, duration}
        BY <3>2, <1>1, <1>5, NextReached
      <3> QED  BY <3>1, <3>2
    <2>4. s \in 0 .. LastSecond
      <3>1. NextValue \in Nat \cup {NaN}  BY <2>3, <1>3
      <3> QED  BY <3>1, ShownType
    <2>5. anim' # Off  BY <2>1, <2>3, <1>3, VizAssumption
    <2>6. VizTypeOK'  BY <1>1, <2>1, <2>2, <2>3, <2>4 DEF VizTypeOK
    <2>7. Unloaded' /\ ButtonTells' /\ DrawnIsShown'
      BY <1>1, <2>1, <2>2, <2>5 DEF Unloaded, ButtonTells, DrawnIsShown
    <2>8. Gapless'
      <3>1. CASE NextValue = NaN
        <4>1. Reached' = 0  BY <3>1, <2>1, <2>5 DEF Reached
        <4> QED  BY <4>1 DEF Gapless
      <3>2. CASE NextValue # NaN
        <4>1. Reached' = s  BY <3>2, <1>2, <2>1, <2>5 DEF Reached
        <4>2. anim # NaN /\ anim # duration  BY <3>2 DEF NextValue
        <4>3. /\ anim \in Nat /\ NextValue = anim + 3
          BY <1>1, <4>2, NextReached
        <4>4. s \in {Shown(anim), Shown(anim) + 1} /\ Shown(anim) \in Nat
          BY <4>3, <1>3, ShownSteps, ShownType
        <4>5. Reached = Shown(anim)  BY <1>1, <4>2 DEF Reached
        <4>6. CASE 0 \in seen
          BY <4>6, <4>1, <4>4, <4>5, <2>2 DEF Gapless
        <4>7. CASE 0 \notin seen
          BY <4>7, <4>1, <2>2, <2>4, <1>3 DEF Gapless
        <4> QED  BY <4>6, <4>7
      <3> QED  BY <3>1, <3>2
    <2> QED  BY <2>6, <2>7, <2>8
  <1> QED  BY <1>4, <1>5

LEMMA PageSame == PageInv /\ UNCHANGED pageVars => PageInv'
  BY DEF PageInv, pageVars, VizTypeOK, Unloaded, DrawnIsShown, ButtonTells,
         Gapless, Reached, Shown, LastSecond

LEMMA SimSame == SimInv /\ UNCHANGED vars => SimInv'
  BY SimulatorStep

LEMMA PageStep == SimInv /\ PageInv /\ [VizNext]_systemVars => SimInv' /\ PageInv'
  <1> SUFFICES ASSUME SimInv, PageInv, [VizNext]_systemVars PROVE SimInv' /\ PageInv'
    OBVIOUS
  <1>1. CASE InSimulator(Next)
    BY <1>1, SimulatorStep, PageSame DEF InSimulator
  <1>2. CASE Load  BY <1>2, LoadStep
  <1>3. CASE OnPage(Drag \/ Change \/ Play \/ Stop \/ Tick)
    BY <1>3, UserStep, TickStep, SimSame DEF OnPage
  <1>4. CASE UNCHANGED systemVars
    BY <1>4, PageSame, SimSame DEF systemVars
  <1> QED  BY <1>1, <1>2, <1>3, <1>4 DEF VizNext

LEMMA PageInvariant == VizSpec => [](SimInv /\ PageInv)
  BY PageInit, PageStep, PTL DEF VizSpec

-----------------------------------------------------------------------------
\* A page is only loaded from the result of a simulation that is over, and that
\* result is what it was when the simulation ended (simulation.go:136-143).
THEOREM PagesShowWhatEnded == VizSpec => [](EndsWhenAllCompleted /\ DistributionTells)
  <1>1. SimInv => EndsWhenAllCompleted /\ DistributionTells
    BY DEF SimInv, Tells, DistributionTells
  <1> QED  BY <1>1, PageInvariant, PTL

\* An animation that was started at zero and came to its end has shown each
\* error line of every second but the last, however long the samples are and
\* whatever the user did to the slider (animator.js:13-25, app.js:28-51).
THEOREM ErrorsAreShown == VizSpec => []EveryErrorShown
  <1>1. PageInv => EveryErrorShown
    <2> SUFFICES ASSUME PageInv, anim = Off, 0 \in seen,
                        NEW t \in Errors, Bucket(t) \in 0 .. LastSecond - 1
                 PROVE  \E s \in seen : t \in ErrorLogs(s)
      BY DEF EveryErrorShown
    <2>1. LastSecond \in Nat /\ 0 .. LastSecond \subseteq seen
      BY ShownSecond DEF PageInv, Gapless, Reached
    <2>2. Bucket(t) \in seen  BY <2>1
    <2>3. t \in ErrorLogs(Bucket(t))  BY <2>1 DEF ErrorLogs
    <2> QED  BY <2>2, <2>3
  <1> QED  BY <1>1, PageInvariant, PTL

\* The types of the page, in every state it can come to.
THEOREM PageTyped == VizSpec => []VizTypeOK
  <1>1. PageInv => VizTypeOK  BY DEF PageInv
  <1> QED  BY <1>1, PageInvariant, PTL

\* What is drawn is the second the slider stands at, unless the user holds it
\* (app.js:69-85).
THEOREM SliderTellsWhatIsDrawn == VizSpec => []DrawnIsShown
  <1>1. PageInv => DrawnIsShown  BY DEF PageInv
  <1> QED  BY <1>1, PageInvariant, PTL

\* The button offers to stop exactly while a timer runs (app.js:87-98).
THEOREM ButtonTellsOfTimer == VizSpec => []ButtonTells
  <1>1. PageInv => ButtonTells  BY DEF PageInv
  <1> QED  BY <1>1, PageInvariant, PTL

\* The columns of the distribution count no task twice and none that was not
\* completed by the second they are drawn for, for any number of executors and
\* of tasks (plotDistribution.js:34-45).
THEOREM ColumnsAreCompletions == VizSpec => []OnlyCompletedDrawn
  <1>1. SimInv => OnlyCompletedDrawn
    <2> SUFFICES ASSUME SimInv PROVE OnlyCompletedDrawn
      OBVIOUS
    <2> DEFINE T == {g \in DOMAIN result :
                        result[g].NumCompletions > 0 /\ CompletedAt[g] <= drawn * Second}
               A == [i \in Columns |->
                        {g \in DOMAIN result :
                            CompletedBy(g, drawn) /\ result[g].ExecutorIndex - 1 = i}]
               F == [i \in Columns |-> Column(i, drawn)]
    <2>1. IsFiniteSet(Columns) /\ IsFiniteSet(T)
      <3>1. IsFiniteSet(Columns)
        BY CountsNat, FS_Interval DEF Columns
      <3>2. T \subseteq Ours
        BY DEF SimInv, TypeOK
      <3> QED  BY <3>1, <3>2, FS_Subset, SimulatorAssumption
    <2>2. A \in [Columns -> SUBSET T]
      <3> SUFFICES ASSUME NEW i \in Columns, NEW g \in DOMAIN result,
                          CompletedBy(g, drawn), result[g].ExecutorIndex - 1 = i
                   PROVE  result[g].NumCompletions > 0 /\ CompletedAt[g] <= drawn * Second
        OBVIOUS
      <3>1. i \in Int /\ i >= 1
        BY CountsNat DEF Columns
      <3>2. result[g].ExecutorIndex \in Nat /\ result[g].NumCompletions \in Nat
        BY CountsNat DEF SimInv, TypeOK, TaskData
      <3>3. result[g].ExecutorIndex # 0
        BY <3>1, <3>2
      <3>4. result[g].NumCompletions # 0
        BY <3>3 DEF SimInv, Tells
      <3> QED  BY <3>2, <3>4 DEF CompletedBy
    <2>3. \A i, j \in Columns : i # j => A[i] \cap A[j] = {}
      OBVIOUS
    <2>4. \A i \in Columns : F[i] = Cardinality(A[i])
      BY DEF Column
    <2>5. SumFunctionOnSet(F, Columns) <= Cardinality(T)
      <3> HIDE DEF A, T, F
      <3> QED  BY <2>1, <2>2, <2>3, <2>4, SumOfPartsBound
    <2>6. SumFunction(F) = SumFunctionOnSet(F, Columns)
      BY DEF SumFunction
    <2> HIDE DEF F
    <2>7. SumFunction(F) <= Cardinality(T)
      BY <2>5, <2>6
    <2> QED  BY <2>7 DEF OnlyCompletedDrawn, F
  <1> QED  BY <1>1, PageInvariant, PTL
=============================================================================
