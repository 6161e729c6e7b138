---------------------------- MODULE HurlerProofs ----------------------------
(***************************************************************************)
(* Theorems about the hurler, for every number of calls, hosts and         *)
(* endpoints, however often the table changes and whatever the endpoints   *)
(* do.                                                                     *)
(***************************************************************************)
EXTENDS Hurler, FiniteSetTheorems, TLAPS

-----------------------------------------------------------------------------
(* The inductive invariant.                                                 *)

\* A round-robin loop that stands at i after k attempts on n endpoints has
\* asked the last k positions before i, counted around the end.
Asked(n, k, i, p) ==
    IF k <= i THEN i - k < p /\ p <= i
              ELSE p <= i \/ n - (k - i) < p

\* A call that was not served has not asked anybody.
Idle(c) ==
    pc[c] = "idle" => route[c] = NoRoute

\* Only a call that was answered has an answer.
Silence(c) == pc[c] # "answered" => answer[c] = "none"

\* A loop goes on only if nobody accepted, and has asked whom it has asked.
Walking(c) ==
    pc[c] = "round-robin" =>
        /\ route[c].dispatch = "round-robin"
        /\ attempts[c] < Size(c)
        /\ \A p \in Positions(c) :
            /\ outcome[c][p] # "unasked" <=> Asked(Size(c), attempts[c], next[c], p)
            /\ outcome[c][p] \in {"unasked", "refused", "silent"}
        /\ \A p \in taken[c] : outcome[c][p] = "silent"

\* The loop of Fanout has seen as many outcomes as it has counted, none of them
\* an acceptance.
Gathering(c) ==
    pc[c] = "fanout" =>
        /\ route[c].dispatch = "fanout"
        /\ attempts[c] < Size(c)
        /\ attempts[c] = Cardinality(read[c])
        /\ \A p \in read[c] : outcome[c][p] \in {"refused", "silent"}

Earned(c) ==
    LET os == {outcome[c][p] : p \in Positions(c)}
    IN  /\ answer[c] = "accepted" => "accepted" \in os
        /\ answer[c] \in {"refused", "unavailable"} =>
                os \cap {"unasked", "flying", "accepted"} = {}

Once(c) ==
    route[c].dispatch = "round-robin" =>
        \A p, q \in taken[c] :
            p # q => outcome[c][p] = "silent" \/ outcome[c][q] = "silent"

CallInv(c) == Idle(c) /\ Silence(c) /\ Walking(c) /\ Gathering(c) /\ Earned(c) /\ Once(c)

HurlerInv == TypeOK /\ \A c \in Calls : CallInv(c)

-----------------------------------------------------------------------------
(* The table.                                                               *)

LEMMA ListedType ==
    ASSUME NEW ns, NEW kind, NEW h
    PROVE  Listed(ns, kind, h) \in Seq(Addresses)
  <1> DEFINE S == {a \in Addresses : <<kind, h, a>> \in ns}
             n == Cardinality(S)
  <1>1. IsFiniteSet(S)  BY AddressesAssumption, FS_Subset
  <1>2. n \in Nat /\ ExistsBijection(1 .. n, S)  BY <1>1, FS_CardinalityType
  <1>3. PICK f \in Bijection(1 .. n, S) : TRUE  BY <1>2 DEF ExistsBijection
  <1>4. f \in [1 .. n -> S] /\ IsInjective(f)
    BY <1>3 DEF Bijection, Injection, IsInjective
  <1>5. SetToSeq(S) \in [1 .. n -> S]  BY <1>4 DEF SetToSeq
  <1>6. SetToSeq(S) \in [1 .. n -> Addresses]  BY <1>5
  <1> QED  BY <1>2, <1>6 DEF Listed, Seq

LEMMA RouteType ==
    ASSUME NEW ns, NEW h
    PROVE  RouteOf(ns, h) \in Route
  <1>1. Listed(ns, "fanout", h) \o Listed(ns, "round-robin", h) \in Seq(Addresses)
    BY ListedType
  <1> QED  BY <1>1 DEF RouteOf, Route, DispatchKind

LEMMA SizeType ==
    ASSUME TypeOK, NEW c \in Calls
    PROVE  Size(c) \in Nat /\ Positions(c) = 1 .. Size(c)
  BY DEF TypeOK, Route, Size, Positions

-----------------------------------------------------------------------------
(* What a step does to a call.                                              *)

\* Everything about a call is as it was.
Same(c) ==
    /\ pc'[c] = pc[c] /\ route'[c] = route[c]
    /\ next'[c] = next[c] /\ attempts'[c] = attempts[c]
    /\ outcome'[c] = outcome[c]
    /\ read'[c] = read[c] /\ taken'[c] = taken[c]
    /\ answer'[c] = answer[c]

\* The part of the type invariant that is about a call.
CallType(c) ==
    /\ pc[c] \in {"idle", "round-robin", "fanout", "answered"}
    /\ route[c] \in Route
    /\ next[c] \in 0 .. Size(c)
    /\ attempts[c] \in 0 .. Size(c)
    /\ outcome[c] \in [Positions(c) -> Outcome]
    /\ read[c] \subseteq Positions(c)
    /\ taken[c] \subseteq Positions(c)
    /\ answer[c] \in {"none", "accepted", "refused", "unavailable", "unknown"}

LEMMA SameType ==
    ASSUME NEW c \in Calls, CallType(c), Same(c)
    PROVE  CallType(c)'
  BY DEF CallType, Same, Size, Positions

LEMMA SameInv ==
    ASSUME NEW c \in Calls, CallInv(c), Same(c)
    PROVE  CallInv(c)'
  <1> USE DEF Same, Size, Positions
  <1>1. Idle(c)' /\ Silence(c)'  BY DEF CallInv, Idle, Silence
  <1>2. Walking(c)'  BY DEF CallInv, Walking, Asked
  <1>3. Gathering(c)'  BY DEF CallInv, Gathering
  <1>4. Earned(c)'  BY DEF CallInv, Earned
  <1>5. Once(c)'  BY DEF CallInv, Once
  <1> QED  BY <1>1, <1>2, <1>3, <1>4, <1>5 DEF CallInv

-----------------------------------------------------------------------------
(* One step of a call.  Each lemma says that the call stays as it should be.  *)

LEMMA UnservedStep ==
    ASSUME HurlerInv, NEW c \in Calls, NEW h \in Hosts,
           ServeUnknown(c, h) \/ ServeUnread(c, h)
    PROVE  CallType(c)' /\ CallInv(c)'
  <1> USE DEF ServeUnknown, ServeUnread, Answered, Size, Positions
  <1>1. CallType(c)'  BY DEF HurlerInv, TypeOK, CallType
  <1>2. Size(c) = 0 /\ Positions(c) = {}
    BY DEF HurlerInv, CallInv, Idle, NoRoute
  <1>3. /\ pc'[c] = "answered" /\ UNCHANGED <<route, outcome, taken>>
        /\ answer'[c] \in {"unknown", "unavailable"}
    BY DEF HurlerInv, TypeOK
  <1>4. Earned(c)'  BY <1>2, <1>3 DEF Earned
  <1>5. Once(c)'  BY <1>3 DEF Once, HurlerInv, CallInv
  <1> QED  BY <1>1, <1>3, <1>4, <1>5 DEF CallInv, Idle, Silence, Walking, Gathering

LEMMA ServeStep ==
    ASSUME HurlerInv, NEW c \in Calls, NEW h \in Hosts, ServeHTTP(c, h)
    PROVE  CallType(c)' /\ CallInv(c)'
  <1> DEFINE n == Len(table[h].endpoints)
  <1>1. table[h] \in Route /\ n \in Nat /\ table[h] # NoRoute
    BY DEF HurlerInv, TypeOK, Route, ServeHTTP
  <1>2. table[h].dispatch \in DispatchKind  BY <1>1 DEF Route
  <1>3. /\ pc'[c] = table[h].dispatch
        /\ route'[c] = table[h]
        /\ UNCHANGED <<attempts, read, taken, answer>>
    BY DEF ServeHTTP, HurlerInv, TypeOK
  <1>4. Size(c)' = n /\ Positions(c)' = 1 .. n  BY <1>3 DEF Size, Positions
  <1>5. answer[c] = "none" /\ pc[c] = "idle"
    BY DEF ServeHTTP, HurlerInv, CallInv, Silence
  <1>6. attempts[c] = 0 /\ read[c] = {} /\ taken[c] = {} /\ next[c] = 0
    <2>1. Size(c) = 0  BY <1>5 DEF HurlerInv, CallInv, Idle, NoRoute, Size
    <2> QED  BY <2>1, <1>5 DEF HurlerInv, TypeOK, Positions
  <1>7. Earned(c)' /\ Silence(c)' /\ Idle(c)' /\ Once(c)'
    BY <1>2, <1>3, <1>5, <1>6 DEF Earned, Silence, Idle, Once, DispatchKind
  <1>8. CASE table[h].dispatch = "fanout"
    <2>1. outcome'[c] = [p \in 1 .. n |-> "flying"] /\ next' = next
      BY <1>8 DEF ServeHTTP, HurlerInv, TypeOK
    <2>2. n > 0
      <3>1. n = 0 => table[h].endpoints = <<>>  BY <1>1 DEF Route
      <3> QED  BY <3>1, <1>1, <1>8 DEF Route, NoRoute
    <2>3. Gathering(c)'
      BY <1>3, <1>4, <1>6, <1>8, <2>2, FS_EmptySet DEF Gathering
    <2>4. Walking(c)'  BY <1>3, <1>8 DEF Walking
    <2>5. CallType(c)'
      BY <1>1, <1>3, <1>4, <1>5, <1>6, <1>8, <2>1 DEF CallType, Outcome
    <2> QED  BY <1>7, <2>3, <2>4, <2>5 DEF CallInv
  <1>9. CASE table[h].dispatch = "round-robin"
    <2>1. /\ outcome'[c] = [p \in 1 .. n |-> "unasked"]
          /\ next'[c] \in 0 .. n - 1
      BY <1>9 DEF ServeHTTP, HurlerInv, TypeOK
    <2>2. Gathering(c)'  BY <1>3, <1>9 DEF Gathering
    <2>3. \A p \in 1 .. n : ~Asked(n, 0, next'[c], p)
      BY <1>1, <2>1 DEF Asked
    <2>4. Walking(c)'
      <3>1. attempts'[c] = 0 /\ attempts'[c] < n  BY <1>1, <1>3, <1>6, <2>1
      <3>2. \A p \in 1 .. n : outcome'[c][p] = "unasked"  BY <2>1
      <3> QED  BY <1>3, <1>4, <1>6, <1>9, <2>3, <3>1, <3>2 DEF Walking
    <2>5. CallType(c)'
      BY <1>1, <1>3, <1>4, <1>5, <1>6, <1>9, <2>1 DEF CallType, Outcome
    <2> QED  BY <1>7, <2>2, <2>4, <2>5 DEF CallInv
  <1> QED  BY <1>2, <1>8, <1>9 DEF DispatchKind

\* What a round trip to p leaves behind.
LEMMA TripShape ==
    ASSUME HurlerInv, NEW c \in Calls, NEW p \in Positions(c), RoundTrip(c, p)
    PROVE  /\ outcome'[c] \in [Positions(c) -> Outcome]
           /\ outcome'[c][p] \in {"accepted", "refused", "silent"}
           /\ \A q \in Positions(c) \ {p} : outcome'[c][q] = outcome[c][q]
           /\ taken'[c] \subseteq Positions(c)
           /\ taken'[c] \subseteq taken[c] \cup {p}
           /\ outcome'[c][p] = "refused" => taken'[c] = taken[c]
           /\ \A b \in Calls \ {c} : outcome'[b] = outcome[b] /\ taken'[b] = taken[b]
  <1> QED  BY DEF RoundTrip, HurlerInv, TypeOK, Outcome, Positions, Size

\* One endpoint more has been asked, and after the last one they all have.
LEMMA AskedMore ==
    ASSUME NEW n \in Nat, NEW k \in Nat, NEW i \in 0 .. n, k < n,
           NEW j, j = IF i = n THEN 0 ELSE i
    PROVE  /\ j + 1 \in 1 .. n
           /\ \A p \in 1 .. n :
                /\ Asked(n, k + 1, j + 1, p) <=> Asked(n, k, i, p) \/ p = j + 1
                /\ k + 1 = n => Asked(n, k + 1, j + 1, p)
           /\ ~Asked(n, k, i, j + 1)
  BY DEF Asked

LEMMA RoundRobinStep ==
    ASSUME HurlerInv, NEW c \in Calls, RoundRobin(c)
    PROVE  CallType(c)' /\ CallInv(c)'
  <1> DEFINE n == Size(c)
             k == attempts[c]
             j == Turn(c)
             o == outcome'[c][j + 1]
  <1>1. /\ pc[c] = "round-robin"
        /\ RoundTrip(c, j + 1)
        /\ attempts' = [attempts EXCEPT ![c] = k + 1]
        /\ next' = [next EXCEPT ![c] = j + 1]
        /\ IF k + 1 = n \/ o = "accepted" THEN Answered(c, Code(o)) ELSE Unanswered
        /\ UNCHANGED <<route, read>>
    BY DEF RoundRobin, Walk
  <1>2. /\ n \in Nat /\ k \in Nat /\ next[c] \in 0 .. n
        /\ Positions(c) = 1 .. n
    BY SizeType DEF HurlerInv, TypeOK
  <1>3. Walking(c)  BY DEF HurlerInv, CallInv
  <1>4. k < n /\ route[c].dispatch = "round-robin"  BY <1>1, <1>3 DEF Walking
  <1>5. /\ j + 1 \in 1 .. n
        /\ \A p \in 1 .. n :
            /\ Asked(n, k + 1, j + 1, p) <=> Asked(n, k, next[c], p) \/ p = j + 1
            /\ k + 1 = n => Asked(n, k + 1, j + 1, p)
        /\ ~Asked(n, k, next[c], j + 1)
    <2> HIDE DEF n, k
    <2> QED  BY <1>2, <1>4, AskedMore DEF Turn, n
  <1>6. /\ outcome'[c] \in [Positions(c) -> Outcome]
        /\ o \in {"accepted", "refused", "silent"}
        /\ \A q \in Positions(c) \ {j + 1} : outcome'[c][q] = outcome[c][q]
        /\ taken'[c] \subseteq Positions(c)
        /\ taken'[c] \subseteq taken[c] \cup {j + 1}
        /\ o = "refused" => taken'[c] = taken[c]
    BY <1>1, <1>2, <1>5, TripShape
  <1>7. /\ route'[c] = route[c] /\ Size(c)' = n /\ Positions(c)' = 1 .. n
        /\ read'[c] = read[c]
        /\ attempts'[c] = k + 1 /\ next'[c] = j + 1
    BY <1>1, <1>2 DEF Size, Positions, HurlerInv, TypeOK
  <1>8. \A p \in 1 .. n :
            /\ outcome'[c][p] # "unasked" <=> Asked(n, k + 1, j + 1, p)
            /\ p # j + 1 => outcome'[c][p] \in {"unasked", "refused", "silent"}
    <2> TAKE p \in 1 .. n
    <2>1. /\ outcome[c][p] # "unasked" <=> Asked(n, k, next[c], p)
          /\ outcome[c][p] \in {"unasked", "refused", "silent"}
      BY <1>1, <1>2, <1>3 DEF Walking
    <2> QED  BY <2>1, <1>2, <1>5, <1>6
  <1>9. \A p \in taken'[c] : p # j + 1 => outcome'[c][p] = "silent"
    <2> SUFFICES ASSUME NEW p \in taken'[c], p # j + 1
                 PROVE  outcome'[c][p] = "silent"
      OBVIOUS
    <2>1. p \in taken[c] /\ p \in Positions(c)  BY <1>6
    <2> QED  BY <2>1, <1>1, <1>3, <1>6 DEF Walking
  <1>10. Once(c)'  BY <1>9 DEF Once
  <1>11. CallType(c)' /\ Silence(c)' /\ Idle(c)' /\ Gathering(c)'
    <2>1. /\ pc'[c] \in {"round-robin", "answered"}
          /\ answer'[c] \in {"none", "accepted", "refused", "unavailable"}
          /\ pc'[c] # "answered" => answer'[c] = "none"
      BY <1>1, <1>6 DEF Answered, Unanswered, Code, HurlerInv, TypeOK, CallInv, Silence
    <2>2. k + 1 \in 0 .. n /\ j + 1 \in 0 .. n  BY <1>2, <1>4, <1>5
    <2>3. CallType(c)'
      <3>1. route[c] \in Route /\ read[c] \subseteq Positions(c)
        BY DEF HurlerInv, TypeOK
      <3> QED  BY <2>1, <2>2, <3>1, <1>2, <1>6, <1>7 DEF CallType
    <2> QED  BY <2>1, <2>3 DEF Silence, Idle, Gathering
  <1>12. CASE k + 1 = n \/ o = "accepted"
    <2>1. pc'[c] = "answered" /\ answer'[c] = Code(o)
      BY <1>1, <1>12 DEF Answered, HurlerInv, TypeOK
    <2>2. Walking(c)'  BY <2>1 DEF Walking
    <2>3. Earned(c)'
      <3>1. CASE o = "accepted"
        BY <3>1, <2>1, <1>5, <1>7 DEF Earned, Code
      <3>2. CASE o # "accepted"
        <4>1. \A p \in 1 .. n : outcome'[c][p] \in {"refused", "silent"}
          <5> TAKE p \in 1 .. n
          <5>1. outcome'[c][p] # "unasked"  BY <3>2, <1>12, <1>5, <1>8
          <5>2. CASE p = j + 1  BY <5>2, <3>2, <1>6
          <5>3. CASE p # j + 1  BY <5>1, <5>3, <1>8
          <5> QED  BY <5>2, <5>3
        <4>2. answer'[c] \in {"refused", "unavailable"}
          BY <2>1, <3>2, <1>6 DEF Code
        <4> QED  BY <4>1, <4>2, <1>7 DEF Earned
      <3> QED  BY <3>1, <3>2
    <2> QED  BY <2>2, <2>3, <1>10, <1>11 DEF CallInv
  <1>13. CASE ~(k + 1 = n \/ o = "accepted")
    <2>1. pc'[c] = "round-robin" /\ answer'[c] = "none"
      BY <1>1, <1>13 DEF Unanswered, HurlerInv, CallInv, Silence
    <2>2. Earned(c)'  BY <2>1 DEF Earned
    <2>3. k + 1 < n  BY <1>13, <1>2, <1>4
    <2>4. \A p \in taken'[c] : outcome'[c][p] = "silent"
      <3>1. j + 1 \notin taken[c]
        <4>1. outcome[c][j + 1] = "unasked"
          BY <1>1, <1>2, <1>3, <1>5 DEF Walking
        <4> QED  BY <4>1, <1>1, <1>3 DEF Walking
      <3> QED  BY <3>1, <1>6, <1>9, <1>13
    <2>5. \A p \in 1 .. n : outcome'[c][p] \in {"unasked", "refused", "silent"}
      BY <1>6, <1>8, <1>13
    <2>6. Walking(c)'
      BY <1>4, <1>7, <1>8, <2>1, <2>3, <2>4, <2>5 DEF Walking
    <2> QED  BY <2>2, <2>6, <1>10, <1>11 DEF CallInv
  <1> QED  BY <1>12, <1>13

LEMMA SendStep ==
    ASSUME HurlerInv, NEW c \in Calls, NEW p \in Positions(c), Send(c, p)
    PROVE  CallType(c)' /\ CallInv(c)'
  <1>1. /\ route[c].dispatch = "fanout" /\ outcome[c][p] = "flying"
        /\ RoundTrip(c, p)
        /\ UNCHANGED <<pc, route, next, attempts, read, answer>>
    BY DEF Send
  <1>2. /\ outcome'[c] \in [Positions(c) -> Outcome]
        /\ \A q \in Positions(c) \ {p} : outcome'[c][q] = outcome[c][q]
        /\ taken'[c] \subseteq Positions(c)
    BY <1>1, TripShape
  <1>3. Size(c)' = Size(c) /\ Positions(c)' = Positions(c)
    BY <1>1 DEF Size, Positions
  <1>4. CallType(c)'  BY <1>1, <1>2, <1>3 DEF HurlerInv, TypeOK, CallType
  <1>5. CallInv(c)  BY DEF HurlerInv
  <1>6. Idle(c)' /\ Silence(c)' /\ Walking(c)' /\ Once(c)'
    BY <1>1, <1>5 DEF CallInv, Idle, Silence, Walking, Once
  <1>7. Gathering(c)'
    <2> SUFFICES ASSUME pc[c] = "fanout" PROVE Gathering(c)'
      BY <1>1 DEF Gathering
    <2>1. \A q \in read[c] : outcome[c][q] \in {"refused", "silent"}
      BY <1>5 DEF CallInv, Gathering
    <2>2. \A q \in read[c] : q \in Positions(c) /\ q # p
      BY <2>1, <1>1 DEF HurlerInv, TypeOK
    <2>3. \A q \in read[c] : outcome'[c][q] \in {"refused", "silent"}
      BY <2>1, <2>2, <1>2
    <2> QED  BY <2>3, <1>1, <1>3, <1>5 DEF CallInv, Gathering
  <1>8. Earned(c)'
    <2>1. CASE answer[c] = "accepted"
      <3>1. PICK q \in Positions(c) : outcome[c][q] = "accepted"
        BY <2>1, <1>5 DEF CallInv, Earned
      <3>2. outcome'[c][q] = "accepted"  BY <3>1, <1>1, <1>2
      <3> QED  BY <2>1, <3>2, <1>1, <1>3 DEF Earned
    <2>2. answer[c] \notin {"refused", "unavailable"}
      <3>1. "flying" \in {outcome[c][q] : q \in Positions(c)}  BY <1>1
      <3> QED  BY <3>1, <1>5 DEF CallInv, Earned
    <2> QED  BY <2>1, <2>2, <1>1 DEF Earned
  <1> QED  BY <1>4, <1>5, <1>6, <1>7, <1>8 DEF CallInv

\* Reading one outcome more reads them all, if it is the last.
LEMMA ReadMore ==
    ASSUME NEW n \in Nat, NEW R, R \subseteq 1 .. n, NEW p \in (1 .. n) \ R
    PROVE  /\ Cardinality(R) \in Nat
           /\ Cardinality(R \cup {p}) = Cardinality(R) + 1
           /\ Cardinality(R) + 1 = n => R \cup {p} = 1 .. n
  <1>1. IsFiniteSet(1 .. n) /\ Cardinality(1 .. n) = n  BY FS_Interval
  <1>2. IsFiniteSet(R)  BY <1>1, FS_Subset
  <1>3. Cardinality(R) \in Nat  BY <1>2, FS_CardinalityType
  <1>4. Cardinality(R \cup {p}) = Cardinality(R) + 1  BY <1>2, FS_AddElement
  <1>5. R \cup {p} \in SUBSET (1 .. n)  OBVIOUS
  <1>6. Cardinality(R \cup {p}) = n => R \cup {p} = 1 .. n
    BY <1>1, <1>5, FS_Subset
  <1> QED  BY <1>3, <1>4, <1>6

LEMMA FanoutStep ==
    ASSUME HurlerInv, NEW c \in Calls, Fanout(c)
    PROVE  CallType(c)' /\ CallInv(c)'
  <1> DEFINE n == Size(c)
  <1>1. n \in Nat /\ Positions(c) = 1 .. n  BY SizeType DEF HurlerInv
  <1>2. PICK p \in Queued(c, {"accepted", "refused", "silent"}) :
        LET responded == {q \in read[c] \cup {p} : outcome[c][q] # "silent"}
        IN  /\ read' = [read EXCEPT ![c] = @ \cup {p}]
            /\ IF outcome[c][p] = "accepted"
               THEN Answered(c, "accepted")
               ELSE IF attempts'[c] < n
               THEN Unanswered
               ELSE Answered(c, IF responded # {} THEN "refused" ELSE "unavailable")
    BY DEF Fanout
  <1>3. p \in (1 .. n) \ read[c] /\ outcome[c][p] \in {"accepted", "refused", "silent"}
    BY <1>1, <1>2 DEF Queued
  <1>4. /\ pc[c] = "fanout" /\ UNCHANGED <<route, next, outcome, taken>>
        /\ attempts'[c] = attempts[c] + 1
        /\ read'[c] = read[c] \cup {p}
    BY <1>2 DEF Fanout, HurlerInv, TypeOK
  <1>5. /\ Size(c)' = n /\ Positions(c)' = 1 .. n
    BY <1>1, <1>4 DEF Size, Positions
  <1>6. CallInv(c)  BY DEF HurlerInv
  <1>7. /\ route[c].dispatch = "fanout"
        /\ attempts[c] < n /\ attempts[c] = Cardinality(read[c])
        /\ \A q \in read[c] : outcome[c][q] \in {"refused", "silent"}
    BY <1>4, <1>6 DEF CallInv, Gathering
  <1>8. read[c] \subseteq 1 .. n  BY <1>1 DEF HurlerInv, TypeOK
  <1>9. /\ attempts[c] \in Nat
        /\ Cardinality(read'[c]) = attempts'[c]
        /\ attempts'[c] = n => read'[c] = 1 .. n
    <2> DEFINE R == read[c]
    <2>1. n \in Nat /\ R \subseteq 1 .. n /\ p \in (1 .. n) \ R  BY <1>1, <1>3, <1>8
    <2> HIDE DEF n, R
    <2>2. /\ Cardinality(R) \in Nat
          /\ Cardinality(R \cup {p}) = Cardinality(R) + 1
          /\ Cardinality(R) + 1 = n => R \cup {p} = 1 .. n
      BY <2>1, ReadMore
    <2> QED  BY <2>2, <1>4, <1>7 DEF R
  <1>10. /\ pc'[c] \in {"fanout", "answered"}
         /\ answer'[c] \in {"none", "accepted", "refused", "unavailable"}
         /\ pc'[c] # "answered" => answer'[c] = "none"
    <2>1. answer[c] = "none"  BY <1>4, <1>6 DEF CallInv, Silence
    <2> QED  BY <1>2, <1>4, <2>1 DEF Answered, Unanswered, HurlerInv, TypeOK
  <1>11. CallType(c)'
    <2>1. /\ route[c] \in Route /\ next[c] \in 0 .. n
          /\ outcome[c] \in [1 .. n -> Outcome] /\ taken[c] \subseteq 1 .. n
      BY <1>1 DEF HurlerInv, TypeOK
    <2>2. attempts'[c] \in 0 .. n /\ read'[c] \subseteq 1 .. n
      BY <1>1, <1>3, <1>4, <1>7, <1>8, <1>9
    <2> QED  BY <2>1, <2>2, <1>4, <1>5, <1>10 DEF CallType
  <1>12. Idle(c)' /\ Silence(c)' /\ Walking(c)' /\ Once(c)'
    BY <1>4, <1>7, <1>10 DEF Idle, Silence, Walking, Once
  <1>13. CASE outcome[c][p] = "accepted"
    <2>1. pc'[c] = "answered" /\ answer'[c] = "accepted"
      BY <1>2, <1>13 DEF Answered, HurlerInv, TypeOK
    <2>2. Earned(c)'  BY <2>1, <1>3, <1>4, <1>5, <1>13 DEF Earned
    <2> QED  BY <2>1, <2>2, <1>11, <1>12 DEF CallInv, Gathering
  <1>14. CASE outcome[c][p] # "accepted" /\ attempts'[c] < n
    <2>1. pc'[c] = "fanout" /\ answer'[c] = "none"
      BY <1>2, <1>4, <1>6, <1>14 DEF Unanswered, CallInv, Silence
    <2>2. Earned(c)'  BY <2>1 DEF Earned
    <2>3. \A q \in read'[c] : outcome'[c][q] \in {"refused", "silent"}
      BY <1>3, <1>4, <1>7, <1>14
    <2>4. Gathering(c)'  BY <2>3, <1>4, <1>5, <1>7, <1>9, <1>14 DEF Gathering
    <2> QED  BY <2>2, <2>4, <1>11, <1>12 DEF CallInv
  <1>15. CASE outcome[c][p] # "accepted" /\ ~(attempts'[c] < n)
    <2>1. pc'[c] = "answered" /\ answer'[c] \in {"refused", "unavailable"}
      BY <1>2, <1>15 DEF Answered, HurlerInv, TypeOK
    <2>2. attempts'[c] = n  BY <1>1, <1>4, <1>7, <1>9, <1>15
    <2>3. \A q \in 1 .. n : outcome'[c][q] \in {"refused", "silent"}
      BY <2>2, <1>3, <1>4, <1>7, <1>9, <1>15
    <2>4. Earned(c)'  BY <2>1, <2>3, <1>5 DEF Earned
    <2> QED  BY <2>1, <2>4, <1>11, <1>12 DEF CallInv, Gathering
  <1> QED  BY <1>13, <1>14, <1>15

-----------------------------------------------------------------------------
(* All of the calls, and the table.                                         *)

CallStep(c) ==
    \/ \E h \in Hosts : ServeUnknown(c, h) \/ ServeUnread(c, h) \/ ServeHTTP(c, h)
    \/ RoundRobin(c) \/ Fanout(c)
    \/ \E p \in Positions(c) : Send(c, p)

TableStep == SyncTable \/ \E n \in Registrable : Register(n) \/ Expire(n)

\* The functions over calls are functions over calls.
CallFunctions ==
    /\ pc = [c \in Calls |-> pc[c]] /\ route = [c \in Calls |-> route[c]]
    /\ next = [c \in Calls |-> next[c]] /\ attempts = [c \in Calls |-> attempts[c]]
    /\ DOMAIN outcome = Calls /\ read = [c \in Calls |-> read[c]]
    /\ taken = [c \in Calls |-> taken[c]] /\ answer = [c \in Calls |-> answer[c]]

LEMMA StepShape ==
    ASSUME HurlerInv, NEW c \in Calls, CallStep(c)
    PROVE  UNCHANGED routeVars /\ CallFunctions' /\ \A b \in Calls \ {c} : Same(b)
  <1> USE DEF HurlerInv, TypeOK, Same, CallFunctions
  <1>1. ASSUME NEW h \in Hosts, ServeUnknown(c, h) \/ ServeUnread(c, h)
        PROVE  UNCHANGED routeVars /\ CallFunctions' /\ \A b \in Calls \ {c} : Same(b)
    BY <1>1 DEF ServeUnknown, ServeUnread, Answered
  <1>2. ASSUME NEW h \in Hosts, ServeHTTP(c, h)
        PROVE  UNCHANGED routeVars /\ CallFunctions' /\ \A b \in Calls \ {c} : Same(b)
    BY <1>2 DEF ServeHTTP
  <1>3. CASE RoundRobin(c)
    <2>1. UNCHANGED <<routeVars, route, read>> /\ \E p : RoundTrip(c, p)
      BY <1>3 DEF RoundRobin, Walk
    <2>2. /\ attempts' = [attempts EXCEPT ![c] = @ + 1]
          /\ next' = [next EXCEPT ![c] = Turn(c) + 1]
      BY <1>3 DEF RoundRobin, Walk
    <2>3. Unanswered \/ \E code : Answered(c, code)  BY <1>3 DEF RoundRobin, Walk
    <2> QED  BY <2>1, <2>2, <2>3 DEF RoundTrip, Answered, Unanswered
  <1>4. CASE Fanout(c)
    <2>1. /\ UNCHANGED <<routeVars, route, next, outcome, taken>>
          /\ attempts' = [attempts EXCEPT ![c] = @ + 1]
          /\ \E p : read' = [read EXCEPT ![c] = @ \cup {p}]
      BY <1>4 DEF Fanout
    <2>2. Unanswered \/ \E code : Answered(c, code)  BY <1>4 DEF Fanout
    <2> QED  BY <2>1, <2>2 DEF Answered, Unanswered
  <1>5. ASSUME NEW p \in Positions(c), Send(c, p)
        PROVE  UNCHANGED routeVars /\ CallFunctions' /\ \A b \in Calls \ {c} : Same(b)
    BY <1>5 DEF Send, RoundTrip
  <1> QED  BY <1>1, <1>2, <1>3, <1>4, <1>5 DEF CallStep

LEMMA TypeSplit ==
    TypeOK <=> /\ nodes \subseteq Registrable
               /\ table \in [Hosts -> Route]
               /\ CallFunctions
               /\ \A c \in Calls : CallType(c)
  BY SizeType DEF TypeOK, CallFunctions, CallType, Positions

LEMMA HurlerInit == Init => HurlerInv
  <1> SUFFICES ASSUME Init PROVE HurlerInv
    OBVIOUS
  <1>1. NoRoute \in Route /\ Len(NoRoute.endpoints) = 0
    BY DEF NoRoute, Route, DispatchKind
  <1>2. \A c \in Calls : route[c] = NoRoute /\ Size(c) = 0 /\ Positions(c) = {}
    BY <1>1 DEF Init, Size, Positions
  <1>3. TypeOK  BY <1>1, <1>2 DEF Init, TypeOK, Outcome
  <1>4. \A c \in Calls : CallInv(c)
    BY <1>2 DEF Init, CallInv, Idle, Silence, Walking, Gathering, Earned, Once
  <1> QED  BY <1>3, <1>4 DEF HurlerInv

LEMMA HurlerStep == HurlerInv /\ [Next]_vars => HurlerInv'
  <1> SUFFICES ASSUME HurlerInv, [Next]_vars PROVE HurlerInv'
    OBVIOUS
  <1>1. \A b \in Calls : CallType(b) /\ CallInv(b)  BY TypeSplit DEF HurlerInv
  <1>2. ASSUME NEW c \in Calls, CallStep(c) PROVE HurlerInv'
    <2>1. CallType(c)' /\ CallInv(c)'
      BY <1>2, UnservedStep, ServeStep, RoundRobinStep, FanoutStep, SendStep DEF CallStep
    <2>2. UNCHANGED routeVars /\ CallFunctions' /\ \A b \in Calls \ {c} : Same(b)
      BY <1>2, StepShape
    <2>3. \A b \in Calls \ {c} : CallType(b)' /\ CallInv(b)'
      BY <2>2, <1>1, SameType, SameInv
    <2>4. \A b \in Calls : CallType(b)' /\ CallInv(b)'  BY <2>1, <2>3
    <2>5. TypeOK'
      <3>1. \A b \in Calls : Size(b)' \in Nat /\ Positions(b)' = 1 .. Size(b)'
        BY <2>4 DEF CallType, Size, Positions, Route
      <3>2. nodes' \subseteq Registrable /\ table' \in [Hosts -> Route]
        BY <2>2 DEF routeVars, HurlerInv, TypeOK
      <3> QED  BY <2>2, <2>4, <3>1, <3>2 DEF TypeOK, CallFunctions, CallType
    <2> QED  BY <2>4, <2>5 DEF HurlerInv
  <1>3. ASSUME UNCHANGED callVars PROVE \A b \in Calls : CallType(b)' /\ CallInv(b)'
    <2>1. \A b \in Calls : Same(b)  BY <1>3 DEF callVars, Same
    <2> QED  BY <2>1, <1>1, SameType, SameInv
  <1>4. CASE TableStep
    <2>1. UNCHANGED callVars  BY <1>4 DEF TableStep, SyncTable, Register, Expire
    <2>2. nodes' \subseteq Registrable /\ table' \in [Hosts -> Route]
      BY <1>4, RouteType
      DEF TableStep, SyncTable, Register, Expire, HurlerInv, TypeOK
    <2>3. TypeOK'  BY <2>1, <2>2 DEF callVars, HurlerInv, TypeOK, Size, Positions
    <2> QED  BY <1>3, <2>1, <2>3 DEF HurlerInv
  <1>5. CASE UNCHANGED vars
    <2>1. TypeOK'
      BY <1>5 DEF vars, routeVars, callVars, HurlerInv, TypeOK, Size, Positions
    <2> QED  BY <1>3, <1>5, <2>1 DEF vars, HurlerInv
  <1> QED  BY <1>2, <1>4, <1>5 DEF Next, CallStep, TableStep

-----------------------------------------------------------------------------
LEMMA HurlerInvariant == Spec => []HurlerInv
  BY HurlerInit, HurlerStep, PTL DEF Spec

\* Every variable keeps its type, whatever is registered and called.
THEOREM CallsAreTyped == Spec => []TypeOK
  <1>1. HurlerInv => TypeOK  BY DEF HurlerInv
  <1> QED  BY <1>1, HurlerInvariant, PTL

\* A caller is told what the endpoints said, whether they are walked in turn or
\* asked all at once, however late they answer (hurler/round_robin.go,
\* hurler/fanout.go).
THEOREM AnswersAreEarned == Spec => []AnswerEarned
  <1>1. HurlerInv => AnswerEarned  BY DEF HurlerInv, CallInv, Earned, AnswerEarned
  <1> QED  BY <1>1, HurlerInvariant, PTL

\* A round-robin call is taken up a second time only when an endpoint kept its
\* answer back (hurler/round_robin.go:37-54).
THEOREM CallsAreTakenOnce == Spec => []TakenOnce
  <1>1. HurlerInv => TakenOnce  BY DEF HurlerInv, CallInv, Once, TakenOnce
  <1> QED  BY <1>1, HurlerInvariant, PTL
=============================================================================
