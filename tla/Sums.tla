-------------------------------- MODULE Sums --------------------------------
(***************************************************************************)
(* Facts about the sums that the invariants of the project speak of:       *)
(* SumFunctionOnSet(F, S) adds up F[x] for the elements x of the finite    *)
(* set S.  The library defines it with a recursive function over SUBSET S  *)
(* that takes the elements in the order of CHOOSE; the lemmas below are    *)
(* what every other module uses.  Each induction is an argument by a least *)
(* counterexample: a set of subsets of a finite set has a minimal element. *)
(***************************************************************************)
EXTENDS Integers, FiniteSets, Folds, Functions, FiniteSetTheorems,
        WellFoundedInduction, TLAPS

\* Among subsets of a finite set, one is least: it strictly contains none.
LEMMA LeastSubset ==
    ASSUME NEW S, IsFiniteSet(S), NEW T \in SUBSET SUBSET S, T # {}
    PROVE  \E m \in T : \A u \in T : u \subseteq m => u = m
  <1>1. T \subseteq FiniteSubsetsOf(S)
    BY FS_FiniteSubsetsOfFinite
  <1>2. PICK m \in T : \A u \in T : ~ (<<u, m>> \in StrictSubsetOrdering(S))
    BY <1>1, WFMin, FS_StrictSubsetOrderingWellFounded
  <1>3. ASSUME NEW u \in T, u \subseteq m, u # m
        PROVE  FALSE
    <2>1. <<u, m>> \in StrictSubsetOrdering(S)
      BY <1>3 DEF StrictSubsetOrdering
    <2> QED  BY <1>2, <2>1
  <1>4. \A u \in T : u \subseteq m => u = m
    BY <1>3
  <1> QED  BY <1>4

-----------------------------------------------------------------------------
\* The element that the fold takes first.
First(s) == CHOOSE x \in s : TRUE

LEMMA FirstIn == \A s : s # {} => First(s) \in s
  BY DEF First

\* The function that SumFunctionOnSet adds up with.
Adds(F, S, iter) ==
    iter = [s \in SUBSET S |->
        IF s = {} THEN 0 ELSE F[First(s)] + iter[s \ {First(s)}]]

LEMMA SumIsIter ==
    ASSUME NEW F, NEW S
    PROVE  SumFunctionOnSet(F, S) = (CHOOSE iter : Adds(F, S, iter))[S]
  BY DEF SumFunctionOnSet, FoldFunctionOnSet, MapThenFoldSet, Adds, First

\* What the function says of a subset does not depend on the set it is for.
LEMMA AddsAgree ==
    ASSUME NEW F, NEW S, NEW T, IsFiniteSet(S), NEW f, NEW g,
           Adds(F, S, f), Adds(F, T, g), T \subseteq S
    PROVE  \A s \in SUBSET T : f[s] = g[s]
  <1> DEFINE Bad == {s \in SUBSET T : f[s] # g[s]}
  <1> SUFFICES ASSUME Bad # {} PROVE FALSE
    OBVIOUS
  <1>1. PICK m \in Bad : \A u \in Bad : u \subseteq m => u = m
    <2> Bad \in SUBSET SUBSET S
      OBVIOUS
    <2> HIDE DEF Bad
    <2> QED  BY LeastSubset
  <1>2. m # {} => f[m] = F[First(m)] + f[m \ {First(m)}]
    BY DEF Adds
  <1>3. m # {} => g[m] = F[First(m)] + g[m \ {First(m)}]
    BY DEF Adds
  <1>4. m = {} => f[m] = g[m]
    BY DEF Adds
  <1>5. m # {} => f[m \ {First(m)}] = g[m \ {First(m)}]
    BY <1>1, FirstIn
  <1> QED  BY <1>1, <1>2, <1>3, <1>4, <1>5

LEMMA AddsExists ==
    ASSUME NEW F, NEW S, IsFiniteSet(S)
    PROVE  \E iter : Adds(F, S, iter)
  <1> DEFINE Bad == {s \in SUBSET S : ~ \E iter : Adds(F, s, iter)}
  <1> SUFFICES ASSUME Bad # {} PROVE FALSE
    OBVIOUS
  <1>1. PICK m \in Bad : \A u \in Bad : u \subseteq m => u = m
    <2> Bad \in SUBSET SUBSET S
      OBVIOUS
    <2> HIDE DEF Bad
    <2> QED  BY LeastSubset
  <1>2. \A s \in SUBSET m : s # m => Adds(F, s, CHOOSE iter : Adds(F, s, iter))
    BY <1>1
  <1> DEFINE part(s) == CHOOSE iter : Adds(F, s, iter)
             rest == m \ {First(m)}
             iter == [s \in SUBSET m |->
                        IF s = {} THEN 0
                        ELSE IF s = m THEN F[First(m)] + part(rest)[rest]
                        ELSE part(s)[s]]
  <1>3. ASSUME NEW s \in SUBSET m, s # {}
        PROVE  iter[s] = F[First(s)] + iter[s \ {First(s)}]
    <2> DEFINE r == s \ {First(s)}
    <2>1. r \in SUBSET s /\ r \in SUBSET m /\ r # m /\ r # s
      BY <1>3, FirstIn
    <2>2. r = {} => part(r)[r] = 0
      <3>1. Adds(F, r, part(r))
        BY <1>2, <2>1
      <3> HIDE DEF r, part
      <3> QED  BY <3>1 DEF Adds
    <2>3. iter[r] = part(r)[r]
      BY <2>1, <2>2
    <2>4. CASE s = m
      BY <1>3, <2>3, <2>4
    <2>5. CASE s # m
      <3>1. Adds(F, s, part(s)) /\ Adds(F, r, part(r))
        BY <1>2, <2>1, <2>5
      <3>2. IsFiniteSet(s)
        BY FS_Subset
      <3>3. part(s)[r] = part(r)[r]
        <4> HIDE DEF part, r
        <4> QED  BY <2>1, <3>1, <3>2, AddsAgree
      <3>4. part(s)[s] = F[First(s)] + part(s)[r]
        <4> HIDE DEF part
        <4> QED  BY <1>3, <3>1 DEF Adds
      <3>5. iter[s] = part(s)[s]
        BY <1>3, <2>5
      <3> HIDE DEF iter, part, r
      <3> QED  BY <2>3, <3>3, <3>4, <3>5 DEF r
    <2> QED  BY <2>4, <2>5
  <1>4. iter[{}] = 0
    OBVIOUS
  <1>5. Adds(F, m, iter)
    <2>1. iter = [s \in SUBSET m |-> iter[s]]
      OBVIOUS
    <2> HIDE DEF iter
    <2> QED  BY <1>3, <1>4, <2>1 DEF Adds
  <1> HIDE DEF iter
  <1> QED  BY <1>1, <1>5

-----------------------------------------------------------------------------
\* The defining equation of the sum.
LEMMA SumEquation ==
    ASSUME NEW F, NEW S, IsFiniteSet(S)
    PROVE  /\ S = {} => SumFunctionOnSet(F, S) = 0
           /\ S # {} => SumFunctionOnSet(F, S) =
                            F[First(S)] + SumFunctionOnSet(F, S \ {First(S)})
  <1> DEFINE part(s) == CHOOSE iter : Adds(F, s, iter)
             rest == S \ {First(S)}
  <1>1. IsFiniteSet(rest)
    BY FS_Subset
  <1>2. Adds(F, S, part(S)) /\ Adds(F, rest, part(rest))
    BY <1>1, AddsExists
  <1>3. part(S)[rest] = part(rest)[rest]
    <2> rest \subseteq S
      OBVIOUS
    <2> HIDE DEF part, rest
    <2> QED  BY <1>2, AddsAgree
  <1>4. /\ S = {} => part(S)[S] = 0
        /\ S # {} => part(S)[S] = F[First(S)] + part(S)[rest]
    <2> HIDE DEF part
    <2> QED  BY <1>2 DEF Adds
  <1>5. /\ SumFunctionOnSet(F, S) = part(S)[S]
        /\ SumFunctionOnSet(F, rest) = part(rest)[rest]
    BY SumIsIter
  <1> HIDE DEF part
  <1> QED  BY <1>3, <1>4, <1>5

\* The empty sum.
LEMMA SumEmpty ==
    ASSUME NEW F
    PROVE  SumFunctionOnSet(F, {}) = 0
  BY SumEquation, FS_EmptySet

\* Functions that agree on the set have the same sum over it.
LEMMA SumSame ==
    ASSUME NEW F, NEW G, NEW S, IsFiniteSet(S), \A x \in S : F[x] = G[x]
    PROVE  SumFunctionOnSet(F, S) = SumFunctionOnSet(G, S)
  <1> DEFINE Bad == {s \in SUBSET S :
                        SumFunctionOnSet(F, s) # SumFunctionOnSet(G, s)}
  <1> SUFFICES ASSUME Bad # {} PROVE FALSE
    OBVIOUS
  <1>1. PICK m \in Bad : \A u \in Bad : u \subseteq m => u = m
    <2> Bad \in SUBSET SUBSET S
      OBVIOUS
    <2> HIDE DEF Bad
    <2> QED  BY LeastSubset
  <1>2. IsFiniteSet(m)
    BY FS_Subset
  <1>3. m # {}
    BY <1>1, SumEmpty
  <1>4. SumFunctionOnSet(F, m \ {First(m)}) = SumFunctionOnSet(G, m \ {First(m)})
    BY <1>1, <1>3, FirstIn
  <1>5. F[First(m)] = G[First(m)]
    BY <1>3, FirstIn
  <1> QED  BY <1>1, <1>2, <1>3, <1>4, <1>5, SumEquation

\* The sum of integers is an integer, and of naturals a natural.
LEMMA SumInt ==
    ASSUME NEW F, NEW S, IsFiniteSet(S), \A x \in S : F[x] \in Int
    PROVE  SumFunctionOnSet(F, S) \in Int
  <1> DEFINE Bad == {s \in SUBSET S : SumFunctionOnSet(F, s) \notin Int}
  <1> SUFFICES ASSUME Bad # {} PROVE FALSE
    OBVIOUS
  <1>1. PICK m \in Bad : \A u \in Bad : u \subseteq m => u = m
    <2> Bad \in SUBSET SUBSET S
      OBVIOUS
    <2> HIDE DEF Bad
    <2> QED  BY LeastSubset
  <1>2. IsFiniteSet(m)
    BY FS_Subset
  <1>3. m # {}
    <2>1. SumFunctionOnSet(F, {}) \in Int
      BY SumEmpty
    <2> QED  BY <1>1, <2>1
  <1>4. SumFunctionOnSet(F, m \ {First(m)}) \in Int
    BY <1>1, <1>3, FirstIn
  <1>5. F[First(m)] \in Int
    BY <1>3, FirstIn
  <1> QED  BY <1>1, <1>2, <1>3, <1>4, <1>5, SumEquation

\* Any element can be taken out first.
LEMMA SumRemove ==
    ASSUME NEW F, NEW S, IsFiniteSet(S), \A x \in S : F[x] \in Int, NEW x \in S
    PROVE  SumFunctionOnSet(F, S) = F[x] + SumFunctionOnSet(F, S \ {x})
  <1> DEFINE Bad == {s \in SUBSET S :
                        \E y \in s : SumFunctionOnSet(F, s) #
                                       F[y] + SumFunctionOnSet(F, s \ {y})}
  <1> SUFFICES ASSUME Bad # {} PROVE FALSE
    OBVIOUS
  <1>1. PICK m \in Bad : \A u \in Bad : u \subseteq m => u = m
    <2> Bad \in SUBSET SUBSET S
      OBVIOUS
    <2> HIDE DEF Bad
    <2> QED  BY LeastSubset
  <1>2. PICK y \in m : SumFunctionOnSet(F, m) #
                          F[y] + SumFunctionOnSet(F, m \ {y})
    BY <1>1
  <1> DEFINE c == First(m)
             both == m \ {c, y}
  <1>3. c \in m /\ m # {}
    BY FirstIn
  <1>4. IsFiniteSet(m) /\ IsFiniteSet(both)
    BY FS_Subset
  <1>5. SumFunctionOnSet(F, m) = F[c] + SumFunctionOnSet(F, m \ {c})
    BY <1>3, <1>4, SumEquation
  <1>6. c # y
    BY <1>2, <1>5
  <1>7. \A u \in SUBSET m : u # m => \A z \in u :
            SumFunctionOnSet(F, u) = F[z] + SumFunctionOnSet(F, u \ {z})
    BY <1>1
  <1>8. SumFunctionOnSet(F, m \ {c}) = F[y] + SumFunctionOnSet(F, both)
    <2> (m \ {c}) \ {y} = both
      OBVIOUS
    <2> QED  BY <1>3, <1>6, <1>7
  <1>9. SumFunctionOnSet(F, m \ {y}) = F[c] + SumFunctionOnSet(F, both)
    <2> (m \ {y}) \ {c} = both
      OBVIOUS
    <2> QED  BY <1>3, <1>6, <1>7
  <1>10. SumFunctionOnSet(F, both) \in Int /\ F[c] \in Int /\ F[y] \in Int
    BY <1>3, <1>4, SumInt
  <1> QED  BY <1>2, <1>5, <1>8, <1>9, <1>10

LEMMA SumNat ==
    ASSUME NEW F, NEW S, IsFiniteSet(S), \A x \in S : F[x] \in Nat
    PROVE  SumFunctionOnSet(F, S) \in Nat
  <1> DEFINE Bad == {s \in SUBSET S : SumFunctionOnSet(F, s) \notin Nat}
  <1> SUFFICES ASSUME Bad # {} PROVE FALSE
    OBVIOUS
  <1>1. PICK m \in Bad : \A u \in Bad : u \subseteq m => u = m
    <2> Bad \in SUBSET SUBSET S
      OBVIOUS
    <2> HIDE DEF Bad
    <2> QED  BY LeastSubset
  <1>2. IsFiniteSet(m)
    BY FS_Subset
  <1>3. m # {}
    <2>1. SumFunctionOnSet(F, {}) \in Nat
      BY SumEmpty
    <2> QED  BY <1>1, <2>1
  <1>4. SumFunctionOnSet(F, m \ {First(m)}) \in Nat
    BY <1>1, <1>3, FirstIn
  <1>5. F[First(m)] \in Nat
    BY <1>3, FirstIn
  <1> QED  BY <1>1, <1>2, <1>3, <1>4, <1>5, SumEquation

\* Adding an element.
LEMMA SumAdd ==
    ASSUME NEW F, NEW S, IsFiniteSet(S), NEW x, x \notin S,
           \A y \in S \cup {x} : F[y] \in Int
    PROVE  SumFunctionOnSet(F, S \cup {x}) = F[x] + SumFunctionOnSet(F, S)
  <1>1. IsFiniteSet(S \cup {x})
    BY FS_AddElement
  <1>2. (S \cup {x}) \ {x} = S
    OBVIOUS
  <1> QED  BY <1>1, <1>2, SumRemove

\* The sizes of disjoint parts of a finite set add up to the size of their union.
LEMMA SumOfParts ==
    ASSUME NEW I, IsFiniteSet(I), NEW T, IsFiniteSet(T),
           NEW A \in [I -> SUBSET T],
           \A i, j \in I : i # j => A[i] \cap A[j] = {},
           NEW F, \A i \in I : F[i] = Cardinality(A[i])
    PROVE  SumFunctionOnSet(F, I) = Cardinality(UNION {A[i] : i \in I})
  <1> DEFINE Part(J) == UNION {A[i] : i \in J}
             Bad == {J \in SUBSET I : SumFunctionOnSet(F, J) # Cardinality(Part(J))}
  <1> SUFFICES ASSUME Bad # {} PROVE FALSE
    OBVIOUS
  <1>1. PICK J \in Bad : \A u \in Bad : u \subseteq J => u = J
    <2> Bad \in SUBSET SUBSET I
      OBVIOUS
    <2> HIDE DEF Bad
    <2> QED  BY LeastSubset
  <1>2. IsFiniteSet(J)
    BY FS_Subset
  <1>3. J # {}
    <2>1. Cardinality(Part({})) = 0
      BY FS_EmptySet
    <2> QED  BY <1>1, <2>1, SumEmpty
  <1>4. PICK i \in J : TRUE
    BY <1>3
  <1> DEFINE rest == J \ {i}
  <1>5. IsFiniteSet(A[i]) /\ IsFiniteSet(Part(rest)) /\ A[i] \cap Part(rest) = {}
    <2>1. A[i] \subseteq T /\ Part(rest) \subseteq T
      OBVIOUS
    <2>2. A[i] \cap Part(rest) = {}
      OBVIOUS
    <2> HIDE DEF Part
    <2> QED  BY <2>1, <2>2, FS_Subset
  <1>6. Part(J) = A[i] \cup Part(rest)
    OBVIOUS
  <1>7. Cardinality(Part(J)) = Cardinality(A[i]) + Cardinality(Part(rest))
    <2>1. Cardinality(Part(J)) =
            Cardinality(A[i]) + Cardinality(Part(rest)) - Cardinality({})
      <3> HIDE DEF Part, rest
      <3> QED  BY <1>5, <1>6, FS_Union
    <2>2. Cardinality(A[i]) \in Nat /\ Cardinality(Part(rest)) \in Nat
      <3> HIDE DEF Part, rest
      <3> QED  BY <1>5, FS_CardinalityType
    <2> HIDE DEF Part, rest
    <2> QED  BY <2>1, <2>2, FS_EmptySet
  <1>8. SumFunctionOnSet(F, rest) = Cardinality(Part(rest))
    BY <1>1, <1>4
  <1>9. SumFunctionOnSet(F, J) = F[i] + SumFunctionOnSet(F, rest)
    <2>1. \A j \in J : F[j] \in Int
      BY FS_Subset, FS_CardinalityType
    <2> QED  BY <1>2, <1>4, <2>1, SumRemove
  <1> HIDE DEF Part, rest
  <1> QED  BY <1>1, <1>4, <1>7, <1>8, <1>9

LEMMA SumOfPartsBound ==
    ASSUME NEW I, IsFiniteSet(I), NEW T, IsFiniteSet(T),
           NEW A \in [I -> SUBSET T],
           \A i, j \in I : i # j => A[i] \cap A[j] = {},
           NEW F, \A i \in I : F[i] = Cardinality(A[i])
    PROVE  SumFunctionOnSet(F, I) <= Cardinality(T)
  <1>1. UNION {A[i] : i \in I} \subseteq T
    OBVIOUS
  <1>2. SumFunctionOnSet(F, I) = Cardinality(UNION {A[i] : i \in I})
    BY SumOfParts
  <1>3. Cardinality(UNION {A[i] : i \in I}) <= Cardinality(T)
    BY <1>1, FS_Subset
  <1> QED  BY <1>2, <1>3
=============================================================================
