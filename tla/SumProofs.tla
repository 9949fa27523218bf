------------------------------ MODULE SumProofs ------------------------------
(***************************************************************************)
(* What a sum over a finite set is: the sum of MapThenSumSet takes the     *)
(* elements in the order CHOOSE gives them, so a function that differs at  *)
(* one element only has a sum that differs by as much.  The induction is   *)
(* over the subsets of a finite set, by a smallest counterexample.         *)
(***************************************************************************)
EXTENDS Integers, FiniteSets, FiniteSetsExt, FiniteSetTheorems, WellFoundedInduction, TLAPS

\* What holds of a finite set as soon as it holds of its proper subsets holds of it.
LEMMA SubsetInduction ==
  ASSUME NEW S, IsFiniteSet(S), NEW T,
         \A X \in SUBSET S : (\A Y \in SUBSET S : Y \subseteq X /\ Y # X => Y \in T) => X \in T
  PROVE  \A X \in SUBSET S : X \in T
<1> SUFFICES ASSUME NEW X \in SUBSET S, X \notin T PROVE FALSE
  OBVIOUS
<1> DEFINE bad == {Y \in SUBSET S : Y \notin T}
<1>1. bad \subseteq SUBSET S /\ bad # {}
  OBVIOUS
<1>2. IsWellFoundedOn(StrictSubsetOrdering(S), SUBSET S)
  <2>1. FiniteSubsetsOf(S) = SUBSET S
    BY FS_FiniteSubsetsOfFinite
  <2>2. IsWellFoundedOn(StrictSubsetOrdering(S), FiniteSubsetsOf(S))
    BY FS_StrictSubsetOrderingWellFounded
  <2> QED
    BY <2>1, <2>2
<1> HIDE DEF bad
<1>3. PICK B \in bad : \A Y \in bad : ~ (<<Y, B>> \in StrictSubsetOrdering(S))
  BY <1>1, <1>2, WFMin
<1>4. \A Y \in SUBSET S : Y \subseteq B /\ Y # B => Y \in T
  BY <1>1, <1>3 DEF bad, StrictSubsetOrdering
<1> QED
  BY <1>1, <1>3, <1>4 DEF bad

\* The sums of f over the subsets of S, each by its first element and the sum of the others.
Pick(s) == CHOOSE x \in s : TRUE
Rest(s) == s \ {Pick(s)}
Sums(g, f, S) == g = [s \in SUBSET S |-> IF s = {} THEN 0 ELSE f[Pick(s)] + g[Rest(s)]]

LEMMA PickIn == ASSUME NEW s, s # {} PROVE Pick(s) \in s /\ Rest(s) \subseteq s /\ Rest(s) # s
  BY DEF Pick, Rest

LEMMA SumsAt ==
  ASSUME NEW g, NEW f, NEW S, Sums(g, f, S), NEW s, s \subseteq S
  PROVE  g[s] = IF s = {} THEN 0 ELSE f[Pick(s)] + g[Rest(s)]
<1>1. g = [t \in SUBSET S |-> IF t = {} THEN 0 ELSE f[Pick(t)] + g[Rest(t)]]
  BY DEF Sums
<1> QED
  BY <1>1

\* There is one sum.
LEMMA SumsAgree ==
  ASSUME NEW S, IsFiniteSet(S), NEW f, NEW g, NEW h, NEW X, NEW Y, Sums(g, f, X), Sums(h, f, Y), S \subseteq X, S \subseteq Y
  PROVE  g[S] = h[S]
<1> DEFINE T == {s \in SUBSET S : g[s] = h[s]}
<1>1. ASSUME NEW s \in SUBSET S, \A t \in SUBSET S : t \subseteq s /\ t # s => t \in T
      PROVE  s \in T
  <2>1. g[s] = IF s = {} THEN 0 ELSE f[Pick(s)] + g[Rest(s)]
    BY SumsAt
  <2>2. h[s] = IF s = {} THEN 0 ELSE f[Pick(s)] + h[Rest(s)]
    BY SumsAt
  <2>3. s # {} => g[Rest(s)] = h[Rest(s)]
    BY <1>1, PickIn
  <2> QED
    BY <2>1, <2>2, <2>3
<1> HIDE DEF T
<1>2. S \in T
  BY <1>1, SubsetInduction
<1> QED
  BY <1>2 DEF T

\* And it exists.
LEMMA SumsExist == ASSUME NEW S, IsFiniteSet(S), NEW f PROVE \E g : Sums(g, f, S)
<1> DEFINE T == {s \in SUBSET S : \E g : Sums(g, f, s)}
<1>1. ASSUME NEW s \in SUBSET S, \A t \in SUBSET S : t \subseteq s /\ t # s => t \in T
      PROVE  s \in T
  <2> DEFINE part(t) == CHOOSE h : Sums(h, f, t)
             g == [t \in SUBSET s |-> IF t = {} THEN 0 ELSE f[Pick(t)] + part(Rest(t))[Rest(t)]]
  <2>1. \A t \in SUBSET s : t # s => Sums(part(t), f, t)
    BY <1>1
  <2> HIDE DEF part
  <2>2. ASSUME NEW t \in SUBSET s, t # {} PROVE g[Rest(t)] = part(Rest(t))[Rest(t)]
    <3> DEFINE u == Rest(t)
    <3>1. u \subseteq s /\ u # s
      BY <2>2, PickIn
    <3>2. Sums(part(u), f, u)
      BY <2>1, <3>1
    <3>3. part(u)[u] = IF u = {} THEN 0 ELSE f[Pick(u)] + part(u)[Rest(u)]
      BY <3>2, SumsAt
    <3>4. u # {} => part(u)[Rest(u)] = part(Rest(u))[Rest(u)]
      <4> SUFFICES ASSUME u # {} PROVE part(u)[Rest(u)] = part(Rest(u))[Rest(u)]
        OBVIOUS
      <4>1. Rest(u) \subseteq u /\ Rest(u) # s /\ IsFiniteSet(Rest(u))
        BY <3>1, PickIn, FS_Subset
      <4>2. Sums(part(Rest(u)), f, Rest(u))
        BY <2>1, <3>1, <4>1
      <4> QED
        BY <3>2, <4>1, <4>2, SumsAgree
    <3>5. g[u] = IF u = {} THEN 0 ELSE f[Pick(u)] + part(Rest(u))[Rest(u)]
      BY <3>1
    <3> QED
      BY <3>3, <3>4, <3>5
  <2>3. g = [t \in SUBSET s |-> IF t = {} THEN 0 ELSE f[Pick(t)] + g[Rest(t)]]
    BY <2>2
  <2> HIDE DEF g
  <2>4. Sums(g, f, s)
    BY <2>3 DEF Sums
  <2> QED
    BY <2>4
<1> HIDE DEF T
<1>2. S \in T
  BY <1>1, SubsetInduction
<1> QED
  BY <1>2 DEF T

\* The community module's sum is this one.
Total(f, S) == MapThenSumSet(LAMBDA p : f[p], S)
LEMMA SumIsSums ==
  ASSUME NEW S, IsFiniteSet(S), NEW f
  PROVE  \E g : Sums(g, f, S) /\ Total(f, S) = g[S]
<1> DEFINE iter == CHOOSE g : g = [s \in SUBSET S |-> IF s = {} THEN 0 ELSE f[CHOOSE x \in s : TRUE] + g[s \ {CHOOSE x \in s : TRUE}]]
<1>1. Total(f, S) = iter[S]
  BY DEF Total, MapThenSumSet, MapThenFoldSet
<1>2. Sums(iter, f, S)
  <2>1. \E g : g = [s \in SUBSET S |-> IF s = {} THEN 0 ELSE f[CHOOSE x \in s : TRUE] + g[s \ {CHOOSE x \in s : TRUE}]]
    <3>1. PICK g : Sums(g, f, S)
      BY SumsExist
    <3> QED
      BY <3>1 DEF Sums, Pick, Rest
  <2> QED
    BY <2>1 DEF Sums, Pick, Rest
<1> QED
  BY <1>1, <1>2

\* A sum of natural numbers is one, and zeros add up to zero.
LEMMA SumOfNats ==
  ASSUME NEW S, IsFiniteSet(S), NEW f \in [S -> Nat]
  PROVE  Total(f, S) \in Nat
<1>1. PICK g : Sums(g, f, S) /\ Total(f, S) = g[S]
  BY SumIsSums
<1> DEFINE T == {s \in SUBSET S : g[s] \in Nat}
<1>2. ASSUME NEW s \in SUBSET S, \A t \in SUBSET S : t \subseteq s /\ t # s => t \in T
      PROVE  s \in T
  <2>1. g[s] = IF s = {} THEN 0 ELSE f[Pick(s)] + g[Rest(s)]
    BY <1>1, SumsAt
  <2>2. s # {} => g[Rest(s)] \in Nat /\ f[Pick(s)] \in Nat
    BY <1>2, PickIn
  <2> QED
    BY <2>1, <2>2
<1> HIDE DEF T
<1>3. S \in T
  BY <1>2, SubsetInduction
<1> QED
  BY <1>1, <1>3 DEF T

LEMMA SumOfZeros ==
  ASSUME NEW S, IsFiniteSet(S), NEW f, \A p \in S : f[p] = 0
  PROVE  Total(f, S) = 0
<1>1. PICK g : Sums(g, f, S) /\ Total(f, S) = g[S]
  BY SumIsSums
<1> DEFINE T == {s \in SUBSET S : g[s] = 0}
<1>2. ASSUME NEW s \in SUBSET S, \A t \in SUBSET S : t \subseteq s /\ t # s => t \in T
      PROVE  s \in T
  <2>1. g[s] = IF s = {} THEN 0 ELSE f[Pick(s)] + g[Rest(s)]
    BY <1>1, SumsAt
  <2>2. s # {} => g[Rest(s)] = 0 /\ f[Pick(s)] = 0
    BY <1>2, PickIn
  <2> QED
    BY <2>1, <2>2
<1> HIDE DEF T
<1>3. S \in T
  BY <1>2, SubsetInduction
<1> QED
  BY <1>1, <1>3 DEF T

\* One summand more.
LEMMA SumAfterChange ==
  ASSUME NEW S, IsFiniteSet(S), NEW f \in [S -> Nat], NEW h \in [S -> Nat], NEW x \in S, NEW d \in Nat,
         h[x] = f[x] + d, \A y \in S \ {x} : h[y] = f[y]
  PROVE  Total(h, S) = Total(f, S) + d
<1>1. PICK g : Sums(g, f, S) /\ Total(f, S) = g[S]
  BY SumIsSums
<1>2. PICK k : Sums(k, h, S) /\ Total(h, S) = k[S]
  BY SumIsSums
<1>3. \A s \in SUBSET S : /\ g[s] = IF s = {} THEN 0 ELSE f[Pick(s)] + g[Rest(s)]
                          /\ k[s] = IF s = {} THEN 0 ELSE h[Pick(s)] + k[Rest(s)]
  BY <1>1, <1>2, SumsAt
<1> DEFINE T == {s \in SUBSET S : g[s] \in Nat /\ k[s] = g[s] + (IF x \in s THEN d ELSE 0)}
<1>4. ASSUME NEW s \in SUBSET S, \A t \in SUBSET S : t \subseteq s /\ t # s => t \in T
      PROVE  s \in T
  <2>1. g[s] = IF s = {} THEN 0 ELSE f[Pick(s)] + g[Rest(s)]
    BY <1>3
  <2>2. k[s] = IF s = {} THEN 0 ELSE h[Pick(s)] + k[Rest(s)]
    BY <1>3
  <2>3. CASE s = {}
    BY <2>1, <2>2, <2>3
  <2>4. CASE s # {}
    <3>1. Pick(s) \in s /\ Pick(s) \in S /\ Rest(s) \in T
      BY <1>4, <2>4, PickIn
    <3>2. x \in Rest(s) <=> x \in s /\ x # Pick(s)
      BY DEF Rest
    <3>3. g[Rest(s)] \in Nat /\ k[Rest(s)] = g[Rest(s)] + (IF x \in Rest(s) THEN d ELSE 0)
      BY <3>1
    <3>4. f[Pick(s)] \in Nat /\ h[Pick(s)] = f[Pick(s)] + (IF x = Pick(s) THEN d ELSE 0)
      BY <3>1
    <3> QED
      BY <2>1, <2>2, <2>4, <3>1, <3>2, <3>3, <3>4
  <2> QED
    BY <2>3, <2>4
<1> HIDE DEF T
<1>5. S \in T
  BY <1>4, SubsetInduction
<1> QED
  BY <1>1, <1>2, <1>5 DEF T

\* Summands of at most m each.
LEMMA SumIsBounded ==
  ASSUME NEW S, IsFiniteSet(S), NEW m \in Nat, NEW f \in [S -> Nat], \A x \in S : f[x] <= m
  PROVE  Total(f, S) <= m * Cardinality(S)
<1>1. PICK g : Sums(g, f, S) /\ Total(f, S) = g[S]
  BY SumIsSums
<1> DEFINE T == {s \in SUBSET S : g[s] \in Nat /\ g[s] <= m * Cardinality(s)}
<1>2. ASSUME NEW s \in SUBSET S, \A t \in SUBSET S : t \subseteq s /\ t # s => t \in T
      PROVE  s \in T
  <2>1. g[s] = IF s = {} THEN 0 ELSE f[Pick(s)] + g[Rest(s)]
    BY <1>1, SumsAt
  <2>2. CASE s = {}
    BY <2>1, <2>2, FS_EmptySet
  <2>3. CASE s # {}
    <3>1. Pick(s) \in s /\ Pick(s) \in S /\ Rest(s) \in T /\ f[Pick(s)] \in Nat /\ f[Pick(s)] <= m
      BY <1>2, <2>3, PickIn
    <3>2. IsFiniteSet(s) /\ Cardinality(s) \in Nat /\ Cardinality(Rest(s)) = Cardinality(s) - 1 /\ Cardinality(Rest(s)) \in Nat
      <4>1. IsFiniteSet(s) /\ IsFiniteSet(Rest(s))
        BY FS_Subset DEF Rest
      <4> QED
        BY <3>1, <4>1, FS_RemoveElement, FS_CardinalityType DEF Rest
    <3>3. g[Rest(s)] \in Nat /\ g[Rest(s)] <= m * Cardinality(Rest(s))
      BY <3>1
    <3> DEFINE c == Cardinality(s)
               d == Cardinality(Rest(s))
    <3>4. c = d + 1 /\ c \in Nat /\ d \in Nat
      BY <3>2
    <3> HIDE DEF c, d
    <3>5. m * c = m * d + m
      BY <3>4
    <3>6. m * c \in Nat /\ m * d \in Nat
      BY <3>4
    <3>7. g[s] \in Nat /\ g[s] <= m * c
      BY <2>1, <2>3, <3>1, <3>3, <3>5, <3>6 DEF d
    <3> QED
      BY <3>7 DEF c
  <2> QED
    BY <2>2, <2>3
<1> HIDE DEF T
<1>3. S \in T
  BY <1>2, SubsetInduction
<1> QED
  BY <1>1, <1>3 DEF T

\* A finite set has an element of highest rank.
LEMMA LastExists ==
  ASSUME NEW S, IsFiniteSet(S), S # {}, NEW f \in [S -> Int]
  PROVE  \E x \in S : \A y \in S : f[y] <= f[x]
<1> DEFINE T == {s \in SUBSET S : s # {} => \E x \in s : \A y \in s : f[y] <= f[x]}
<1>1. ASSUME NEW s \in SUBSET S, \A t \in SUBSET S : t \subseteq s /\ t # s => t \in T
      PROVE  s \in T
  <2> SUFFICES ASSUME s # {} PROVE \E x \in s : \A y \in s : f[y] <= f[x]
    OBVIOUS
  <2>0. s = Rest(s) \cup {Pick(s)}
    BY PickIn DEF Rest
  <2>1. Pick(s) \in s /\ Rest(s) \in T /\ s = Rest(s) \cup {Pick(s)}
    BY <1>1, <2>0, PickIn
  <2>2. CASE Rest(s) = {}
    BY <2>1, <2>2
  <2>3. CASE Rest(s) # {}
    <3>1. PICK x \in Rest(s) : \A y \in Rest(s) : f[y] <= f[x]
      BY <2>1, <2>3
    <3>2. f[x] \in Int /\ f[Pick(s)] \in Int /\ \A y \in s : f[y] \in Int
      BY <2>1
    <3>3. CASE f[Pick(s)] <= f[x]
      BY <2>1, <3>1, <3>3
    <3>4. CASE f[x] <= f[Pick(s)]
      BY <2>1, <3>1, <3>2, <3>4
    <3> QED
      BY <3>2, <3>3, <3>4
  <2> QED
    BY <2>2, <2>3
<1> HIDE DEF T
<1>2. S \in T
  BY <1>1, SubsetInduction
<1> QED
  BY <1>2 DEF T

\* The first n of a finite set, by rank.
Prefix(X, f, S) == \A x \in X, y \in S \ X : f[x] <= f[y]
LEMMA PrefixExists ==
  ASSUME NEW S, IsFiniteSet(S), NEW f \in [S -> Int], NEW n \in 0..Cardinality(S)
  PROVE  \E X \in SUBSET S : Cardinality(X) = n /\ Prefix(X, f, S)
<1> DEFINE T == {s \in SUBSET S : Prefix(s, f, S) /\ n <= Cardinality(s) => \E X \in SUBSET S : Cardinality(X) = n /\ Prefix(X, f, S)}
<1>1. ASSUME NEW s \in SUBSET S, \A t \in SUBSET S : t \subseteq s /\ t # s => t \in T
      PROVE  s \in T
  <2> SUFFICES ASSUME Prefix(s, f, S), n <= Cardinality(s) PROVE \E X \in SUBSET S : Cardinality(X) = n /\ Prefix(X, f, S)
    OBVIOUS
  <2>1. IsFiniteSet(s) /\ Cardinality(s) \in Nat
    BY FS_Subset, FS_CardinalityType
  <2>2. CASE n = Cardinality(s)
    BY <2>2
  <2>3. CASE n # Cardinality(s)
    <3>1. s # {}
      BY <2>1, <2>3, FS_EmptySet
    <3>2. PICK x \in s : \A y \in s : f[y] <= f[x]
      <4> DEFINE h == [y \in s |-> f[y]]
      <4>1. h \in [s -> Int]
        OBVIOUS
      <4>2. PICK x \in s : \A y \in s : h[y] <= h[x]
        <5> HIDE DEF h
        <5> QED
          BY <2>1, <3>1, <4>1, LastExists
      <4> QED
        BY <4>2
    <3>3. Cardinality(s \ {x}) = Cardinality(s) - 1
      BY <2>1, FS_RemoveElement
    <3>4. Prefix(s \ {x}, f, S)
      BY <3>2 DEF Prefix
    <3>5. s \ {x} \in T
      BY <1>1
    <3>6. n <= Cardinality(s \ {x})
      BY <2>1, <2>3, <3>3
    <3> QED
      BY <3>4, <3>5, <3>6
  <2> QED
    BY <2>2, <2>3
<1> HIDE DEF T
<1>2. S \in T
  BY <1>1, SubsetInduction
<1>3. Prefix(S, f, S) /\ n <= Cardinality(S)
  BY DEF Prefix
<1> QED
  BY <1>2, <1>3 DEF T
=============================================================================
