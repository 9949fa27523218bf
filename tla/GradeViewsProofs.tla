-------------------------- MODULE GradeViewsProofs --------------------------
(***************************************************************************)
(* That the pages about an exam agree, and that its rows keep their types. *)
(* Over the invariant of ClassroomProofs, two more: the local variables of *)
(* a handler fit the rows it writes (TypeInv), and what a statistics       *)
(* request has counted is what there is, unless a change of grades         *)
(* overtook it (CountInv).  The loop that ranks the grades is shown to     *)
(* count the better ones, and sums and rates are bounded.                  *)
(***************************************************************************)
EXTENDS ClassroomProofs, GradeViews, SumProofs

(***************************************************************************)
(* Orders, ranks and sums.                                                 *)
(***************************************************************************)
\* Every element of S once, by its key.
Listing(seq, S) ==
    /\ seq \in [1 .. Cardinality(S) -> S]
    /\ \A i, j \in 1 .. Cardinality(S) : i # j => seq[i] # seq[j]
Ascends(seq, key) == \A i, j \in DOMAIN seq : i < j => key[seq[i]] <= key[seq[j]]

\* A finite set can be put in order.
LEMMA OrderExists ==
    ASSUME NEW S, IsFiniteSet(S), NEW key \in [S -> Int]
    PROVE  \E seq : Listing(seq, S) /\ Ascends(seq, key)
<1> DEFINE T == {s \in SUBSET S : \E seq : Listing(seq, s) /\ Ascends(seq, key)}
<1>1. ASSUME NEW s \in SUBSET S, \A t \in SUBSET S : t \subseteq s /\ t # s => t \in T
      PROVE  s \in T
  <2>1. IsFiniteSet(s) /\ Cardinality(s) \in Nat
    BY FS_Subset, FS_CardinalityType
  <2>2. CASE s = {}
    <3>1. Cardinality(s) = 0
      BY <2>2, FS_EmptySet
    <3>2. Listing([i \in 1 .. Cardinality(s) |-> i], s) /\ Ascends([i \in 1 .. Cardinality(s) |-> i], key)
      BY <3>1 DEF Listing, Ascends
    <3> QED
      BY <3>2
  <2>3. CASE s # {}
    <3> DEFINE n == Cardinality(s)
    <3>1. PICK x \in s : \A y \in s : key[y] <= key[x]
      <4> DEFINE h == [y \in s |-> key[y]]
      <4>1. h \in [s -> Int]
        OBVIOUS
      <4>2. PICK x \in s : \A y \in s : h[y] <= h[x]
        <5> HIDE DEF h
        <5> QED
          BY <2>1, <2>3, <4>1, LastExists
      <4> QED
        BY <4>2
    <3>2. IsFiniteSet(s \ {x}) /\ Cardinality(s \ {x}) = n - 1 /\ n \in Nat \ {0}
      BY <2>1, <2>3, FS_RemoveElement, FS_EmptySet
    <3>3. PICK seq : Listing(seq, s \ {x}) /\ Ascends(seq, key)
      BY <1>1
    <3> HIDE DEF n
    <3>4. seq \in [1 .. n - 1 -> s \ {x}] /\ \A i, j \in 1 .. n - 1 : i # j => seq[i] # seq[j]
      BY <3>2, <3>3 DEF Listing
    <3> DEFINE more == [i \in 1 .. n |-> IF i = n THEN x ELSE seq[i]]
    <3>5. Listing(more, s)
      <4>1. \A i \in 1 .. n : i = n \/ i \in 1 .. n - 1
        BY <3>2
      <4>2. more \in [1 .. n -> s]
        BY <3>4, <4>1
      <4>3. \A i, j \in 1 .. n : i # j => more[i] # more[j]
        BY <3>4, <4>1
      <4> QED
        BY <4>2, <4>3 DEF Listing, n
    <3>6. Ascends(more, key)
      <4>1. ASSUME NEW i \in 1 .. n, NEW j \in 1 .. n, i < j PROVE key[more[i]] <= key[more[j]]
        <5>1. i \in 1 .. n - 1 /\ more[i] = seq[i] /\ seq[i] \in s
          BY <3>2, <3>4, <4>1
        <5>2. CASE j = n
          BY <3>1, <5>1, <5>2
        <5>3. CASE j # n
          BY <3>2, <3>3, <3>4, <4>1, <5>1, <5>3 DEF Ascends
        <5> QED
          BY <5>2, <5>3
      <4> QED
        BY <4>1 DEF Ascends
    <3> QED
      BY <3>5, <3>6
  <2> QED
    BY <2>2, <2>3
<1> HIDE DEF T
<1>2. S \in T
  BY <1>1, SubsetInduction
<1> QED
  BY <1>2 DEF T

\* What InOrder gives is in order and leaves nobody out.
LEMMA InOrderIs ==
    ASSUME NEW S, IsFiniteSet(S), NEW key \in [S -> Int]
    PROVE  /\ Listing(InOrder(S, key), S) /\ Ascends(InOrder(S, key), key)
           /\ \A x \in S : \E i \in 1 .. Cardinality(S) : InOrder(S, key)[i] = x
<1> DEFINE seq == InOrder(S, key)
           n == Cardinality(S)
<1>1. \A s : s \in SetToSeqs(S) <=> Listing(s, S)
  BY DEF SetToSeqs, Listing
<1>2. Listing(seq, S) /\ Ascends(seq, key)
  <2>1. \E s \in SetToSeqs(S) : \A i, j \in DOMAIN s : i < j => key[s[i]] <= key[s[j]]
    BY <1>1, OrderExists DEF Ascends
  <2>2. seq \in SetToSeqs(S) /\ \A i, j \in DOMAIN seq : i < j => key[seq[i]] <= key[seq[j]]
    BY <2>1 DEF InOrder
  <2> QED
    BY <1>1, <2>2 DEF Ascends
<1> HIDE DEF seq
<1>3. seq \in Injection(1 .. n, S)
  BY <1>2 DEF Listing, Injection, IsInjective
<1>4. n \in Nat /\ Cardinality(1 .. n) = n
  BY FS_CardinalityType, FS_Interval
<1>5. seq \in Surjection(1 .. n, S)
  BY <1>3, <1>4, FS_Injection
<1> QED
  BY <1>2, <1>5 DEF Surjection, seq

\* The loop over the grades: one that equals the grade before has its rank, another its own position.
RankLoop(rank, n, mark) ==
    rank = [i \in 1 .. n |-> IF i > 1 /\ mark[i] = mark[i - 1] THEN rank[i - 1] ELSE i]
Better(n, mark, i) == {j \in 1 .. n : mark[j] > mark[i]}

LEMMA RankLoopAgrees ==
    ASSUME NEW n \in Nat, NEW mark, NEW f, NEW g, RankLoop(f, n, mark), RankLoop(g, n, mark)
    PROVE  f = g
<1> DEFINE bad == {i \in 1 .. n : f[i] # g[i]}
<1>1. \A h : RankLoop(h, n, mark) => \A i \in 1 .. n : h[i] = IF i > 1 /\ mark[i] = mark[i - 1] THEN h[i - 1] ELSE i
  <2> SUFFICES ASSUME NEW h, RankLoop(h, n, mark), NEW k \in 1 .. n
               PROVE  h[k] = IF k > 1 /\ mark[k] = mark[k - 1] THEN h[k - 1] ELSE k
    OBVIOUS
  <2>1. h = [i \in 1 .. n |-> IF i > 1 /\ mark[i] = mark[i - 1] THEN h[i - 1] ELSE i]
    BY DEF RankLoop
  <2> QED
    BY <2>1
<1>2. bad = {}
  <2> SUFFICES ASSUME bad # {} PROVE FALSE
    OBVIOUS
  <2>1. IsFiniteSet(bad)
    <3>1. IsFiniteSet(1 .. n)
      BY FS_Interval
    <3> QED
      BY <3>1, FS_Subset
  <2> DEFINE back == [i \in bad |-> -i]
  <2>2. back \in [bad -> Int]
    OBVIOUS
  <2>3. PICK i \in bad : \A j \in bad : back[j] <= back[i]
    <3> HIDE DEF bad, back
    <3> QED
      BY <2>1, <2>2, LastExists
  <2>4. i \in 1 .. n /\ i - 1 \notin bad
    BY <2>3
  <2>5. i > 1 => f[i - 1] = g[i - 1]
    BY <2>4
  <2>6. f[i] = g[i]
    BY <1>1, <2>4, <2>5
  <2> QED
    BY <2>3, <2>6
<1>3. f = [i \in 1 .. n |-> f[i]] /\ g = [i \in 1 .. n |-> g[i]]
  <2>1. \A h : RankLoop(h, n, mark) => h = [i \in 1 .. n |-> h[i]]
    BY DEF RankLoop
  <2> QED
    BY <2>1
<1> QED
  BY <1>2, <1>3

\* Of marks in descending order, it counts the better ones.
LEMMA RankLoopCounts ==
    ASSUME NEW n \in Nat, NEW mark \in [1 .. n -> Nat], \A i, j \in 1 .. n : i < j => mark[j] <= mark[i]
    PROVE  RankLoop([i \in 1 .. n |-> 1 + Cardinality(Better(n, mark, i))], n, mark)
<1> DEFINE f == [i \in 1 .. n |-> 1 + Cardinality(Better(n, mark, i))]
<1>1. ASSUME NEW i \in 1 .. n PROVE f[i] = IF i > 1 /\ mark[i] = mark[i - 1] THEN f[i - 1] ELSE i
  <2>1. CASE i > 1 /\ mark[i] = mark[i - 1]
    <3>1. i - 1 \in 1 .. n /\ Better(n, mark, i) = Better(n, mark, i - 1)
      BY <2>1 DEF Better
    <3> QED
      BY <2>1, <3>1
  <2>2. CASE ~(i > 1 /\ mark[i] = mark[i - 1])
    <3>1. ASSUME NEW j \in 1 .. n PROVE mark[j] > mark[i] <=> j < i
      <4>1. CASE j < i
        <5>1. i - 1 \in 1 .. n /\ mark[i] < mark[i - 1]
          BY <2>2, <4>1
        <5>2. mark[i - 1] <= mark[j]
          BY <4>1, <5>1
        <5> QED
          BY <4>1, <5>1, <5>2
      <4>2. CASE ~(j < i)
        <5>1. mark[j] <= mark[i]
          BY <4>2
        <5> QED
          BY <4>2, <5>1
      <4> QED
        BY <4>1, <4>2
    <3>2. Better(n, mark, i) = 1 .. i - 1
      BY <3>1 DEF Better
    <3>3. Cardinality(1 .. i - 1) = i - 1
      BY FS_Interval
    <3> QED
      BY <2>2, <3>2, <3>3
  <2> QED
    BY <2>1, <2>2
<1> HIDE DEF f
<1>2. f = [i \in 1 .. n |-> f[i]]
  BY DEF f
<1>3. f = [i \in 1 .. n |-> IF i > 1 /\ mark[i] = mark[i - 1] THEN f[i - 1] ELSE i]
  BY <1>1, <1>2
<1>4. RankLoop(f, n, mark)
  BY <1>3 DEF RankLoop
<1> QED
  BY <1>4 DEF f

\* The better ones among positions are the better ones among the elements at them.
LEMMA BetterAtPositions ==
    ASSUME NEW S, IsFiniteSet(S), NEW score \in [S -> Nat], NEW order, Listing(order, S),
           \A x \in S : \E i \in 1 .. Cardinality(S) : order[i] = x, NEW k \in 1 .. Cardinality(S)
    PROVE  Cardinality(Better(Cardinality(S), [i \in 1 .. Cardinality(S) |-> score[order[i]]], k))
              = Cardinality({t \in S : score[t] > score[order[k]]})
<1> DEFINE n == Cardinality(S)
           P == {j \in 1 .. n : score[order[j]] > score[order[k]]}
           Q == {t \in S : score[t] > score[order[k]]}
           f == [j \in P |-> order[j]]
<1>1. Better(n, [i \in 1 .. n |-> score[order[i]]], k) = P
  BY DEF Better
<1>2. n \in Nat /\ order \in [1 .. n -> S] /\ \A i, j \in 1 .. n : i # j => order[i] # order[j]
  BY FS_CardinalityType DEF Listing
<1>3. f \in Bijection(P, Q)
  <2>1. f \in [P -> Q] /\ \A i, j \in P : f[i] = f[j] => i = j
    BY <1>2
  <2>2. \A t \in Q : \E j \in P : f[j] = t
    BY <1>2
  <2> HIDE DEF f, P, Q
  <2> QED
    BY <2>1, <2>2 DEF Bijection, Injection, Surjection, IsInjective
<1>4. IsFiniteSet(P)
  <2>1. IsFiniteSet(1 .. n)
    BY <1>2, FS_Interval
  <2> QED
    BY <2>1, FS_Subset
<1> HIDE DEF f, P, Q
<1>5. Cardinality(Q) = Cardinality(P)
  BY <1>3, <1>4, FS_Bijection DEF ExistsBijection
<1> QED
  BY <1>1, <1>5 DEF Q

Scores(g) == \A s \in Students : g[s] # NoGrade => g[s].score \in Nat

\* What the loop of a statistics request gives every graded student is the rank their page computes.
LEMMA RanksAreShown ==
    ASSUME Scores(grade)
    PROVE  Ranks = [s \in Graded |-> RankShown(s)]
<1> DEFINE n == Cardinality(Graded)
           score == [s \in Graded |-> grade[s].score]
           key == [s \in Graded |-> -grade[s].score]
           order == InOrder(Graded, key)
           mark == [i \in 1 .. n |-> score[order[i]]]
           f == [i \in 1 .. n |-> 1 + Cardinality(Better(n, mark, i))]
<1>1. IsFiniteSet(Graded) /\ n \in Nat
  <2>1. IsFiniteSet(Graded)
    BY LecturesAssumption, FS_Subset DEF Graded
  <2> QED
    BY <2>1, FS_CardinalityType
<1>2. score \in [Graded -> Nat] /\ key \in [Graded -> Int] /\ \A s \in Graded : key[s] = -score[s]
  <2>1. \A s \in Graded : grade[s].score \in Nat
    BY DEF Scores, Graded
  <2> QED
    BY <2>1
<1>3. \A s \in Graded : score[s] = grade[s].score
  OBVIOUS
<1>4. /\ Listing(order, Graded) /\ Ascends(order, key)
      /\ \A s \in Graded : \E i \in 1 .. n : order[i] = s
  <2> HIDE DEF key
  <2> QED
    BY <1>1, <1>2, InOrderIs
<1> DEFINE rank == CHOOSE g : g = [i \in DOMAIN order |->
                     IF i > 1 /\ grade[order[i]].score = grade[order[i - 1]].score THEN g[i - 1] ELSE i]
<1>5. Ranks = [s \in Graded |-> rank[CHOOSE i \in DOMAIN order : order[i] = s]]
  BY DEF Ranks
<1> HIDE DEF score, key, order, rank
<1>6. order \in [1 .. n -> Graded] /\ DOMAIN order = 1 .. n
  BY <1>4 DEF Listing
<1>7. mark \in [1 .. n -> Nat] /\ \A i, j \in 1 .. n : i < j => mark[j] <= mark[i]
  <2>1. mark \in [1 .. n -> Nat]
    BY <1>2, <1>6
  <2>2. ASSUME NEW i \in 1 .. n, NEW j \in 1 .. n, i < j PROVE mark[j] <= mark[i]
    <3>1. key[order[i]] <= key[order[j]]
      BY <1>4, <1>6, <2>2 DEF Ascends
    <3>2. order[i] \in Graded /\ order[j] \in Graded
      BY <1>6
    <3>3. score[order[i]] \in Nat /\ score[order[j]] \in Nat /\ key[order[i]] = -score[order[i]] /\ key[order[j]] = -score[order[j]]
      BY <1>2, <3>2
    <3> QED
      BY <3>1, <3>3
  <2> QED
    BY <2>1, <2>2
<1>8. \A g : (g = [i \in DOMAIN order |->
                     IF i > 1 /\ grade[order[i]].score = grade[order[i - 1]].score THEN g[i - 1] ELSE i])
             <=> RankLoop(g, n, mark)
  <2>1. ASSUME NEW i \in 1 .. n
        PROVE  (i > 1 /\ grade[order[i]].score = grade[order[i - 1]].score) <=> (i > 1 /\ mark[i] = mark[i - 1])
    <3>1. i > 1 => i - 1 \in 1 .. n
      BY <1>1
    <3> QED
      BY <1>3, <1>6, <3>1
  <2> HIDE DEF mark
  <2>2. ASSUME NEW g
        PROVE  [i \in DOMAIN order |-> IF i > 1 /\ grade[order[i]].score = grade[order[i - 1]].score THEN g[i - 1] ELSE i]
                = [i \in 1 .. n |-> IF i > 1 /\ mark[i] = mark[i - 1] THEN g[i - 1] ELSE i]
    BY <1>6, <2>1
  <2> QED
    BY <2>2 DEF RankLoop
<1>9. RankLoop(f, n, mark)
  <2> HIDE DEF mark, n
  <2> QED
    BY <1>1, <1>7, RankLoopCounts
<1> HIDE DEF mark, f, n
<1>10. rank = f
  <2>1. RankLoop(rank, n, mark)
    <3>1. \E g : g = [i \in DOMAIN order |->
                     IF i > 1 /\ grade[order[i]].score = grade[order[i - 1]].score THEN g[i - 1] ELSE i]
      BY <1>8, <1>9
    <3>2. rank = [i \in DOMAIN order |->
                     IF i > 1 /\ grade[order[i]].score = grade[order[i - 1]].score THEN rank[i - 1] ELSE i]
      BY <3>1 DEF rank
    <3> QED
      BY <1>8, <3>2
  <2> QED
    BY <1>1, <1>9, <2>1, RankLoopAgrees
<1>11. ASSUME NEW s \in Graded
       PROVE  rank[CHOOSE i \in DOMAIN order : order[i] = s] = RankShown(s)
  <2> DEFINE k == CHOOSE i \in DOMAIN order : order[i] = s
  <2>1. k \in 1 .. n /\ order[k] = s
    BY <1>4, <1>6 DEF n
  <2> HIDE DEF k
  <2>2. rank[k] = 1 + Cardinality(Better(n, mark, k))
    BY <1>10, <2>1 DEF f
  <2>3. Cardinality(Better(n, mark, k)) = Cardinality({t \in Graded : score[t] > score[order[k]]})
    <3>1. /\ IsFiniteSet(Graded) /\ score \in [Graded -> Nat] /\ Listing(order, Graded)
          /\ \A x \in Graded : \E i \in 1 .. Cardinality(Graded) : order[i] = x
          /\ k \in 1 .. Cardinality(Graded)
      BY <1>1, <1>2, <1>4, <2>1 DEF n
    <3>2. Cardinality(Better(Cardinality(Graded), [i \in 1 .. Cardinality(Graded) |-> score[order[i]]], k))
             = Cardinality({t \in Graded : score[t] > score[order[k]]})
      BY <3>1, BetterAtPositions
    <3> QED
      BY <3>2 DEF n, mark
  <2>4. {t \in Graded : score[t] > score[order[k]]} = {t \in Graded : grade[t].score > grade[s].score}
    BY <1>3, <2>1
  <2> QED
    BY <2>2, <2>3, <2>4 DEF RankShown, k
<1> QED
  BY <1>5, <1>11

\* The first of the instructor's list is nobody's second.
LEMMA BestIsFirst ==
    ASSUME Scores(grade), Graded # {}
    PROVE  BestFirst[1] \in {t \in Graded : RankShown(t) = 1}
<1> DEFINE n == Cardinality(Graded)
           key == [s \in Graded |-> -grade[s].score]
           order == InOrder(Graded, key)
<1>1. IsFiniteSet(Graded) /\ n \in Nat \ {0}
  <2>1. IsFiniteSet(Graded)
    BY LecturesAssumption, FS_Subset DEF Graded
  <2> QED
    BY <2>1, FS_CardinalityType, FS_EmptySet
<1>2. \A s \in Graded : grade[s].score \in Nat
  BY DEF Scores, Graded
<1>3. key \in [Graded -> Int] /\ \A s \in Graded : key[s] = -grade[s].score
  BY <1>2
<1>4. /\ Listing(order, Graded) /\ Ascends(order, key)
      /\ \A s \in Graded : \E i \in 1 .. n : order[i] = s
  <2> HIDE DEF key
  <2> QED
    BY <1>1, <1>3, InOrderIs
<1> HIDE DEF key, order, n
<1>5. order \in [1 .. n -> Graded] /\ order[1] \in Graded
  BY <1>1, <1>4 DEF Listing, n
<1>6. ASSUME NEW t \in Graded PROVE ~(grade[t].score > grade[order[1]].score)
  <2>1. PICK i \in 1 .. n : order[i] = t
    BY <1>4
  <2>2. key[order[1]] <= key[t]
    <3>1. CASE i = 1
      BY <1>2, <1>3, <1>5, <2>1, <3>1
    <3>2. CASE i # 1
      BY <1>1, <1>4, <1>5, <2>1, <3>2 DEF Ascends
    <3> QED
      BY <3>1, <3>2
  <2>3. key[order[1]] = -grade[order[1]].score /\ key[t] = -grade[t].score
    BY <1>3, <1>5
  <2> QED
    BY <1>2, <1>5, <2>2, <2>3
<1>7. {t \in Graded : grade[t].score > grade[order[1]].score} = {}
  BY <1>6
<1>8. RankShown(order[1]) = 1
  BY <1>7, FS_EmptySet DEF RankShown
<1> QED
  BY <1>5, <1>8 DEF BestFirst, order, key

\* The sum of the scores of some students, and of some questions, as a sum of a function.
ScoreSum(row, S) == MapThenSumSet(LAMBDA s : row[s].score, S)
LEMMA SumOfScores ==
    ASSUME NEW row, NEW S, IsFiniteSet(S)
    PROVE  ScoreSum(row, S) = Total([s \in S |-> row[s].score], S)
<1> DEFINE f == [s \in S |-> row[s].score]
           iter == CHOOSE g : g = [s \in SUBSET S |-> IF s = {} THEN 0 ELSE row[CHOOSE x \in s : TRUE].score + g[s \ {CHOOSE x \in s : TRUE}]]
<1>1. ScoreSum(row, S) = iter[S]
  BY DEF ScoreSum, MapThenSumSet, MapThenFoldSet
<1>2. \A g : Sums(g, f, S) <=> g = [s \in SUBSET S |-> IF s = {} THEN 0 ELSE row[CHOOSE x \in s : TRUE].score + g[s \ {CHOOSE x \in s : TRUE}]]
  <2> TAKE g
  <2>1. \A s \in SUBSET S : (IF s = {} THEN 0 ELSE f[Pick(s)] + g[Rest(s)])
                              = IF s = {} THEN 0 ELSE row[CHOOSE x \in s : TRUE].score + g[s \ {CHOOSE x \in s : TRUE}]
    BY PickIn DEF Pick, Rest
  <2> HIDE DEF f
  <2>2. [s \in SUBSET S |-> IF s = {} THEN 0 ELSE f[Pick(s)] + g[Rest(s)]]
         = [s \in SUBSET S |-> IF s = {} THEN 0 ELSE row[CHOOSE x \in s : TRUE].score + g[s \ {CHOOSE x \in s : TRUE}]]
    BY <2>1
  <2> QED
    BY <2>2 DEF Sums
<1> HIDE DEF f
<1>3. PICK g : Sums(g, f, S) /\ Total(f, S) = g[S]
  BY SumIsSums
<1>4. Sums(iter, f, S)
  BY <1>2, <1>3
<1>5. iter[S] = g[S]
  BY <1>3, <1>4, SumsAgree
<1> QED
  BY <1>1, <1>3, <1>5 DEF f

LEMMA ScoresAdd ==
    ASSUME NEW row, NEW S, IsFiniteSet(S), \A s \in S : row[s].score \in Nat
    PROVE  ScoreSum(row, S) \in Nat
<1> DEFINE f == [s \in S |-> row[s].score]
<1>1. f \in [S -> Nat]
  OBVIOUS
<1> HIDE DEF f
<1>2. Total(f, S) \in Nat
  BY <1>1, SumOfNats
<1> QED
  BY <1>2, SumOfScores DEF f

\* Those who chose one of the choices.
LEMMA ChoicesAdd ==
    ASSUME NEW C, IsFiniteSet(C), NEW A, IsFiniteSet(A), NEW chosen
    PROVE  Total([d \in C |-> Cardinality({s \in A : chosen[s] = d})], C) <= Cardinality(A)
<1> DEFINE f == [d \in C |-> Cardinality({s \in A : chosen[s] = d})]
           Of(X) == {s \in A : chosen[s] \in X}
<1>1. \A X : IsFiniteSet(Of(X)) /\ Cardinality(Of(X)) \in Nat /\ Cardinality(Of(X)) <= Cardinality(A)
  <2> SUFFICES ASSUME NEW X PROVE IsFiniteSet(Of(X)) /\ Cardinality(Of(X)) \in Nat /\ Cardinality(Of(X)) <= Cardinality(A)
    OBVIOUS
  <2>1. IsFiniteSet(Of(X)) /\ Cardinality(Of(X)) <= Cardinality(A)
    BY FS_Subset
  <2> QED
    BY <2>1, FS_CardinalityType
<1>2. PICK g : Sums(g, f, C) /\ Total(f, C) = g[C]
  <2> HIDE DEF f
  <2> QED
    BY SumIsSums
<1> DEFINE U == {X \in SUBSET C : g[X] = Cardinality(Of(X))}
<1>3. ASSUME NEW X \in SUBSET C, \A Y \in SUBSET C : Y \subseteq X /\ Y # X => Y \in U
      PROVE  X \in U
  <2>1. g[X] = IF X = {} THEN 0 ELSE f[Pick(X)] + g[Rest(X)]
    <3> HIDE DEF f
    <3> QED
      BY <1>2, SumsAt
  <2>2. CASE X = {}
    <3>1. Of(X) = {}
      BY <2>2
    <3>2. Cardinality(Of(X)) = 0
      BY <3>1, FS_EmptySet
    <3> QED
      BY <2>1, <2>2, <3>2
  <2>3. CASE X # {}
    <3>1. Pick(X) \in X /\ Rest(X) \in U
      BY <1>3, <2>3, PickIn
    <3>2. X = Rest(X) \cup {Pick(X)} /\ Pick(X) \notin Rest(X)
      BY <3>1 DEF Rest
    <3>3. Of(X) = Of(Rest(X)) \cup Of({Pick(X)}) /\ Of(Rest(X)) \cap Of({Pick(X)}) = {}
      BY <3>2
    <3>4. f[Pick(X)] = Cardinality(Of({Pick(X)}))
      <4>1. {s \in A : chosen[s] = Pick(X)} = Of({Pick(X)})
        OBVIOUS
      <4> QED
        BY <3>1, <4>1
    <3> HIDE DEF Of, f
    <3>5. Cardinality(Of(X)) = Cardinality(Of(Rest(X))) + Cardinality(Of({Pick(X)})) - Cardinality({})
      BY <1>1, <3>3, FS_Union
    <3>6. Cardinality({}) = 0
      BY FS_EmptySet
    <3>7. g[Rest(X)] = Cardinality(Of(Rest(X)))
      BY <3>1
    <3> QED
      BY <1>1, <2>1, <2>3, <3>4, <3>5, <3>6, <3>7
  <2> QED
    BY <2>2, <2>3
<1>4. C \in U
  <2> HIDE DEF U
  <2> QED
    BY <1>3, SubsetInduction
<1>5. Total(f, C) <= Cardinality(A)
  <2> HIDE DEF f
  <2> QED
    BY <1>1, <1>2, <1>4
<1> QED
  BY <1>5

-----------------------------------------------------------------------------
\* Numbers on the pages.
LEMMA RoundedIs ==
    ASSUME NEW n \in Nat, NEW d \in Nat
    PROVE  /\ Rounded(n, d) \in Nat
           /\ d > 0 /\ d <= 2 * n => Rounded(n, d) > 0
           /\ d > 0 => \A k \in Nat : 2 * n + d < 2 * d * (k + 1) => Rounded(n, d) <= k
<1>1. CASE d = 0
  BY <1>1 DEF Rounded
<1>2. CASE d > 0
  <2> DEFINE a == 2 * n + d
             b == 2 * d
             q == a \div b
  <2>1. a \in Nat /\ b \in Nat /\ b > 0 /\ Rounded(n, d) = q
    BY <1>2 DEF Rounded
  <2>2. (d <= 2 * n => b <= a) /\ \A k \in Nat : 2 * d * (k + 1) = b * (k + 1)
    BY <1>2
  <2> HIDE DEF a, b
  <2>3. q \in Nat /\ b * q <= a /\ a < b * (q + 1)
    BY <2>1
  <2>4. b <= a => q > 0
    BY <2>1, <2>3
  <2>5. ASSUME NEW k \in Nat, a < b * (k + 1) PROVE q <= k
    <3>1. SUFFICES ASSUME q >= k + 1 PROVE FALSE
      BY <2>3
    <3>2. b * q >= b * (k + 1)
      BY <2>1, <2>3, <3>1
    <3> QED
      BY <2>1, <2>3, <2>5, <3>2
  <2> QED
    BY <1>2, <2>1, <2>2, <2>3, <2>4, <2>5 DEF a
<1> QED
  BY <1>1, <1>2

\* Of c right answers among n: a rate above nought if there is one, below the whole if one is missing,
\* and never beyond it; 2222 is the largest class whose one wrong answer shows.
LEMMA RateOfSome ==
    ASSUME NEW n \in Nat, NEW c \in Nat, n > 0, c <= n
    PROVE  /\ Rounded(10000 * c, n) \in Nat /\ Rounded(10000 * c, n) <= 10000
           /\ c > 0 /\ n <= 20000 => Rounded(10000 * c, n) > 0
           /\ c < n /\ n <= 2222 => Rounded(10000 - Rounded(10000 * c, n), 10) > 0
<1> DEFINE m == 10000 * c
           r == Rounded(m, n)
<1>1. m \in Nat
  OBVIOUS
<1>2. r \in Nat /\ (n <= 2 * m => r > 0) /\ \A k \in Nat : 2 * m + n < 2 * n * (k + 1) => r <= k
  <2> HIDE DEF m
  <2> QED
    BY <1>1, RoundedIs
<1>3. r <= 10000
  <2>1. 2 * m + n < 2 * n * (10000 + 1)
    OBVIOUS
  <2> QED
    BY <1>2, <2>1
<1>4. c > 0 /\ n <= 20000 => r > 0
  BY <1>2
<1>5. ASSUME c < n, n <= 2222 PROVE Rounded(10000 - r, 10) > 0
  <2>1. 2 * m + n < 2 * n * (9995 + 1)
    BY <1>5
  <2>2. r <= 9995
    BY <1>2, <2>1
  <2> HIDE DEF r
  <2>3. 10000 - r \in Nat /\ 10 <= 2 * (10000 - r)
    BY <1>2, <2>2
  <2> QED
    BY <2>3, RoundedIs
<1> QED
  BY <1>2, <1>3, <1>4, <1>5

\* New rows of Question come after the last one, with the contents of the paper.
LEMMA NewRowsAre ==
    ASSUME NEW paper \in Papers, NEW new \in SUBSET DOMAIN paper, NEW last \in Nat
    PROVE  /\ Cardinality(new) \in Nat
           /\ DOMAIN NewRows(paper, new, last) \subseteq last + 1 .. last + Cardinality(new)
           /\ \A q \in DOMAIN NewRows(paper, new, last) : NewRows(paper, new, last)[q] \in QuestionRow
<1> DEFINE IdOf(n) == last + Cardinality({m \in new : m <= n})
           rows == [q \in {IdOf(n) : n \in new} |-> RowOf(paper, CHOOSE n \in new : IdOf(n) = q)]
<1>1. NewRows(paper, new, last) = rows
  BY DEF NewRows
<1>2. IsFiniteSet(new) /\ Cardinality(new) \in Nat /\ new \subseteq Nat
  <2>1. IsFiniteSet(DOMAIN paper) /\ DOMAIN paper \subseteq Nat
    BY GradingAssumption
  <2> QED
    BY <2>1, FS_Subset, FS_CardinalityType
<1>3. ASSUME NEW n \in new PROVE IdOf(n) \in last + 1 .. last + Cardinality(new)
  <2> DEFINE M == {m \in new : m <= n}
  <2>1. n \in M
    BY <1>2
  <2>2. IsFiniteSet(M) /\ Cardinality(M) <= Cardinality(new)
    BY <1>2, FS_Subset
  <2>3. Cardinality(M) \in Nat /\ Cardinality(M) # 0
    BY <2>1, <2>2, FS_CardinalityType, FS_EmptySet
  <2> HIDE DEF M
  <2> QED
    BY <1>2, <2>2, <2>3 DEF M
<1>4. ASSUME NEW n \in new PROVE RowOf(paper, n) \in QuestionRow
  <2>1. n \in Nat /\ paper[n] \in [kind: {"MULTIPLE", "ESSAY"}, key: Options, score: Nat]
    BY <1>2, GradingAssumption
  <2> QED
    BY <2>1 DEF RowOf, QuestionRow
<1>5. ASSUME NEW q \in DOMAIN rows PROVE rows[q] \in QuestionRow
  <2>1. \E n \in new : IdOf(n) = q
    OBVIOUS
  <2> HIDE DEF IdOf
  <2>2. (CHOOSE n \in new : IdOf(n) = q) \in new
    BY <2>1
  <2> QED
    BY <1>4, <2>2
<1>6. DOMAIN rows \subseteq last + 1 .. last + Cardinality(new)
  BY <1>3
<1> HIDE DEF rows
<1> QED
  BY <1>1, <1>2, <1>5, <1>6

LEMMA KeptRowIs ==
    ASSUME NEW paper \in Papers, NEW n \in DOMAIN paper
    PROVE  RowOf(paper, n) \in QuestionRow
<1>1. n \in Nat /\ paper[n] \in [kind: {"MULTIPLE", "ESSAY"}, key: Options, score: Nat]
  BY GradingAssumption
<1> QED
  BY <1>1 DEF RowOf, QuestionRow

-----------------------------------------------------------------------------
(***************************************************************************)
(* Types.                                                                  *)
(***************************************************************************)

\* What the handlers keep in local variables until they write it to rows.
SubmitCalls ==
    [op: {"submitGrading"}, step: {"grade"}, seat: Students, cutoff: Nat]
    \cup [op: {"submitGrading"}, step: {"recheck", "commit"}, seat: Students,
          sheet: UNION {[asked -> AnswerRow] : asked \in SUBSET QuestionIds},
          score: Nat, isPass: BOOLEAN, reopens: BOOLEAN]
CountedRows == UNION {[done -> StatisticRow] : done \in SUBSET QuestionIds}
StatisticsCalls ==
    [op: {"statistics"}, step: {"count"}, todo: Seq(QuestionIds)]
    \cup [op: {"statistics"}, step: {"answers"}, todo: Seq(QuestionIds), submissions: Nat, rows: CountedRows,
          overtaken: BOOLEAN]
    \cup [op: {"statistics"}, step: {"commit"}, submissions: Nat, rows: CountedRows,
          ranks: UNION {[ranked -> Nat] : ranked \in SUBSET Students}, overtaken: BOOLEAN]
UploadCalls == [op: {"uploadReport"}, step: {"upload", "save"}, seat: Students, file: Nat]
AttendanceCalls ==
    [op: {"attendance", "bulkAttendance"}, step: {"check", "write"},
     marks: UNION {[seats -> Marks] : seats \in SUBSET Students}, date: Days]
ShowCalls ==
    [op: {"showAssignments"}, step: {"links"}, list: SUBSET Assignments]
    \cup [op: {"showAssignments"}, step: {"save"}, list: SUBSET Assignments, drop: SUBSET Assignments, overtaken: BOOLEAN]

CallTyped(q) ==
    /\ q.op = "submitGrading" => q \in SubmitCalls
    /\ q.op = "statistics" => q \in StatisticsCalls
    /\ q.op = "uploadReport" => q \in UploadCalls
    /\ q.op \in {"attendance", "bulkAttendance"} => q \in AttendanceCalls
    /\ q.op = "showAssignments" => q \in ShowCalls
CallsTyped == calls \in Nat /\ \A r \in Requests : CallTyped(req[r])

GradingTyped ==
    /\ exam \in ExamRow
    /\ question \in [QuestionIds -> QuestionRow \cup {NoQuestion}]
    /\ minted \in QuestionIds \cup {0}
    /\ answer \in [Students -> [QuestionIds -> AnswerRow \cup {NoAnswer}]]
    /\ grade \in [Students -> GradeRow \cup {NoGrade}]
    /\ statistic \in [QuestionIds -> StatisticRow \cup {NoStatistic}]
    /\ report \in [Students -> ReportRow]
    /\ files \subseteq Nat /\ current \subseteq {"clinics", "statistics"} /\ counted \subseteq QuestionIds
RestTyped ==
    /\ attendance \in [Students -> [Days -> AttendanceRow]]
    /\ reshaped \subseteq Assignments /\ shown \subseteq Assignments
TypeInv == CallsTyped /\ GradingTyped /\ RestTyped

LEMMA TypesSuffice == ASSUME IInv, PresetInv, TypeInv PROVE TypeOK
  BY DEF IInv, RowsOK, PresetInv, ResultTables, TypeInv, GradingTyped, RestTyped, TypeOK, GradingTypeOK, ClassworkTypeOK

-----------------------------------------------------------------------------
\* What a step does to the requests.
TypedOps == {"submitGrading", "statistics", "uploadReport", "attendance", "bulkAttendance", "showAssignments"}

LEMMA UntypedCall == ASSUME NEW q, q.op \notin TypedOps PROVE CallTyped(q)
  BY DEF TypedOps, CallTyped

LEMMA OvertakenTyped == ASSUME NEW q, {"op", "step"} \subseteq DOMAIN q, CallTyped(q), NEW ops PROVE CallTyped(Overtake(ops, q))
<1>1. CASE ~(q.op \in ops /\ "overtaken" \in DOMAIN q)
  BY <1>1 DEF Overtake
<1>2. CASE q.op \in ops /\ "overtaken" \in DOMAIN q
  <2> DEFINE p == [q EXCEPT !.overtaken = TRUE]
  <2>1. Overtake(ops, q) = p /\ p.op = q.op
    BY <1>2 DEF Overtake
  <2>2. q.op = "submitGrading" => FALSE
    BY <1>2 DEF CallTyped, SubmitCalls
  <2>3. q.op = "uploadReport" => FALSE
    BY <1>2 DEF CallTyped, UploadCalls
  <2>4. q.op \in {"attendance", "bulkAttendance"} => FALSE
    BY <1>2 DEF CallTyped, AttendanceCalls
  <2>5. q.op = "statistics" => p \in StatisticsCalls
    BY <1>2 DEF CallTyped, StatisticsCalls
  <2>6. q.op = "showAssignments" => p \in ShowCalls
    BY <1>2 DEF CallTyped, ShowCalls
  <2> HIDE DEF p
  <2> QED
    BY <2>1, <2>2, <2>3, <2>4, <2>5, <2>6 DEF CallTyped
<1> QED
  BY <1>1, <1>2

LEMMA MovesTyped ==
    ASSUME IInv, CallsTyped, NEW r \in Requests, NEW q, Proceed(r, q), CallTyped(q) PROVE CallsTyped'
  BY DEF Proceed, CallsTyped, IInv, RequestsOK
LEMMA BeginsTyped ==
    ASSUME IInv, CallsTyped, NEW r \in Requests, NEW op, NEW q, Begin(r, op, q), CallTyped(q) PROVE CallsTyped'
  BY DEF Begin, CallsTyped, IInv, RequestsOK
LEMMA ReplyTyped == ASSUME IInv, CallsTyped, NEW r \in Requests, Reply(r) PROVE CallsTyped'
<1>1. CallTyped(Idle)
  BY DEF Idle, CallTyped
<1> QED
  BY <1>1, MovesTyped DEF Reply
LEMMA OvertakingTyped ==
    ASSUME IInv, CallsTyped, NEW r \in Requests, NEW ops, ReplyOvertaking(r, ops) PROVE CallsTyped'
<1>1. CallTyped(Idle)
  BY DEF Idle, CallTyped
<1>2. \A q \in Requests : CallTyped(Overtake(ops, req[q]))
  BY OvertakenTyped DEF CallsTyped, IInv, RequestsOK, RequestOK
<1>3. req' = [q \in Requests |-> IF q = r THEN Idle ELSE Overtake(ops, req[q])] /\ UNCHANGED calls
  BY DEF ReplyOvertaking
<1>4. \A q \in Requests : CallTyped(req'[q])
  BY <1>1, <1>2, <1>3
<1> QED
  BY <1>3, <1>4 DEF CallsTyped
LEMMA ServeTyped == ASSUME CallsTyped, NEW op, Serve(op) PROVE CallsTyped'
  BY DEF Serve, CallsTyped

LEMMA CallOf ==
    ASSUME IInv, CallsTyped, NEW r \in Requests
    PROVE  /\ req[r].op = "submitGrading" => req[r] \in SubmitCalls
           /\ req[r].op = "statistics" => req[r] \in StatisticsCalls
           /\ req[r].op = "uploadReport" => req[r] \in UploadCalls
           /\ req[r].op \in {"attendance", "bulkAttendance"} => req[r] \in AttendanceCalls
           /\ req[r].op = "showAssignments" => req[r] \in ShowCalls
  BY DEF CallsTyped, CallTyped

LEMMA Finite ==
    /\ \A S : S \subseteq Students => IsFiniteSet(S) /\ Cardinality(S) \in Nat
    /\ \A S : S \subseteq QuestionIds => IsFiniteSet(S) /\ Cardinality(S) \in Nat
    /\ \A S : S \subseteq Days => IsFiniteSet(S) /\ Cardinality(S) \in Nat
<1>1. \A S : S \subseteq Students => IsFiniteSet(S)
  BY LecturesAssumption, FS_Subset
<1>2. \A S : S \subseteq QuestionIds => IsFiniteSet(S)
  BY GradingAssumption, FS_Subset
<1>3. \A S : S \subseteq Days => IsFiniteSet(S)
  BY ClassworkAssumption, FS_Subset
<1> QED
  BY <1>1, <1>2, <1>3, FS_CardinalityType

LEMMA GradeRows ==
    ASSUME GradingTyped
    PROVE  /\ \A s \in Graded : s \in Students /\ grade[s] \in GradeRow /\ grade[s].score \in Nat
           /\ \A q \in Questions : q \in QuestionIds /\ question[q] \in QuestionRow /\ question[q].number \in Nat
                                   /\ question[q].score \in Nat
           /\ Scores(grade)
<1>1. \A s \in Graded : s \in Students /\ grade[s] \in GradeRow
  BY DEF GradingTyped, Graded
<1>2. \A q \in Questions : q \in QuestionIds /\ question[q] \in QuestionRow
  BY DEF GradingTyped, Questions
<1> QED
  BY <1>1, <1>2 DEF GradeRow, QuestionRow, Scores, Graded

-----------------------------------------------------------------------------
\* Requests begin and read.
LEMMA BeginGradingTyped ==
    ASSUME IInv, CallsTyped, GradingTyped, NEW r \in Requests,
           \/ BeginCreateExam(r) \/ BeginSubmit(r) \/ BeginComplete(r) \/ BeginDeleteExam(r) \/ BeginUpdateClinics(r)
           \/ BeginStatistics(r) \/ BeginDescribeReport(r) \/ BeginUploadReport(r)
    PROVE  CallsTyped' /\ UNCHANGED gradingVars
<1>0. UNCHANGED gradingVars
  BY DEF BeginCreateExam, BeginSubmit, BeginComplete, BeginDeleteExam, BeginUpdateClinics, BeginStatistics, BeginDescribeReport,
     BeginUploadReport
<1> SUFFICES CallsTyped'
  BY <1>0
<1>a. ASSUME NEW op, NEW q, Begin(r, op, q), q.op \notin TypedOps PROVE CallsTyped'
  BY <1>a, UntypedCall, BeginsTyped
<1>1. CASE BeginCreateExam(r) \/ BeginDeleteExam(r) \/ BeginUpdateClinics(r)
  BY <1>1, <1>a DEF BeginCreateExam, BeginDeleteExam, BeginUpdateClinics, TypedOps
<1>2. CASE BeginComplete(r) \/ BeginDescribeReport(r)
  BY <1>2, <1>a DEF BeginComplete, BeginDescribeReport, TypedOps
<1>3. CASE BeginSubmit(r)
  <2>1. PICK s \in enrolled : Begin(r, "submitGrading", [op |-> "submitGrading", step |-> "grade", seat |-> s, cutoff |-> exam.cutoff])
    BY <1>3 DEF BeginSubmit
  <2> DEFINE q == [op |-> "submitGrading", step |-> "grade", seat |-> s, cutoff |-> exam.cutoff]
  <2>2. s \in Students /\ exam.cutoff \in Nat
    BY DEF IInv, RowsOK, LecturesTypeOK, GradingTyped, ExamRow
  <2>3. q \in SubmitCalls
    BY <2>2 DEF SubmitCalls
  <2>4. CallTyped(q)
    BY <2>3 DEF CallTyped
  <2>5. Begin(r, "submitGrading", q)
    BY <2>1
  <2> HIDE DEF q
  <2> QED
    BY <2>4, <2>5, BeginsTyped
<1>4. CASE BeginStatistics(r)
  <2> DEFINE key == [q \in Questions |-> question[q].number]
             todo == InOrder(Questions, key)
             q == [op |-> "statistics", step |-> "count", todo |-> todo]
  <2>1. Begin(r, "statistics", q)
    BY <1>4 DEF BeginStatistics
  <2>2. key \in [Questions -> Int] /\ IsFiniteSet(Questions) /\ Cardinality(Questions) \in Nat
    BY GradeRows, Finite DEF Questions
  <2> HIDE DEF key
  <2>3. todo \in [1 .. Cardinality(Questions) -> Questions]
    BY <2>2, InOrderIs DEF Listing
  <2>4. todo \in Seq(QuestionIds)
    <3>1. todo \in [1 .. Cardinality(Questions) -> QuestionIds]
      BY <2>3 DEF Questions
    <3> QED
      BY <2>2, <3>1
  <2> HIDE DEF todo
  <2>5. q \in StatisticsCalls
    BY <2>4 DEF StatisticsCalls
  <2>6. CallTyped(q)
    BY <2>5 DEF CallTyped
  <2> HIDE DEF q
  <2> QED
    BY <2>1, <2>6, BeginsTyped
<1>5. CASE BeginUploadReport(r)
  <2>1. PICK s \in Graded : Begin(r, "uploadReport", [op |-> "uploadReport", step |-> "upload", seat |-> s, file |-> calls + 1])
    BY <1>5 DEF BeginUploadReport
  <2> DEFINE q == [op |-> "uploadReport", step |-> "upload", seat |-> s, file |-> calls + 1]
  <2>2. q \in UploadCalls
    BY DEF UploadCalls, CallsTyped, Graded
  <2>3. CallTyped(q)
    BY <2>2 DEF CallTyped
  <2>4. Begin(r, "uploadReport", q)
    BY <2>1
  <2> HIDE DEF q
  <2> QED
    BY <2>3, <2>4, BeginsTyped
<1> QED
  BY <1>1, <1>2, <1>3, <1>4, <1>5

\* The answers of a submission.
LEMMA SheetTyped ==
    ASSUME GradingTyped, NEW sheet \in Sheets
    PROVE  /\ DOMAIN sheet \subseteq Questions /\ sheet \in UNION {[asked -> AnswerRow] : asked \in SUBSET QuestionIds}
           /\ ScoreOf(sheet) \in Nat
<1>1. PICK asked \in SUBSET Questions : /\ sheet \in [asked -> UNION {Verdicts(q) : q \in asked}]
                                        /\ \A q \in asked : sheet[q] \in Verdicts(q)
  BY DEF Sheets
<1>2. \A q \in Questions : Verdicts(q) \subseteq AnswerRow
  <2> SUFFICES ASSUME NEW q \in Questions, NEW v \in Verdicts(q) PROVE v \in AnswerRow
    OBVIOUS
  <2>1. CASE question[q].kind = "ESSAY"
    BY <2>1 DEF Verdicts, AnswerRow
  <2>2. CASE question[q].kind # "ESSAY"
    <3>1. PICK c \in Options : v = [submitted |-> c, isCorrect |-> c = question[q].key]
      BY <2>2 DEF Verdicts
    <3>2. (c = question[q].key) \in BOOLEAN
      OBVIOUS
    <3> QED
      BY <3>1, <3>2 DEF AnswerRow
  <2> QED
    BY <2>1, <2>2
<1>3. asked \subseteq QuestionIds
  BY DEF Questions
<1>4. sheet \in [asked -> AnswerRow]
  BY <1>1, <1>2
<1>5. ScoreOf(sheet) \in Nat
  <2> DEFINE right == {q \in DOMAIN sheet : sheet[q].isCorrect}
  <2>1. right \subseteq Questions
    BY <1>4
  <2>2. IsFiniteSet(right)
    BY <2>1, Finite DEF Questions
  <2>3. \A q \in right : question[q].score \in Nat
    BY <2>1, GradeRows
  <2> HIDE DEF right
  <2>4. ScoreSum(question, right) \in Nat
    BY <2>2, <2>3, ScoresAdd
  <2> QED
    BY <2>4 DEF ScoreOf, ScoreSum, right
<1> QED
  BY <1>3, <1>4, <1>5

LEMMA NoRows == << >> \in CountedRows
<1>1. << >> \in [{} -> StatisticRow]
  OBVIOUS
<1> QED
  BY <1>1 DEF CountedRows

LEMMA CountsTyped ==
    ASSUME NEW q, NEW n \in Nat PROVE AnswerCounts(q, n) \in StatisticRow
<1>1. \A s : {t \in Answered(q) : s} \subseteq Students
  BY DEF Answered
<1>2. Cardinality({s \in Answered(q) : answer[s][q].isCorrect}) \in Nat
  BY Finite DEF Answered
<1>3. \A c \in Options : Cardinality({s \in Answered(q) : answer[s][q].submitted = c}) \in Nat
  BY Finite DEF Answered
<1> QED
  BY <1>2, <1>3 DEF AnswerCounts, StatisticRow

LEMMA RankTyped == \A s : RankShown(s) \in Nat
  BY Finite DEF RankShown, Graded

LEMMA ReadGradingTyped ==
    ASSUME IInv, CallsTyped, GradingTyped, NEW r \in Requests,
           \/ GradeAnswers(r) \/ RecheckExam(r) \/ ReadFailedGrades(r) \/ ReadClinics(r)
           \/ CountGrades(r) \/ CountAnswers(r) \/ RankGrades(r)
    PROVE  CallsTyped' /\ UNCHANGED gradingVars
<1>0. UNCHANGED gradingVars
  BY DEF GradeAnswers, RecheckExam, ReadFailedGrades, ReadClinics, CountGrades, CountAnswers, RankGrades
<1> SUFFICES CallsTyped'
  BY <1>0
<1>a. ASSUME NEW q, Proceed(r, q), CallTyped(q) PROVE CallsTyped'
  BY <1>a, MovesTyped
<1>b. CASE Reply(r)
  BY <1>b, ReplyTyped
<1>1. CASE GradeAnswers(r)
  <2> SUFFICES ASSUME ~Reply(r) PROVE CallsTyped'
    BY <1>b
  <2>0. At(r, "submitGrading", "grade")
    BY <1>1 DEF GradeAnswers
  <2>1. PICK sheet \in Sheets :
           Proceed(r, [op |-> "submitGrading", step |-> "recheck", seat |-> req[r].seat, sheet |-> sheet,
                       score |-> ScoreOf(sheet), isPass |-> ScoreOf(sheet) >= req[r].cutoff, reopens |-> FALSE])
    BY <1>1 DEF GradeAnswers
  <2>2. req[r] \in [op: {"submitGrading"}, step: {"grade"}, seat: Students, cutoff: Nat]
    BY <2>0, CallOf DEF At, SubmitCalls
  <2>3. (ScoreOf(sheet) >= req[r].cutoff) \in BOOLEAN
    OBVIOUS
  <2> DEFINE score == ScoreOf(sheet)
             pass == ScoreOf(sheet) >= req[r].cutoff
             q == [op |-> "submitGrading", step |-> "recheck", seat |-> req[r].seat, sheet |-> sheet,
                   score |-> score, isPass |-> pass, reopens |-> FALSE]
  <2>4. Proceed(r, q)
    BY <2>1
  <2>5. score \in Nat /\ pass \in BOOLEAN /\ sheet \in UNION {[asked -> AnswerRow] : asked \in SUBSET QuestionIds}
    BY <2>3, SheetTyped
  <2> HIDE DEF score, pass
  <2>6. q \in SubmitCalls
    BY <2>2, <2>5 DEF SubmitCalls
  <2>7. CallTyped(q)
    BY <2>6 DEF CallTyped
  <2> HIDE DEF q
  <2> QED
    BY <2>4, <2>7, <1>a
<1>2. CASE RecheckExam(r)
  <2> SUFFICES ASSUME ~Reply(r) PROVE CallsTyped'
    BY <1>b
  <2>1. req[r] \in SubmitCalls /\ req[r].step = "recheck"
    BY <1>2, CallOf DEF RecheckExam, At
  <2>2. PICK b \in BOOLEAN : Proceed(r, [req[r] EXCEPT !.step = "commit", !.reopens = b])
    <3>1. CASE Proceed(r, [req[r] EXCEPT !.step = "commit"])
      <4>1. req[r].reopens \in BOOLEAN /\ [req[r] EXCEPT !.step = "commit"] = [req[r] EXCEPT !.step = "commit", !.reopens = req[r].reopens]
        BY <2>1 DEF SubmitCalls
      <4> QED
        BY <3>1, <4>1
    <3>2. CASE Proceed(r, [req[r] EXCEPT !.step = "commit", !.reopens = TRUE])
      BY <3>2
    <3> QED
      BY <1>2, <3>1, <3>2 DEF RecheckExam
  <2> DEFINE q == [req[r] EXCEPT !.step = "commit", !.reopens = b]
  <2>3. q \in SubmitCalls
    BY <2>1 DEF SubmitCalls
  <2>4. q.op = "submitGrading"
    BY <2>1 DEF SubmitCalls
  <2> HIDE DEF q
  <2>5. CallTyped(q)
    BY <2>3, <2>4 DEF CallTyped
  <2> QED
    BY <2>2, <2>5, <1>a DEF q
<1>3. CASE ReadFailedGrades(r) \/ ReadClinics(r)
  <2> SUFFICES ASSUME ~Reply(r) PROVE CallsTyped'
    BY <1>b
  <2>1. PICK q : Proceed(r, q) /\ q.op = "completeGrading"
    BY <1>3 DEF ReadFailedGrades, ReadClinics
  <2> QED
    BY <2>1, <1>a, UntypedCall DEF TypedOps
<1>4. CASE CountGrades(r)
  <2>1. req[r] \in [op: {"statistics"}, step: {"count"}, todo: Seq(QuestionIds)]
    BY <1>4, CallOf DEF CountGrades, At, StatisticsCalls
  <2> DEFINE n == Cardinality(Graded)
             q == [op |-> "statistics", step |-> "answers", todo |-> req[r].todo, submissions |-> n,
                   rows |-> <<>>, overtaken |-> FALSE]
  <2>2. Proceed(r, q)
    BY <1>4 DEF CountGrades
  <2>3. n \in Nat
    BY Finite DEF Graded
  <2> HIDE DEF n
  <2>4. q \in StatisticsCalls
    BY <2>1, <2>3, NoRows DEF StatisticsCalls
  <2>5. CallTyped(q)
    BY <2>4 DEF CallTyped
  <2> HIDE DEF q
  <2> QED
    BY <2>2, <2>5, <1>a
<1>5. CASE CountAnswers(r)
  <2> DEFINE c == req[r]
             row == AnswerCounts(Head(c.todo), c.submissions)
             rest == Tail(c.todo)
             rows == [p \in DOMAIN c.rows \cup {Head(c.todo)} |-> IF p = Head(c.todo) THEN row ELSE c.rows[p]]
             q == [c EXCEPT !.todo = rest, !.rows = rows]
  <2>1. c \in [op: {"statistics"}, step: {"answers"}, todo: Seq(QuestionIds), submissions: Nat, rows: CountedRows, overtaken: BOOLEAN]
    BY <1>5, CallOf DEF CountAnswers, At, StatisticsCalls
  <2>2. c.todo # << >>
    BY <1>5 DEF CountAnswers
  <2>3. Proceed(r, q)
    BY <1>5, <2>1 DEF CountAnswers
  <2>4. row \in StatisticRow
    BY <2>1, CountsTyped
  <2>5. Head(c.todo) \in QuestionIds /\ rest \in Seq(QuestionIds)
    BY <2>1, <2>2
  <2>6. rows \in CountedRows
    <3>1. PICK done \in SUBSET QuestionIds : c.rows \in [done -> StatisticRow]
      BY <2>1 DEF CountedRows
    <3> HIDE DEF row
    <3>2. rows \in [done \cup {Head(c.todo)} -> StatisticRow]
      BY <2>4, <3>1
    <3> QED
      BY <2>5, <3>2 DEF CountedRows
  <2> HIDE DEF row, rest, rows
  <2>7. q \in StatisticsCalls
    BY <2>1, <2>5, <2>6 DEF StatisticsCalls
  <2>8. q.op = "statistics"
    BY <2>1
  <2> HIDE DEF q
  <2>9. CallTyped(q)
    BY <2>7, <2>8 DEF CallTyped
  <2> QED
    BY <2>3, <2>9, <1>a
<1>6. CASE RankGrades(r)
  <2> DEFINE q == [op |-> "statistics", step |-> "commit", submissions |-> req[r].submissions,
                   rows |-> req[r].rows, ranks |-> Ranks, overtaken |-> req[r].overtaken]
  <2>1. req[r] \in [op: {"statistics"}, step: {"answers"}, todo: Seq(QuestionIds), submissions: Nat, rows: CountedRows, overtaken: BOOLEAN]
    BY <1>6, CallOf DEF RankGrades, At, StatisticsCalls
  <2>2. Proceed(r, q)
    BY <1>6 DEF RankGrades
  <2>3. Ranks \in UNION {[ranked -> Nat] : ranked \in SUBSET Students}
    <3>1. Ranks = [s \in Graded |-> RankShown(s)]
      BY GradeRows, RanksAreShown
    <3>2. Ranks \in [Graded -> Nat]
      BY <3>1, RankTyped
    <3> QED
      BY <3>2 DEF Graded
  <2>4. q \in StatisticsCalls
    BY <2>1, <2>3 DEF StatisticsCalls
  <2>5. CallTyped(q)
    BY <2>4 DEF CallTyped
  <2> HIDE DEF q
  <2> QED
    BY <2>2, <2>5, <1>a
<1> QED
  BY <1>1, <1>2, <1>3, <1>4, <1>5, <1>6

\* The questions that a request sets.
LEMMA SetQuestionsTyped ==
    ASSUME GradingTyped, NEW paper \in Papers, SetQuestions(paper)
    PROVE  /\ minted' \in QuestionIds \cup {0} /\ question' \in [QuestionIds -> QuestionRow \cup {NoQuestion}]
           /\ minted \in Nat /\ minted <= minted'
<1> DEFINE new == NewNumbers(paper)
           rows == NewRows(paper, new, minted)
<1>1. /\ minted' = minted + Cardinality(new) /\ minted' <= Cardinality(QuestionIds)
      /\ question' = [q \in QuestionIds |->
                        IF q \in DOMAIN rows THEN rows[q]
                        ELSE IF q \in KeptBy(paper) THEN RowOf(paper, question[q].number) ELSE NoQuestion]
  BY DEF SetQuestions
<1>2. minted \in Nat /\ Cardinality(QuestionIds) \in Nat
  BY GradingAssumption, FS_CardinalityType DEF GradingTyped
<1>3. new \in SUBSET DOMAIN paper
  BY DEF NewNumbers
<1> HIDE DEF new
<1>4. Cardinality(new) \in Nat /\ \A q \in DOMAIN rows : rows[q] \in QuestionRow
  BY <1>2, <1>3, NewRowsAre
<1>5. \A q \in KeptBy(paper) : RowOf(paper, question[q].number) \in QuestionRow
  BY KeptRowIs DEF KeptBy
<1> HIDE DEF rows
<1>6. minted' \in QuestionIds \cup {0}
  BY <1>1, <1>2, <1>4, GradingAssumption
<1>7. question' \in [QuestionIds -> QuestionRow \cup {NoQuestion}]
  BY <1>1, <1>4, <1>5
<1> QED
  BY <1>1, <1>2, <1>4, <1>6, <1>7

LEMMA NewExamTyped == ASSUME NEW cutoff \in Cutoffs, NEW auto \in BOOLEAN PROVE NewExam(cutoff, auto) \in ExamRow
  BY GradingAssumption DEF NewExam, NoExam, ExamRow

LEMMA ExamEditsTyped ==
    ASSUME IInv, CallsTyped, GradingTyped, UpdateExam \/ \E r \in Requests : CreateExam(r) \/ DeleteExam(r)
    PROVE  CallsTyped' /\ GradingTyped'
<1>1. CASE \E r \in Requests : CreateExam(r)
  <2>1. PICK r \in Requests : CreateExam(r)
    BY <1>1
  <2>2. CallsTyped'
    BY <2>1, ReplyTyped DEF CreateExam
  <2>3. exam' \in ExamRow
    BY <2>1, NewExamTyped DEF CreateExam
  <2>4. minted' \in QuestionIds \cup {0} /\ question' \in [QuestionIds -> QuestionRow \cup {NoQuestion}]
    BY <2>1, SetQuestionsTyped DEF CreateExam
  <2>5. UNCHANGED <<answer, grade, clinic, statistic, report, files, current, counted>>
    BY <2>1 DEF CreateExam
  <2> QED
    BY <2>2, <2>3, <2>4, <2>5 DEF GradingTyped
<1>2. CASE UpdateExam
  <2>1. CallsTyped'
    BY <1>2, ServeTyped DEF UpdateExam
  <2>2. exam' \in ExamRow
    <3>1. PICK cutoff \in Cutoffs, auto \in BOOLEAN : exam' = [exam EXCEPT !.cutoff = cutoff, !.isAutoClinic = auto]
      BY <1>2 DEF UpdateExam
    <3> QED
      BY <3>1, GradingAssumption DEF GradingTyped, ExamRow
  <2>3. UNCHANGED <<grade, report, files, current>>
    BY <1>2 DEF UpdateExam
  <2>4. CASE UNCHANGED <<question, minted, answer, statistic, counted>>
    BY <2>1, <2>2, <2>3, <2>4 DEF GradingTyped
  <2>5. ASSUME NEW paper \in Papers, SetQuestions(paper),
               answer' = [s \in Students |-> [q \in QuestionIds |->
                            IF q \in KeptBy(paper) THEN answer[s][q] ELSE NoAnswer]],
               statistic' = [q \in QuestionIds |-> IF q \in KeptBy(paper) THEN statistic[q] ELSE NoStatistic],
               counted' = counted \cap KeptBy(paper)
        PROVE  CallsTyped' /\ GradingTyped'
    <3>1. minted' \in QuestionIds \cup {0} /\ question' \in [QuestionIds -> QuestionRow \cup {NoQuestion}]
      BY <2>5, SetQuestionsTyped
    <3>2. answer' \in [Students -> [QuestionIds -> AnswerRow \cup {NoAnswer}]]
      BY <2>5 DEF GradingTyped
    <3>3. statistic' \in [QuestionIds -> StatisticRow \cup {NoStatistic}] /\ counted' \subseteq QuestionIds
      BY <2>5 DEF GradingTyped
    <3> QED
      BY <2>1, <2>2, <2>3, <3>1, <3>2, <3>3 DEF GradingTyped
  <2> QED
    BY <1>2, <2>4, <2>5 DEF UpdateExam
<1>3. CASE \E r \in Requests : DeleteExam(r)
  <2>1. PICK r \in Requests : DeleteExam(r)
    BY <1>3
  <2>2. CallsTyped'
    BY <2>1, ReplyTyped DEF DeleteExam
  <2>3. UNCHANGED <<minted, files>>
    BY <2>1 DEF DeleteExam
  <2>4. CASE UNCHANGED <<exam, question, answer, grade, clinic, statistic, report, current, counted>>
    BY <2>2, <2>3, <2>4 DEF GradingTyped
  <2>5. CASE ExamExists
    <3>1. /\ exam' = [exam EXCEPT !.status = "DELETED"]
          /\ question' = [q \in QuestionIds |-> NoQuestion]
          /\ answer' = [s \in Students |-> [q \in QuestionIds |-> NoAnswer]]
          /\ grade' = [s \in Students |-> NoGrade]
          /\ statistic' = [q \in QuestionIds |-> NoStatistic]
          /\ report' = [s \in Students |-> NoReport]
          /\ current' = {} /\ counted' = {}
      BY <2>1, <2>5 DEF DeleteExam
    <3>2. exam' \in ExamRow
      BY <3>1 DEF GradingTyped, ExamRow
    <3>3. NoReport \in ReportRow
      BY DEF NoReport, NoUrl, ReportRow
    <3> QED
      BY <2>2, <2>3, <3>1, <3>2, <3>3 DEF GradingTyped
  <2> QED
    BY <2>1, <2>4, <2>5 DEF DeleteExam
<1> QED
  BY <1>1, <1>2, <1>3

\* Clinics are not among these types: IInv has them.
LEMMA CompletionTyped ==
    ASSUME IInv, CallsTyped, GradingTyped, NEW r \in Requests, CompleteOnly(r) \/ SyncClinics(r) \/ UpdateClinics(r)
    PROVE  CallsTyped' /\ GradingTyped'
<1>1. CallsTyped'
  BY ReplyTyped, OvertakingTyped DEF CompleteOnly, SyncClinics, UpdateClinics
<1>2. UNCHANGED <<question, minted, answer, grade, statistic, report, files, counted>>
  BY DEF CompleteOnly, SyncClinics, UpdateClinics
<1>3. exam' = exam \/ exam' = [exam EXCEPT !.status = "COMPLETED"]
  BY DEF CompleteOnly, SyncClinics, UpdateClinics
<1>4. exam' \in ExamRow
  BY <1>3 DEF GradingTyped, ExamRow
<1>5. current' \in {current, current \ {"clinics"}, current \cup {"clinics"}}
  BY DEF CompleteOnly, SyncClinics, UpdateClinics
<1> QED
  BY <1>1, <1>2, <1>4, <1>5 DEF GradingTyped

LEMMA ReportsTyped ==
    ASSUME IInv, CallsTyped, GradingTyped, NEW r \in Requests, DescribeReport(r) \/ UploadFile(r) \/ SaveReportUrl(r)
    PROVE  CallsTyped' /\ GradingTyped'
<1>0. UNCHANGED <<exam, question, minted, answer, grade, statistic, current, counted>>
  BY DEF DescribeReport, UploadFile, SaveReportUrl
<1>1. CASE DescribeReport(r)
  <2>1. CallsTyped' /\ UNCHANGED files
    BY <1>1, ReplyTyped DEF DescribeReport
  <2>2. \A s \in Students : report'[s] \in ReportRow
    BY <1>1 DEF DescribeReport, GradingTyped, ReportRow
  <2>3. report' \in [Students -> ReportRow]
    BY <1>1, <2>2 DEF DescribeReport, GradingTyped
  <2> QED
    BY <1>0, <2>1, <2>3 DEF GradingTyped
<1>2. CASE UploadFile(r) \/ SaveReportUrl(r)
  <2>1. req[r] \in UploadCalls
    BY <1>2, CallOf DEF UploadFile, SaveReportUrl, At
  <2>2. req[r].file \in Nat /\ req[r].seat \in Students
    BY <2>1 DEF UploadCalls
  <2>3. CASE UploadFile(r)
    <3> DEFINE q == [req[r] EXCEPT !.step = "save"]
    <3>1. Proceed(r, q)
      BY <2>3 DEF UploadFile
    <3>2. q \in UploadCalls /\ q.op = "uploadReport"
      BY <2>1 DEF UploadCalls
    <3> HIDE DEF q
    <3>3. CallTyped(q)
      BY <3>2 DEF CallTyped
    <3>4. CallsTyped'
      BY <3>1, <3>3, MovesTyped
    <3>5. files' \subseteq Nat /\ UNCHANGED report
      BY <2>2, <2>3 DEF UploadFile, StoreFile, GradingTyped
    <3> QED
      BY <1>0, <3>4, <3>5 DEF GradingTyped
  <2>4. CASE SaveReportUrl(r)
    <3>1. CallsTyped' /\ UNCHANGED files
      BY <2>4, ReplyTyped DEF SaveReportUrl
    <3>2. report' \in [Students -> ReportRow]
      BY <2>2, <2>4 DEF SaveReportUrl, GradingTyped, ReportRow
    <3> QED
      BY <1>0, <3>1, <3>2 DEF GradingTyped
  <2> QED
    BY <1>2, <2>3, <2>4
<1> QED
  BY <1>1, <1>2

LEMMA SaveGradingTyped ==
    ASSUME IInv, CallsTyped, GradingTyped, NEW r \in Requests, SaveGrading(r)
    PROVE  CallsTyped' /\ GradingTyped'
<1> DEFINE c == req[r]
<1>1. CallsTyped'
  BY ReplyTyped, OvertakingTyped DEF SaveGrading
<1>2. UNCHANGED <<question, minted, statistic, report, files>>
  BY DEF SaveGrading
<1>3. CASE UNCHANGED <<exam, answer, grade, current, counted>>
  BY <1>1, <1>2, <1>3 DEF GradingTyped
<1>4. CASE ~UNCHANGED <<exam, answer, grade, current, counted>>
  <2>1. /\ exam' = IF c.reopens THEN [exam EXCEPT !.status = "IN_PROGRESS"] ELSE exam
        /\ answer' = [answer EXCEPT ![c.seat] =
                        [q \in QuestionIds |-> IF q \in DOMAIN c.sheet THEN c.sheet[q] ELSE answer[c.seat][q]]]
        /\ SavesGrade(r)
        /\ current' = {} /\ counted' = {}
    BY <1>4 DEF SaveGrading
  <2>2. /\ c.seat \in Students /\ c.score \in Nat /\ c.isPass \in BOOLEAN
        /\ c.sheet \in UNION {[asked -> AnswerRow] : asked \in SUBSET QuestionIds}
    <3>1. c \in SubmitCalls /\ c.step = "commit"
      BY CallOf DEF SaveGrading, At
    <3> QED
      BY <3>1 DEF SubmitCalls
  <2> HIDE DEF c
  <2>3. exam' \in ExamRow
    BY <2>1 DEF GradingTyped, ExamRow
  <2>4. answer' \in [Students -> [QuestionIds -> AnswerRow \cup {NoAnswer}]]
    <3>1. PICK asked \in SUBSET QuestionIds : c.sheet \in [asked -> AnswerRow]
      BY <2>2
    <3>2. answer \in [Students -> [QuestionIds -> AnswerRow \cup {NoAnswer}]]
      BY DEF GradingTyped
    <3> QED
      BY <2>1, <2>2, <3>1, <3>2
  <2>5. grade' \in [Students -> GradeRow \cup {NoGrade}]
    <3> DEFINE row == [score |-> c.score, isPass |-> c.isPass,
                       rank |-> IF c.seat \in Graded THEN grade[c.seat].rank ELSE NoRank]
    <3>1. grade' = [grade EXCEPT ![c.seat] = row]
      BY <2>1 DEF SavesGrade, c
    <3>2. row \in GradeRow
      BY <2>2, GradeRows DEF GradeRow, NoRank
    <3> HIDE DEF row
    <3> QED
      BY <3>1, <3>2 DEF GradingTyped
  <2> QED
    BY <1>1, <1>2, <2>1, <2>3, <2>4, <2>5 DEF GradingTyped
<1> QED
  BY <1>3, <1>4

LEMMA AverageTyped == ASSUME GradingTyped PROVE AverageOfGrades \in [sum: Nat, of: Nat]
<1>1. ScoreSum(grade, Graded) \in Nat /\ Cardinality(Graded) \in Nat
  BY GradeRows, Finite, ScoresAdd DEF Graded
<1> QED
  BY <1>1 DEF AverageOfGrades, ScoreSum

LEMMA SaveStatisticsTyped ==
    ASSUME IInv, CallsTyped, GradingTyped, NEW r \in Requests, SaveStatistics(r)
    PROVE  CallsTyped' /\ GradingTyped'
<1> DEFINE c == req[r]
<1>1. CallsTyped'
  BY ReplyTyped DEF SaveStatistics
<1>2. UNCHANGED <<question, minted, answer, report, files>>
  BY DEF SaveStatistics
<1>3. CASE UNCHANGED <<statistic, grade, exam, current, counted>>
  BY <1>1, <1>2, <1>3 DEF GradingTyped
<1>4. CASE ~UNCHANGED <<statistic, grade, exam, current, counted>>
  <2>1. /\ DOMAIN c.rows \subseteq Questions /\ DOMAIN c.ranks \subseteq Graded
        /\ statistic' = [q \in QuestionIds |-> IF q \in DOMAIN c.rows THEN c.rows[q] ELSE statistic[q]]
        /\ grade' = [s \in Students |->
                       IF s \in DOMAIN c.ranks THEN [grade[s] EXCEPT !.rank = c.ranks[s]] ELSE grade[s]]
        /\ exam' = [exam EXCEPT !.gradesCount = c.submissions, !.average = AverageOfGrades]
        /\ current' = IF c.overtaken THEN current \ {"statistics"} ELSE current \cup {"statistics"}
        /\ counted' = IF c.overtaken THEN counted \ DOMAIN c.rows ELSE counted \cup DOMAIN c.rows
    BY <1>4 DEF SaveStatistics
  <2>2. c.submissions \in Nat /\ c.rows \in CountedRows /\ c.ranks \in UNION {[ranked -> Nat] : ranked \in SUBSET Students}
    <3>1. c \in StatisticsCalls /\ c.step = "commit"
      BY CallOf DEF SaveStatistics, At
    <3> QED
      BY <3>1 DEF StatisticsCalls
  <2> HIDE DEF c
  <2>3. PICK done \in SUBSET QuestionIds : c.rows \in [done -> StatisticRow]
    BY <2>2 DEF CountedRows
  <2>4. PICK ranked \in SUBSET Students : c.ranks \in [ranked -> Nat]
    BY <2>2
  <2>5. exam' \in ExamRow
    BY <2>1, <2>2, AverageTyped DEF GradingTyped, ExamRow
  <2>6. statistic' \in [QuestionIds -> StatisticRow \cup {NoStatistic}]
    BY <2>1, <2>3 DEF GradingTyped
  <2>7. \A s \in ranked : [grade[s] EXCEPT !.rank = c.ranks[s]] \in GradeRow
    BY <2>1, <2>4, GradeRows DEF GradeRow
  <2>8. grade' \in [Students -> GradeRow \cup {NoGrade}]
    BY <2>1, <2>4, <2>7 DEF GradingTyped
  <2>9. current' \subseteq {"clinics", "statistics"} /\ counted' \subseteq QuestionIds
    BY <2>1, <2>3 DEF GradingTyped
  <2> QED
    BY <1>1, <1>2, <2>5, <2>6, <2>8, <2>9 DEF GradingTyped
<1> QED
  BY <1>3, <1>4

LEMMA GradingStepTyped == ASSUME IInv, CallsTyped, GradingTyped, GradingNext PROVE CallsTyped' /\ GradingTyped'
<1>1. ASSUME UNCHANGED gradingVars PROVE GradingTyped'
  BY <1>1 DEF GradingTyped, gradingVars
<1>2. CASE UpdateExam
  BY <1>2, ExamEditsTyped
<1>3. CASE \E r \in Requests :
             \/ BeginCreateExam(r) \/ BeginSubmit(r) \/ BeginComplete(r) \/ BeginDeleteExam(r) \/ BeginUpdateClinics(r)
             \/ BeginStatistics(r) \/ BeginDescribeReport(r) \/ BeginUploadReport(r)
  BY <1>1, <1>3, BeginGradingTyped
<1>4. CASE \E r \in Requests :
             \/ GradeAnswers(r) \/ RecheckExam(r) \/ ReadFailedGrades(r) \/ ReadClinics(r)
             \/ CountGrades(r) \/ CountAnswers(r) \/ RankGrades(r)
  BY <1>1, <1>4, ReadGradingTyped
<1>5. CASE \E r \in Requests : CreateExam(r) \/ DeleteExam(r)
  BY <1>5, ExamEditsTyped
<1>6. CASE \E r \in Requests : CompleteOnly(r) \/ SyncClinics(r) \/ UpdateClinics(r)
  BY <1>6, CompletionTyped
<1>7. CASE \E r \in Requests : DescribeReport(r) \/ UploadFile(r) \/ SaveReportUrl(r)
  BY <1>7, ReportsTyped
<1>8. CASE \E r \in Requests : SaveGrading(r) \/ SaveStatistics(r)
  BY <1>8, SaveGradingTyped, SaveStatisticsTyped
<1> QED
  BY <1>2, <1>3, <1>4, <1>5, <1>6, <1>7, <1>8 DEF GradingNext

\* Steps of the lecture and of the report's assignments.
LEMMA LectureStepTyped ==
    ASSUME IInv, CallsTyped, UpdateLecture \/ DeleteLecture \/ StartTimePasses \/ \E r \in Requests : BeginRemoval(r)
    PROVE  CallsTyped'
<1>1. CASE UpdateLecture \/ DeleteLecture
  BY <1>1, ServeTyped DEF UpdateLecture, DeleteLecture
<1>2. CASE StartTimePasses
  BY <1>2 DEF StartTimePasses, serverVars, CallsTyped
<1>3. CASE \E r \in Requests : BeginRemoval(r)
  <2>1. PICK r \in Requests, s \in enrolled : Begin(r, "removeSeat", [op |-> "removeSeat", step |-> "delete", seat |-> s])
    BY <1>3 DEF BeginRemoval
  <2> QED
    BY <2>1, UntypedCall, BeginsTyped DEF TypedOps
<1> QED
  BY <1>1, <1>2, <1>3

LEMMA ShowStepTyped ==
    ASSUME IInv, CallsTyped, shown \subseteq Assignments, NEW r \in Requests, BeginShow(r) \/ ReadLinks(r) \/ SaveLinks(r)
    PROVE  CallsTyped' /\ shown' \subseteq Assignments
<1>1. CASE BeginShow(r)
  <2>1. PICK list \in SUBSET Assignments :
          Begin(r, "showAssignments", [op |-> "showAssignments", step |-> "links", list |-> list])
    BY <1>1 DEF BeginShow
  <2> DEFINE q == [op |-> "showAssignments", step |-> "links", list |-> list]
  <2>2. CallTyped(q)
    BY DEF CallTyped, ShowCalls
  <2>3. Begin(r, "showAssignments", q)
    BY <2>1
  <2> HIDE DEF q
  <2> QED
    BY <1>1, <2>2, <2>3, BeginsTyped DEF BeginShow
<1>2. CASE ReadLinks(r)
  <2> DEFINE q == [op |-> "showAssignments", step |-> "save", list |-> req[r].list, drop |-> shown \ req[r].list,
                   overtaken |-> FALSE]
  <2>1. req[r] \in ShowCalls
    BY <1>2, CallOf DEF ReadLinks, At
  <2>2. req[r].list \in SUBSET Assignments
    BY <2>1 DEF ShowCalls
  <2>3. q \in ShowCalls
    BY <2>2 DEF ShowCalls
  <2>4. CallTyped(q)
    BY <2>3 DEF CallTyped
  <2>5. Proceed(r, q)
    BY <1>2 DEF ReadLinks
  <2> HIDE DEF q
  <2> QED
    BY <1>2, <2>4, <2>5, MovesTyped DEF ReadLinks
<1>3. CASE SaveLinks(r)
  <2>1. CASE Reply(r) /\ UNCHANGED shown
    BY <2>1, ReplyTyped
  <2>2. CASE OvertakeLinks(r) /\ shown' = Relinked(req[r])
    <3>1. At(r, "showAssignments", "save")
      BY <1>3 DEF SaveLinks
    <3>2. \A s \in Requests : At(s, "showAssignments", "save") =>
            req[s] \in [op: {"showAssignments"}, step: {"save"}, list: SUBSET Assignments, drop: SUBSET Assignments,
                        overtaken: BOOLEAN]
      BY CallOf DEF At, ShowCalls
    <3>3. shown' \subseteq Assignments
      BY <2>2, <3>1, <3>2 DEF Relinked
    <3>4. ASSUME NEW s \in Requests PROVE CallTyped(req'[s])
      <4>1. CASE s = r
        BY <2>2, <4>1, UntypedCall DEF OvertakeLinks, Idle, TypedOps
      <4>2. CASE s # r /\ At(s, "showAssignments", "save")
        <5> DEFINE q == [req[s] EXCEPT !.drop = @ \ req[r].drop, !.overtaken = TRUE]
        <5>1. req'[s] = q
          BY <2>2, <4>2 DEF OvertakeLinks
        <5>2. q \in ShowCalls /\ q.op = "showAssignments"
          BY <3>2, <4>2 DEF ShowCalls
        <5> HIDE DEF q
        <5> QED
          BY <5>1, <5>2 DEF CallTyped
      <4>3. CASE s # r /\ ~At(s, "showAssignments", "save")
        BY <2>2, <4>3 DEF OvertakeLinks, CallsTyped
      <4> QED
        BY <4>1, <4>2, <4>3
    <3> QED
      BY <2>2, <3>3, <3>4 DEF OvertakeLinks, CallsTyped
  <2> QED
    BY <1>3, <2>1, <2>2 DEF SaveLinks
<1> QED
  BY <1>1, <1>2, <1>3

-----------------------------------------------------------------------------
\* Steps of the classwork.
LEMMA PlainClassworkTyped ==
    ASSUME IInv, CallsTyped,
           \/ DeleteCategory \/ DeleteAssignment
           \/ \E r \in Requests :
                \/ BeginCreateCategory(r) \/ CreateCategory(r) \/ BeginUpdateCategory(r) \/ UpdateCategory(r)
                \/ BeginCreateAssignment(r) \/ CreateAssignment(r) \/ BeginUpdateAssignment(r) \/ UpdateAssignment(r)
                \/ BeginCreateResult(r) \/ CreateResult(r) \/ BeginUpdateResult(r) \/ BeginDeleteResult(r) \/ ChangeResult(r)
                \/ BeginBulk(r) \/ BulkItem(r) \/ EndBulk(r) \/ BeginDeleteAttendance(r) \/ EraseAttendance(r)
    PROVE  CallsTyped'
<1>a. ASSUME NEW r \in Requests, NEW op, NEW q, Begin(r, op, q), q.op \notin TypedOps PROVE CallsTyped'
  BY <1>a, UntypedCall, BeginsTyped
<1>b. ASSUME NEW r \in Requests, Reply(r) PROVE CallsTyped'
  BY <1>b, ReplyTyped
<1>1. CASE DeleteCategory \/ DeleteAssignment
  BY <1>1, ServeTyped DEF DeleteCategory, DeleteAssignment
<1>2. ASSUME NEW r \in Requests, BeginCreateCategory(r) \/ BeginUpdateCategory(r) \/ BeginCreateAssignment(r) PROVE CallsTyped'
  BY <1>2, <1>a DEF BeginCreateCategory, BeginUpdateCategory, BeginCreateAssignment, TypedOps
<1>3. ASSUME NEW r \in Requests, BeginUpdateAssignment(r) \/ BeginCreateResult(r) \/ BeginUpdateResult(r) PROVE CallsTyped'
  BY <1>3, <1>a DEF BeginUpdateAssignment, BeginCreateResult, BeginUpdateResult, TypedOps
<1>4. ASSUME NEW r \in Requests, BeginDeleteResult(r) \/ BeginBulk(r) \/ BeginDeleteAttendance(r) PROVE CallsTyped'
  BY <1>4, <1>a DEF BeginDeleteResult, BeginBulk, BeginDeleteAttendance, TypedOps
<1>5. ASSUME NEW r \in Requests, BulkItem(r) PROVE CallsTyped'
  <2>1. Reply(r) \/ Proceed(r, AfterItem(req[r]))
    BY <1>5 DEF BulkItem
  <2>2. AfterItem(req[r]).op \notin TypedOps
    BY <1>5 DEF BulkItem, AfterItem, IInv, RequestsOK, RequestOK, TypedOps
  <2> QED
    BY <1>b, <2>1, <2>2, UntypedCall, MovesTyped
<1>6. ASSUME NEW r \in Requests,
             \/ CreateCategory(r) \/ UpdateCategory(r) \/ CreateAssignment(r) \/ UpdateAssignment(r) \/ CreateResult(r)
             \/ ChangeResult(r) \/ EndBulk(r) \/ EraseAttendance(r)
      PROVE  CallsTyped'
  BY <1>b, <1>6 DEF CreateCategory, UpdateCategory, CreateAssignment, UpdateAssignment, CreateResult, ChangeResult, EndBulk,
     EraseAttendance
<1> QED
  BY <1>1, <1>2, <1>3, <1>4, <1>5, <1>6

LEMMA AttendanceCallsTyped ==
    ASSUME IInv, CallsTyped, NEW r \in Requests,
           BeginAttendance(r) \/ BeginBulkAttendance(r) \/ CheckAttendance(r) \/ WriteAttendance(r)
    PROVE  CallsTyped'
<1>1. CASE BeginAttendance(r) \/ BeginBulkAttendance(r)
  <2>1. PICK op \in {"attendance", "bulkAttendance"}, d \in Days, seats \in SUBSET Students :
          \E marks \in [seats -> Marks] : Begin(r, op, [op |-> op, step |-> "check", marks |-> marks, date |-> d])
    <3>1. \A s \in enrolled : {s} \in SUBSET Students
      BY DEF IInv, RowsOK, LecturesTypeOK
    <3> QED
      BY <1>1, <3>1 DEF BeginAttendance, BeginBulkAttendance, MarksOf
  <2>0. PICK marks \in [seats -> Marks] : Begin(r, op, [op |-> op, step |-> "check", marks |-> marks, date |-> d])
    BY <2>1
  <2> DEFINE q == [op |-> op, step |-> "check", marks |-> marks, date |-> d]
  <2>2. q \in AttendanceCalls /\ q.op \in {"attendance", "bulkAttendance"}
    BY DEF AttendanceCalls
  <2>3. Begin(r, op, q)
    BY <2>0
  <2> HIDE DEF q
  <2>4. CallTyped(q)
    BY <2>2 DEF CallTyped
  <2> QED
    BY <2>3, <2>4, BeginsTyped
<1>2. CASE CheckAttendance(r)
  <2> DEFINE q == [req[r] EXCEPT !.step = "write"]
  <2>1. Reply(r) \/ Proceed(r, q)
    BY <1>2 DEF CheckAttendance
  <2>2. {"op", "step"} \subseteq DOMAIN req[r]
    BY DEF IInv, RequestsOK, RequestOK
  <2>3. q.op = req[r].op
    BY <2>2
  <2>4. req[r] \in AttendanceCalls => q \in AttendanceCalls
    BY DEF AttendanceCalls
  <2>5. req[r].op \in {"attendance", "bulkAttendance"} => req[r] \in AttendanceCalls
    BY CallOf
  <2>6. req[r].op \in {"attendance", "bulkAttendance", "deleteAttendance"}
    BY <1>2 DEF CheckAttendance
  <2> HIDE DEF q
  <2>7. CallTyped(q)
    BY <2>3, <2>4, <2>5, <2>6 DEF CallTyped
  <2> QED
    BY <2>1, <2>7, ReplyTyped, MovesTyped
<1>3. CASE WriteAttendance(r)
  BY <1>3, ReplyTyped DEF WriteAttendance
<1> QED
  BY <1>1, <1>2, <1>3

\* A mark of attendance is struck or one of a request.
LEMMA StruckTyped == ASSUME NEW row \in AttendanceRow PROVE Struck(row) \in AttendanceRow
  BY DEF Struck, AttendanceRow

LEMMA AttendanceTyped ==
    ASSUME IInv, CallsTyped, RestTyped, ClassworkNext
    PROVE  attendance' \in [Students -> [Days -> AttendanceRow]]
<1>0. attendance \in [Students -> [Days -> AttendanceRow]]
  BY DEF RestTyped
<1>1. CASE \E r \in Requests : WriteAttendance(r)
  <2>1. PICK r \in Requests : WriteAttendance(r)
    BY <1>1
  <2>2. req[r] \in AttendanceCalls
    BY <2>1, CallOf DEF WriteAttendance, At
  <2>3. PICK seats \in SUBSET Students : req[r].marks \in [seats -> Marks] /\ req[r].date \in Days
    BY <2>2 DEF AttendanceCalls
  <2> DEFINE rowOf(s) == [there |-> TRUE,
                          id |-> IF attendance[s][req[r].date].there THEN attendance[s][req[r].date].id
                                 ELSE attendance[s][req[r].date].id + 1,
                          status |-> req[r].marks[s]]
  <2>4. ASSUME NEW s \in seats PROVE rowOf(s) \in AttendanceRow
    <3>1. attendance[s][req[r].date] \in AttendanceRow
      BY <1>0, <2>3
    <3>2. req[r].marks[s] \in Marks
      BY <2>3
    <3> QED
      BY <3>1, <3>2 DEF AttendanceRow
  <2>5. attendance' = attendance \/
        attendance' = [s \in Students |-> IF s \in seats THEN [attendance[s] EXCEPT ![req[r].date] = rowOf(s)]
                                          ELSE attendance[s]]
    BY <2>1, <2>3 DEF WriteAttendance
  <2> HIDE DEF rowOf
  <2>6. \A s \in seats : [attendance[s] EXCEPT ![req[r].date] = rowOf(s)] \in [Days -> AttendanceRow]
    BY <1>0, <2>3, <2>4
  <2> QED
    BY <1>0, <2>5, <2>6
<1>2. CASE \E r \in Requests : EraseAttendance(r)
  <2>1. PICK r \in Requests : EraseAttendance(r)
    BY <1>2
  <2>2. attendance' = attendance \/ attendance' = [attendance EXCEPT ![req[r].seat][req[r].date] = Struck(@)]
    BY <2>1 DEF EraseAttendance
  <2> QED
    BY <1>0, <2>2, StruckTyped
<1>3. CASE UNCHANGED attendance
  BY <1>0, <1>3
<1> QED
  <2>1. CASE DeleteCategory \/ DeleteAssignment
    BY <1>3, <2>1 DEF DeleteCategory, DeleteAssignment
  <2>2. ASSUME NEW r \in Requests,
               \/ BeginCreateCategory(r) \/ BeginUpdateCategory(r) \/ BeginCreateAssignment(r) \/ BeginUpdateAssignment(r)
               \/ BeginCreateResult(r) \/ BeginUpdateResult(r) \/ BeginDeleteResult(r) \/ BeginBulk(r)
               \/ BeginAttendance(r) \/ BeginBulkAttendance(r) \/ BeginDeleteAttendance(r) \/ CheckAttendance(r)
        PROVE  UNCHANGED attendance
    BY <2>2 DEF BeginCreateCategory, BeginUpdateCategory, BeginCreateAssignment, BeginUpdateAssignment, BeginCreateResult,
       BeginUpdateResult, BeginDeleteResult, BeginBulk, BeginAttendance, BeginBulkAttendance, BeginDeleteAttendance,
       CheckAttendance, classworkVars
  <2>3. ASSUME NEW r \in Requests,
               \/ CreateCategory(r) \/ UpdateCategory(r) \/ CreateAssignment(r) \/ UpdateAssignment(r) \/ CreateResult(r)
               \/ ChangeResult(r) \/ BulkItem(r) \/ EndBulk(r)
        PROVE  UNCHANGED attendance
    BY <2>3 DEF CreateCategory, UpdateCategory, CreateAssignment, UpdateAssignment, CreateResult, ChangeResult, BulkItem, EndBulk
  <2> QED
    BY <1>1, <1>2, <1>3, <2>1, <2>2, <2>3 DEF ClassworkNext

LEMMA ReshapedTyped ==
    ASSUME PresetInv, RestTyped, ClassworkNext PROVE reshaped' \subseteq Assignments
<1>0. reshaped \subseteq Assignments
  BY DEF RestTyped
<1>1. ASSUME NEW r \in Requests, UpdateCategory(r) PROVE reshaped' \subseteq Assignments
  BY <1>0, <1>1 DEF UpdateCategory, InCategory
<1>2. ASSUME NEW r \in Requests, UpdateAssignment(r) PROVE reshaped' \subseteq Assignments
  <2>1. req[r].assignment \in Assignments
    BY <1>2 DEF UpdateAssignment, At, PresetInv, PresetCalls, PresetCallOK
  <2> QED
    BY <1>0, <1>2, <2>1 DEF UpdateAssignment
<1>3. CASE DeleteCategory \/ DeleteAssignment
  BY <1>0, <1>3 DEF DeleteCategory, DeleteAssignment
<1>4. ASSUME NEW r \in Requests,
             \/ BeginCreateCategory(r) \/ BeginUpdateCategory(r) \/ BeginCreateAssignment(r) \/ BeginUpdateAssignment(r)
             \/ BeginCreateResult(r) \/ BeginUpdateResult(r) \/ BeginDeleteResult(r) \/ BeginBulk(r)
             \/ BeginAttendance(r) \/ BeginBulkAttendance(r) \/ BeginDeleteAttendance(r) \/ CheckAttendance(r)
      PROVE  UNCHANGED reshaped
  BY <1>4 DEF BeginCreateCategory, BeginUpdateCategory, BeginCreateAssignment, BeginUpdateAssignment, BeginCreateResult,
     BeginUpdateResult, BeginDeleteResult, BeginBulk, BeginAttendance, BeginBulkAttendance, BeginDeleteAttendance,
     CheckAttendance, classworkVars
<1>5. ASSUME NEW r \in Requests,
             \/ CreateCategory(r) \/ CreateAssignment(r) \/ CreateResult(r) \/ ChangeResult(r) \/ BulkItem(r) \/ EndBulk(r)
             \/ WriteAttendance(r) \/ EraseAttendance(r)
      PROVE  UNCHANGED reshaped
  BY <1>5 DEF CreateCategory, CreateAssignment, CreateResult, ChangeResult, BulkItem, EndBulk, WriteAttendance, EraseAttendance
<1> QED
  BY <1>0, <1>1, <1>2, <1>3, <1>4, <1>5 DEF ClassworkNext

LEMMA WithdrawTyped ==
    ASSUME IInv, TypeInv, NEW r \in Requests, Withdraw(r) PROVE TypeInv'
<1>1. CallsTyped'
  BY OvertakingTyped DEF Withdraw, RemovalOvertakes, TypeInv
<1> DEFINE s == req[r].seat
<1>2. /\ answer' = [answer EXCEPT ![s] = [q \in QuestionIds |-> NoAnswer]]
      /\ grade' = [grade EXCEPT ![s] = NoGrade]
      /\ report' = [report EXCEPT ![s] = NoReport]
      /\ current' \in {current, current \ {"statistics"}} /\ counted' \in {counted, {}}
      /\ UNCHANGED <<exam, question, minted, statistic, files>>
  BY DEF Withdraw, GradingForgets
<1>3. /\ attendance' = [attendance EXCEPT ![s] = [d \in Days |-> Struck(@[d])]]
      /\ UNCHANGED <<reshaped, shown>>
  BY DEF Withdraw, ClassworkForgets
<1> HIDE DEF s
<1>4. NoReport \in ReportRow
  BY DEF NoReport, NoUrl, ReportRow
<1>5. GradingTyped'
  BY <1>2, <1>4 DEF TypeInv, GradingTyped
<1>6. attendance' \in [Students -> [Days -> AttendanceRow]]
  BY <1>3, StruckTyped DEF TypeInv, RestTyped
<1> QED
  BY <1>1, <1>3, <1>5, <1>6 DEF TypeInv, RestTyped

LEMMA NextTypes == ASSUME IInv, PresetInv, TypeInv, [Next]_vars PROVE TypeInv'
<1> USE DEF TypeInv
<1>a. UNCHANGED gradingVars => GradingTyped'
  BY DEF GradingTyped, gradingVars
<1>b. UNCHANGED classworkVars /\ shown' \subseteq Assignments => RestTyped'
  BY DEF RestTyped, classworkVars
<1>1. CASE UNCHANGED vars
  BY <1>1, <1>a, <1>b DEF vars, serverVars, CallsTyped, RestTyped
<1>2. CASE (UpdateLecture \/ DeleteLecture \/ StartTimePasses \/ \E r \in Requests : BeginRemoval(r))
           /\ UNCHANGED <<gradingVars, classworkVars, shown>>
  BY <1>2, <1>a, <1>b, LectureStepTyped DEF RestTyped
<1>c. Unlink => shown' \subseteq Assignments
  BY DEF Unlink, RestTyped
<1>3. CASE GradingNext /\ UNCHANGED <<lectureVars, classworkVars>> /\ Unlink
  BY <1>3, <1>b, <1>c, GradingStepTyped
<1>4. CASE ClassworkNext /\ UNCHANGED <<lectureVars, gradingVars>> /\ Unlink
  <2>1. CallsTyped'
    BY <1>4, PlainClassworkTyped, AttendanceCallsTyped DEF ClassworkNext
  <2>2. RestTyped'
    BY <1>4, <1>c, AttendanceTyped, ReshapedTyped DEF RestTyped
  <2> QED
    BY <1>4, <1>a, <2>1, <2>2
<1>5. CASE (\E r \in Requests : BeginShow(r) \/ ReadLinks(r) \/ SaveLinks(r))
           /\ UNCHANGED <<lectureVars, gradingVars, classworkVars>>
  BY <1>5, <1>a, <1>b, ShowStepTyped DEF RestTyped
<1>6. CASE \E r \in Requests : Withdraw(r)
  BY <1>6, WithdrawTyped
<1>7. CASE \E r \in Requests : Abort(r) /\ UNCHANGED <<lectureVars, gradingVars, classworkVars, shown>>
  BY <1>7, <1>a, <1>b, ReplyTyped DEF Abort, RestTyped
<1> QED
  BY <1>1, <1>2, <1>3, <1>4, <1>5, <1>6, <1>7 DEF Next

LEMMA InitTypes == Init => TypeInv
<1> SUFFICES ASSUME Init PROVE TypeInv
  OBVIOUS
<1>1. CallsTyped
  BY UntypedCall DEF Init, ServerInit, CallsTyped, Idle, TypedOps
<1>2. RestTyped
  BY DEF Init, ClassworkInit, RestTyped, NoAttendance, AttendanceRow
<1>3. /\ answer \in [Students -> [QuestionIds -> AnswerRow \cup {NoAnswer}]]
      /\ grade \in [Students -> GradeRow \cup {NoGrade}]
      /\ statistic \in [QuestionIds -> StatisticRow \cup {NoStatistic}]
      /\ report \in [Students -> ReportRow]
      /\ files \subseteq Nat /\ current \subseteq {"clinics", "statistics"} /\ counted \subseteq QuestionIds
  BY DEF Init, GradingInit, NoReport, NoUrl, ReportRow
<1>4. CASE exam = NoExam /\ minted = 0 /\ question = [q \in QuestionIds |-> NoQuestion]
  <2>1. exam \in ExamRow
    BY <1>4 DEF NoExam, ExamRow
  <2> QED
    BY <1>1, <1>2, <1>3, <1>4, <2>1 DEF TypeInv, GradingTyped
<1>5. ASSUME NEW cutoff \in Cutoffs, NEW paper \in FirstPapers, NEW auto \in BOOLEAN,
             exam = NewExam(cutoff, auto), minted = Cardinality(DOMAIN paper),
             question = [q \in QuestionIds |-> IF q \in DOMAIN NewRows(paper, DOMAIN paper, 0)
                                               THEN NewRows(paper, DOMAIN paper, 0)[q] ELSE NoQuestion]
      PROVE  TypeInv
  <2>1. exam \in ExamRow
    BY <1>5, NewExamTyped
  <2>2. paper \in Papers /\ DOMAIN paper \in SUBSET DOMAIN paper
    BY GradingAssumption
  <2>3. Cardinality(DOMAIN paper) \in Nat
        /\ \A q \in DOMAIN NewRows(paper, DOMAIN paper, 0) : NewRows(paper, DOMAIN paper, 0)[q] \in QuestionRow
    BY <2>2, NewRowsAre
  <2>4. question \in [QuestionIds -> QuestionRow \cup {NoQuestion}]
    BY <1>5, <2>3
  <2>5. minted \in QuestionIds \cup {0}
    <3>1. Cardinality(QuestionIds) \in Nat
      BY GradingAssumption, FS_CardinalityType
    <3> QED
      BY <1>5, <2>2, <2>3, <3>1, GradingAssumption
  <2> QED
    BY <1>1, <1>2, <1>3, <2>1, <2>4, <2>5 DEF TypeInv, GradingTyped
<1>6. GradingInit
  BY DEF Init
<1> QED
  BY <1>4, <1>5, <1>6 DEF GradingInit

\* The invariant of types, along every behaviour.
LEMMA Typed == Spec => []TypeInv
<1>1. IInv /\ PresetInv /\ [Next]_vars => PresetInv'
  BY NextPresets
<1>2. Spec => []PresetInv
  BY <1>1, InitPresets, Invariance, PTL DEF Spec
<1>3. IInv /\ PresetInv /\ TypeInv /\ [Next]_vars => TypeInv'
  BY NextTypes
<1> QED
  BY <1>2, <1>3, InitTypes, Invariance, PTL DEF Spec

\* Every row of the lecture, its exam, its classwork and its report's links keeps its type, whatever
\* the handlers do: the numbers a statistics request counts, the ranks of its loop and the sums of
\* scores are natural numbers, of the rows it may write.
THEOREM ClassroomTypes == Spec => []TypeOK
<1>1. IInv /\ PresetInv /\ [Next]_vars => PresetInv'
  BY NextPresets
<1>2. Spec => []PresetInv
  BY <1>1, InitPresets, Invariance, PTL DEF Spec
<1>3. IInv /\ PresetInv /\ TypeInv => TypeOK
  BY TypesSuffice
<1> QED
  BY <1>2, <1>3, Invariance, Typed, PTL

\* The loop of a statistics request, over the grades sorted by score, gives every graded student the
\* rank that their own page computes by counting the better grades, ties included.
THEOREM LoopRanksLikePages == Spec => [](Ranks = [s \in Graded |-> RankShown(s)])
<1>1. TypeInv => Ranks = [s \in Graded |-> RankShown(s)]
  BY GradeRows, RanksAreShown DEF TypeInv
<1> QED
  BY <1>1, Typed, PTL

(***************************************************************************)
(* What was counted.                                                       *)
(***************************************************************************)
IdsOK == \A p \in Questions \cup counted : p <= minted
StoredOK == "statistics" \in current =>
    /\ ExamExists /\ exam.gradesCount = Cardinality(Graded) /\ exam.average = AverageOfGrades
    /\ \A s \in Graded : grade[s].rank = RankShown(s)
CountedOK == \A p \in counted \cap Questions : statistic[p] = AnswerCounts(p, Cardinality(Graded))

\* What a statistics request has read: questions whose ids were given out by then, and, if nothing has
\* overtaken it, as many grades and answers as there are now to each question that is left, and the
\* ranks that these grades have.
IdsRead(q) ==
    /\ q.step # "commit" => \A i \in 1 .. Len(q.todo) : q.todo[i] <= minted
    /\ q.step # "count" => \A p \in DOMAIN q.rows : p <= minted
CountsRead(q) ==
    q.step # "count" /\ ~q.overtaken =>
        /\ q.submissions = Cardinality(Graded)
        /\ \A p \in DOMAIN q.rows \cap Questions : q.rows[p] = AnswerCounts(p, Cardinality(Graded))
        /\ q.step = "commit" => q.ranks = [s \in Graded |-> RankShown(s)]
CountOK(q) == q.op = "statistics" => IdsRead(q) /\ (exam.status # "DELETED" => CountsRead(q))
CountCalls == \A r \in Requests : CountOK(req[r])

MarkedOK == \A s \in Students, d \in Days : attendance[s][d].there => attendance[s][d].status \in Marks

CountInv == IdsOK /\ StoredOK /\ CountedOK /\ CountCalls

-----------------------------------------------------------------------------
\* What a step has to leave for that: the same grades, and the same answers to the questions that stay.
NumbersLast ==
    /\ exam'.status # "DELETED" => exam.status # "DELETED"
    /\ Graded' = Graded /\ \A s \in Graded : grade'[s].score = grade[s].score
    /\ minted <= minted'
    /\ \A p \in Questions' :
         p <= minted' /\ (p <= minted => p \in Questions /\ \A s \in Students : answer'[s][p] = answer[s][p])
\* And what it has to leave of the rows: no more of them are said to count every grade.
StoredLast ==
    /\ "statistics" \in current' => "statistics" \in current
    /\ ExamExists => ExamExists'
    /\ exam'.gradesCount = exam.gradesCount /\ exam'.average = exam.average
    /\ \A s \in Graded : grade'[s].rank = grade[s].rank
CountedLast ==
    /\ counted' \subseteq counted
    /\ \A p \in counted' \cap Questions' : statistic'[p] = statistic[p]

LEMMA IdsAreNumbers == QuestionIds \subseteq Nat
<1>1. Cardinality(QuestionIds) \in Nat
  BY GradingAssumption, FS_CardinalityType
<1> QED
  BY <1>1, GradingAssumption

LEMMA NumbersSame ==
    ASSUME NumbersLast
    PROVE  /\ \A s \in Graded : RankShown(s)' = RankShown(s)
           /\ [s \in Graded |-> RankShown(s)]' = [s \in Graded |-> RankShown(s)]
           /\ AverageOfGrades' = AverageOfGrades
           /\ \A p \in Questions' : \A n : p <= minted => AnswerCounts(p, n)' = AnswerCounts(p, n)
<1>1. Graded' = Graded /\ \A s \in Graded : grade'[s].score = grade[s].score
  BY DEF NumbersLast
<1>2. \A s \in Graded : RankShown(s)' = RankShown(s)
  <2> SUFFICES ASSUME NEW s \in Graded PROVE RankShown(s)' = RankShown(s)
    OBVIOUS
  <2>1. {t \in Graded : grade[t].score > grade[s].score}' = {t \in Graded : grade[t].score > grade[s].score}
    BY <1>1
  <2> QED
    BY <2>1 DEF RankShown
<1>3. [s \in Graded |-> RankShown(s)]' = [s \in Graded |-> RankShown(s)]
  BY <1>1, <1>2
<1>4. AverageOfGrades' = AverageOfGrades
  <2> DEFINE G == Graded
  <2>1. IsFiniteSet(G)
    BY Finite DEF Graded
  <2>2. [s \in G |-> grade'[s].score] = [s \in G |-> grade[s].score]
    BY <1>1
  <2> HIDE DEF G
  <2>3. ScoreSum(grade', G) = ScoreSum(grade, G)
    BY <2>1, <2>2, SumOfScores
  <2>4. AverageOfGrades = [sum |-> ScoreSum(grade, G), of |-> Cardinality(G)]
    BY DEF AverageOfGrades, ScoreSum, G
  <2>5. AverageOfGrades' = [sum |-> ScoreSum(grade', Graded'), of |-> Cardinality(Graded')]
    BY DEF AverageOfGrades, ScoreSum, MapThenSumSet, MapThenFoldSet
  <2>6. Graded' = G
    BY <1>1 DEF G
  <2> QED
    BY <2>3, <2>4, <2>5, <2>6
<1>5. ASSUME NEW p \in Questions', NEW n, p <= minted PROVE AnswerCounts(p, n)' = AnswerCounts(p, n)
  <2>1. \A s \in Students : answer'[s][p] = answer[s][p]
    BY <1>5 DEF NumbersLast
  <2>2. Answered(p)' = Answered(p)
    BY <2>1 DEF Answered
  <2>3. {s \in Answered(p) : answer[s][p].isCorrect}' = {s \in Answered(p) : answer[s][p].isCorrect}
    BY <2>1, <2>2 DEF Answered
  <2>4. \A c \in Options : {s \in Answered(p) : answer[s][p].submitted = c}' = {s \in Answered(p) : answer[s][p].submitted = c}
    BY <2>1, <2>2 DEF Answered
  <2>5. [c \in Options |-> Cardinality({s \in Answered(p) : answer[s][p].submitted = c})]'
          = [c \in Options |-> Cardinality({s \in Answered(p) : answer[s][p].submitted = c})]
    BY <2>4
  <2> QED
    BY <2>3, <2>5 DEF AnswerCounts
<1> QED
  BY <1>2, <1>3, <1>4, <1>5

LEMMA IdsLast ==
    ASSUME GradingTyped, GradingTyped', minted <= minted', NEW q \in StatisticsCalls, IdsRead(q) PROVE IdsRead(q)'
<1>1. minted \in Nat /\ minted' \in Nat
  BY IdsAreNumbers DEF GradingTyped
<1>2. q.step # "commit" => \A i \in 1 .. Len(q.todo) : q.todo[i] \in Nat
  <2>1. q.step # "commit" => q.todo \in Seq(QuestionIds)
    BY DEF StatisticsCalls
  <2> QED
    BY <2>1, IdsAreNumbers, ElementOf
<1>3. q.step # "count" => \A p \in DOMAIN q.rows : p \in Nat
  BY IdsAreNumbers DEF StatisticsCalls, CountedRows
<1> QED
  BY <1>1, <1>2, <1>3 DEF IdsRead

LEMMA CountLasts ==
    ASSUME GradingTyped, GradingTyped', NumbersLast, NEW q \in StatisticsCalls, CountOK(q) PROVE CountOK(q)'
<1>0. q.op = "statistics"
  BY DEF StatisticsCalls
<1>1. IdsRead(q) /\ IdsRead(q)'
  BY <1>0, IdsLast DEF CountOK, NumbersLast
<1>2. ASSUME exam'.status # "DELETED" PROVE CountsRead(q)'
  <2>1. CountsRead(q) /\ Graded' = Graded
    BY <1>0, <1>2 DEF CountOK, NumbersLast
  <2>2. CASE q.step # "count" /\ ~q.overtaken
    <3>1. ASSUME NEW p \in DOMAIN q.rows \cap Questions' PROVE q.rows[p] = AnswerCounts(p, Cardinality(Graded))'
      <4>1. p <= minted /\ p \in Questions
        BY <1>1, <2>2 DEF IdsRead, NumbersLast
      <4> DEFINE n == Cardinality(Graded)
      <4>2. q.rows[p] = AnswerCounts(p, n) /\ n' = n
        BY <2>1, <2>2, <4>1 DEF CountsRead
      <4> HIDE DEF n
      <4>3. AnswerCounts(p, n)' = AnswerCounts(p, n)
        <5>1. PICK k : k = n
          OBVIOUS
        <5>2. AnswerCounts(p, k)' = AnswerCounts(p, k)
          BY <4>1, NumbersSame
        <5> QED
          BY <4>2, <5>1, <5>2 DEF AnswerCounts
      <4> QED
        BY <4>2, <4>3 DEF n
    <3> QED
      BY <2>1, <2>2, <3>1, NumbersSame DEF CountsRead
  <2> QED
    BY <2>2 DEF CountsRead
<1> QED
  BY <1>1, <1>2 DEF CountOK

\* A step that does not advance the calculation of request s.
OffCount(s) == req'[s] = req[s] \/ req'[s].op # "statistics"

LEMMA ReplyOffCount == ASSUME IInv, NEW r \in Requests, Reply(r) PROVE \A s \in Requests : OffCount(s)
  BY DEF Reply, Proceed, Idle, OffCount, IInv, RequestsOK
LEMMA MovesOffCount ==
    ASSUME IInv, NEW r \in Requests, NEW q, Proceed(r, q), q.op # "statistics" PROVE \A s \in Requests : OffCount(s)
  BY DEF Proceed, OffCount, IInv, RequestsOK
LEMMA BeginsOffCount ==
    ASSUME IInv, NEW r \in Requests, NEW op, NEW q, Begin(r, op, q), q.op # "statistics"
    PROVE  \A s \in Requests : OffCount(s)
  BY DEF Begin, OffCount, IInv, RequestsOK
LEMMA StillOffCount == ASSUME UNCHANGED req PROVE \A s \in Requests : OffCount(s)
  BY DEF OffCount
LEMMA TurnsOffCount == ASSUME NEW ops, Turns(ops), "statistics" \notin ops PROVE \A s \in Requests : OffCount(s)
  BY DEF Turns, OffCount
LEMMA OvertakingOffCount ==
    ASSUME IInv, NEW r \in Requests, NEW ops, ReplyOvertaking(r, ops), "statistics" \notin ops
    PROVE  \A s \in Requests : OffCount(s)
<1> SUFFICES ASSUME NEW s \in Requests PROVE OffCount(s)
  OBVIOUS
<1>1. {"op", "step"} \subseteq DOMAIN req[s]
  BY DEF IInv, RequestsOK, RequestOK
<1>2. CASE s = r
  BY <1>2 DEF ReplyOvertaking, Idle, OffCount
<1>3. CASE s # r /\ req'[s] = [req[s] EXCEPT !.overtaken = TRUE] /\ req[s].op \in ops
  <2>1. req'[s].op = req[s].op
    BY <1>1, <1>3
  <2> QED
    BY <1>3, <2>1 DEF OffCount
<1>4. CASE req'[s] = req[s]
  BY <1>4 DEF OffCount
<1> QED
  BY <1>2, <1>3, <1>4 DEF ReplyOvertaking, Overtake

LEMMA CountCallsLast ==
    ASSUME IInv, CallsTyped, GradingTyped, GradingTyped', CountCalls, NumbersLast, \A s \in Requests : OffCount(s)
    PROVE  CountCalls'
<1> SUFFICES ASSUME NEW s \in Requests PROVE CountOK(req[s])'
  BY DEF CountCalls
<1>1. PICK q : q = req[s]
  OBVIOUS
<1>2. CASE req'[s].op # "statistics"
  BY <1>2 DEF CountOK
<1>3. CASE req'[s] = req[s] /\ req[s].op = "statistics"
  <2>1. q \in StatisticsCalls
    BY <1>1, <1>3, CallOf
  <2>2. CountOK(q)
    BY <1>1 DEF CountCalls
  <2>3. CountOK(q)'
    BY <2>1, <2>2, CountLasts
  <2> QED
    BY <1>1, <1>3, <2>3
<1> QED
  BY <1>2, <1>3 DEF OffCount

LEMMA CountedLasts ==
    ASSUME GradingTyped, GradingTyped', CountInv, NumbersLast, CountedLast
    PROVE  IdsOK' /\ CountedOK'
<1>1. minted \in Nat /\ minted' \in Nat /\ \A p \in counted : p \in Nat
  BY IdsAreNumbers DEF GradingTyped
<1>2. IdsOK'
  BY <1>1 DEF CountInv, IdsOK, NumbersLast, CountedLast
<1>3. ASSUME NEW p \in counted' \cap Questions' PROVE statistic'[p] = AnswerCounts(p, Cardinality(Graded))'
  <2>1. p \in counted /\ p <= minted /\ p \in Questions /\ statistic'[p] = statistic[p] /\ Graded' = Graded
    BY <1>3 DEF CountInv, IdsOK, CountedLast, NumbersLast
  <2>2. statistic[p] = AnswerCounts(p, Cardinality(Graded))
    BY <2>1 DEF CountInv, CountedOK
  <2>3. PICK k : k = Cardinality(Graded)
    OBVIOUS
  <2>4. AnswerCounts(p, k)' = AnswerCounts(p, k)
    BY <2>1, NumbersSame
  <2> QED
    BY <2>1, <2>2, <2>3, <2>4 DEF AnswerCounts
<1> QED
  BY <1>2, <1>3 DEF CountedOK

LEMMA StoredLasts == ASSUME CountInv, NumbersLast, StoredLast PROVE StoredOK'
<1>1. Graded' = Graded
  BY DEF NumbersLast
<1> QED
  BY <1>1, NumbersSame DEF CountInv, StoredOK, StoredLast

LEMMA CountLast ==
    ASSUME IInv, CallsTyped, GradingTyped, GradingTyped', CountInv, NumbersLast, StoredLast, CountedLast,
           \A s \in Requests : OffCount(s)
    PROVE  CountInv'
<1>1. CountCalls'
  BY CountCallsLast DEF CountInv
<1> QED
  BY <1>1, CountedLasts, StoredLasts DEF CountInv

LEMMA SameRows == ASSUME GradingTyped, CountInv, UNCHANGED gradingVars PROVE NumbersLast /\ StoredLast /\ CountedLast
<1>1. minted \in Nat
  BY IdsAreNumbers DEF GradingTyped
<1>2. UNCHANGED <<exam, question, minted, answer, grade, statistic, current, counted>>
  BY DEF gradingVars
<1>3. Graded' = Graded /\ Questions' = Questions
  BY <1>2 DEF Graded, Questions
<1>4. ExamExists => ExamExists'
  BY <1>2 DEF ExamExists
<1> QED
  BY <1>1, <1>2, <1>3, <1>4 DEF NumbersLast, StoredLast, CountedLast, CountInv, IdsOK

LEMMA OtherStepCounts ==
    ASSUME IInv, CallsTyped, GradingTyped, CountInv, UNCHANGED gradingVars, \A s \in Requests : OffCount(s)
    PROVE  CountInv'
<1>1. GradingTyped'
  BY DEF GradingTyped, gradingVars
<1> QED
  BY <1>1, SameRows, CountLast

-----------------------------------------------------------------------------
\* A statistics request reads.
LEMMA StatisticsMoves ==
    ASSUME IInv, CallsTyped, GradingTyped, CountInv, UNCHANGED gradingVars, NEW r \in Requests, NEW q,
           Proceed(r, q) \/ \E op : Begin(r, op, q), CountOK(q)
    PROVE  CountInv'
<1>1. GradingTyped'
  BY DEF GradingTyped, gradingVars
<1>2. NumbersLast /\ StoredLast /\ CountedLast
  BY SameRows
<1>3. req' = [req EXCEPT ![r] = q] /\ req = [s \in Requests |-> req[s]]
  BY DEF Proceed, Begin, IInv, RequestsOK
<1>4. CountOK(q)'
  <2>1. UNCHANGED <<minted, exam, grade, answer, question>>
    BY DEF gradingVars
  <2>2. /\ Graded' = Graded /\ Questions' = Questions /\ \A s : RankShown(s)' = RankShown(s)
        /\ \A p, n : AnswerCounts(p, n)' = AnswerCounts(p, n)
    BY <2>1 DEF Graded, Questions, RankShown, AnswerCounts, Answered
  <2>3. [s \in Graded |-> RankShown(s)]' = [s \in Graded |-> RankShown(s)]
    BY <2>2
  <2>4. \A p : AnswerCounts(p, Cardinality(Graded))' = AnswerCounts(p, Cardinality(Graded))
    <3> DEFINE n == Cardinality(Graded)
    <3>1. n' = n
      BY <2>2
    <3>2. PICK k : k = n
      OBVIOUS
    <3>3. \A p : AnswerCounts(p, k)' = AnswerCounts(p, k)
      BY <2>2
    <3> HIDE DEF n
    <3>4. \A p : AnswerCounts(p, n)' = AnswerCounts(p, n)
      BY <3>1, <3>2, <3>3 DEF AnswerCounts
    <3> QED
      BY <3>4 DEF n
  <2>5. IdsRead(q) => IdsRead(q)'
    BY <2>1 DEF IdsRead
  <2>6. CountsRead(q) => CountsRead(q)'
    BY <2>2, <2>3, <2>4 DEF CountsRead
  <2> QED
    BY <2>1, <2>5, <2>6 DEF CountOK
<1>5. \A s \in Requests \ {r} : req'[s] = req[s]
  BY <1>3
<1>6. ASSUME NEW s \in Requests PROVE CountOK(req[s])'
  <2>1. CASE s = r
    BY <1>3, <1>4, <2>1 DEF CountOK, IdsRead, CountsRead
  <2>2. CASE s # r /\ req[s].op = "statistics"
    <3>1. PICK p : p = req[s]
      OBVIOUS
    <3>2. p \in StatisticsCalls /\ CountOK(p)
      BY <2>2, <3>1, CallOf DEF CountInv, CountCalls
    <3>3. CountOK(p)'
      BY <1>1, <1>2, <3>2, CountLasts
    <3> QED
      BY <1>5, <2>2, <3>1, <3>3
  <2>3. CASE s # r /\ req[s].op # "statistics"
    BY <1>5, <2>3 DEF CountOK
  <2> QED
    BY <2>1, <2>2, <2>3
<1> QED
  BY <1>1, <1>2, <1>6, CountedLasts, StoredLasts DEF CountInv, CountCalls

LEMMA BeginStatisticsCounts ==
    ASSUME IInv, CallsTyped, GradingTyped, CountInv, NEW r \in Requests, BeginStatistics(r) PROVE CountInv'
<1> DEFINE key == [q \in Questions |-> question[q].number]
           todo == InOrder(Questions, key)
           q == [op |-> "statistics", step |-> "count", todo |-> todo]
<1>1. Begin(r, "statistics", q) /\ UNCHANGED gradingVars
  BY DEF BeginStatistics
<1>2. key \in [Questions -> Int] /\ IsFiniteSet(Questions) /\ Cardinality(Questions) \in Nat
  BY GradeRows, Finite DEF Questions
<1> HIDE DEF key
<1>3. todo \in [1 .. Cardinality(Questions) -> Questions]
  BY <1>2, InOrderIs DEF Listing
<1>4. Len(todo) = Cardinality(Questions)
  <2>1. PICK n \in Nat : n = Cardinality(Questions)
    BY <1>2
  <2>2. todo \in Seq(Questions) /\ DOMAIN todo = 1 .. n
    BY <1>3, <2>1
  <2>3. Len(todo) = n
    BY <2>2
  <2> QED
    BY <2>1, <2>3
<1>5. \A i \in 1 .. Len(todo) : todo[i] <= minted
  BY <1>3, <1>4 DEF CountInv, IdsOK
<1> HIDE DEF todo
<1>6. CountOK(q)
  BY <1>5 DEF CountOK, IdsRead, CountsRead
<1> HIDE DEF q
<1> QED
  BY <1>1, <1>6, StatisticsMoves

LEMMA CountGradesCounts ==
    ASSUME IInv, CallsTyped, GradingTyped, CountInv, NEW r \in Requests, CountGrades(r) PROVE CountInv'
<1> DEFINE n == Cardinality(Graded)
           q == [op |-> "statistics", step |-> "answers", todo |-> req[r].todo, submissions |-> n,
                 rows |-> <<>>, overtaken |-> FALSE]
<1>1. Proceed(r, q) /\ UNCHANGED gradingVars
  BY DEF CountGrades
<1>2. IdsRead(req[r]) /\ req[r].step = "count"
  BY DEF CountGrades, At, CountInv, CountCalls, CountOK
<1>3. CountOK(q)
  BY <1>2 DEF CountOK, IdsRead, CountsRead
<1> HIDE DEF q
<1> QED
  BY <1>1, <1>3, StatisticsMoves

LEMMA CountAnswersCounts ==
    ASSUME IInv, CallsTyped, GradingTyped, CountInv, NEW r \in Requests, CountAnswers(r) PROVE CountInv'
<1> DEFINE c == req[r]
           head == Head(c.todo)
           row == AnswerCounts(head, c.submissions)
           rest == Tail(c.todo)
           rows == [p \in DOMAIN c.rows \cup {head} |-> IF p = head THEN row ELSE c.rows[p]]
           q == [c EXCEPT !.todo = rest, !.rows = rows]
<1>1. c \in [op: {"statistics"}, step: {"answers"}, todo: Seq(QuestionIds), submissions: Nat, rows: CountedRows, overtaken: BOOLEAN]
  BY CallOf DEF CountAnswers, At, StatisticsCalls
<1>2. c.todo # << >>
  BY DEF CountAnswers
<1>3. Proceed(r, q) /\ UNCHANGED gradingVars
  BY <1>1 DEF CountAnswers
<1>4. c.op = "statistics" /\ c.step = "answers" /\ CountOK(c)
  BY DEF CountAnswers, At, CountInv, CountCalls
<1>5. \A i \in 1 .. Len(c.todo) : c.todo[i] <= minted
  BY <1>4 DEF CountOK, IdsRead
<1>6. head = c.todo[1] /\ Len(c.todo) \in Nat /\ Len(c.todo) >= 1 /\ Len(rest) = Len(c.todo) - 1
      /\ \A i \in 1 .. Len(rest) : rest[i] = c.todo[i + 1]
  BY <1>1, <1>2
<1>7. head <= minted /\ \A i \in 1 .. Len(rest) : rest[i] <= minted
  BY <1>5, <1>6
<1>8. /\ q.op = "statistics" /\ q.step = "answers" /\ q.todo = rest /\ q.rows = rows
      /\ q.submissions = c.submissions /\ q.overtaken = c.overtaken
  BY <1>1
<1>9. \A p \in DOMAIN rows : p <= minted
  BY <1>4, <1>7 DEF CountOK, IdsRead
<1>10. ASSUME exam.status # "DELETED", ~c.overtaken
       PROVE  c.submissions = Cardinality(Graded)
              /\ \A p \in DOMAIN rows \cap Questions : rows[p] = AnswerCounts(p, Cardinality(Graded))
  <2>1. /\ c.submissions = Cardinality(Graded)
        /\ \A p \in DOMAIN c.rows \cap Questions : c.rows[p] = AnswerCounts(p, Cardinality(Graded))
    BY <1>4, <1>10 DEF CountOK, CountsRead
  <2> QED
    BY <2>1
<1> HIDE DEF q, rows, rest
<1>11. CountOK(q)
  BY <1>7, <1>8, <1>9, <1>10 DEF CountOK, IdsRead, CountsRead
<1> QED
  BY <1>3, <1>11, StatisticsMoves

LEMMA RankGradesCounts ==
    ASSUME IInv, CallsTyped, GradingTyped, CountInv, NEW r \in Requests, RankGrades(r) PROVE CountInv'
<1> DEFINE c == req[r]
           ranks == Ranks
           q == [op |-> "statistics", step |-> "commit", submissions |-> c.submissions,
                 rows |-> c.rows, ranks |-> ranks, overtaken |-> c.overtaken]
<1>1. Proceed(r, q) /\ UNCHANGED gradingVars
  BY DEF RankGrades
<1>2. c.op = "statistics" /\ c.step = "answers" /\ CountOK(c)
  BY DEF RankGrades, At, CountInv, CountCalls
<1>3. ranks = [s \in Graded |-> RankShown(s)]
  BY GradeRows, RanksAreShown
<1> HIDE DEF ranks
<1>4. CountOK(q)
  BY <1>2, <1>3 DEF CountOK, IdsRead, CountsRead
<1> HIDE DEF q
<1> QED
  BY <1>1, <1>4, StatisticsMoves

-----------------------------------------------------------------------------
\* The questions that a request sets leave the answers to those that stay.
LEMMA SetQuestionsLast ==
    ASSUME GradingTyped, IdsOK, NEW paper \in Papers, SetQuestions(paper), NEW p \in Questions'
    PROVE  p <= minted' /\ minted <= minted' /\ (p <= minted => p \in Questions /\ p \in KeptBy(paper))
<1> DEFINE new == NewNumbers(paper)
           rows == NewRows(paper, new, minted)
<1>1. /\ minted' = minted + Cardinality(new)
      /\ question' = [q \in QuestionIds |->
                        IF q \in DOMAIN rows THEN rows[q]
                        ELSE IF q \in KeptBy(paper) THEN RowOf(paper, question[q].number) ELSE NoQuestion]
  BY DEF SetQuestions
<1>2. minted \in Nat /\ minted <= minted'
  BY SetQuestionsTyped
<1>3. new \in SUBSET DOMAIN paper
  BY DEF NewNumbers
<1> HIDE DEF new
<1>4. Cardinality(new) \in Nat /\ DOMAIN rows \subseteq minted + 1 .. minted + Cardinality(new)
  BY <1>2, <1>3, NewRowsAre
<1> HIDE DEF rows
<1>5. p \in QuestionIds /\ question'[p] # NoQuestion
  BY DEF Questions
<1>6. p \in DOMAIN rows \/ p \in KeptBy(paper)
  BY <1>1, <1>5
<1>7. CASE p \in DOMAIN rows
  BY <1>1, <1>2, <1>4, <1>7
<1>8. CASE p \in KeptBy(paper)
  <2>1. p \in Questions /\ p <= minted
    BY <1>8 DEF KeptBy, IdsOK
  <2> QED
    BY <1>1, <1>2, <1>4, <1>8, <2>1, <1>5, IdsAreNumbers
<1> QED
  BY <1>6, <1>7, <1>8

LEMMA CreateExamCounts ==
    ASSUME IInv, CallsTyped, GradingTyped, GradingTyped', CountInv, NEW r \in Requests, CreateExam(r) PROVE CountInv'
<1>1. PICK paper \in Papers : SetQuestions(paper)
  BY DEF CreateExam
<1>2. /\ exam.status = "NONE" /\ UNCHANGED <<answer, grade, statistic, current, counted>> /\ Reply(r)
  BY DEF CreateExam
<1>3. Graded' = Graded
  BY <1>2 DEF Graded
<1>4. NumbersLast
  BY <1>1, <1>2, <1>3, SetQuestionsLast, SetQuestionsTyped DEF NumbersLast, CountInv
<1>5. "statistics" \notin current
  BY <1>2 DEF CountInv, StoredOK, ExamExists
<1>6. CountedLast
  BY <1>2 DEF CountedLast
<1>7. \A s \in Requests : OffCount(s)
  BY <1>2, ReplyOffCount
<1>8. CountCalls'
  BY <1>4, <1>7, CountCallsLast DEF CountInv
<1>9. IdsOK' /\ CountedOK'
  BY <1>4, <1>6, CountedLasts
<1> QED
  BY <1>2, <1>5, <1>8, <1>9 DEF CountInv, StoredOK

LEMMA UpdateExamCounts ==
    ASSUME IInv, CallsTyped, GradingTyped, GradingTyped', CountInv, UpdateExam PROVE CountInv'
<1>1. UNCHANGED <<req, grade, current>> /\ ExamExists
  BY DEF UpdateExam, Serve
<1>2. Graded' = Graded
  BY <1>1 DEF Graded
<1>3. exam'.gradesCount = exam.gradesCount /\ exam'.average = exam.average /\ exam'.status = exam.status
  BY DEF UpdateExam, GradingTyped, ExamRow
<1>4. StoredLast
  BY <1>1, <1>3 DEF StoredLast, ExamExists
<1>5. NumbersLast /\ CountedLast
  <2>1. CASE UNCHANGED <<question, minted, answer, statistic, counted>>
    <3>1. Questions' = Questions /\ minted \in Nat
      BY <2>1, IdsAreNumbers DEF Questions, GradingTyped
    <3> QED
      BY <1>1, <1>2, <1>3, <2>1, <3>1 DEF NumbersLast, CountedLast, CountInv, IdsOK
  <2>2. ASSUME NEW paper \in Papers, SetQuestions(paper),
               answer' = [s \in Students |-> [q \in QuestionIds |->
                            IF q \in KeptBy(paper) THEN answer[s][q] ELSE NoAnswer]],
               statistic' = [q \in QuestionIds |-> IF q \in KeptBy(paper) THEN statistic[q] ELSE NoStatistic],
               counted' = counted \cap KeptBy(paper)
        PROVE  NumbersLast /\ CountedLast
    <3>1. \A p \in Questions' : p <= minted' /\ minted <= minted' /\ (p <= minted => p \in Questions /\ p \in KeptBy(paper))
      BY <2>2, SetQuestionsLast DEF CountInv
    <3>2. minted <= minted'
      BY <2>2, SetQuestionsTyped
    <3>3. KeptBy(paper) \subseteq QuestionIds
      BY DEF KeptBy, Questions
    <3>4. NumbersLast
      BY <1>1, <1>2, <1>3, <2>2, <3>1, <3>2, <3>3 DEF NumbersLast
    <3>5. CountedLast
      BY <2>2, <3>3 DEF CountedLast
    <3> QED
      BY <3>4, <3>5
  <2> QED
    BY <2>1, <2>2 DEF UpdateExam
<1> QED
  BY <1>1, <1>4, <1>5, StillOffCount, CountLast

\* Steps that set nothing that was counted.
LEMMA UncountedCounts ==
    ASSUME IInv, CallsTyped, GradingTyped, GradingTyped', CountInv, NEW r \in Requests,
           CompleteOnly(r) \/ SyncClinics(r) \/ UpdateClinics(r) \/ DescribeReport(r) \/ UploadFile(r) \/ SaveReportUrl(r)
    PROVE  CountInv'
<1>1. UNCHANGED <<question, minted, answer, grade, statistic, counted>>
  BY DEF CompleteOnly, SyncClinics, UpdateClinics, DescribeReport, UploadFile, SaveReportUrl
<1>2. exam' = exam \/ (ExamExists /\ exam' = [exam EXCEPT !.status = "COMPLETED"])
  BY DEF CompleteOnly, SyncClinics, UpdateClinics, DescribeReport, UploadFile, SaveReportUrl
<1>3. "statistics" \in current' => "statistics" \in current
  BY DEF CompleteOnly, SyncClinics, UpdateClinics, DescribeReport, UploadFile, SaveReportUrl
<1>4. /\ exam'.gradesCount = exam.gradesCount /\ exam'.average = exam.average
      /\ exam'.status # "DELETED" => exam.status # "DELETED"
      /\ ExamExists => ExamExists'
  BY <1>2 DEF ExamExists, GradingTyped, ExamRow
<1>5. Graded' = Graded /\ Questions' = Questions /\ minted \in Nat
  BY <1>1, IdsAreNumbers DEF Graded, Questions, GradingTyped
<1>6. NumbersLast /\ StoredLast /\ CountedLast
  BY <1>1, <1>3, <1>4, <1>5 DEF NumbersLast, StoredLast, CountedLast, CountInv, IdsOK
<1>7. \A s \in Requests : OffCount(s)
  <2>1. ASSUME NEW ops, ReplyOvertaking(r, ops), ops = {"completeGrading"} PROVE \A s \in Requests : OffCount(s)
    BY <2>1, OvertakingOffCount
  <2>2. CASE UploadFile(r)
    <3>1. req[r].op = "uploadReport" /\ {"op", "step"} \subseteq DOMAIN req[r]
      BY <2>2 DEF UploadFile, At, IInv, RequestsOK, RequestOK
    <3>2. [req[r] EXCEPT !.step = "save"].op # "statistics"
      BY <3>1
    <3> QED
      BY <2>2, <3>2, MovesOffCount DEF UploadFile
  <2> QED
    BY <2>1, <2>2, ReplyOffCount DEF CompleteOnly, SyncClinics, UpdateClinics, DescribeReport, SaveReportUrl
<1> QED
  BY <1>6, <1>7, CountLast

LEMMA DeleteExamCounts ==
    ASSUME IInv, CallsTyped, GradingTyped, GradingTyped', CountInv, NEW r \in Requests, DeleteExam(r) PROVE CountInv'
<1>1. UNCHANGED minted /\ \A s \in Requests : OffCount(s)
  BY ReplyOffCount DEF DeleteExam
<1>2. CASE ExamExists
  <2>1. /\ exam' = [exam EXCEPT !.status = "DELETED"]
        /\ question' = [q \in QuestionIds |-> NoQuestion] /\ current' = {} /\ counted' = {}
    BY <1>2 DEF DeleteExam
  <2>2. exam'.status = "DELETED"
    BY <2>1 DEF GradingTyped, ExamRow
  <2>3. Questions' = {}
    BY <2>1 DEF Questions
  <2>4. ASSUME NEW s \in Requests PROVE CountOK(req[s])'
    <3>1. CASE req'[s] = req[s] /\ req[s].op = "statistics"
      <4>1. PICK q : q = req[s]
        OBVIOUS
      <4>2. q \in StatisticsCalls /\ IdsRead(q)
        BY <3>1, <4>1, CallOf DEF CountInv, CountCalls, CountOK
      <4>3. minted <= minted'
        BY <1>1, IdsAreNumbers DEF GradingTyped
      <4>4. IdsRead(q)'
        BY <4>2, <4>3, IdsLast
      <4> QED
        BY <2>2, <3>1, <4>1, <4>4 DEF CountOK
    <3>2. CASE req'[s].op # "statistics"
      BY <3>2 DEF CountOK
    <3> QED
      BY <1>1, <3>1, <3>2 DEF OffCount
  <2> QED
    BY <2>1, <2>3, <2>4 DEF CountInv, IdsOK, StoredOK, CountedOK, CountCalls
<1>3. CASE ~ExamExists
  <2>1. UNCHANGED gradingVars
    BY <1>3 DEF DeleteExam, gradingVars
  <2> QED
    BY <1>1, <2>1, OtherStepCounts
<1> QED
  BY <1>2, <1>3

-----------------------------------------------------------------------------
\* A change of grades overtakes the calculations that counted them.
LEMMA OvertakenCounts ==
    ASSUME IInv, CallsTyped, CountCalls, NEW r \in Requests, NEW ops, ReplyOvertaking(r, ops), "statistics" \in ops,
           UNCHANGED minted
    PROVE  CountCalls'
<1> SUFFICES ASSUME NEW s \in Requests PROVE CountOK(req[s])'
  BY DEF CountCalls
<1>1. CASE s = r
  BY <1>1 DEF ReplyOvertaking, Idle, CountOK
<1>2. CASE s # r /\ req[s].op # "statistics"
  <2>1. req'[s] = Overtake(ops, req[s]) /\ {"op", "step"} \subseteq DOMAIN req[s]
    BY <1>2 DEF ReplyOvertaking, IInv, RequestsOK, RequestOK
  <2>2. Overtake(ops, req[s]).op = req[s].op
    BY <2>1 DEF Overtake
  <2> QED
    BY <1>2, <2>1, <2>2 DEF CountOK
<1>3. CASE s # r /\ req[s].op = "statistics"
  <2>1. req'[s] = Overtake(ops, req[s])
    BY <1>3 DEF ReplyOvertaking
  <2>2. req[s] \in StatisticsCalls /\ IdsRead(req[s])
    BY <1>3, CallOf DEF CountCalls, CountOK
  <2>3. CASE req[s].step = "count"
    <3>1. "overtaken" \notin DOMAIN req[s]
      BY <2>2, <2>3 DEF StatisticsCalls
    <3>2. req'[s] = req[s]
      BY <2>1, <3>1 DEF Overtake
    <3> QED
      BY <2>2, <2>3, <3>2 DEF CountOK, IdsRead, CountsRead
  <2>4. CASE req[s].step # "count"
    <3>1. "overtaken" \in DOMAIN req[s]
      BY <2>2, <2>4 DEF StatisticsCalls
    <3>2. req'[s] = [req[s] EXCEPT !.overtaken = TRUE]
      BY <1>3, <2>1, <3>1 DEF Overtake
    <3>3. /\ req'[s].step = req[s].step /\ req'[s].rows = req[s].rows /\ req'[s].overtaken = TRUE
          /\ req[s].step # "commit" => req'[s].todo = req[s].todo
      BY <2>2, <2>4, <3>2 DEF StatisticsCalls
    <3> QED
      BY <2>2, <3>3 DEF CountOK, IdsRead, CountsRead
  <2> QED
    BY <2>3, <2>4
<1> QED
  BY <1>1, <1>2, <1>3

LEMMA SaveGradingCounts ==
    ASSUME IInv, CallsTyped, GradingTyped, CountInv, NEW r \in Requests, SaveGrading(r) PROVE CountInv'
<1>1. UNCHANGED <<question, minted, clinic, statistic, report, files>>
  BY DEF SaveGrading
<1>2. CASE Reply(r) /\ UNCHANGED <<exam, answer, grade, current, counted>>
  BY <1>1, <1>2, ReplyOffCount, OtherStepCounts DEF gradingVars
<1>3. CASE current' = {} /\ counted' = {} /\ ReplyOvertaking(r, {"completeGrading", "statistics", "deleteExam"})
  <2>1. PICK ops : ops = {"completeGrading", "statistics", "deleteExam"}
    OBVIOUS
  <2>2. CountCalls'
    BY <1>1, <1>3, <2>1, OvertakenCounts DEF CountInv
  <2> QED
    BY <1>1, <1>3, <2>2 DEF CountInv, IdsOK, StoredOK, CountedOK, Questions
<1> QED
  BY <1>2, <1>3 DEF SaveGrading

LEMMA WithdrawCounts ==
    ASSUME IInv, CallsTyped, GradingTyped, GradingTyped', CountInv, NEW r \in Requests, Withdraw(r) PROVE CountInv'
<1> DEFINE s == req[r].seat
<1>1. /\ answer' = [answer EXCEPT ![s] = [q \in QuestionIds |-> NoAnswer]]
      /\ grade' = [grade EXCEPT ![s] = NoGrade]
      /\ current' = IF s \in Graded THEN current \ {"statistics"} ELSE current
      /\ counted' = IF s \in Graded THEN {} ELSE counted
      /\ UNCHANGED <<exam, question, minted, statistic>>
      /\ ReplyOvertaking(r, IF s \in Graded THEN {"statistics"} ELSE {})
  BY DEF Withdraw, GradingForgets, RemovalOvertakes
<1> HIDE DEF s
<1>2. CASE s \in Graded
  <2>1. PICK ops : ops = {"statistics"}
    OBVIOUS
  <2>2. CountCalls'
    BY <1>1, <1>2, <2>1, OvertakenCounts DEF CountInv
  <2> QED
    BY <1>1, <1>2, <2>2 DEF CountInv, IdsOK, StoredOK, CountedOK, Questions
<1>3. CASE s \notin Graded
  <2>1. \A t \in Students : grade'[t] = grade[t]
    BY <1>1, <1>3 DEF Graded, GradingTyped
  <2>2. \A t \in Students, q \in QuestionIds : answer'[t][q] = answer[t][q]
    <3>1. \A q \in QuestionIds : s \in Students => answer[s][q] = NoAnswer
      BY <1>3 DEF IInv, AnswersComeWithGrade
    <3> QED
      BY <1>1, <3>1 DEF GradingTyped
  <2>3. Graded' = Graded /\ Questions' = Questions
    BY <1>1, <2>1 DEF Graded, Questions
  <2>4. NumbersLast
    <3>1. minted \in Nat /\ Questions \subseteq QuestionIds
      BY IdsAreNumbers DEF GradingTyped, Questions
    <3> QED
      BY <1>1, <2>1, <2>2, <2>3, <3>1 DEF NumbersLast, CountInv, IdsOK, Graded
  <2>5. StoredLast /\ CountedLast
    BY <1>1, <1>3, <2>1 DEF StoredLast, CountedLast, ExamExists, Graded
  <2>6. \A t \in Requests : OffCount(t)
    <3>1. PICK ops : ops = {}
      OBVIOUS
    <3> QED
      BY <1>1, <1>3, <3>1, OvertakingOffCount
  <2> QED
    BY <2>4, <2>5, <2>6, CountLast
<1> QED
  BY <1>2, <1>3

-----------------------------------------------------------------------------
\* What a statistics request saves is what it counted.
LEMMA SaveStatisticsCounts ==
    ASSUME IInv, CallsTyped, GradingTyped, GradingTyped', CountInv, NEW r \in Requests, SaveStatistics(r) PROVE CountInv'
<1> DEFINE c == req[r]
<1>1. UNCHANGED <<question, minted, answer, clinic, report, files>> /\ Reply(r)
  BY DEF SaveStatistics
<1>2. CASE UNCHANGED <<statistic, grade, exam, current, counted>>
  BY <1>1, <1>2, ReplyOffCount, OtherStepCounts DEF gradingVars
<1>3. CASE ~UNCHANGED <<statistic, grade, exam, current, counted>>
  <2>1. /\ ExamExists /\ DOMAIN c.rows \subseteq Questions /\ DOMAIN c.ranks \subseteq Graded
        /\ statistic' = [q \in QuestionIds |-> IF q \in DOMAIN c.rows THEN c.rows[q] ELSE statistic[q]]
        /\ grade' = [s \in Students |->
                       IF s \in DOMAIN c.ranks THEN [grade[s] EXCEPT !.rank = c.ranks[s]] ELSE grade[s]]
        /\ exam' = [exam EXCEPT !.gradesCount = c.submissions, !.average = AverageOfGrades]
        /\ current' = IF c.overtaken THEN current \ {"statistics"} ELSE current \cup {"statistics"}
        /\ counted' = IF c.overtaken THEN counted \ DOMAIN c.rows ELSE counted \cup DOMAIN c.rows
    BY <1>3 DEF SaveStatistics
  <2>2. c.op = "statistics" /\ c.step = "commit" /\ c \in StatisticsCalls /\ CountOK(c)
    BY CallOf DEF SaveStatistics, At, CountInv, CountCalls
  <2>3. IdsRead(c) /\ CountsRead(c)
    BY <2>1, <2>2 DEF CountOK, ExamExists
  <2> HIDE DEF c
  <2>4. \A s \in Graded : s \in Students /\ grade[s] \in GradeRow
    BY GradeRows
  <2>5. \A s \in Graded : \A rank : [grade[s] EXCEPT !.rank = rank].score = grade[s].score
                                   /\ [grade[s] EXCEPT !.rank = rank].rank = rank
                                   /\ [grade[s] EXCEPT !.rank = rank] # NoGrade
    BY <2>4 DEF GradeRow, NoGrade
  <2>6. \A s \in Graded : grade'[s].score = grade[s].score /\ grade'[s] # NoGrade
    BY <2>1, <2>4, <2>5 DEF Graded
  <2>7. Graded' = Graded /\ Questions' = Questions
    <3>1. ASSUME NEW s \in Students, s \notin Graded PROVE grade'[s] = NoGrade
      BY <2>1, <3>1 DEF Graded
    <3> QED
      BY <1>1, <2>6, <3>1 DEF Graded, Questions
  <2>8. minted \in Nat /\ exam'.status = exam.status /\ ExamExists'
    BY <2>1, IdsAreNumbers DEF GradingTyped, ExamRow, ExamExists
  <2>9. NumbersLast
    BY <1>1, <2>6, <2>7, <2>8 DEF NumbersLast, CountInv, IdsOK
  <2>10. CountCalls'
    BY <1>1, <2>9, ReplyOffCount, CountCallsLast DEF CountInv
  <2>11. IdsOK'
    BY <1>1, <2>1, <2>2, <2>3, <2>7 DEF CountInv, IdsOK, IdsRead
  <2>12. ASSUME NEW p \in counted' \cap Questions' PROVE statistic'[p] = AnswerCounts(p, Cardinality(Graded))'
    <3>1. p \in QuestionIds /\ p \in Questions /\ p <= minted
      BY <1>1, <2>7, <2>11, <2>12 DEF Questions, IdsOK
    <3>2. PICK k : k = Cardinality(Graded)
      OBVIOUS
    <3>3. statistic'[p] = AnswerCounts(p, k)
      <4>1. CASE p \in DOMAIN c.rows
        <5>1. ~c.overtaken
          BY <2>1, <2>12, <4>1
        <5>2. c.rows[p] = AnswerCounts(p, k)
          BY <2>2, <2>3, <3>1, <3>2, <4>1, <5>1 DEF CountsRead
        <5> QED
          BY <2>1, <3>1, <4>1, <5>2
      <4>2. CASE p \notin DOMAIN c.rows
        <5>1. p \in counted /\ statistic'[p] = statistic[p]
          BY <2>1, <2>12, <3>1, <4>2
        <5> QED
          BY <3>1, <3>2, <5>1 DEF CountInv, CountedOK
      <4> QED
        BY <4>1, <4>2
    <3>4. AnswerCounts(p, k)' = AnswerCounts(p, k)
      BY <2>7, <2>9, <3>1, NumbersSame
    <3> QED
      BY <2>7, <3>2, <3>3, <3>4 DEF AnswerCounts
  <2>13. StoredOK'
    <3> SUFFICES ASSUME "statistics" \in current' PROVE StoredOK'
      BY DEF StoredOK
    <3>1. ~c.overtaken
      BY <2>1
    <3>2. c.submissions = Cardinality(Graded) /\ c.ranks = [s \in Graded |-> RankShown(s)]
      BY <2>2, <2>3, <3>1 DEF CountsRead
    <3>3. exam'.gradesCount = Cardinality(Graded) /\ exam'.average = AverageOfGrades
      BY <2>1, <3>2 DEF GradingTyped, ExamRow
    <3>4. ASSUME NEW s \in Graded PROVE grade'[s].rank = RankShown(s)
      BY <2>1, <2>4, <2>5, <3>2
    <3> QED
      BY <2>7, <2>8, <2>9, <3>3, <3>4, NumbersSame DEF StoredOK
  <2> QED
    BY <2>10, <2>11, <2>12, <2>13 DEF CountInv, CountedOK
<1> QED
  BY <1>2, <1>3

LEMMA GradingStepCounts ==
    ASSUME IInv, CallsTyped, GradingTyped, GradingTyped', CountInv, GradingNext PROVE CountInv'
<1>1. CASE UpdateExam
  BY <1>1, UpdateExamCounts
<1>2. ASSUME NEW r \in Requests, BeginStatistics(r) \/ CountGrades(r) \/ CountAnswers(r) \/ RankGrades(r) PROVE CountInv'
  BY <1>2, BeginStatisticsCounts, CountGradesCounts, CountAnswersCounts, RankGradesCounts
<1>3. ASSUME NEW r \in Requests, CreateExam(r) \/ DeleteExam(r) \/ SaveGrading(r) \/ SaveStatistics(r) PROVE CountInv'
  BY <1>3, CreateExamCounts, DeleteExamCounts, SaveGradingCounts, SaveStatisticsCounts
<1>4. ASSUME NEW r \in Requests,
             CompleteOnly(r) \/ SyncClinics(r) \/ UpdateClinics(r) \/ DescribeReport(r) \/ UploadFile(r) \/ SaveReportUrl(r)
      PROVE  CountInv'
  BY <1>4, UncountedCounts
<1>5. ASSUME NEW r \in Requests,
             \/ BeginCreateExam(r) \/ BeginSubmit(r) \/ BeginComplete(r) \/ BeginDeleteExam(r) \/ BeginUpdateClinics(r)
             \/ BeginDescribeReport(r) \/ BeginUploadReport(r)
      PROVE  CountInv'
  <2>1. UNCHANGED gradingVars
    BY <1>5 DEF BeginCreateExam, BeginSubmit, BeginComplete, BeginDeleteExam, BeginUpdateClinics, BeginDescribeReport,
       BeginUploadReport
  <2>2. ASSUME BeginCreateExam(r) \/ BeginSubmit(r) \/ BeginComplete(r) \/ BeginDeleteExam(r) PROVE \A s \in Requests : OffCount(s)
    BY <2>2, BeginsOffCount DEF BeginCreateExam, BeginSubmit, BeginComplete, BeginDeleteExam
  <2>3. ASSUME BeginUpdateClinics(r) \/ BeginDescribeReport(r) \/ BeginUploadReport(r) PROVE \A s \in Requests : OffCount(s)
    BY <2>3, BeginsOffCount DEF BeginUpdateClinics, BeginDescribeReport, BeginUploadReport
  <2> QED
    BY <1>5, <2>1, <2>2, <2>3, OtherStepCounts
<1>6. ASSUME NEW r \in Requests, GradeAnswers(r) \/ RecheckExam(r) \/ ReadFailedGrades(r) \/ ReadClinics(r) PROVE CountInv'
  <2>1. UNCHANGED gradingVars
    BY <1>6 DEF GradeAnswers, RecheckExam, ReadFailedGrades, ReadClinics
  <2>2. Reply(r) \/ \E q : Proceed(r, q) /\ q.op # "statistics"
    <3>1. CASE RecheckExam(r)
      <4>1. req[r].op = "submitGrading" /\ {"op", "step"} \subseteq DOMAIN req[r]
        BY <3>1 DEF RecheckExam, At, IInv, RequestsOK, RequestOK
      <4>2. /\ [req[r] EXCEPT !.step = "commit"].op = "submitGrading"
            /\ [req[r] EXCEPT !.step = "commit", !.reopens = TRUE].op = "submitGrading"
        BY <4>1
      <4> QED
        BY <3>1, <4>2 DEF RecheckExam
    <3>2. CASE GradeAnswers(r) /\ ~Reply(r)
      <4>1. PICK sheet \in Sheets :
              Proceed(r, [op |-> "submitGrading", step |-> "recheck", seat |-> req[r].seat, sheet |-> sheet,
                          score |-> ScoreOf(sheet), isPass |-> ScoreOf(sheet) >= req[r].cutoff, reopens |-> FALSE])
        BY <3>2 DEF GradeAnswers
      <4> DEFINE q == [op |-> "submitGrading", step |-> "recheck", seat |-> req[r].seat, sheet |-> sheet,
                       score |-> ScoreOf(sheet), isPass |-> ScoreOf(sheet) >= req[r].cutoff, reopens |-> FALSE]
      <4>2. Proceed(r, q) /\ q.op # "statistics"
        BY <4>1
      <4> HIDE DEF q
      <4> QED
        BY <4>2
    <3>3. CASE ReadFailedGrades(r) \/ ReadClinics(r)
      <4>1. PICK failed, create, drop, late :
              \/ Reply(r)
              \/ Proceed(r, [op |-> "completeGrading", step |-> "clinics", closes |-> req[r].closes, failed |-> failed,
                             overtaken |-> FALSE])
              \/ Proceed(r, [op |-> "completeGrading", step |-> "commit", closes |-> req[r].closes, create |-> create,
                             drop |-> drop, overtaken |-> late])
        BY <3>3 DEF ReadFailedGrades, ReadClinics
      <4> QED
        BY <4>1
    <3> QED
      BY <1>6, <3>1, <3>2, <3>3
  <2> QED
    BY <2>1, <2>2, ReplyOffCount, MovesOffCount, OtherStepCounts
<1> QED
  BY <1>1, <1>2, <1>3, <1>4, <1>5, <1>6 DEF GradingNext

LEMMA ShowOffCount ==
    ASSUME IInv, NEW r \in Requests, BeginShow(r) \/ ReadLinks(r) \/ SaveLinks(r)
    PROVE  \A s \in Requests : OffCount(s)
<1>1. CASE BeginShow(r) \/ ReadLinks(r)
  BY <1>1, BeginsOffCount, MovesOffCount DEF BeginShow, ReadLinks
<1>2. CASE SaveLinks(r) /\ Reply(r)
  BY <1>2, ReplyOffCount
<1>3. CASE SaveLinks(r) /\ OvertakeLinks(r)
  <2> SUFFICES ASSUME NEW s \in Requests PROVE OffCount(s)
    OBVIOUS
  <2>1. {"op", "step"} \subseteq DOMAIN req[s]
    BY DEF IInv, RequestsOK, RequestOK
  <2>2. CASE s = r
    BY <1>3, <2>2 DEF OvertakeLinks, Idle, OffCount
  <2>3. CASE s # r /\ At(s, "showAssignments", "save")
    <3>1. req'[s] = [req[s] EXCEPT !.drop = @ \ req[r].drop, !.overtaken = TRUE]
      BY <1>3, <2>3 DEF OvertakeLinks
    <3>2. req'[s].op = req[s].op
      BY <2>1, <3>1
    <3> QED
      BY <2>3, <3>2 DEF OffCount, At
  <2>4. CASE s # r /\ ~At(s, "showAssignments", "save")
    BY <1>3, <2>4 DEF OvertakeLinks, OffCount
  <2> QED
    BY <2>2, <2>3, <2>4
<1> QED
  BY <1>1, <1>2, <1>3 DEF SaveLinks

LEMMA NextCounts ==
    ASSUME IInv, TypeInv, TypeInv', CountInv, [Next]_vars PROVE CountInv'
<1>0. CallsTyped /\ GradingTyped /\ GradingTyped'
  BY DEF TypeInv
<1>1. CASE UNCHANGED vars
  BY <1>0, <1>1, StillOffCount, OtherStepCounts DEF vars, serverVars
<1>2. CASE (UpdateLecture \/ DeleteLecture \/ StartTimePasses \/ \E r \in Requests : BeginRemoval(r))
           /\ UNCHANGED <<gradingVars, classworkVars, shown>>
  <2>1. \A s \in Requests : OffCount(s)
    <3>1. CASE UpdateLecture \/ DeleteLecture \/ StartTimePasses
      BY <3>1, StillOffCount DEF UpdateLecture, DeleteLecture, StartTimePasses, Serve, serverVars
    <3>2. CASE \E r \in Requests : BeginRemoval(r)
      BY <3>2, BeginsOffCount DEF BeginRemoval
    <3> QED
      BY <1>2, <3>1, <3>2
  <2> QED
    BY <1>0, <1>2, <2>1, OtherStepCounts
<1>3. CASE GradingNext
  BY <1>0, <1>3, GradingStepCounts
<1>4. CASE ClassworkNext /\ UNCHANGED gradingVars
  <2>1. PICK ops : ops = ClassworkOps \cup AttendanceOps \cup {"none"}
    OBVIOUS
  <2>2. "statistics" \notin ops
    BY <2>1 DEF ClassworkOps, AttendanceOps
  <2>3. Turns(ops)
    BY <1>4, <2>1, ClassworkTurns
  <2> QED
    BY <1>0, <1>4, <2>2, <2>3, TurnsOffCount, OtherStepCounts
<1>5. CASE (\E r \in Requests : BeginShow(r) \/ ReadLinks(r) \/ SaveLinks(r)) /\ UNCHANGED gradingVars
  BY <1>0, <1>5, ShowOffCount, OtherStepCounts
<1>6. CASE \E r \in Requests : Withdraw(r)
  BY <1>0, <1>6, WithdrawCounts
<1>7. CASE (\E r \in Requests : Abort(r)) /\ UNCHANGED gradingVars
  BY <1>0, <1>7, ReplyOffCount, OtherStepCounts DEF Abort
<1> QED
  BY <1>1, <1>2, <1>3, <1>4, <1>5, <1>6, <1>7 DEF Next

LEMMA InitCounts == Init => CountInv
<1> SUFFICES ASSUME Init PROVE CountInv
  OBVIOUS
<1>1. GradingInit /\ req = [r \in Requests |-> Idle]
  BY DEF Init, ServerInit
<1>2. StoredOK /\ CountedOK /\ CountCalls
  BY <1>1 DEF GradingInit, StoredOK, CountedOK, CountCalls, CountOK, Idle
<1>3. IdsOK
  <2>1. counted = {}
    BY <1>1 DEF GradingInit
  <2>2. CASE question = [q \in QuestionIds |-> NoQuestion]
    BY <2>1, <2>2 DEF IdsOK, Questions
  <2>3. ASSUME NEW paper \in FirstPapers, minted = Cardinality(DOMAIN paper),
               question = [q \in QuestionIds |-> IF q \in DOMAIN NewRows(paper, DOMAIN paper, 0)
                                                 THEN NewRows(paper, DOMAIN paper, 0)[q] ELSE NoQuestion]
        PROVE  IdsOK
    <3>1. paper \in Papers /\ DOMAIN paper \in SUBSET DOMAIN paper
      BY GradingAssumption
    <3>2. minted \in Nat /\ DOMAIN NewRows(paper, DOMAIN paper, 0) \subseteq 0 + 1 .. 0 + minted
      BY <2>3, <3>1, NewRowsAre
    <3>3. Questions \subseteq DOMAIN NewRows(paper, DOMAIN paper, 0)
      BY <2>3 DEF Questions
    <3> QED
      BY <2>1, <3>2, <3>3 DEF IdsOK
  <2> QED
    BY <1>1, <2>2, <2>3 DEF GradingInit
<1> QED
  BY <1>2, <1>3 DEF CountInv

-----------------------------------------------------------------------------
\* A mark that is there is one that a request wrote.
LEMMA StruckIsGone == ASSUME NEW row \in AttendanceRow PROVE ~Struck(row).there
  BY DEF Struck, AttendanceRow

LEMMA NextMarks == ASSUME IInv, TypeInv, MarkedOK, [Next]_vars PROVE MarkedOK'
<1>0. attendance \in [Students -> [Days -> AttendanceRow]]
  BY DEF TypeInv, RestTyped
<1>1. CASE UNCHANGED attendance
  BY <1>1 DEF MarkedOK
<1>2. CASE \E r \in Requests : WriteAttendance(r)
  <2>1. PICK r \in Requests : WriteAttendance(r)
    BY <1>2
  <2>2. req[r] \in AttendanceCalls
    BY <2>1, CallOf DEF WriteAttendance, At, TypeInv
  <2>3. PICK seats \in SUBSET Students : req[r].marks \in [seats -> Marks] /\ req[r].date \in Days
    BY <2>2 DEF AttendanceCalls
  <2>4. ASSUME NEW s \in Students, NEW d \in Days
        PROVE  attendance'[s][d] = attendance[s][d] \/ (s \in seats /\ attendance'[s][d].status = req[r].marks[s])
    BY <1>0, <2>1, <2>3 DEF WriteAttendance
  <2> QED
    BY <2>3, <2>4 DEF MarkedOK
<1>3. CASE \E r \in Requests : EraseAttendance(r) \/ Withdraw(r)
  <2>1. ASSUME NEW s \in Students, NEW d \in Days
        PROVE  attendance'[s][d] = attendance[s][d] \/ attendance'[s][d] = Struck(attendance[s][d])
    BY <1>0, <1>3 DEF EraseAttendance, Withdraw, ClassworkForgets
  <2> QED
    BY <1>0, <2>1, StruckIsGone DEF MarkedOK
<1>4. CASE ClassworkNext
  <2>1. CASE DeleteCategory \/ DeleteAssignment
    BY <1>1, <2>1 DEF DeleteCategory, DeleteAssignment
  <2>2. ASSUME NEW r \in Requests,
               \/ BeginCreateCategory(r) \/ BeginUpdateCategory(r) \/ BeginCreateAssignment(r) \/ BeginUpdateAssignment(r)
               \/ BeginCreateResult(r) \/ BeginUpdateResult(r) \/ BeginDeleteResult(r) \/ BeginBulk(r)
               \/ BeginAttendance(r) \/ BeginBulkAttendance(r) \/ BeginDeleteAttendance(r) \/ CheckAttendance(r)
        PROVE  UNCHANGED attendance
    BY <2>2 DEF BeginCreateCategory, BeginUpdateCategory, BeginCreateAssignment, BeginUpdateAssignment, BeginCreateResult,
       BeginUpdateResult, BeginDeleteResult, BeginBulk, BeginAttendance, BeginBulkAttendance, BeginDeleteAttendance,
       CheckAttendance, classworkVars
  <2>3. ASSUME NEW r \in Requests,
               \/ CreateCategory(r) \/ UpdateCategory(r) \/ CreateAssignment(r) \/ UpdateAssignment(r) \/ CreateResult(r)
               \/ ChangeResult(r) \/ BulkItem(r) \/ EndBulk(r)
        PROVE  UNCHANGED attendance
    BY <2>3 DEF CreateCategory, UpdateCategory, CreateAssignment, UpdateAssignment, CreateResult, ChangeResult, BulkItem, EndBulk
  <2> QED
    BY <1>1, <1>2, <1>3, <1>4, <2>1, <2>2, <2>3 DEF ClassworkNext
<1>5. CASE UNCHANGED vars
  BY <1>1, <1>5 DEF vars, classworkVars
<1> QED
  BY <1>1, <1>3, <1>4, <1>5 DEF Next, classworkVars

LEMMA InitMarks == Init => MarkedOK
  BY DEF Init, ClassworkInit, NoAttendance, MarkedOK

-----------------------------------------------------------------------------
\* The pages, one part after the other.
LEMMA GradedIsKept ==
    ASSUME IInv, NEW s \in Graded
    PROVE  s \in Students /\ s \in enrolled /\ ExamExists /\ grade[s] # NoGrade
<1>1. s \in enrolled /\ exam.status \in {"IN_PROGRESS", "COMPLETED"}
  BY DEF IInv, AnswersComeWithGrade
<1> QED
  BY <1>1 DEF ExamExists, Graded

LEMMA StatisticsPageIs ==
    ASSUME ExamExists
    PROVE  /\ StatisticsPage.average = exam.average /\ StatisticsPage.participants = exam.gradesCount
           /\ DOMAIN StatisticsPage.questions = WithStatistic
           /\ \A q \in WithStatistic : StatisticsPage.questions[q].submissions = statistic[q].submissions
           /\ \A s \in Graded : /\ StatisticsPage.students[s].rank = grade[s].rank
                               /\ StatisticsPage.students[s].correct = CorrectCount(s)
  BY DEF StatisticsPage

LEMMA ReportIs ==
    ASSUME NEW s \in Graded
    PROVE  /\ GradeReport(s).rank = grade[s].rank /\ GradeReport(s).average = exam.average
           /\ GradeReport(s).participants = exam.gradesCount
           /\ \A q \in Questions : /\ GradeReport(s).answers[q].isCorrect <=> answer[s][q] # NoAnswer /\ answer[s][q].isCorrect
                                  /\ GradeReport(s).answers[q].wrongRate = WrongRate(q)
  BY DEF GradeReport, AnswersShown

LEMMA DetailIs ==
    ASSUME NEW s \in Graded
    PROVE  /\ GradeDetail(s).rank = RankShown(s) /\ GradeDetail(s).average = AverageShown
           /\ \A q \in Questions : /\ GradeDetail(s).answers[q].isCorrect <=> answer[s][q] # NoAnswer /\ answer[s][q].isCorrect
                                  /\ GradeDetail(s).rates[q] = CorrectRate(q)
           /\ GradesOfSeat(s)[1].rank = RankShown(s)
  BY DEF GradeDetail, GradesOfSeat, AnswersShown

LEMMA StoredShows ==
    ASSUME IInv, StoredOK, "statistics" \in current, NEW s \in Graded
    PROVE  StoredIsComputed(s)
<1>1. exam.gradesCount = Cardinality(Graded) /\ exam.average = AverageOfGrades /\ grade[s].rank = RankShown(s)
  BY DEF StoredOK
<1>2. Rounded(10 * GradeReport(s).average.sum, GradeReport(s).average.of) = GradeDetail(s).average
  BY <1>1, ReportIs, DetailIs DEF AverageShown
<1>3. ASSUME NEW latest \in StudentDashboard(s).latestExam
      PROVE  latest.rank = RankShown(s) /\ latest.participants = Cardinality(Graded)
  <2>1. CASE s \notin enrolled \/ ~LectureFound
    <3>1. StudentDashboard(s).latestExam = {}
      BY <2>1 DEF StudentDashboard, EmptyDashboard
    <3> QED
      BY <1>3, <3>1
  <2>2. CASE ~(s \notin enrolled \/ ~LectureFound)
    <3>1. StudentDashboard(s).latestExam
            = {[score |-> grade[t].score, rank |-> RankShown(t), participants |-> Cardinality(Graded)] :
                 t \in Graded \cap {s}}
      BY <2>2 DEF StudentDashboard
    <3> QED
      BY <1>3, <3>1
  <2> QED
    BY <2>1, <2>2
<1>4. StatisticsPage.students[s].rank = grade[s].rank
  BY GradedIsKept, StatisticsPageIs
<1> QED
  BY <1>1, <1>2, <1>3, <1>4, ReportIs, DetailIs DEF StoredIsComputed

LEMMA AnsweredAreGraded ==
    ASSUME IInv, NEW q \in QuestionIds
    PROVE  /\ Answered(q) \subseteq Graded /\ IsFiniteSet(Answered(q)) /\ IsFiniteSet(Graded)
           /\ Cardinality(Answered(q)) \in Nat /\ Cardinality(Answered(q)) <= Cardinality(Graded)
           /\ Cardinality(Graded) \in Nat /\ Cardinality(Graded) <= Cardinality(Students)
<1>1. Answered(q) \subseteq Graded
  BY DEF IInv, AnswersComeWithGrade, Answered
<1>2. IsFiniteSet(Answered(q)) /\ Cardinality(Answered(q)) \in Nat /\ IsFiniteSet(Graded) /\ Cardinality(Graded) \in Nat
  BY Finite DEF Answered, Graded
<1>3. Cardinality(Answered(q)) <= Cardinality(Graded)
  BY <1>1, <1>2, FS_Subset
<1>4. Cardinality(Graded) <= Cardinality(Students)
  BY LecturesAssumption, FS_Subset DEF Graded
<1> QED
  BY <1>1, <1>2, <1>3, <1>4

\* The choices that a question's row counts.
ChosenOf(q) == MapThenSumSet(LAMBDA c : statistic[q].chosen[c], Options)
LEMMA ChosenAdd == ASSUME NEW q PROVE ChosenOf(q) = Total(statistic[q].chosen, Options)
  BY DEF ChosenOf, Total, MapThenSumSet, MapThenFoldSet

LEMMA ChoicesFitIs ==
    (\A q \in counted \cap DOMAIN StatisticsPage.questions : ChosenOf(q) <= StatisticsPage.questions[q].submissions)
        <=> ChoicesFit
  BY DEF ChoicesFit, ChosenOf

LEMMA ChoicesShow ==
    ASSUME IInv, CountedOK, NEW q \in counted \cap Questions
    PROVE  ChosenOf(q) <= statistic[q].submissions
<1> DEFINE chosen == [s \in Answered(q) |-> answer[s][q].submitted]
           counts == [c \in Options |-> Cardinality({s \in Answered(q) : answer[s][q].submitted = c})]
<1>1. statistic[q] = AnswerCounts(q, Cardinality(Graded)) /\ q \in QuestionIds
  BY DEF CountedOK, Questions
<1>2. statistic[q].chosen = counts /\ statistic[q].submissions = Cardinality(Graded)
  BY <1>1 DEF AnswerCounts
<1>3. counts = [c \in Options |-> Cardinality({s \in Answered(q) : chosen[s] = c})]
  <2>1. \A c \in Options : {s \in Answered(q) : answer[s][q].submitted = c} = {s \in Answered(q) : chosen[s] = c}
    OBVIOUS
  <2> QED
    BY <2>1
<1>4. IsFiniteSet(Options)
  BY GradingAssumption
<1> HIDE DEF chosen, counts
<1>5. Total(counts, Options) <= Cardinality(Answered(q))
  BY <1>1, <1>3, <1>4, AnsweredAreGraded, ChoicesAdd
<1>6. Total(counts, Options) = ChosenOf(q)
  BY <1>2, ChosenAdd
<1>7. Total(counts, Options) \in Nat
  <2>1. counts \in [Options -> Nat]
    BY <1>1, AnsweredAreGraded, Finite DEF counts, Answered
  <2> QED
    BY <1>4, <2>1, SumOfNats
<1> QED
  BY <1>1, <1>2, <1>5, <1>6, <1>7, AnsweredAreGraded

LEMMA RatesShow ==
    ASSUME Cardinality(Students) <= 2222, IInv, GradingTyped, CountedOK, NEW s \in Graded
    PROVE  RatesFitAnswers(s)
<1> SUFFICES ASSUME NEW q \in counted \cap DOMAIN StatisticsPage.questions
             PROVE  /\ IF GradeDetail(s).answers[q].isCorrect THEN GradeDetail(s).rates[q] > 0
                       ELSE GradeReport(s).answers[q].wrongRate > 0
                    /\ GradeDetail(s).rates[q] <= 10000
  BY DEF RatesFitAnswers
<1> DEFINE n == Cardinality(Graded)
           right == {t \in Answered(q) : answer[t][q].isCorrect}
           c == Cardinality(right)
<1>1. q \in WithStatistic
  BY GradedIsKept, StatisticsPageIs
<1>2. q \in Questions /\ q \in QuestionIds /\ statistic[q] # NoStatistic
  BY <1>1 DEF WithStatistic, Questions
<1>3. statistic[q] = AnswerCounts(q, n)
  BY <1>2 DEF CountedOK
<1>4. statistic[q].submissions = n /\ statistic[q].correct = c
  BY <1>3 DEF AnswerCounts
<1>5. right \subseteq Graded /\ IsFiniteSet(right) /\ IsFiniteSet(Graded) /\ s \in Students
  BY <1>2, AnsweredAreGraded, FS_Subset, GradedIsKept
<1>6. c \in Nat /\ n \in Nat /\ c <= n /\ n <= 2222
  <2>1. Cardinality(Students) \in Nat
    BY LecturesAssumption, FS_CardinalityType
  <2> QED
    BY <1>2, <1>5, <2>1, AnsweredAreGraded, FS_Subset, FS_CardinalityType
<1>7. (s \in right => c > 0) /\ (s \notin right => c < n) /\ n > 0
  <2>1. s \in right => c > 0
    BY <1>5, <1>6, FS_EmptySet
  <2>2. n > 0
    BY <1>5, <1>6, FS_EmptySet
  <2>3. s \notin right => c < n
    <3>1. s \notin right => right \subseteq Graded \ {s}
      BY <1>5
    <3>2. IsFiniteSet(Graded \ {s}) /\ Cardinality(Graded \ {s}) = n - 1
      BY <1>5, FS_RemoveElement
    <3>3. s \notin right => c <= n - 1
      BY <3>1, <3>2, FS_Subset
    <3> QED
      BY <1>6, <3>3
  <2> QED
    BY <2>1, <2>2, <2>3
<1>8. s \in right <=> answer[s][q] # NoAnswer /\ answer[s][q].isCorrect
  BY <1>5 DEF Answered
<1>9. CorrectRate(q) = Rounded(10000 * c, n) /\ WrongRate(q) = Rounded(10000 - CorrectRate(q), 10)
  BY <1>2, <1>4 DEF CorrectRate, WrongRate
<1>10. /\ GradeDetail(s).answers[q].isCorrect <=> s \in right
       /\ GradeDetail(s).rates[q] = CorrectRate(q) /\ GradeReport(s).answers[q].wrongRate = WrongRate(q)
  BY <1>2, <1>8, ReportIs, DetailIs
<1> HIDE DEF c, n, right
<1>11. /\ CorrectRate(q) <= 10000 /\ (c > 0 => CorrectRate(q) > 0)
       /\ c < n => WrongRate(q) > 0
  <2>1. n <= 20000
    BY <1>6
  <2> QED
    BY <1>6, <1>7, <1>9, <2>1, RateOfSome
<1> QED
  BY <1>7, <1>10, <1>11

LEMMA AttendanceShows ==
    ASSUME IInv, MarkedOK, NEW s \in Graded
    PROVE  GradeReport(s).attendanceRate = AttendancePage(s).rate
<1> DEFINE all == MarksRecorded(s)
           out == {d \in all : attendance[s][d].status \in {"ABSENT"}}
           in == {d \in all : attendance[s][d].status \in {"PRESENT", "LATE", "EARLY_LEAVE"}}
<1>1. s \in Students
  BY GradedIsKept
<1>2. \A d \in all : attendance[s][d].status \in {"PRESENT", "LATE", "ABSENT", "EARLY_LEAVE"}
  BY <1>1, ClassworkAssumption DEF MarkedOK, MarksRecorded
<1>3. in = all \ out /\ out \subseteq all
  BY <1>2
<1>4. IsFiniteSet(all) /\ Cardinality(all) \in Nat /\ IsFiniteSet(out) /\ Cardinality(out) \in Nat
  BY Finite DEF MarksRecorded
<1>5. Cardinality(in) = Cardinality(all) - Cardinality(out)
  <2>1. all \cap out = out
    BY <1>3
  <2>2. Cardinality(all \ out) = Cardinality(all) - Cardinality(all \cap out)
    BY <1>4, FS_Difference
  <2> QED
    BY <1>3, <2>1, <2>2
<1>6. GradeReport(s).attendanceRate = Rounded(1000 * (Cardinality(all) - Cardinality(out)), Cardinality(all))
  BY DEF GradeReport, Marked
<1>7. AttendancePage(s).rate = Rounded(1000 * Cardinality(in), Cardinality(all))
  BY DEF AttendancePage, Marked
<1> QED
  BY <1>5, <1>6, <1>7

LEMMA ClinicsShow ==
    ASSUME IInv, NEW s \in DOMAIN ClinicsListed
    PROVE  /\ DetailForStaff(s) # NotFound => DetailForStaff(s).score = ClinicsListed[s].score
           /\ s \in Graded
           /\ LectureFound => (StudentDashboard(s).pendingClinics = 1) = (StaffDashboard.clinics[s] = "PENDING")
<1>1. s \in WithClinic
  BY DEF ClinicsListed
<1>2. s \in Graded
  BY <1>1 DEF IInv, AnswersComeWithGrade
<1>3. ClinicsListed[s].score = grade[s].score
  BY <1>1, <1>2 DEF ClinicsListed
<1>4. DetailForStaff(s) # NotFound => DetailForStaff(s).score = grade[s].score
  BY DEF DetailForStaff
<1>5. ASSUME LectureFound PROVE (StudentDashboard(s).pendingClinics = 1) = (StaffDashboard.clinics[s] = "PENDING")
  <2>1. s \in enrolled
    BY <1>2, GradedIsKept
  <2>2. StudentDashboard(s).pendingClinics = IF clinic[s].status = "PENDING" THEN 1 ELSE 0
    BY <1>5, <2>1 DEF StudentDashboard
  <2>3. StaffDashboard.clinics[s] = clinic[s].status
    BY <1>1 DEF StaffDashboard, LatestClinics
  <2> QED
    BY <2>2, <2>3
<1> QED
  BY <1>2, <1>3, <1>4, <1>5

LEMMA PagesShow ==
    ASSUME Cardinality(Students) <= 2222, IInv, TypeInv, CountInv, MarkedOK
    PROVE  ReportsAgree
<1>1. GradingTyped
  BY DEF TypeInv
<1>2. ASSUME "statistics" \in current PROVE ChoicesFit
  <2>1. ExamExists
    BY <1>2 DEF CountInv, StoredOK
  <2>2. ASSUME NEW q \in counted \cap DOMAIN StatisticsPage.questions
        PROVE  ChosenOf(q) <= StatisticsPage.questions[q].submissions
    <3>1. q \in counted \cap Questions /\ StatisticsPage.questions[q].submissions = statistic[q].submissions
      BY <2>1, StatisticsPageIs DEF WithStatistic
    <3>2. ChosenOf(q) <= statistic[q].submissions
      BY <3>1, ChoicesShow DEF CountInv
    <3> QED
      BY <3>1, <3>2
  <2> QED
    BY <2>2, ChoicesFitIs
<1>3. ASSUME NEW s \in Graded PROVE ("statistics" \in current => StoredIsComputed(s)) /\ RatesFitAnswers(s)
  BY <1>1, <1>3, StoredShows, RatesShow DEF CountInv
<1>4. ASSUME NEW s \in Graded
      PROVE  /\ GradesOfSeat(s)[1].rank = GradeDetail(s).rank
             /\ ExamExists /\ LectureFound => GradesOfExam[1] \in {t \in Graded : RankShown(t) = 1}
             /\ StatisticsPage.students[s].correct
                  = Cardinality({q \in Questions : GradeReport(s).answers[q].isCorrect})
             /\ GradeReport(s).attendanceRate = AttendancePage(s).rate
  <2>1. GradesOfSeat(s)[1].rank = GradeDetail(s).rank
    BY <1>4, DetailIs
  <2>2. ExamExists /\ LectureFound => GradesOfExam[1] \in {t \in Graded : RankShown(t) = 1}
    BY <1>1, <1>4, GradeRows, BestIsFirst DEF GradesOfExam
  <2>3. StatisticsPage.students[s].correct = Cardinality({q \in Questions : GradeReport(s).answers[q].isCorrect})
    <3>1. \A q \in Questions : GradeReport(s).answers[q].isCorrect <=> answer[s][q] # NoAnswer /\ answer[s][q].isCorrect
      BY <1>4, ReportIs
    <3>2. {q \in Questions : GradeReport(s).answers[q].isCorrect}
            = {q \in Questions : answer[s][q] # NoAnswer /\ answer[s][q].isCorrect}
      BY <3>1
    <3> QED
      BY <1>4, <3>2, GradedIsKept, StatisticsPageIs DEF CorrectCount
  <2>4. GradeReport(s).attendanceRate = AttendancePage(s).rate
    BY <1>4, AttendanceShows
  <2> QED
    BY <2>1, <2>2, <2>3, <2>4
<1>5. \A s \in DOMAIN ClinicsListed :
         /\ DetailForStaff(s) # NotFound => DetailForStaff(s).score = ClinicsListed[s].score
         /\ s \in Graded
         /\ LectureFound => (StudentDashboard(s).pendingClinics = 1) = (StaffDashboard.clinics[s] = "PENDING")
  BY ClinicsShow
<1> QED
  BY <1>2, <1>3, <1>4, <1>5 DEF ReportsAgree

\* The pages about one student agree, whatever is submitted, recomputed, edited or deleted in between:
\* what the last statistics stored, if no grade came since, is what a page computes at each call, and no
\* rate denies somebody's own answer in a class of up to 2222 (in a larger one 10000 * 2222/2223 already
\* rounds the one wrong answer away).
THEOREM PagesAgree == ASSUME Cardinality(Students) <= 2222 PROVE Spec => []ReportsAgree
<1>1. IInv /\ TypeInv /\ TypeInv' /\ CountInv /\ [Next]_vars => CountInv'
  BY NextCounts
<1>2. Spec => []CountInv
  BY <1>1, Typed, InitCounts, Invariance, PTL DEF Spec
<1>3. IInv /\ TypeInv /\ MarkedOK /\ [Next]_vars => MarkedOK'
  BY NextMarks
<1>4. Spec => []MarkedOK
  BY <1>3, Typed, InitMarks, Invariance, PTL DEF Spec
<1>5. IInv /\ TypeInv /\ CountInv /\ MarkedOK => ReportsAgree
  BY PagesShow
<1> QED
  BY <1>2, <1>4, <1>5, Typed, Invariance, PTL
=============================================================================
