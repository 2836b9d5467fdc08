----------------------------- MODULE SumLemmas ------------------------------
(***************************************************************************)
(* Sums over finite sets: what SumFunctionOnSet and SumFunction, which     *)
(* count the bytes of a cache, compute. They are folds, hence recursive    *)
(* functions. The induction is over a set of counterexamples that has no   *)
(* minimal element: strict inclusion is well founded on finite sets.       *)
(***************************************************************************)
EXTENDS Integers, SequencesExt, FiniteSetTheorems, WellFoundedInduction, TLAPS

\* Some element of a set, and what the recursion does for one argument.
Pick(s) == CHOOSE x \in s : TRUE
SumStep(f, g, s) == IF s = {} THEN 0 ELSE f[Pick(s)] + g[s \ {Pick(s)}]

\* g sums f over every subset of I.
Sums(f, g, I) == g = [s \in SUBSET I |-> SumStep(f, g, s)]

\* Some set of a family is one of the smallest.
LEMMA MinimalSet ==
  ASSUME NEW I, IsFiniteSet(I), NEW T, T \subseteq SUBSET I, T # {}
  PROVE  \E s \in T : \A r \in T : r \subseteq s => r = s
  <1>1. IsWellFoundedOn(StrictSubsetOrdering(I), SUBSET I)
    BY FS_StrictSubsetOrderingWellFounded, FS_FiniteSubsetsOfFinite
  <1>2. PICK s \in T : \A r \in T : ~ (<<r, s>> \in StrictSubsetOrdering(I))
    BY <1>1, WFMin
  <1>3. \A r \in T : r \subseteq s => r = s
    BY <1>2 DEF StrictSubsetOrdering
  <1>4. QED BY <1>3

\* Some number of a set is the smallest.
LEMMA SmallestNumber ==
  ASSUME NEW T, T \subseteq Nat, T # {}
  PROVE  \E n \in T : \A m \in T : n <= m
  <1>1. PICK b \in T : TRUE
    OBVIOUS
  <1> DEFINE F == {s \in SUBSET (1 .. b) : \E k \in T : s = 1 .. k}
  <1>2. b \in Nat /\ 1 .. b \in F /\ F \subseteq SUBSET (1 .. b)
    BY <1>1
  <1>3. PICK s \in F : \A r \in F : r \subseteq s => r = s
    <2> DEFINE I == 1 .. b
    <2>1. IsFiniteSet(I)
      BY <1>2, FS_Interval
    <2>2. F \subseteq SUBSET I /\ F # {}
      BY <1>2
    <2> HIDE DEF F, I
    <2>3. QED BY <2>1, <2>2, MinimalSet
  <1>4. PICK n \in T : s = 1 .. n
    BY <1>3
  <1>5. n \in Nat /\ b \in Nat
    BY <1>1, <1>4
  <1>6. n <= b
    <2>1. n # 0 => n \in 1 .. b
      BY <1>3, <1>4, <1>5
    <2>2. QED BY <1>5, <2>1
  <1>7. ASSUME NEW m \in T, m < n PROVE FALSE
    <2>1. m \in Nat /\ 1 .. m \subseteq 1 .. n /\ 1 .. m \subseteq 1 .. b
      BY <1>5, <1>6, <1>7
    <2>2. 1 .. m = 1 .. n
      BY <1>3, <1>4, <2>1
    <2>3. n \in 1 .. n /\ n \notin 1 .. m
      BY <1>5, <1>7, <2>1
    <2>4. QED BY <2>2, <2>3
  <1>8. QED BY <1>4, <1>5, <1>7

\* The chosen element is one, and the rest is a smaller set.
LEMMA PickIsElement ==
  ASSUME NEW s, s # {}
  PROVE  Pick(s) \in s /\ s \ {Pick(s)} \subseteq s /\ s \ {Pick(s)} # s
  <1>1. Pick(s) \in s
    BY DEF Pick
  <1>2. QED BY <1>1

\* There is one way to sum the subsets of a set.
LEMMA SumsAgree ==
  ASSUME NEW f, NEW g, NEW h, NEW I, NEW J, IsFiniteSet(J), J \subseteq I,
         Sums(f, g, I), Sums(f, h, J)
  PROVE  \A s \in SUBSET J : g[s] = h[s]
  <1> DEFINE T == {s \in SUBSET J : g[s] # h[s]}
  <1>1. SUFFICES ASSUME T # {} PROVE FALSE
    OBVIOUS
  <1>2. PICK s \in T : \A r \in T : r \subseteq s => r = s
    <2>1. T \subseteq SUBSET J
      OBVIOUS
    <2> HIDE DEF T
    <2>2. QED BY <1>1, <2>1, MinimalSet
  <1>3. s \in SUBSET I /\ s \in SUBSET J /\ g[s] # h[s]
    OBVIOUS
  <1>4. g[s] = SumStep(f, g, s) /\ h[s] = SumStep(f, h, s)
    BY <1>3 DEF Sums
  <1>5. s # {}
    BY <1>3, <1>4 DEF SumStep
  <1> DEFINE r == s \ {Pick(s)}
  <1>6. r \in SUBSET J /\ r \notin T
    BY <1>2, <1>3, <1>5, PickIsElement
  <1>7. g[r] = h[r]
    BY <1>6
  <1>8. QED BY <1>3, <1>4, <1>5, <1>7 DEF SumStep

\* The recursion defines a function.
LEMMA SumsExist ==
  ASSUME NEW f, NEW I, IsFiniteSet(I)
  PROVE  \E g : Sums(f, g, I)
  <1> DEFINE T == {J \in SUBSET I : ~ \E g : Sums(f, g, J)}
             G(s) == CHOOSE g : Sums(f, g, s)
             Below(s) == f[Pick(s)] + G(s \ {Pick(s)})[s \ {Pick(s)}]
  <1>1. SUFFICES ASSUME T # {} PROVE FALSE
    OBVIOUS
  <1>2. PICK J \in T : \A r \in T : r \subseteq J => r = J
    <2>1. T \subseteq SUBSET I
      OBVIOUS
    <2> HIDE DEF T
    <2>2. QED BY <1>1, <2>1, MinimalSet
  <1>3. \A r \in SUBSET J : IsFiniteSet(r)
    <2>1. IsFiniteSet(J)
      BY <1>2, FS_Subset
    <2>2. QED BY <2>1, FS_Subset
  <1>4. ASSUME NEW s \in SUBSET J, s # J PROVE Sums(f, G(s), s)
    BY <1>2, <1>4
  <1> DEFINE g == [s \in SUBSET J |-> IF s = {} THEN 0 ELSE Below(s)]
  <1>5. ASSUME NEW s \in SUBSET J PROVE g[s] = SumStep(f, g, s)
    <2>1. CASE s = {}
      BY <2>1 DEF SumStep
    <2>2. CASE s # {}
      <3> DEFINE r == s \ {Pick(s)}
                 q == r \ {Pick(r)}
      <3>1. r \in SUBSET J /\ r # J
        BY <2>2, PickIsElement
      <3>2. Sums(f, G(r), r)
        BY <3>1, <1>4
      <3>3. G(r)[r] = SumStep(f, G(r), r)
        BY <3>2 DEF Sums
      <3>4. ASSUME r # {} PROVE G(r)[q] = G(q)[q]
        <4>1. q \in SUBSET J /\ q # J /\ q \subseteq r
          BY <3>1, <3>4, PickIsElement
        <4>2. Sums(f, G(q), q) /\ IsFiniteSet(q)
          BY <4>1, <1>3, <1>4
        <4> HIDE DEF G
        <4>3. QED BY <3>2, <4>1, <4>2, SumsAgree
      <3>5. g[r] = G(r)[r]
        <4> HIDE DEF G
        <4>1. g[r] = IF r = {} THEN 0 ELSE Below(r)
          BY <3>1
        <4>2. QED BY <3>3, <3>4, <4>1 DEF SumStep
      <3>6. g[s] = f[Pick(s)] + G(r)[r]
        BY <2>2
      <3> HIDE DEF G, g
      <3>7. QED BY <2>2, <3>5, <3>6 DEF SumStep
    <2>3. QED BY <2>1, <2>2
  <1>6. g = [s \in SUBSET J |-> g[s]]
    OBVIOUS
  <1> HIDE DEF g
  <1>7. Sums(f, g, J)
    BY <1>5, <1>6 DEF Sums
  <1>8. QED BY <1>2, <1>7

\* SumFunctionOnSet is that function at the whole set.
LEMMA SumIsSums ==
  ASSUME NEW f, NEW g, NEW I, IsFiniteSet(I), Sums(f, g, I), NEW J \in SUBSET I
  PROVE  SumFunctionOnSet(f, J) = g[J]
  <1> DEFINE h == CHOOSE x : Sums(f, x, J)
  <1>1. SumFunctionOnSet(f, J) = h[J]
    BY DEF SumFunctionOnSet, FoldFunctionOnSet, MapThenFoldSet, Sums, SumStep, Pick
  <1>2. IsFiniteSet(J)
    BY FS_Subset
  <1>3. Sums(f, h, J)
    BY <1>2, SumsExist
  <1> HIDE DEF h
  <1>4. QED BY <1>1, <1>2, <1>3, SumsAgree

\* The sum over a set is that over a smaller one and one value more: the value at
\* the chosen element.
LEMMA SumOfPick ==
  ASSUME NEW f, NEW I, IsFiniteSet(I)
  PROVE  SumFunctionOnSet(f, I) =
           IF I = {} THEN 0
           ELSE f[Pick(I)] + SumFunctionOnSet(f, I \ {Pick(I)})
  <1>1. PICK g : Sums(f, g, I)
    BY SumsExist
  <1>2. g[I] = SumStep(f, g, I)
    BY <1>1 DEF Sums
  <1>3. \A J \in SUBSET I : SumFunctionOnSet(f, J) = g[J]
    BY <1>1, SumIsSums
  <1>4. QED BY <1>2, <1>3 DEF SumStep

\* A sum of natural numbers is one.
LEMMA SumType ==
  ASSUME NEW f, NEW I, IsFiniteSet(I), \A i \in I : f[i] \in Nat
  PROVE  SumFunctionOnSet(f, I) \in Nat
  <1> DEFINE T == {J \in SUBSET I : SumFunctionOnSet(f, J) \notin Nat}
  <1>1. SUFFICES ASSUME T # {} PROVE FALSE
    OBVIOUS
  <1>2. PICK J \in T : \A r \in T : r \subseteq J => r = J
    <2>1. T \subseteq SUBSET I
      OBVIOUS
    <2> HIDE DEF T
    <2>2. QED BY <1>1, <2>1, MinimalSet
  <1>3. IsFiniteSet(J) /\ J \in SUBSET I
    BY FS_Subset
  <1>4. J # {}
    <2>1. SumFunctionOnSet(f, J) \notin Nat
      BY <1>2
    <2>2. J = {} => SumFunctionOnSet(f, J) = 0
      BY <1>3, SumOfPick
    <2>3. QED BY <2>1, <2>2
  <1>5. Pick(J) \in J /\ J \ {Pick(J)} \in SUBSET I /\ J \ {Pick(J)} # J
    BY <1>3, <1>4, PickIsElement
  <1>6. SumFunctionOnSet(f, J \ {Pick(J)}) \in Nat /\ f[Pick(J)] \in Nat
    BY <1>2, <1>3, <1>5
  <1>7. QED BY <1>3, <1>4, <1>6, SumOfPick

\* Only the values on the set matter.
LEMMA SumOfEqual ==
  ASSUME NEW f, NEW g, NEW I, IsFiniteSet(I), \A i \in I : f[i] = g[i]
  PROVE  SumFunctionOnSet(f, I) = SumFunctionOnSet(g, I)
  <1>1. PICK h : Sums(f, h, I)
    BY SumsExist
  <1>2. \A s \in SUBSET I : SumStep(f, h, s) = SumStep(g, h, s)
    BY PickIsElement DEF SumStep
  <1>3. Sums(g, h, I)
    BY <1>1, <1>2 DEF Sums
  <1>4. I \in SUBSET I
    OBVIOUS
  <1>5. QED BY <1>1, <1>3, <1>4, SumIsSums

\* Any element may be taken out first.
LEMMA SumOfRest ==
  ASSUME NEW f, NEW I, IsFiniteSet(I), \A i \in I : f[i] \in Nat, NEW x \in I
  PROVE  SumFunctionOnSet(f, I) = f[x] + SumFunctionOnSet(f, I \ {x})
  <1> DEFINE S(J) == SumFunctionOnSet(f, J)
             T == {J \in SUBSET I : \E y \in J : S(J) # f[y] + S(J \ {y})}
  <1>1. SUFFICES ASSUME T # {} PROVE FALSE
    OBVIOUS
  <1>2. PICK J \in T : \A r \in T : r \subseteq J => r = J
    <2>1. T \subseteq SUBSET I
      OBVIOUS
    <2> HIDE DEF T
    <2>2. QED BY <1>1, <2>1, MinimalSet
  <1>3. PICK y \in J : S(J) # f[y] + S(J \ {y})
    BY <1>2
  <1> DEFINE z == Pick(J)
             K == J \ {z}
             M == K \ {y}
  <1>4. \A r \in SUBSET I : IsFiniteSet(r) /\ S(r) \in Nat
    BY FS_Subset, SumType
  <1>5. J \in SUBSET I /\ z \in J /\ K \in SUBSET I /\ K # J /\ K \subseteq J
    BY <1>3, PickIsElement
  <1>6. S(J) = f[z] + S(K)
    BY <1>3, <1>4, <1>5, SumOfPick
  <1>7. z # y
    BY <1>3, <1>6
  <1>8. y \in K /\ z \in J \ {y} /\ J \ {y} # J /\ (J \ {y}) \ {z} = M
    BY <1>3, <1>5, <1>7
  <1>9. S(K) = f[y] + S(M)
    BY <1>2, <1>5, <1>8
  <1>10. S(J \ {y}) = f[z] + S(M)
    BY <1>2, <1>5, <1>8
  <1>11. f[y] \in Nat /\ f[z] \in Nat /\ S(M) \in Nat
    BY <1>4, <1>5, <1>8
  <1> HIDE DEF S, M, K, z
  <1>12. QED BY <1>3, <1>6, <1>9, <1>10, <1>11

\* The sum over one element.
LEMMA SumOfOne ==
  ASSUME NEW f, NEW x, f[x] \in Nat
  PROVE  SumFunctionOnSet(f, {x}) = f[x]
  <1>1. IsFiniteSet({x}) /\ x \in {x} /\ \A i \in {x} : f[i] \in Nat
    BY FS_Singleton
  <1>2. SumFunctionOnSet(f, {x}) = f[x] + SumFunctionOnSet(f, {x} \ {x})
    BY <1>1, SumOfRest
  <1>3. {x} \ {x} = {} /\ SumFunctionOnSet(f, {}) = 0
    BY FS_EmptySet, SumOfPick
  <1>4. QED BY <1>2, <1>3

\* A set may be split in two.
LEMMA SumOfParts ==
  ASSUME NEW f, NEW I, IsFiniteSet(I), \A i \in I : f[i] \in Nat, NEW J \in SUBSET I
  PROVE  SumFunctionOnSet(f, I) = SumFunctionOnSet(f, J) + SumFunctionOnSet(f, I \ J)
  <1> DEFINE S(K) == SumFunctionOnSet(f, K)
             T == {K \in SUBSET J : S(I) # S(K) + S(I \ K)}
  <1>1. SUFFICES ASSUME T # {} PROVE FALSE
    OBVIOUS
  <1>2. PICK K \in T : \A r \in T : r \subseteq K => r = K
    <2>1. IsFiniteSet(J) /\ T \subseteq SUBSET J
      BY FS_Subset
    <2> HIDE DEF T
    <2>2. QED BY <1>1, <2>1, MinimalSet
  <1>3. \A r \in SUBSET I : IsFiniteSet(r) /\ S(r) \in Nat
    BY FS_Subset, SumType
  <1>4. K \in SUBSET I /\ K \in SUBSET J /\ S(I) # S(K) + S(I \ K)
    BY <1>2
  <1>5. S({}) = 0 /\ I \ {} = I /\ S(I) \in Nat
    BY <1>3, SumOfPick, FS_EmptySet
  <1>6. K # {}
    BY <1>4, <1>5
  <1> DEFINE x == Pick(K)
             L == K \ {x}
  <1>7. x \in K /\ L \in SUBSET J /\ L \subseteq K /\ L # K
    BY <1>4, <1>6, PickIsElement
  <1>8. S(I) = S(L) + S(I \ L)
    BY <1>2, <1>7
  <1>9. x \in I \ L /\ (I \ L) \ {x} = I \ K /\ x \in I /\ L \in SUBSET I
        /\ I \ L \in SUBSET I /\ I \ K \in SUBSET I
    BY <1>4, <1>7
  <1>10. S(K) = f[x] + S(L)
    BY <1>3, <1>4, <1>7, SumOfRest
  <1>11. S(I \ L) = f[x] + S((I \ L) \ {x})
    BY <1>3, <1>9, SumOfRest
  <1>12. f[x] \in Nat /\ S(L) \in Nat /\ S(I \ K) \in Nat
    BY <1>3, <1>9
  <1> HIDE DEF S, L, x
  <1>13. QED BY <1>4, <1>8, <1>9, <1>10, <1>11, <1>12
=============================================================================
