---------------------------- MODULE AnalysesProofs ----------------------------
(***************************************************************************)
(* Machine-checked proofs about the analyses and Analytics' report, for    *)
(* every set of files, trades, times and prices.                           *)
(***************************************************************************)
EXTENDS Analyses, Reports, PortfolioProofs, FiniteSetTheorems, SequenceTheorems, WellFoundedInduction, TLAPS

(***************************************************************************)
(* Folds, which are defined by recursion over the subsets of a finite set: *)
(* what holds of a set if it holds of it without any one of its elements   *)
(* holds of every subset, or a smallest one would be a counterexample.     *)
(***************************************************************************)
LEMMA SubsetInduction ==
  ASSUME NEW S, IsFiniteSet(S), NEW Good,
         \A s \in SUBSET S : (\A x \in s : s \ {x} \in Good) => s \in Good
  PROVE  SUBSET S \subseteq Good
<1>. DEFINE Bad == (SUBSET S) \ Good
            D == FiniteSubsetsOf(S)
            L == StrictSubsetOrdering(S)
<1>. SUFFICES ASSUME Bad # {} PROVE FALSE
  OBVIOUS
<1>1. Bad \subseteq D
  BY FS_Subset DEF FiniteSubsetsOf
<1>2. PICK b \in Bad : \A c \in Bad : ~ (<<c, b>> \in L)
  <2>1. IsWellFoundedOn(L, D)
    BY FS_StrictSubsetOrderingWellFounded
  <2>. HIDE DEF Bad, L, D
  <2>. QED BY <1>1, <2>1, WFMin
<1>3. ASSUME NEW x \in b PROVE b \ {x} \in Good
  <2>1. PICK c : c = b \ {x}
    OBVIOUS
  <2>2. c \in SUBSET S /\ <<c, b>> \in L
    BY <1>3, <2>1 DEF StrictSubsetOrdering
  <2>. QED BY <1>2, <2>1, <2>2
<1>. QED BY <1>3

LEMMA NaturalInduction ==
  ASSUME NEW Good, 0 \in Good, \A n \in Nat : n \in Good => n + 1 \in Good
  PROVE  Nat \subseteq Good
<1>. DEFINE Bad == Nat \ Good
            L == OpToRel(<, Nat)
<1>. SUFFICES ASSUME Bad # {} PROVE FALSE
  OBVIOUS
<1>1. PICK b \in Bad : \A c \in Bad : ~ (<<c, b>> \in L)
  <2>1. IsWellFoundedOn(L, Nat)
    BY NatLessThanWellFounded
  <2>2. Bad \subseteq Nat
    OBVIOUS
  <2>. HIDE DEF Bad, L
  <2>. QED BY <2>1, <2>2, WFMin
<1>2. b - 1 \in Nat /\ b = (b - 1) + 1 /\ <<b - 1, b>> \in L
  BY DEF OpToRel
<1>. QED BY <1>1, <1>2

(* The recursion of a fold has a solution: base for the empty set, and     *)
(* step from the set without the element chosen to the set.                *)
Chooses(chosen, S) == \A s \in SUBSET S : s # {} => chosen[s] \in s
IsFold(f, S, V, base, step, chosen) ==
  /\ f \in [SUBSET S -> V]
  /\ \A s \in SUBSET S :
       f[s] = IF s = {} THEN base ELSE step[<<s, f[s \ {chosen[s]}]>>]

LEMMA FoldExists ==
  ASSUME NEW S, IsFiniteSet(S), NEW V, NEW base \in V,
         NEW step \in [(SUBSET S) \X V -> V], NEW chosen, Chooses(chosen, S)
  PROVE  \E f : IsFold(f, S, V, base, step, chosen)
<1>. DEFINE Step(f, s) == IF s = {} THEN base ELSE step[<<s, f[s \ {chosen[s]}]>>]
            UpTo(n) == {s \in SUBSET S : Cardinality(s) <= n}
            Solvable == {n \in Nat : \E f \in [UpTo(n) -> V] : \A s \in UpTo(n) : f[s] = Step(f, s)}
<1>1. \A s \in SUBSET S :
        IsFiniteSet(s) /\ Cardinality(s) \in Nat /\ (Cardinality(s) = 0 <=> s = {})
        /\ Cardinality(s) <= Cardinality(S)
  BY FS_Subset, FS_CardinalityType, FS_EmptySet
<1>2. 0 \in Solvable
  <2>. DEFINE f == [s \in UpTo(0) |-> base]
  <2>1. \A s \in UpTo(0) : s = {}
    BY <1>1
  <2>2. f \in [UpTo(0) -> V] /\ \A s \in UpTo(0) : f[s] = Step(f, s)
    BY <2>1
  <2>. QED BY <2>2
<1>3. ASSUME NEW n \in Nat, n \in Solvable PROVE n + 1 \in Solvable
  <2>1. PICK f \in [UpTo(n) -> V] : \A s \in UpTo(n) : f[s] = Step(f, s)
    BY <1>3
  <2>. DEFINE g == [s \in UpTo(n + 1) |-> Step(f, s)]
  <2>2. ASSUME NEW s \in UpTo(n + 1), s # {}
        PROVE  chosen[s] \in s /\ s \ {chosen[s]} \in UpTo(n) /\ s \ {chosen[s]} \in UpTo(n + 1)
    <3>1. chosen[s] \in s
      BY <2>2 DEF Chooses
    <3>2. Cardinality(s \ {chosen[s]}) = Cardinality(s) - 1 /\ Cardinality(s) \in Nat
      BY <1>1, <3>1, FS_RemoveElement
    <3>. QED BY <2>2, <3>1, <3>2
  <2>3. \A s \in UpTo(n + 1) : Step(f, s) \in V
    <3>. SUFFICES ASSUME NEW s \in UpTo(n + 1), s # {} PROVE step[<<s, f[s \ {chosen[s]}]>>] \in V
      OBVIOUS
    <3>1. PICK r : r = s \ {chosen[s]}
      OBVIOUS
    <3>2. r \in UpTo(n)
      BY <2>2, <3>1
    <3>3. f[r] \in V /\ s \in SUBSET S
      BY <3>2
    <3>. QED BY <3>1, <3>3
  <2>4. g \in [UpTo(n + 1) -> V]
    <3>. HIDE DEF Step
    <3>. QED BY <2>3
  <2>5. ASSUME NEW s \in UpTo(n + 1) PROVE g[s] = Step(g, s)
    <3>1. CASE s = {}
      BY <3>1
    <3>2. CASE s # {}
      <4>1. PICK r : r = s \ {chosen[s]}
        OBVIOUS
      <4>2. r \in UpTo(n) /\ r \in UpTo(n + 1)
        BY <2>2, <3>2, <4>1
      <4>3. g[r] = f[r]
        BY <2>1, <4>2
      <4>. QED BY <3>2, <4>1, <4>3
    <3>. QED BY <3>1, <3>2
  <2>6. \E h \in [UpTo(n + 1) -> V] : \A s \in UpTo(n + 1) : h[s] = Step(h, s)
    <3>. HIDE DEF g, UpTo
    <3>. WITNESS g \in [UpTo(n + 1) -> V]
    <3>. QED BY <2>5
  <2>7. PICK m \in Nat : m = n + 1
    OBVIOUS
  <2>8. \E h \in [UpTo(m) -> V] : \A s \in UpTo(m) : h[s] = Step(h, s)
    <3>. HIDE DEF UpTo, Step
    <3>. QED BY <2>6, <2>7
  <2>9. m \in Solvable
    <3>. HIDE DEF UpTo
    <3>. QED BY <2>8
  <2>. HIDE DEF Solvable
  <2>. QED BY <2>7, <2>9
<1>4. Cardinality(S) \in Solvable /\ UpTo(Cardinality(S)) = SUBSET S
  <2>1. Cardinality(S) \in Nat /\ UpTo(Cardinality(S)) = SUBSET S
    BY <1>1
  <2>. HIDE DEF Solvable
  <2>. QED BY <1>2, <1>3, <2>1, NaturalInduction
<1>. QED BY <1>4 DEF IsFold

-----------------------------------------------------------------------------
(* The sum of what g gives for the elements of S. *)
SumOf(g, S) == MapThenSumSet(LAMBDA v : g[v], S)
AnyOf(s) == CHOOSE x \in s : TRUE
Summable(g, S) == IsFiniteSet(S) /\ \A v \in S : g[v] \in Int
Sums(f, g, S) ==
  \A s \in SUBSET S : f[s] = IF s = {} THEN 0 ELSE g[AnyOf(s)] + f[s \ {AnyOf(s)}]
IsSum(f, g, S) == f \in [SUBSET S -> Int] /\ Sums(f, g, S)

LEMMA SummableWithin == \A g, S : Summable(g, S) => \A T \in SUBSET S : Summable(g, T)
BY FS_Subset DEF Summable

LEMMA SumExists ==
  ASSUME NEW S, NEW g, Summable(g, S)
  PROVE  \E f : IsSum(f, g, S)
<1>1. PICK chosen : chosen = [s \in SUBSET S |-> AnyOf(s)]
  OBVIOUS
<1>2. PICK V, zero : V = Int /\ zero = 0
  OBVIOUS
<1>3. PICK step : step = [p \in (SUBSET S) \X Int |->
                            IF p[1] = {} THEN 0 ELSE g[AnyOf(p[1])] + p[2]]
  OBVIOUS
<1>4. \A s \in SUBSET S : s # {} => AnyOf(s) \in s
  BY DEF AnyOf
<1>5. step \in [(SUBSET S) \X Int -> Int]
  <2>1. ASSUME NEW p \in (SUBSET S) \X Int
        PROVE  (IF p[1] = {} THEN 0 ELSE g[AnyOf(p[1])] + p[2]) \in Int
    <3>1. p[1] \in SUBSET S /\ p[2] \in Int
      OBVIOUS
    <3>. QED BY <1>4, <3>1 DEF Summable
  <2>. QED BY <1>3, <2>1
<1>6. PICK f : IsFold(f, S, V, zero, step, chosen)
  <2>0. IsFiniteSet(S)
    BY DEF Summable
  <2>1. Chooses(chosen, S)
    BY <1>1, <1>4 DEF Chooses
  <2>2. step \in [(SUBSET S) \X V -> V] /\ zero \in V
    BY <1>2, <1>5
  <2>. QED BY ONLY <2>0, <2>1, <2>2, FoldExists
<1>7. f \in [SUBSET S -> Int]
  BY <1>2, <1>6 DEF IsFold
<1>8. ASSUME NEW s \in SUBSET S
      PROVE  f[s] = IF s = {} THEN 0 ELSE g[AnyOf(s)] + f[s \ {AnyOf(s)}]
  <2>1. CASE s = {}
    BY <1>2, <1>6, <2>1 DEF IsFold
  <2>2. CASE s # {}
    <3>1. PICK r \in SUBSET S : r = s \ {AnyOf(s)}
      OBVIOUS
    <3>2. f[r] \in Int /\ f[s] = step[<<s, f[r]>>]
      BY <1>1, <1>6, <1>7, <2>2, <3>1 DEF IsFold
    <3>. QED BY <1>3, <2>2, <3>1, <3>2
  <2>. QED BY <2>1, <2>2
<1>. QED BY <1>7, <1>8 DEF IsSum, Sums

LEMMA SumIsFold ==
  ASSUME NEW S, NEW g, Summable(g, S)
  PROVE  \E f : IsSum(f, g, S) /\ SumOf(g, S) = f[S]
<1>. DEFINE Fold(f, T) ==
       [s \in SUBSET T |->
          IF s = {} THEN 0
          ELSE g[CHOOSE x \in s : TRUE] + f[s \ {CHOOSE x \in s : TRUE}]]
            sum == CHOOSE f : f = Fold(f, S)
<1>1. PICK f : IsSum(f, g, S)
  BY SumExists
<1>2. f = Fold(f, S)
  BY <1>1 DEF IsSum, Sums, AnyOf
<1>3. sum = Fold(sum, S)
  <2>. HIDE DEF Fold
  <2>. QED BY <1>2
<1>4. SumOf(g, S) = sum[S]
  BY DEF SumOf, MapThenSumSet, MapThenFoldSet
<1>5. PICK h : h = sum
  OBVIOUS
<1>6. h = Fold(h, S)
  <2>. HIDE DEF sum, Fold
  <2>. QED BY <1>3, <1>5
<1>. HIDE DEF sum
<1>7. \A s \in SUBSET S : h[s] = IF s = {} THEN 0 ELSE g[AnyOf(s)] + h[s \ {AnyOf(s)}]
  BY <1>6 DEF AnyOf
<1>. HIDE DEF Fold
<1>8. PICK Same : Same = {s \in SUBSET S : h[s] = f[s]}
  OBVIOUS
<1>9. ASSUME NEW s \in SUBSET S, \A x \in s : s \ {x} \in Same PROVE s \in Same
  <2>1. CASE s = {}
    BY <1>1, <1>7, <1>8, <2>1 DEF IsSum, Sums
  <2>2. CASE s # {}
    <3>1. AnyOf(s) \in s
      BY <2>2 DEF AnyOf
    <3>2. PICK r : r = s \ {AnyOf(s)}
      OBVIOUS
    <3>3. h[r] = f[r]
      BY <1>8, <1>9, <3>1, <3>2
    <3>. QED BY <1>1, <1>7, <1>8, <2>2, <3>2, <3>3 DEF IsSum, Sums
  <2>. QED BY <2>1, <2>2
<1>10. SUBSET S \subseteq Same
  <2>1. IsFiniteSet(S)
    BY DEF Summable
  <2>. QED BY ONLY <2>1, <1>9, SubsetInduction
<1>. QED BY <1>1, <1>4, <1>5, <1>8, <1>10

(* The sum does not depend on the order in which the elements are chosen.  *)
LEMMA SumRemove ==
  ASSUME NEW S, NEW g, Summable(g, S),
         NEW f, IsSum(f, g, S)
  PROVE  \A s \in SUBSET S : \A x \in s : f[s] = g[x] + f[s \ {x}]
<1>. DEFINE Good == {s \in SUBSET S : \A x \in s : f[s] = g[x] + f[s \ {x}]}
<1>1. ASSUME NEW s \in SUBSET S, \A x \in s : s \ {x} \in Good PROVE s \in Good
  <2>. SUFFICES ASSUME NEW x \in s PROVE f[s] = g[x] + f[s \ {x}]
    OBVIOUS
  <2>1. PICK y \in s : y = AnyOf(s)
    BY DEF AnyOf
  <2>2. f[s] = g[y] + f[s \ {y}]
    BY <2>1 DEF IsSum, Sums
  <2>3. CASE x = y
    BY <2>2, <2>3
  <2>4. CASE x # y
    <3>1. PICK both : both = (s \ {y}) \ {x}
      OBVIOUS
    <3>2. both = (s \ {x}) \ {y} /\ both \in SUBSET S
      BY <3>1
    <3>3. PICK p, q : p = s \ {x} /\ q = s \ {y}
      OBVIOUS
    <3>4. f[q] = g[x] + f[both]
      <4>1. q \in Good /\ x \in q
        BY <1>1, <2>4, <3>3
      <4>. QED BY <3>1, <3>3, <4>1
    <3>5. f[p] = g[y] + f[both]
      <4>1. p \in Good /\ y \in p
        BY <1>1, <2>4, <3>3
      <4>. QED BY <3>2, <3>3, <4>1
    <3>6. f[both] \in Int /\ g[x] \in Int /\ g[y] \in Int
      BY <3>2 DEF IsSum, Sums, Summable
    <3>. QED BY <2>2, <3>3, <3>4, <3>5, <3>6
  <2>. QED BY <2>3, <2>4
<1>. HIDE DEF Good
<1>2. SUBSET S \subseteq Good
  <2>1. \A s \in SUBSET S : (\A x \in s : s \ {x} \in Good) => s \in Good
    BY <1>1
  <2>2. IsFiniteSet(S)
    BY DEF Summable
  <2>. QED BY ONLY <2>1, <2>2, SubsetInduction
<1>. QED BY <1>2 DEF Good

(* The sum over a subset is part of the fold over the set. *)
LEMMA SumUnique ==
  ASSUME NEW S, NEW g, Summable(g, S),
         NEW U \in SUBSET S, NEW h, Sums(h, g, U)
  PROVE  SumOf(g, U) = h[U]
<1>1. IsFiniteSet(U) /\ Summable(g, U)
  BY SummableWithin DEF Summable
<1>2. PICK f : IsSum(f, g, U) /\ SumOf(g, U) = f[U]
  BY <1>1, SumIsFold
<1>3. PICK Same : Same = {s \in SUBSET U : h[s] = f[s]}
  OBVIOUS
<1>4. ASSUME NEW s \in SUBSET U, \A x \in s : s \ {x} \in Same PROVE s \in Same
  <2>1. CASE s = {}
    BY <1>2, <1>3, <2>1 DEF IsSum, Sums
  <2>2. CASE s # {}
    <3>1. AnyOf(s) \in s
      BY <2>2 DEF AnyOf
    <3>2. PICK r : r = s \ {AnyOf(s)}
      OBVIOUS
    <3>3. h[r] = f[r]
      BY <1>3, <1>4, <3>1, <3>2
    <3>. QED BY <1>2, <1>3, <2>2, <3>2, <3>3 DEF IsSum, Sums
  <2>. QED BY <2>1, <2>2
<1>5. SUBSET U \subseteq Same
  BY ONLY <1>1, <1>4, SubsetInduction
<1>. QED BY <1>2, <1>3, <1>5

(* A sum is that of any one and the rest. *)
LEMMA SumFacts ==
  ASSUME NEW S, NEW g, Summable(g, S)
  PROVE  /\ SumOf(g, S) \in Int
         /\ S = {} => SumOf(g, S) = 0
         /\ \A x \in S : SumOf(g, S) = g[x] + SumOf(g, S \ {x})
<1>1. PICK f : IsSum(f, g, S) /\ SumOf(g, S) = f[S]
  BY SumIsFold
<1>2. f[S] \in Int /\ (S = {} => f[S] = 0)
  BY <1>1 DEF IsSum, Sums
<1>3. ASSUME NEW x \in S PROVE f[S] = g[x] + SumOf(g, S \ {x})
  <2>1. f[S] = g[x] + f[S \ {x}]
    BY <1>1, SumRemove
  <2>2. PICK U \in SUBSET S : U = S \ {x}
    OBVIOUS
  <2>3. Sums(f, g, U)
    BY <1>1 DEF IsSum, Sums
  <2>4. SumOf(g, U) = f[U]
    BY <2>3, SumUnique
  <2>. QED BY <2>1, <2>2, <2>4
<1>. QED BY <1>1, <1>2, <1>3

LEMMA SumAgree ==
  ASSUME NEW S, NEW g, Summable(g, S), NEW h, \A v \in S : h[v] = g[v]
  PROVE  SumOf(h, S) = SumOf(g, S) /\ Summable(h, S)
<1>1. Summable(h, S)
  BY DEF Summable
<1>2. PICK f : IsSum(f, h, S) /\ SumOf(h, S) = f[S]
  BY <1>1, SumIsFold
<1>3. PICK U \in SUBSET S : U = S
  OBVIOUS
<1>4. Sums(f, g, U)
  <2>1. \A s \in SUBSET S : s # {} => h[AnyOf(s)] = g[AnyOf(s)]
    BY DEF AnyOf
  <2>. QED BY <1>2, <1>3, <2>1 DEF IsSum, Sums
<1>5. SumOf(g, U) = f[U]
  BY <1>4, SumUnique
<1>. QED BY <1>1, <1>2, <1>3, <1>5

(* Where one of the numbers changes, the sum changes by as much. *)
LEMMA SumChanges ==
  ASSUME NEW S, NEW g, Summable(g, S),
         NEW h, NEW x \in S, h[x] \in Int, \A v \in S \ {x} : h[v] = g[v]
  PROVE  SumOf(h, S) = SumOf(g, S) + (h[x] - g[x]) /\ Summable(h, S)
<1>1. PICK U : U = S \ {x}
  OBVIOUS
<1>2. Summable(g, U) /\ Summable(h, S)
  BY <1>1, SummableWithin DEF Summable
<1>3. SumOf(h, U) = SumOf(g, U) /\ SumOf(g, U) \in Int
  BY <1>1, <1>2, SumAgree, SumFacts
<1>4. SumOf(g, S) = g[x] + SumOf(g, U) /\ g[x] \in Int
  BY <1>1, SumFacts DEF Summable
<1>5. SumOf(h, S) = h[x] + SumOf(h, U)
  BY <1>1, <1>2, SumFacts
<1>. QED BY <1>2, <1>3, <1>4, <1>5

(* Sums of numbers from 0 on, and over disjoint sets. *)
LEMMA SumNatural ==
  ASSUME NEW S, NEW g, Summable(g, S), \A v \in S : g[v] \in Nat
  PROVE  SumOf(g, S) \in Nat
<1>1. PICK Good : Good = {s \in SUBSET S : SumOf(g, s) \in Nat}
  OBVIOUS
<1>2. ASSUME NEW s \in SUBSET S, \A x \in s : s \ {x} \in Good PROVE s \in Good
  <2>1. Summable(g, s)
    BY SummableWithin
  <2>2. CASE s = {}
    BY <1>1, <2>1, <2>2, SumFacts
  <2>3. CASE s # {}
    <3>1. PICK x \in s : TRUE
      BY <2>3
    <3>2. SumOf(g, s) = g[x] + SumOf(g, s \ {x})
      BY <2>1, SumFacts
    <3>3. SumOf(g, s \ {x}) \in Nat /\ g[x] \in Nat
      BY <1>1, <1>2
    <3>. QED BY <1>1, <3>2, <3>3
  <2>. QED BY <2>2, <2>3
<1>3. IsFiniteSet(S)
  BY DEF Summable
<1>4. SUBSET S \subseteq Good
  BY ONLY <1>3, <1>2, SubsetInduction
<1>. QED BY <1>1, <1>4

LEMMA SumUnion ==
  ASSUME NEW S, NEW g, Summable(g, S), NEW T \in SUBSET S
  PROVE  SumOf(g, S) = SumOf(g, T) + SumOf(g, S \ T)
<1>1. PICK Good : Good = {s \in SUBSET S : SumOf(g, s) = SumOf(g, s \cap T) + SumOf(g, s \ T)}
  OBVIOUS
<1>2. ASSUME NEW s \in SUBSET S, \A x \in s : s \ {x} \in Good PROVE s \in Good
  <2>1. CASE s = {}
    <3>1. s \cap T = {} /\ s \ T = {} /\ Summable(g, s) /\ s \in SUBSET S
      BY <2>1, SummableWithin
    <3>2. SumOf(g, s) = 0
      BY <2>1, <3>1, SumFacts
    <3>. QED BY <1>1, <2>1, <3>1, <3>2
  <2>2. CASE s # {}
    <3>1. PICK x \in s : TRUE
      BY <2>2
    <3>2. PICK r, p, q : r = s \ {x} /\ p = s \cap T /\ q = s \ T
      OBVIOUS
    <3>3. Summable(g, s) /\ Summable(g, p) /\ Summable(g, q) /\ Summable(g, p \ {x})
          /\ Summable(g, q \ {x})
      BY <3>2, SummableWithin
    <3>4. SumOf(g, s) = g[x] + SumOf(g, r) /\ g[x] \in Int
      BY <3>2, <3>3, SumFacts DEF Summable
    <3>0. PICK a, b : a = r \cap T /\ b = r \ T
      OBVIOUS
    <3>5. SumOf(g, r) = SumOf(g, a) + SumOf(g, b)
      BY <1>1, <1>2, <3>0, <3>2
    <3>6. CASE x \in T
      <4>0. PICK rest : rest = p \ {x}
        OBVIOUS
      <4>1. a = rest /\ b = q /\ x \in p
        BY <3>0, <3>2, <3>6, <4>0
      <4>2. /\ SumOf(g, p) = g[x] + SumOf(g, rest)
            /\ SumOf(g, rest) \in Int /\ SumOf(g, q) \in Int
        BY <3>3, <4>0, <4>1, SumFacts
      <4>3. SumOf(g, s) = SumOf(g, p) + SumOf(g, q)
        BY <3>4, <3>5, <4>1, <4>2
      <4>. QED BY <1>1, <3>2, <4>3
    <3>7. CASE x \notin T
      <4>0. PICK rest : rest = q \ {x}
        OBVIOUS
      <4>1. b = rest /\ a = p /\ x \in q
        BY <3>0, <3>2, <3>7, <4>0
      <4>2. /\ SumOf(g, q) = g[x] + SumOf(g, rest)
            /\ SumOf(g, rest) \in Int /\ SumOf(g, p) \in Int
        BY <3>3, <4>0, <4>1, SumFacts
      <4>3. SumOf(g, s) = SumOf(g, p) + SumOf(g, q)
        BY <3>4, <3>5, <4>1, <4>2
      <4>. QED BY <1>1, <3>2, <4>3
    <3>. QED BY <3>6, <3>7
  <2>. QED BY <2>1, <2>2
<1>3. IsFiniteSet(S)
  BY DEF Summable
<1>4. SUBSET S \subseteq Good
  BY ONLY <1>3, <1>2, SubsetInduction
<1>5. S \cap T = T
  OBVIOUS
<1>. QED BY <1>1, <1>4, <1>5
-----------------------------------------------------------------------------
(***************************************************************************)
(* Sorted samples, which are kept as how often each value occurs.          *)
(***************************************************************************)
LEMMA Extremes ==
  ASSUME NEW S \in SUBSET Int, IsFiniteSet(S), S # {}
  PROVE  /\ \E x \in S : \A y \in S : y <= x
         /\ \E x \in S : \A y \in S : x <= y
<1>1. PICK Good : Good = {s \in SUBSET S : s # {} => /\ \E x \in s : \A y \in s : y <= x
                                                    /\ \E x \in s : \A y \in s : x <= y}
  OBVIOUS
<1>2. ASSUME NEW s \in SUBSET S, \A x \in s : s \ {x} \in Good PROVE s \in Good
  <2>. SUFFICES ASSUME s # {}
                PROVE  /\ \E x \in s : \A y \in s : y <= x
                       /\ \E x \in s : \A y \in s : x <= y
    BY <1>1
  <2>1. PICK z \in s : TRUE
    OBVIOUS
  <2>2. PICK r : r = s \ {z}
    OBVIOUS
  <2>3. r \in Good /\ r \subseteq Int /\ z \in Int
    BY <1>2, <2>2
  <2>4. CASE r = {}
    <3>1. s = {z}
      BY <2>2, <2>4
    <3>. QED BY <2>3, <3>1
  <2>5. CASE r # {}
    <3>1. PICK a \in r : \A y \in r : y <= a
      BY <1>1, <2>3, <2>5
    <3>2. PICK b \in r : \A y \in r : b <= y
      BY <1>1, <2>3, <2>5
    <3>3. \A y \in s : y = z \/ y \in r
      BY <2>2
    <3>4. \E x \in s : \A y \in s : y <= x
      <4>1. CASE a <= z
        BY <2>2, <2>3, <3>1, <3>3, <4>1
      <4>2. CASE ~ (a <= z)
        BY <2>2, <2>3, <3>1, <3>3, <4>2
      <4>. QED BY <4>1, <4>2
    <3>5. \E x \in s : \A y \in s : x <= y
      <4>1. CASE z <= b
        BY <2>2, <2>3, <3>2, <3>3, <4>1
      <4>2. CASE ~ (z <= b)
        BY <2>2, <2>3, <3>2, <3>3, <4>2
      <4>. QED BY <4>1, <4>2
    <3>. QED BY <3>4, <3>5
  <2>. QED BY <2>4, <2>5
<1>3. PICK T : T = S
  OBVIOUS
<1>4. SUBSET S \subseteq Good
  <2>1. \A s \in SUBSET T : (\A x \in s : s \ {x} \in Good) => s \in Good
    BY <1>2, <1>3
  <2>2. IsFiniteSet(T)
    BY <1>3
  <2>3. SUBSET T \subseteq Good
    BY ONLY <2>1, <2>2, SubsetInduction
  <2>. QED BY <1>3, <2>3
<1>. QED BY <1>1, <1>4

Samples(m) == /\ IsFiniteSet(DOMAIN m) /\ DOMAIN m \subseteq Int
              /\ \A v \in DOMAIN m : m[v] \in Nat
SampledBelow(m, x) == {v \in DOMAIN m : v < x}
SampledAbove(m, x) == {v \in DOMAIN m : v > x}

LEMMA CountsAreSums ==
  ASSUME NEW m
  PROVE  /\ Size(m) = SumOf(m, DOMAIN m)
         /\ \A x : Below(m, x) = SumOf(m, SampledBelow(m, x))
         /\ \A x : Above(m, x) = SumOf(m, SampledAbove(m, x))
<1>1. Size(m) = SumOf(m, {v \in DOMAIN m : TRUE})
  BY DEF Size, Count, SumOf
<1>2. ASSUME NEW x PROVE Below(m, x) = SumOf(m, SampledBelow(m, x))
  BY DEF Below, Count, SumOf, SampledBelow
<1>3. ASSUME NEW x PROVE Above(m, x) = SumOf(m, SampledAbove(m, x))
  BY DEF Above, Count, SumOf, SampledAbove
<1>4. PICK D : D = {v \in DOMAIN m : TRUE}
  OBVIOUS
<1>5. D = DOMAIN m
  BY <1>4
<1>. QED BY <1>1, <1>2, <1>3, <1>4, <1>5

(* The samples are those below a value, those of the value and those above *)
(* it; what is below a greater value contains the first two.               *)
LEMMA CountsAddUp ==
  ASSUME NEW m, Samples(m), NEW x \in DOMAIN m
  PROVE  /\ Size(m) \in Nat /\ Below(m, x) \in Nat /\ Above(m, x) \in Nat
         /\ Size(m) = Below(m, x) + m[x] + Above(m, x)
         /\ \A y \in DOMAIN m : x < y => Below(m, x) + m[x] <= Below(m, y)
<1>1. PICK D, b, a, r : /\ D = DOMAIN m /\ b = SampledBelow(m, x) /\ a = SampledAbove(m, x)
                        /\ r = D \ b
  OBVIOUS
<1>2. Summable(m, D) /\ Summable(m, b) /\ Summable(m, a) /\ Summable(m, r)
  <2>1. Summable(m, D)
    BY <1>1 DEF Samples, Summable
  <2>2. b \in SUBSET D /\ a \in SUBSET D /\ r \in SUBSET D
    BY <1>1 DEF SampledBelow, SampledAbove
  <2>. QED BY <2>1, <2>2, SummableWithin
<1>3. SumOf(m, D) = SumOf(m, b) + SumOf(m, r)
  BY <1>1, <1>2, SumUnion DEF SampledBelow
<1>4. SumOf(m, r) = m[x] + SumOf(m, a)
  <2>1. x \in r /\ a = r \ {x}
    BY <1>1 DEF SampledBelow, SampledAbove, Samples
  <2>2. SumOf(m, r) = m[x] + SumOf(m, r \ {x})
    BY <1>2, <2>1, SumFacts
  <2>. QED BY <2>1, <2>2
<1>5. SumOf(m, D) \in Nat /\ SumOf(m, b) \in Nat /\ SumOf(m, a) \in Nat /\ m[x] \in Nat
  <2>1. /\ \A v \in D : m[v] \in Nat
        /\ \A v \in b : m[v] \in Nat
        /\ \A v \in a : m[v] \in Nat
    BY <1>1 DEF Samples, SampledBelow, SampledAbove
  <2>. QED BY <1>1, <1>2, <2>1, SumNatural
<1>6. Size(m) = SumOf(m, D) /\ Below(m, x) = SumOf(m, b) /\ Above(m, x) = SumOf(m, a)
  BY <1>1, CountsAreSums
<1>7. ASSUME NEW y \in DOMAIN m, x < y PROVE Below(m, x) + m[x] <= Below(m, y)
  <2>1. PICK c, d, e : c = SampledBelow(m, y) /\ d = c \ {x} /\ e = d \ b
    OBVIOUS
  <2>2. x \in c /\ b \in SUBSET d /\ c \in SUBSET D /\ d \in SUBSET D /\ e \in SUBSET D
    BY <1>1, <1>7, <2>1 DEF SampledBelow, Samples
  <2>3. Summable(m, c) /\ Summable(m, d) /\ Summable(m, e)
    BY <1>2, <2>2, SummableWithin
  <2>4. SumOf(m, c) = m[x] + SumOf(m, d)
    BY <2>1, <2>2, <2>3, SumFacts
  <2>5. SumOf(m, d) = SumOf(m, b) + SumOf(m, e)
    BY <2>1, <2>2, <2>3, SumUnion
  <2>6. SumOf(m, e) \in Nat
    <3>1. \A v \in e : m[v] \in Nat
      BY <1>1, <2>2 DEF Samples
    <3>. QED BY <2>3, <3>1, SumNatural
  <2>7. Below(m, y) = SumOf(m, c)
    BY <2>1, CountsAreSums
  <2>. QED BY <1>5, <1>6, <2>4, <2>5, <2>6, <2>7
<1>. QED BY <1>3, <1>4, <1>5, <1>6, <1>7

(* There is a sample at every index of the sorted samples. *)
LEMMA AtEveryIndex ==
  ASSUME NEW m, Samples(m), NEW i \in Nat, i < Size(m)
  PROVE  At(m, i) # {}
<1>1. Size(m) = SumOf(m, DOMAIN m) /\ Summable(m, DOMAIN m) /\ DOMAIN m \in SUBSET Int
  BY CountsAreSums DEF Samples, Summable
<1>2. DOMAIN m # {}
  <2>. SUFFICES ASSUME DOMAIN m = {} PROVE FALSE
    OBVIOUS
  <2>1. PICK D : D = DOMAIN m
    OBVIOUS
  <2>2. SumOf(m, D) = 0
    BY <1>1, <2>1, SumFacts
  <2>. QED BY <1>1, <2>1, <2>2
<1>3. PICK C : C = {v \in DOMAIN m : Below(m, v) <= i}
  OBVIOUS
<1>4. C # {}
  <2>1. PICK u \in DOMAIN m : \A y \in DOMAIN m : u <= y
    BY <1>1, <1>2, Extremes DEF Samples
  <2>2. PICK b : b = SampledBelow(m, u)
    OBVIOUS
  <2>3. b = {} /\ Summable(m, b)
    <3>1. b = {}
      BY <1>1, <2>1, <2>2 DEF SampledBelow
    <3>. QED BY <1>1, <3>1, SummableWithin
  <2>4. SumOf(m, b) = 0
    BY <2>3, SumFacts
  <2>5. Below(m, u) = 0
    BY <2>2, <2>4, CountsAreSums
  <2>. QED BY <1>3, <2>1, <2>5
<1>5. PICK x \in C : \A y \in C : y <= x
  <2>1. C \in SUBSET Int /\ IsFiniteSet(C)
    BY <1>1, <1>3, FS_Subset DEF Samples
  <2>. QED BY <1>4, <2>1, Extremes
<1>6. x \in DOMAIN m /\ Below(m, x) <= i /\ Below(m, x) \in Nat /\ m[x] \in Nat
  BY <1>3, <1>5, CountsAddUp DEF Samples
<1>7. i < Below(m, x) + m[x]
  <2>1. PICK a : a = SampledAbove(m, x)
    OBVIOUS
  <2>2. a \in SUBSET (DOMAIN m) /\ a \in SUBSET Int /\ IsFiniteSet(a) /\ Summable(m, a)
    BY <1>1, <2>1, FS_Subset, SummableWithin DEF SampledAbove, Samples
  <2>3. CASE a = {}
    <3>1. SumOf(m, a) = 0
      BY <2>2, <2>3, SumFacts
    <3>2. Above(m, x) = 0
      BY <2>1, <3>1, CountsAreSums
    <3>. QED BY <1>6, <3>2, CountsAddUp
  <2>4. CASE a # {}
    <3>1. PICK w \in a : \A y \in a : w <= y
      BY <2>2, <2>4, Extremes
    <3>2. PICK b, c : b = SampledBelow(m, x) /\ c = SampledBelow(m, w)
      OBVIOUS
    <3>3. x \in c /\ b = c \ {x}
      BY <1>1, <1>6, <2>1, <2>2, <3>1, <3>2 DEF SampledBelow, SampledAbove
    <3>4. Summable(m, c)
      BY <1>1, <3>2, SummableWithin DEF SampledBelow
    <3>5. SumOf(m, c) = m[x] + SumOf(m, c \ {x})
      BY <3>3, <3>4, SumFacts
    <3>6. Below(m, w) = m[x] + Below(m, x)
      BY <3>2, <3>3, <3>5, CountsAreSums
    <3>7. w \notin C /\ w \in DOMAIN m
      <4>1. w > x
        BY <2>1, <3>1 DEF SampledAbove
      <4>. QED BY <1>1, <1>5, <1>6, <2>2, <3>1, <4>1
    <3>. QED BY <1>3, <1>6, <3>6, <3>7
  <2>. QED BY <2>3, <2>4
<1>. QED BY <1>6, <1>7 DEF At

(* Percentiles exist and rank as they should, at every percentage there is *)
(* an index for.                                                           *)
LEMMA PercentilesRank ==
  ASSUME NEW m, Samples(m), Size(m) > 0, NEW percent \in 0 .. 99
  PROVE  RanksFromAbove(m, percent) /\ RanksFromBelow(m, percent)
<1>1. PICK size : size = Size(m)
  OBVIOUS
<1>2. size \in Nat /\ size > 0
  <2>1. DOMAIN m # {}
    <3>. SUFFICES ASSUME DOMAIN m = {} PROVE FALSE
      OBVIOUS
    <3>1. PICK D : D = DOMAIN m
      OBVIOUS
    <3>2. SumOf(m, D) = 0
      BY <3>1, SumFacts DEF Samples, Summable
    <3>. QED BY <3>1, <3>2, CountsAreSums
  <2>. QED BY <1>1, <2>1, CountsAddUp
<1>3. PICK i : i = Index(size, percent)
  OBVIOUS
<1>4. i \in Nat /\ i < size /\ i * 100 <= size * percent /\ size * percent < (i + 1) * 100
  <2>1. PICK product : product = size * percent
    OBVIOUS
  <2>2. product \in Nat /\ product <= size * 99
    BY <1>2, <2>1
  <2>3. i = product \div 100
    BY <1>3, <2>1 DEF Index
  <2>. QED BY <1>2, <2>1, <2>2, <2>3
<1>5. PICK x \in At(m, i) : TRUE
  BY <1>1, <1>4, AtEveryIndex
<1>6. /\ x \in DOMAIN m /\ Below(m, x) <= i /\ i < Below(m, x) + m[x]
      /\ x \in Percentile(m, percent)
  BY <1>1, <1>3, <1>5 DEF At, Percentile
<1>7. /\ Below(m, x) \in Nat /\ Above(m, x) \in Nat /\ m[x] \in Nat
      /\ size = Below(m, x) + m[x] + Above(m, x)
  BY <1>1, <1>6, CountsAddUp DEF Samples
<1>8. Below(m, x) * 100 <= percent * size
  BY <1>2, <1>4, <1>6, <1>7
<1>9. Above(m, x) * 100 <= (100 - percent) * size
  <2>1. PICK product : product = size * percent
    OBVIOUS
  <2>2. (100 - percent) * size = 100 * size - product /\ product \in Int
    BY <1>2, <2>1
  <2>. QED BY <1>2, <1>4, <1>6, <1>7, <2>1, <2>2
<1>. QED BY <1>1, <1>6, <1>8, <1>9 DEF RanksFromAbove, RanksFromBelow

(* ... and greater percentages have greater percentiles. *)
LEMMA PercentilesOrdered ==
  ASSUME NEW m, Samples(m), NEW p \in 0 .. 99, NEW q \in 0 .. 99, p <= q,
         NEW x \in Percentile(m, p), NEW y \in Percentile(m, q)
  PROVE  x <= y
<1>1. PICK size, i, j : size = Size(m) /\ i = Index(size, p) /\ j = Index(size, q)
  OBVIOUS
<1>2. /\ x \in DOMAIN m /\ y \in DOMAIN m
      /\ Below(m, x) <= i /\ j < Below(m, y) + m[y]
  BY <1>1 DEF Percentile, At
<1>3. /\ size \in Nat /\ Below(m, x) \in Nat /\ Below(m, y) \in Nat /\ m[y] \in Nat
      /\ x \in Int /\ y \in Int
      /\ y < x => Below(m, y) + m[y] <= Below(m, x)
  BY <1>1, <1>2, CountsAddUp DEF Samples
<1>4. i \in Nat /\ j \in Nat /\ i <= j
  <2>1. PICK a, b : a = size * p /\ b = size * q
    OBVIOUS
  <2>2. a \in Nat /\ b \in Nat /\ a <= b
    BY <1>3, <2>1
  <2>3. i = a \div 100 /\ j = b \div 100
    BY <1>1, <2>1 DEF Index
  <2>. QED BY <2>2, <2>3
<1>. QED BY <1>2, <1>3, <1>4
-----------------------------------------------------------------------------
(***************************************************************************)
(* The walk-forward analysis.                                              *)
(***************************************************************************)
(* What runs was parsed. *)
Running == walk \notin {"idle", "thrown"}
RunsTheFile == /\ walk # "idle" => file \in Files
               /\ Running => config = Parse(file)

(* The loop stands where the out-of-sample ranges tested so far end.       *)
Spans ==
  /\ span.end = file.end_date
  /\ span.in_sample = file.in_sample_days
  /\ span.out_of_sample = file.out_of_sample_days
  /\ periods = <<>> => span.current = file.start_date
  /\ periods # <<>> =>
       /\ periods[1][1] = file.start_date + file.in_sample_days
       /\ periods[Len(periods)][2] = span.current + span.in_sample
       /\ periods[Len(periods)][2] <= file.end_date
  /\ \A i \in 1 .. Len(periods) - 1 : periods[i][2] = periods[i + 1][1]
LoopAtLastPeriod ==
  /\ ~ Running \/ walk = "parsed" => periods = <<>>
  /\ Running /\ walk # "parsed" /\ GivesDays => Spans
  /\ walk \in {"optimize", "test"} => PeriodFits /\ Len(periods) < MaxPeriods
  /\ walk = "done" => ~ PeriodFits

(* Each backtest's Sharpe ratio is among the results, under its key, or    *)
(* under the key of several.                                               *)
KeysDiffer == \A i, j \in DOMAIN config.ranges : ResultKey(i) = ResultKey(j) => i = j
Collected ==
  /\ test \in 1 .. Len(config.ranges) + 1 /\ Len(sharpes) = test - 1
  /\ sharpes \in Seq(SharpeRatios)
  /\ sharpes # <<>> => config.strategies # <<>>
  /\ results = [k \in DOMAIN results |-> results[k]]
  /\ DOMAIN results = {ResultKey(i) : i \in DOMAIN sharpes}
  /\ KeysDiffer => \A i \in DOMAIN sharpes : results[ResultKey(i)] = sharpes[i]
ResultsCollected == walk \in {"optimize", "test"} => Collected

WalkInv == WalkTypeOK /\ periods \in Seq(Int \X Int)
             /\ RunsTheFile /\ LoopAtLastPeriod /\ ResultsCollected
-----------------------------------------------------------------------------
(* What a parsed configuration is. *)
LEMMA ParseTypes ==
  ASSUME NEW f \in ConfigFiles
  PROVE  /\ Parse(f).member \in [Fields -> {"file", "default", "empty", "unset"}]
         /\ Parse(f).ranges \in Seq(Nat)
         /\ DOMAIN Parse(f).strategies = DOMAIN f.strategies
<1>1. \A g \in Fields : Parsed(f, g) \in {"file", "default", "empty", "unset"}
  BY DEF Parsed, Initial
<1>2. f.ranges \in Seq(Nat)
  BY DEF ConfigFiles
<1>. QED BY <1>1, <1>2 DEF Parse

(* The days a file gives are what the analysis begins with. *)
LEMMA DaysGiven ==
  ASSUME file \in ConfigFiles, config = Parse(file), GivesDays,
         NEW name \in {"start_date", "end_date", "in_sample_days", "out_of_sample_days"}
  PROVE  Days(name) = {file[name]}
<1>1. <<"walk_forward", name>> \in Fields
  BY DEF Fields, Texts, Whole
<1>2. Parsed(file, <<"walk_forward", name>>) = "file"
  BY <1>1 DEF Parsed, GivesDays, Complete, Overlooked, DynamicSizing
<1>. QED BY <1>1, <1>2 DEF Days, Parse

LEMMA DaysInteger ==
  ASSUME file \in ConfigFiles,
         NEW name \in {"start_date", "end_date", "in_sample_days", "out_of_sample_days"}
  PROVE  Days(name) \subseteq Int
<1>1. file[name] \in Int
  BY DEF ConfigFiles
<1>. QED BY <1>1, WalkForwardAssumption DEF Days

LEMMA AppendFacts ==
  ASSUME NEW S, NEW s \in Seq(S), NEW e \in S
  PROVE  /\ Append(s, e) \in Seq(S)
         /\ DOMAIN s = 1 .. Len(s) /\ Len(s) \in Nat
         /\ Len(Append(s, e)) = Len(s) + 1
         /\ DOMAIN Append(s, e) = 1 .. Len(s) + 1
         /\ \A i \in 1 .. Len(s) : Append(s, e)[i] = s[i]
         /\ Append(s, e)[Len(s) + 1] = e
BY AppendProperties, LenProperties
-----------------------------------------------------------------------------
(* The invariant, action by action. *)
LEMMA WalkParse == WalkInv /\ ParseFile => WalkInv'
<1>. SUFFICES ASSUME WalkInv, ParseFile PROVE WalkInv'
  OBVIOUS
<1>1. /\ walk = "idle" /\ file' \in Files /\ walk' \in {"thrown", "parsed"}
      /\ walk' = "parsed" => config' = Parse(file')
      /\ span' = span /\ periods' = periods
  BY DEF ParseFile, period_vars
<1>2. RunsTheFile'
  BY <1>1 DEF RunsTheFile, Running
<1>3. WalkTypeOK'
  <2>1. walk' = "parsed" => config'.member \in [Fields -> {"file", "default", "empty", "unset"}]
    BY <1>1, ParseTypes, WalkForwardAssumption
  <2>. QED BY <1>1, <2>1 DEF WalkInv, WalkTypeOK
<1>4. LoopAtLastPeriod' /\ ResultsCollected' /\ (periods \in Seq(Int \X Int))'
  BY <1>1 DEF WalkInv, LoopAtLastPeriod, Running, ResultsCollected
<1>. QED BY <1>2, <1>3, <1>4 DEF WalkInv

LEMMA WalkRun == WalkInv /\ RunAnalyzer => WalkInv'
<1>. SUFFICES ASSUME WalkInv, RunAnalyzer PROVE WalkInv'
  OBVIOUS
<1>1. /\ walk = "parsed" /\ walk' = "loop"
      /\ UNCHANGED <<file, config, periods>>
      /\ span' \in [current : Days("start_date"), end : Days("end_date"),
                    in_sample : Days("in_sample_days"),
                    out_of_sample : Days("out_of_sample_days")]
  BY DEF RunAnalyzer
<1>2. file \in ConfigFiles /\ config = Parse(file) /\ periods = <<>>
  BY <1>1, WalkForwardAssumption DEF WalkInv, RunsTheFile, Running, LoopAtLastPeriod
<1>3. span' \in [current : Int, end : Int, in_sample : Int, out_of_sample : Int]
  BY <1>1, <1>2, DaysInteger
<1>4. GivesDays => /\ span'.current = file.start_date
                   /\ span'.end = file.end_date
                   /\ span'.in_sample = file.in_sample_days
                   /\ span'.out_of_sample = file.out_of_sample_days
  <2>. SUFFICES ASSUME GivesDays
                PROVE  /\ span'.current = file.start_date
                       /\ span'.end = file.end_date
                       /\ span'.in_sample = file.in_sample_days
                       /\ span'.out_of_sample = file.out_of_sample_days
    OBVIOUS
  <2>1. /\ Days("start_date") = {file.start_date}
        /\ Days("end_date") = {file.end_date}
        /\ Days("in_sample_days") = {file.in_sample_days}
        /\ Days("out_of_sample_days") = {file.out_of_sample_days}
    BY <1>2, DaysGiven
  <2>. QED BY <1>1, <2>1
<1>5. GivesDays' <=> GivesDays
  BY <1>1 DEF GivesDays
<1>6. LoopAtLastPeriod'
  BY <1>1, <1>2, <1>4, <1>5 DEF LoopAtLastPeriod, Running, Spans
<1>7. WalkTypeOK' /\ RunsTheFile' /\ ResultsCollected' /\ (periods \in Seq(Int \X Int))'
  BY <1>1, <1>3 DEF WalkInv, WalkTypeOK, RunsTheFile, Running, ResultsCollected
<1>. QED BY <1>6, <1>7 DEF WalkInv

LEMMA WalkBegin == WalkInv /\ BeginPeriod => WalkInv'
<1>. SUFFICES ASSUME WalkInv, BeginPeriod PROVE WalkInv'
  OBVIOUS
<1>1. /\ walk = "loop" /\ walk' = "optimize" /\ PeriodFits /\ Len(periods) < MaxPeriods
      /\ UNCHANGED <<file, config, data_opens, span, periods>>
      /\ test' = 1 /\ results' = <<>> /\ sharpes' = <<>>
  BY DEF BeginPeriod
<1>2. config.ranges \in Seq(Nat)
  BY <1>1, ParseTypes, WalkForwardAssumption DEF WalkInv, RunsTheFile, Running
<1>3. PeriodFits' /\ (GivesDays' <=> GivesDays)
  BY <1>1 DEF PeriodFits, GivesDays
<1>4. LoopAtLastPeriod'
  <2>1. GivesDays => Spans
    BY <1>1 DEF WalkInv, LoopAtLastPeriod, Running
  <2>2. Spans => Spans'
    BY <1>1 DEF Spans
  <2>. QED BY <1>1, <1>3, <2>1, <2>2 DEF LoopAtLastPeriod, Running
<1>5. Collected'
  <2>1. Len(config.ranges) \in Nat
    BY <1>2
  <2>. QED BY <1>1, <2>1 DEF Collected
<1>6. WalkTypeOK' /\ RunsTheFile' /\ (periods \in Seq(Int \X Int))'
  BY <1>1, <1>2 DEF WalkInv, WalkTypeOK, RunsTheFile, Running
<1>. QED BY <1>4, <1>5, <1>6 DEF WalkInv, ResultsCollected

LEMMA WalkRunTest == WalkInv /\ RunTest => WalkInv'
<1>. SUFFICES ASSUME WalkInv, RunTest PROVE WalkInv'
  OBVIOUS
<1>1. /\ walk = "optimize" /\ test <= Len(config.ranges)
      /\ UNCHANGED <<file, config, data_opens, span, periods>>
      /\ walk' \in {"optimize", "undefined"}
      /\ walk' = "undefined" => UNCHANGED period_vars
  BY DEF RunTest
<1>2. config.ranges \in Seq(Nat) /\ Collected /\ DOMAIN config.ranges = 1 .. Len(config.ranges)
  BY <1>1, ParseTypes, WalkForwardAssumption
     DEF WalkInv, RunsTheFile, Running, ResultsCollected
<1>3. (GivesDays' <=> GivesDays) /\ (PeriodFits' <=> PeriodFits)
  BY <1>1 DEF PeriodFits, GivesDays
<1>4. LoopAtLastPeriod' /\ RunsTheFile' /\ (periods \in Seq(Int \X Int))'
  <2>1. GivesDays => Spans
    BY <1>1 DEF WalkInv, LoopAtLastPeriod, Running
  <2>2. Spans => Spans'
    BY <1>1 DEF Spans
  <2>. QED BY <1>1, <1>3, <2>1, <2>2 DEF WalkInv, LoopAtLastPeriod, Running, RunsTheFile
<1>5. ASSUME walk' = "optimize" PROVE Collected'
  <2>1. PICK sharpe \in SharpeRatios :
          /\ config.strategies # <<>>
          /\ results' = [k \in DOMAIN results \cup {ResultKey(test)} |->
                           IF k = ResultKey(test) THEN sharpe ELSE results[k]]
          /\ sharpes' = Append(sharpes, sharpe)
          /\ test' = test + 1
    BY <1>1, <1>5, WalkForwardAssumption DEF RunTest, Reported
  <2>2. /\ sharpes \in Seq(SharpeRatios) /\ Len(sharpes) = test - 1 /\ test \in Nat \ {0}
        /\ DOMAIN results = {ResultKey(i) : i \in DOMAIN sharpes}
    BY <1>1, <1>2 DEF Collected
  <2>3. /\ sharpes' \in Seq(SharpeRatios) /\ Len(sharpes') = test
        /\ DOMAIN sharpes = 1 .. test - 1 /\ DOMAIN sharpes' = 1 .. test
        /\ \A i \in 1 .. test - 1 : sharpes'[i] = sharpes[i]
        /\ sharpes'[test] = sharpe
    BY <2>1, <2>2, AppendFacts
  <2>4. \A i : ResultKey(i)' = ResultKey(i)
    BY <1>1 DEF ResultKey, TestConfig, OptimizedName
  <2>5. /\ DOMAIN results' = {ResultKey(i) : i \in DOMAIN sharpes'}
        /\ results' = [k \in DOMAIN results' |-> results'[k]]
    BY <2>1, <2>2, <2>3
  <2>6. ASSUME KeysDiffer, NEW i \in DOMAIN sharpes'
        PROVE  results'[ResultKey(i)] = sharpes'[i]
    <3>1. CASE i = test
      BY <2>1, <2>3, <3>1
    <3>2. CASE i # test
      <4>1. i \in DOMAIN sharpes /\ results[ResultKey(i)] = sharpes[i]
        BY <1>2, <2>3, <2>6, <3>2 DEF Collected
      <4>2. ResultKey(i) # ResultKey(test)
        BY <1>1, <1>2, <2>2, <2>3, <2>6, <3>2, <4>1 DEF KeysDiffer
      <4>. QED BY <2>1, <2>2, <2>3, <4>1, <4>2
    <3>. QED BY <3>1, <3>2
  <2>7. KeysDiffer' => KeysDiffer
    BY <1>1, <2>4 DEF KeysDiffer
  <2>8. KeysDiffer' => \A i \in DOMAIN sharpes' : results'[ResultKey(i)'] = sharpes'[i]
    BY <2>4, <2>6, <2>7
  <2>9. DOMAIN results' = {ResultKey(i)' : i \in DOMAIN sharpes'}
    BY <2>4, <2>5
  <2>10. /\ test' \in 1 .. Len(config'.ranges) + 1 /\ Len(sharpes') = test' - 1
         /\ config'.strategies # <<>>
    BY <1>1, <1>2, <2>1, <2>2, <2>3
  <2>. QED BY <2>3, <2>5, <2>8, <2>9, <2>10 DEF Collected
<1>6. WalkTypeOK'
  <2>1. walk' = "optimize" => test' \in 1 .. Len(config'.ranges) + 1 /\ Len(sharpes') = test' - 1
    BY <1>5 DEF Collected
  <2>. QED BY <1>1, <2>1 DEF WalkInv, WalkTypeOK
<1>. QED BY <1>1, <1>4, <1>5, <1>6 DEF WalkInv, ResultsCollected

LEMMA WalkOptimized == WalkInv /\ Optimized => WalkInv'
<1>. SUFFICES ASSUME WalkInv, Optimized PROVE WalkInv'
  OBVIOUS
<1>1. /\ walk = "optimize" /\ walk' = "test"
      /\ UNCHANGED <<file, config, data_opens, span, periods>>
      /\ UNCHANGED <<test, results, sharpes>>
  BY DEF Optimized, period_vars
<1>2. (GivesDays' <=> GivesDays) /\ (PeriodFits' <=> PeriodFits)
  BY <1>1 DEF PeriodFits, GivesDays
<1>3. LoopAtLastPeriod' /\ RunsTheFile' /\ (periods \in Seq(Int \X Int))' /\ WalkTypeOK'
  <2>1. GivesDays => Spans
    BY <1>1 DEF WalkInv, LoopAtLastPeriod, Running
  <2>2. Spans => Spans'
    BY <1>1 DEF Spans
  <2>. QED BY <1>1, <1>2, <2>1, <2>2
           DEF WalkInv, LoopAtLastPeriod, Running, RunsTheFile, WalkTypeOK
<1>4. Collected'
  <2>1. Collected
    BY <1>1 DEF WalkInv, ResultsCollected
  <2>2. \A i : ResultKey(i)' = ResultKey(i)
    BY <1>1 DEF ResultKey, TestConfig, OptimizedName
  <2>3. KeysDiffer' => KeysDiffer
    BY <1>1, <2>2 DEF KeysDiffer
  <2>. QED BY <1>1, <2>1, <2>2, <2>3 DEF Collected
<1>. QED BY <1>3, <1>4 DEF WalkInv, ResultsCollected

LEMMA WalkTest == WalkInv /\ TestOutOfSample => WalkInv'
<1>. SUFFICES ASSUME WalkInv, TestOutOfSample PROVE WalkInv'
  OBVIOUS
<1>1. PICK first, last :
        /\ first = span.current + span.in_sample
        /\ last = first + span.out_of_sample
  OBVIOUS
<1>2. /\ walk = "test" /\ walk' = "loop"
      /\ periods' = Append(periods, <<first, last>>)
      /\ span' = [span EXCEPT !.current = span.current + span.out_of_sample]
      /\ UNCHANGED <<file, config>>
  BY <1>1 DEF TestOutOfSample, Advance
<1>3. /\ span \in [current : Int, end : Int, in_sample : Int, out_of_sample : Int]
      /\ periods \in Seq(Int \X Int)
      /\ PeriodFits /\ Len(periods) < MaxPeriods /\ MaxPeriods \in Nat
  BY <1>2, WalkForwardAssumption DEF WalkInv, WalkTypeOK, LoopAtLastPeriod
<1>4. /\ span' \in [current : Int, end : Int, in_sample : Int, out_of_sample : Int]
      /\ span'.current = span.current + span.out_of_sample
      /\ span'.end = span.end /\ span'.in_sample = span.in_sample
      /\ span'.out_of_sample = span.out_of_sample
      /\ first \in Int /\ last \in Int
  <2>1. PICK c, e, in, out \in Int :
          span = [current |-> c, end |-> e, in_sample |-> in, out_of_sample |-> out]
    BY <1>3
  <2>2. span' = [current |-> c + out, end |-> e, in_sample |-> in, out_of_sample |-> out]
    BY <1>2, <2>1
  <2>. QED BY <1>1, <2>1, <2>2
<1>5. /\ periods' \in Seq(Int \X Int) /\ Len(periods) \in Nat
      /\ Len(periods') = Len(periods) + 1
      /\ \A i \in 1 .. Len(periods) : periods'[i] = periods[i]
      /\ periods'[Len(periods) + 1] = <<first, last>>
  BY <1>2, <1>3, <1>4, AppendFacts, SMTT(30)
<1>6. WalkTypeOK' /\ RunsTheFile' /\ ResultsCollected'
  BY <1>2, <1>3, <1>4, <1>5, SMTT(30)
     DEF WalkInv, WalkTypeOK, RunsTheFile, Running, ResultsCollected
<1>7. ASSUME GivesDays PROVE Spans'
  <2>1. Spans
    BY <1>2, <1>7 DEF WalkInv, LoopAtLastPeriod, Running
  <2>2. /\ periods'[Len(periods')][2] = span'.current + span'.in_sample
        /\ periods'[Len(periods')][2] <= file'.end_date
        /\ periods'[Len(periods')][1] = span.current + span.in_sample
    <3>1. periods'[Len(periods')] = <<first, last>>
      BY <1>5
    <3>2. /\ span'.current = span.current + span.out_of_sample
          /\ span'.in_sample = span.in_sample /\ file'.end_date = file.end_date
          /\ {span.current, span.in_sample, span.out_of_sample, span.end} \subseteq Int
      BY <1>2, <1>3, <1>4
    <3>3. span.current + span.in_sample + span.out_of_sample <= file.end_date
      BY <1>3, <2>1 DEF Spans, PeriodFits
    <3>. QED BY <1>1, <3>1, <3>2, <3>3
  <2>3. periods'[1][1] = file.start_date + file.in_sample_days
    BY <1>1, <1>2, <1>3, <1>5, <2>1, SMTT(30) DEF Spans
  <2>4. ASSUME NEW i \in 1 .. Len(periods') - 1
        PROVE  periods'[i][2] = periods'[i + 1][1]
    <3>1. CASE i = Len(periods)
      <4>1. periods # <<>>
        BY <2>4, <3>1
      <4>2. periods[Len(periods)][2] = span.current + span.in_sample
        BY <2>1, <4>1 DEF Spans
      <4>3. periods'[i] = periods[i] /\ periods'[i + 1] = periods'[Len(periods')]
        BY <1>5, <3>1, <2>4
      <4>. QED BY <2>2, <3>1, <4>2, <4>3
    <3>2. CASE i # Len(periods)
      <4>1. i \in 1 .. Len(periods) - 1 /\ i \in 1 .. Len(periods) /\ i + 1 \in 1 .. Len(periods)
        BY <1>5, <2>4, <3>2
      <4>2. periods'[i] = periods[i] /\ periods'[i + 1] = periods[i + 1]
        BY <1>5, <4>1
      <4>3. periods[i][2] = periods[i + 1][1]
        BY <2>1, <4>1 DEF Spans
      <4>. QED BY <4>2, <4>3
    <3>. QED BY <3>1, <3>2
  <2>5. periods' # <<>>
    BY <1>5
  <2>. QED BY <1>2, <1>4, <2>1, <2>2, <2>3, <2>4, <2>5 DEF Spans
<1>8. LoopAtLastPeriod'
  <2>1. GivesDays' => GivesDays
    BY <1>2 DEF GivesDays
  <2>. QED BY <1>2, <1>7, <2>1 DEF LoopAtLastPeriod, Running
<1>. QED BY <1>5, <1>6, <1>8 DEF WalkInv

LEMMA WalkEnd == WalkInv /\ EndAnalysis => WalkInv'
<1>. SUFFICES ASSUME WalkInv, EndAnalysis PROVE WalkInv'
  OBVIOUS
<1>1. /\ walk = "loop" /\ walk' = "done" /\ ~ PeriodFits
      /\ UNCHANGED <<file, config, data_opens, span, periods>>
  BY DEF EndAnalysis
<1>2. (GivesDays' <=> GivesDays) /\ (PeriodFits' <=> PeriodFits)
  BY <1>1 DEF PeriodFits, GivesDays
<1>3. GivesDays => Spans
  BY <1>1 DEF WalkInv, LoopAtLastPeriod, Running
<1>4. Spans => Spans'
  BY <1>1 DEF Spans
<1>. QED BY <1>1, <1>2, <1>3, <1>4
         DEF WalkInv, LoopAtLastPeriod, Running, RunsTheFile, WalkTypeOK, ResultsCollected

LEMMA WalkKept == WalkInv /\ UNCHANGED walk_vars => WalkInv'
<1>. SUFFICES ASSUME WalkInv, UNCHANGED walk_vars PROVE WalkInv'
  OBVIOUS
<1>1. UNCHANGED <<walk, file, config, data_opens, span, periods, test, results, sharpes>>
  BY DEF walk_vars, period_vars
<1>2. WalkTypeOK' /\ RunsTheFile' /\ (periods \in Seq(Int \X Int))'
  BY <1>1 DEF WalkInv, WalkTypeOK, RunsTheFile, Running
<1>3. LoopAtLastPeriod'
  BY <1>1 DEF WalkInv, LoopAtLastPeriod, Running, Spans, PeriodFits, GivesDays
<1>4. ResultsCollected'
  <2>1. \A i : ResultKey(i)' = ResultKey(i)
    BY <1>1 DEF ResultKey, TestConfig, OptimizedName
  <2>2. KeysDiffer' => KeysDiffer
    BY <1>1, <2>1 DEF KeysDiffer
  <2>. QED BY <1>1, <2>1, <2>2 DEF WalkInv, ResultsCollected, Collected
<1>. QED BY <1>2, <1>3, <1>4 DEF WalkInv

LEMMA WalkInit == AnalyzerInit => WalkInv
<1>. SUFFICES ASSUME AnalyzerInit PROVE WalkInv
  OBVIOUS
<1>. QED BY WalkForwardAssumption
         DEF AnalyzerInit, WalkInv, WalkTypeOK, RunsTheFile, Running, LoopAtLastPeriod,
             ResultsCollected

LEMMA WalkStep == WalkInv /\ [AnalysesNext]_analyses_vars => WalkInv'
<1>1. [AnalysesNext]_analyses_vars => AnalyzerNext \/ UNCHANGED walk_vars
  BY DEF AnalysesNext, analyses_vars
<1>. QED BY <1>1, WalkParse, WalkRun, WalkBegin, WalkRunTest, WalkOptimized, WalkTest,
            WalkEnd, WalkKept DEF AnalyzerNext
-----------------------------------------------------------------------------
(* Each variable of the walk-forward analysis has its type (WalkForward).  *)
THEOREM AnalyzerTypeCorrect == AnalysesSpec => []WalkTypeOK
<1>1. AnalysesInit => WalkInv
  BY WalkInit DEF AnalysesInit
<1>. QED BY <1>1, WalkStep, PTL DEF AnalysesSpec, WalkInv

(* Whatever the file, if it has in full the sections its run mode needs,   *)
(* nothing that is read is left unset by the parser.                       *)
THEOREM FilesSetEverything == AnalysesSpec => []NothingUnset
<1>1. AnalysesInit => WalkInv
  BY WalkInit DEF AnalysesInit
<1>2. WalkInv => NothingUnset
  <2>. SUFFICES ASSUME WalkInv, Running, Complete(file),
                       NeededSections(config.run_mode) \subseteq file.sections
                PROVE  /\ \A f \in Needed(config.run_mode) : config.member[f] # "unset"
                       /\ \A i \in DOMAIN config.strategies :
                            config.strategies[i].lookback_levels # "unset"
    BY DEF NothingUnset, Running
  <2>1. file \in ConfigFiles /\ config = Parse(file)
    BY WalkForwardAssumption DEF WalkInv, RunsTheFile, Running
  <2>2. ASSUME NEW f \in Needed(config.run_mode) PROVE config.member[f] # "unset"
    <3>1. f \in Fields /\ config.member[f] = Parsed(file, f)
      BY <2>1 DEF Parse, Needed, Fields, Whole
    <3>2. CASE f \in Initialised
      <4>1. f \notin Whole
        BY <3>2 DEF Initialised, Whole, DynamicSizing
      <4>. QED BY <3>1, <4>1 DEF Parsed, Initial
    <3>3. CASE f \notin Initialised
      <4>1. f[1] \in file.sections /\ f # DynamicSizing
        BY <3>3 DEF Needed, NeededSections, Whole, Initialised
      <4>2. f \in file.fields
        BY <3>1, <4>1 DEF Complete
      <4>. QED BY <3>1, <4>1, <4>2 DEF Parsed, Overlooked
    <3>. QED BY <3>2, <3>3
  <2>3. ASSUME NEW i \in DOMAIN config.strategies
        PROVE  config.strategies[i].lookback_levels # "unset"
    <3>1. i \in DOMAIN file.strategies
          /\ config.strategies[i] = ParsedStrategy(file.strategies[i])
      BY <2>1 DEF Parse
    <3>. QED BY <3>1 DEF ParsedStrategy, Complete
  <2>. QED BY <2>2, <2>3
<1>. QED BY <1>1, <1>2, WalkStep, PTL DEF AnalysesSpec

(* However many days the file gives, the out-of-sample ranges leave no gap *)
(* and do not overlap, from the first day to where another would not fit.  *)
THEOREM RangesTile == AnalysesSpec => []PeriodsTile
<1>1. AnalysesInit => WalkInv
  BY WalkInit DEF AnalysesInit
<1>2. WalkInv => PeriodsTile
  <2>. SUFFICES ASSUME WalkInv, walk # "idle", GivesDays
                PROVE  /\ \A i \in 1 .. Len(periods) - 1 : periods[i][2] = periods[i + 1][1]
                       /\ walk = "done" /\ periods # <<>> =>
                            /\ periods[1][1] = file.start_date + file.in_sample_days
                            /\ periods[Len(periods)][2] \in
                                 file.end_date - file.out_of_sample_days + 1 .. file.end_date
    BY DEF PeriodsTile
  <2>1. CASE periods = <<>>
    BY <2>1
  <2>2. CASE periods # <<>>
    <3>1. Spans
      BY <2>2 DEF WalkInv, LoopAtLastPeriod
    <3>2. ASSUME walk = "done"
          PROVE  periods[Len(periods)][2] \in
                   file.end_date - file.out_of_sample_days + 1 .. file.end_date
      <4>1. PICK last : last = periods[Len(periods)][2]
        OBVIOUS
      <4>2. /\ last = span.current + span.in_sample /\ last <= file.end_date
            /\ span.end = file.end_date /\ span.out_of_sample = file.out_of_sample_days
        BY <2>2, <3>1, <4>1 DEF Spans
      <4>3. ~ (last + span.out_of_sample <= span.end)
        BY <3>2, <4>2 DEF WalkInv, LoopAtLastPeriod, PeriodFits
      <4>4. /\ span.current \in Int /\ span.in_sample \in Int
            /\ span.out_of_sample \in Int /\ span.end \in Int
        BY DEF WalkInv, WalkTypeOK
      <4>. QED BY <4>1, <4>2, <4>3, <4>4
    <3>. QED BY <2>2, <3>1, <3>2 DEF Spans
  <2>. QED BY <2>1, <2>2
<1>. QED BY <1>1, <1>2, WalkStep, PTL DEF AnalysesSpec

(* For every range of thresholds that print differently, what is printed   *)
(* as the best is what did best.                                           *)
THEOREM BestIsFound == AnalysesSpec => []BestIsBest
<1>1. AnalysesInit => WalkInv
  BY WalkInit DEF AnalysesInit
<1>2. WalkInv => BestIsBest
  <2>. DEFINE Prints == {Shown[config.ranges[i]] : i \in DOMAIN config.ranges}
  <2>. SUFFICES ASSUME WalkInv, walk = "test", sharpes # <<>>,
                       config.strategies[1].name = OptimizedName,
                       Cardinality(Prints) = Len(config.ranges),
                       NEW k \in DOMAIN results, results[k] = Max(Range(results))
                PROVE  \E i \in DOMAIN sharpes : /\ Shown[config.ranges[i]] = k
                                                /\ sharpes[i] = Max(Range(sharpes))
    BY DEF BestIsBest, ThresholdsDiffer
  <2>1. config = Parse(file) /\ config.ranges \in Seq(Nat) /\ Collected
    BY ParseTypes, WalkForwardAssumption
       DEF WalkInv, RunsTheFile, Running, ResultsCollected
  <2>2. \A i : ResultKey(i) = Shown[config.ranges[i]]
    <3>1. 1 \in DOMAIN config.strategies
      <4>1. config.strategies # <<>> /\ DOMAIN config.strategies = DOMAIN file.strategies
        BY <2>1 DEF Collected, Parse
      <4>2. file.strategies \in Seq(StrategyFiles)
        BY WalkForwardAssumption DEF WalkInv, RunsTheFile, ConfigFiles
      <4>3. file.strategies # <<>>
        BY <2>1, <4>1 DEF Parse
      <4>. QED BY <4>1, <4>2, <4>3
    <3>2. config.strategies[1] \in
            [name : {config.strategies[1].name},
             lookback_levels : {config.strategies[1].lookback_levels},
             imbalance_threshold : {config.strategies[1].imbalance_threshold}]
      BY <2>1, <3>1 DEF Parse, ParsedStrategy
    <3>. QED BY <3>1, <3>2 DEF ResultKey, TestConfig
  <2>3. KeysDiffer
    <3>. DEFINE print == [i \in 1 .. Len(config.ranges) |-> Shown[config.ranges[i]]]
    <3>1. Len(config.ranges) \in Nat /\ DOMAIN config.ranges = 1 .. Len(config.ranges)
      BY <2>1
    <3>2. print \in Surjection(1 .. Len(config.ranges), Prints)
      BY <3>1 DEF Surjection
    <3>3. /\ IsFiniteSet(1 .. Len(config.ranges)) /\ IsFiniteSet(Prints)
          /\ Cardinality(1 .. Len(config.ranges)) = Cardinality(Prints)
      BY <3>1, <3>2, FS_Interval, FS_Surjection
    <3>4. print \in Injection(1 .. Len(config.ranges), Prints)
      <4>. HIDE DEF print, Prints
      <4>. QED BY <3>2, <3>3, FS_SurjSameCardinalityImpliesInj
    <3>. QED BY <2>2, <3>1, <3>4 DEF KeysDiffer, Injection, IsInjective
  <2>4. Range(results) = Range(sharpes)
    <3>1. ASSUME NEW i \in DOMAIN sharpes PROVE sharpes[i] \in Range(results)
      <4>1. ResultKey(i) \in DOMAIN results /\ results[ResultKey(i)] = sharpes[i]
        BY <2>1, <2>3 DEF Collected
      <4>. QED BY <4>1 DEF Range
    <3>2. ASSUME NEW l \in DOMAIN results PROVE results[l] \in Range(sharpes)
      <4>1. PICK i \in DOMAIN sharpes : l = ResultKey(i)
        BY <2>1 DEF Collected
      <4>2. results[l] = sharpes[i]
        BY <2>1, <2>3, <4>1 DEF Collected
      <4>. QED BY <4>2 DEF Range
    <3>. QED BY <3>1, <3>2 DEF Range
  <2>5. PICK i \in DOMAIN sharpes : k = ResultKey(i)
    BY <2>1 DEF Collected
  <2>. QED BY <2>1, <2>2, <2>3, <2>4, <2>5 DEF Collected
<1>. QED BY <1>1, <1>2, WalkStep, PTL DEF AnalysesSpec
-----------------------------------------------------------------------------
(***************************************************************************)
(* The Monte Carlo simulation.                                             *)
(***************************************************************************)
Curves == {c \in Seq(Int) : c # <<>>}
NextPoint(curve, i) ==
  Append(curve, Last(curve) + (Last(curve) * trades[i]) \div InitialEquity)

LEMMA NotEmpty == \A s : Len(s) > 0 => s # <<>>
OBVIOUS

LEMMA PointsIntegers ==
  ASSUME trades \in Seq(Int), NEW curve \in Curves, NEW i \in DOMAIN trades
  PROVE  NextPoint(curve, i) \in Curves /\ Last(curve) \in Int
<1>1. curve \in Seq(Int) /\ Len(curve) \in Nat \ {0}
  BY DEF Curves
<1>2. Last(curve) \in Int
  BY <1>1 DEF Last
<1>3. PICK product, quotient : /\ product = Last(curve) * trades[i]
                               /\ quotient = product \div InitialEquity
  OBVIOUS
<1>4. trades[i] \in Int
  OBVIOUS
<1>5. product \in Int
  BY <1>2, <1>3, <1>4
<1>6. quotient \in Int
  BY <1>3, <1>5, MonteCarloAssumption
<1>7. PICK e : e = Last(curve) + quotient
  OBVIOUS
<1>8. /\ e \in Int /\ Append(curve, e) \in Seq(Int)
      /\ Len(Append(curve, e)) = Len(curve) + 1
  BY <1>1, <1>2, <1>6, <1>7, AppendProperties
<1>9. NextPoint(curve, i) = Append(curve, e)
  BY <1>3, <1>7 DEF NextPoint
<1>10. Append(curve, e) # <<>>
  <2>1. Len(Append(curve, e)) > 0
    BY <1>1, <1>8
  <2>. QED BY ONLY <2>1, NotEmpty
<1>. QED BY <1>2, <1>8, <1>9, <1>10 DEF Curves

(* Whatever is drawn, a path ends in an integer. *)
LEMMA PathsAreCurves ==
  ASSUME trades \in Seq(Int), NEW draw \in [DOMAIN trades -> DOMAIN trades]
  PROVE  Path(draw) \in Curves
<1>1. PICK D : D = DOMAIN draw
  OBVIOUS
<1>2. /\ D = DOMAIN trades /\ IsFiniteSet(D) /\ D \in SUBSET Int
      /\ \A i \in D : draw[i] \in DOMAIN trades
  BY <1>1, FS_Interval
<1>3. \A s \in SUBSET D : s # {} => Max(s) \in s
  <2>. SUFFICES ASSUME NEW s \in SUBSET D, s # {} PROVE Max(s) \in s
    OBVIOUS
  <2>1. s \in SUBSET Int /\ IsFiniteSet(s)
    BY <1>2, FS_Subset
  <2>2. PICK x \in s : \A y \in s : y <= x
    BY <2>1, Extremes
  <2>3. \A y \in s : x >= y
    BY <2>1, <2>2
  <2>. QED BY <2>3 DEF Max
<1>4. <<InitialEquity>> \in Curves
  BY MonteCarloAssumption DEF Curves
<1>. DEFINE Fold(f, T) ==
       [s \in SUBSET T |->
          IF s = {} THEN <<InitialEquity>>
          ELSE NextPoint(f[s \ {Max(s)}], draw[Max(s)])]
            iter == CHOOSE f : f = Fold(f, D)
<1>5. \E f : f = Fold(f, D)
  <2>1. PICK chosen : chosen = [s \in SUBSET D |-> Max(s)]
    OBVIOUS
  <2>2. PICK V, base : V = Curves /\ base = <<InitialEquity>>
    OBVIOUS
  <2>3. PICK step : step = [p \in (SUBSET D) \X V |->
                              IF p[1] = {} THEN p[2] ELSE NextPoint(p[2], draw[Max(p[1])])]
    OBVIOUS
  <2>4. step \in [(SUBSET D) \X V -> V]
    <3>1. ASSUME NEW p \in (SUBSET D) \X V
          PROVE  (IF p[1] = {} THEN p[2] ELSE NextPoint(p[2], draw[Max(p[1])])) \in V
      <4>1. p[1] \in SUBSET D /\ p[2] \in Curves
        BY <2>2
      <4>2. CASE p[1] # {}
        <5>1. Max(p[1]) \in D
          BY <1>3, <4>1, <4>2
        <5>2. draw[Max(p[1])] \in DOMAIN trades
          BY <1>2, <5>1
        <5>. QED BY <2>2, <4>1, <4>2, <5>2, PointsIntegers
      <4>. QED BY <2>2, <4>1, <4>2
    <3>. QED BY <2>3, <3>1
  <2>5. Chooses(chosen, D)
    BY <1>3, <2>1 DEF Chooses
  <2>6. base \in V
    BY <1>4, <2>2
  <2>7. PICK f : IsFold(f, D, V, base, step, chosen)
    BY ONLY <1>2, <2>4, <2>5, <2>6, FoldExists
  <2>8. ASSUME NEW s \in SUBSET D, s # {}
        PROVE  f[s] = NextPoint(f[s \ {Max(s)}], draw[Max(s)])
    <3>1. PICK r \in SUBSET D : r = s \ {Max(s)}
      OBVIOUS
    <3>2. f[r] \in V /\ f[s] = step[<<s, f[r]>>]
      BY <2>1, <2>7, <2>8, <3>1 DEF IsFold
    <3>. QED BY <2>3, <2>8, <3>1, <3>2
  <2>9. f = Fold(f, D)
    <3>1. \A s \in SUBSET D : s = {} => f[s] = <<InitialEquity>>
      BY <2>2, <2>7 DEF IsFold
    <3>2. f = [s \in SUBSET D |-> f[s]]
      BY <2>7 DEF IsFold
    <3>. QED BY <2>8, <3>1, <3>2
  <2>. HIDE DEF Fold
  <2>. QED BY <2>9
<1>6. iter = Fold(iter, D)
  <2>. HIDE DEF Fold
  <2>. QED BY <1>5
<1>7. Path(draw) = iter[D]
  BY <1>1 DEF Path, FoldLeft, MapThenFoldSet, NextPoint
<1>8. PICK h : h = iter
  OBVIOUS
<1>9. h = Fold(h, D)
  <2>. HIDE DEF Fold, iter
  <2>. QED BY <1>6, <1>8
<1>. HIDE DEF iter
<1>10. PICK Good : Good = {s \in SUBSET D : h[s] \in Curves}
  OBVIOUS
<1>11. ASSUME NEW s \in SUBSET D, \A x \in s : s \ {x} \in Good PROVE s \in Good
  <2>1. CASE s = {}
    BY <1>4, <1>9, <1>10, <2>1
  <2>2. CASE s # {}
    <3>1. Max(s) \in s /\ draw[Max(s)] \in DOMAIN trades
      BY <1>2, <1>3, <2>2
    <3>2. PICK r : r = s \ {Max(s)}
      OBVIOUS
    <3>3. h[r] \in Curves
      BY <1>10, <1>11, <3>1, <3>2
    <3>4. h[s] = NextPoint(h[r], draw[Max(s)])
      BY <1>9, <2>2, <3>2
    <3>. QED BY <1>10, <3>1, <3>3, <3>4, PointsIntegers
  <2>. QED BY <2>1, <2>2
<1>12. SUBSET D \subseteq Good
  <2>1. IsFiniteSet(D)
    BY <1>2
  <2>. HIDE DEF Fold
  <2>. QED BY ONLY <2>1, <1>11, SubsetInduction
<1>. QED BY <1>7, <1>8, <1>10, <1>12

(* What was simulated are samples, as many as simulations at most.         *)
SimulatorInv == /\ trades \in TradeLogs \cup {<<>>}
                /\ Samples(final_equities)
                /\ num_simulations \in Nat
                /\ Size(final_equities) \in Nat /\ Size(final_equities) <= num_simulations
                /\ simulating = "idle" => Size(final_equities) = 0

LEMMA NothingSampled == ASSUME NEW m, DOMAIN m = {} PROVE Samples(m) /\ Size(m) = 0
<1>1. PICK D : D = DOMAIN m
  OBVIOUS
<1>2. D = {} /\ Summable(m, D) /\ Samples(m)
  BY <1>1, FS_EmptySet DEF Samples, Summable
<1>3. SumOf(m, D) = 0
  BY <1>2, SumFacts
<1>. QED BY <1>1, <1>2, <1>3, CountsAreSums

(* One more of a value is one more sample. *)
LEMMA SampleAdded ==
  ASSUME NEW m, Samples(m), NEW e \in Int, NEW n,
         DOMAIN n = DOMAIN m \cup {e},
         \A x \in DOMAIN n : n[x] = (IF x = e THEN 1 ELSE 0)
                                      + (IF x \in DOMAIN m THEN m[x] ELSE 0)
  PROVE  Samples(n) /\ Size(n) = Size(m) + 1 /\ Size(m) \in Nat
<1>1. PICK D, E, rest : D = DOMAIN m /\ E = DOMAIN n /\ rest = D \ {e}
  OBVIOUS
<1>2. IsFiniteSet(E) /\ E \subseteq Int /\ \A v \in E : n[v] \in Nat
  BY <1>1, FS_AddElement DEF Samples
<1>3. Samples(n) /\ Summable(n, E) /\ Summable(m, D)
  BY <1>1, <1>2 DEF Samples, Summable
<1>4. rest = E \ {e} /\ e \in E /\ Summable(m, rest)
  BY <1>1, <1>3, SummableWithin
<1>5. SumOf(n, E) = n[e] + SumOf(n, rest)
  BY <1>3, <1>4, SumFacts
<1>6. \A v \in rest : n[v] = m[v]
  <2>1. \A v \in rest : v \in DOMAIN n /\ v \in DOMAIN m /\ v # e /\ m[v] \in Nat
    BY <1>1 DEF Samples
  <2>. QED BY <2>1
<1>7. SumOf(n, rest) = SumOf(m, rest)
  BY <1>4, <1>6, SumAgree
<1>8. SumOf(m, rest) \in Int /\ SumOf(m, D) \in Nat
  <2>1. \A v \in D : m[v] \in Nat
    BY <1>1 DEF Samples
  <2>. QED BY <1>3, <1>4, <2>1, SumFacts, SumNatural
<1>9. SumOf(n, E) = SumOf(m, D) + 1
  <2>1. CASE e \in D
    <3>1. SumOf(m, D) = m[e] + SumOf(m, rest)
      BY <1>1, <1>3, <2>1, SumFacts
    <3>2. n[e] = 1 + m[e] /\ m[e] \in Nat
      BY <1>1, <1>4, <2>1 DEF Samples
    <3>. QED BY <1>5, <1>7, <1>8, <3>1, <3>2
  <2>2. CASE e \notin D
    <3>1. rest = D
      BY <1>1, <2>2
    <3>2. n[e] = 1
      BY <1>1, <1>4, <2>2
    <3>. QED BY <1>5, <1>7, <1>8, <3>1, <3>2
  <2>. QED BY <2>1, <2>2
<1>. QED BY <1>1, <1>3, <1>8, <1>9, CountsAreSums

LEMMA SimulatorStep == SimulatorInv /\ [AnalysesNext]_analyses_vars => SimulatorInv'
<1>. SUFFICES ASSUME SimulatorInv, [AnalysesNext]_analyses_vars PROVE SimulatorInv'
  OBVIOUS
<1>1. SimulatorNext \/ UNCHANGED mc_vars
  BY DEF AnalysesNext, analyses_vars
<1>2. CASE UNCHANGED mc_vars
  BY <1>2 DEF SimulatorInv, mc_vars
<1>3. CASE PrintResults
  BY <1>3 DEF SimulatorInv, PrintResults
<1>4. CASE ConstructSimulator
  <2>1. /\ num_simulations' \in Nat /\ trades' \in TradeLogs
        /\ final_equities' = final_equities /\ simulating = "idle"
    BY <1>4, MonteCarloAssumption DEF ConstructSimulator
  <2>. QED BY <2>1 DEF SimulatorInv
<1>5. CASE SimulatePath
  <2>1. PICK draw \in [DOMAIN trades -> DOMAIN trades] :
          final_equities' = LET e == Last(Path(draw)) IN
            [x \in DOMAIN final_equities \cup {e} |->
               (IF x = e THEN 1 ELSE 0)
                 + (IF x \in DOMAIN final_equities THEN final_equities[x] ELSE 0)]
    BY <1>5 DEF SimulatePath
  <2>2. PICK e : e = Last(Path(draw))
    OBVIOUS
  <2>3. e \in Int
    <3>1. trades \in Seq(Int)
      BY <1>5, MonteCarloAssumption DEF SimulatorInv, SimulatePath
    <3>2. Path(draw) \in Seq(Int) /\ Path(draw) # <<>>
      BY <3>1, PathsAreCurves DEF Curves
    <3>3. PICK curve : curve = Path(draw)
      OBVIOUS
    <3>4. Len(curve) \in Nat \ {0} /\ curve \in Seq(Int)
      BY <3>2, <3>3
    <3>. QED BY <2>2, <3>3, <3>4 DEF Last
  <2>4. final_equities' = [x \in DOMAIN final_equities \cup {e} |->
               (IF x = e THEN 1 ELSE 0)
                 + (IF x \in DOMAIN final_equities THEN final_equities[x] ELSE 0)]
    BY <2>1, <2>2
  <2>5. /\ DOMAIN final_equities' = DOMAIN final_equities \cup {e}
        /\ \A x \in DOMAIN final_equities' :
             final_equities'[x] = (IF x = e THEN 1 ELSE 0)
                 + (IF x \in DOMAIN final_equities THEN final_equities[x] ELSE 0)
    BY <2>4
  <2>6. Samples(final_equities)
    BY DEF SimulatorInv
  <2>7. PICK n : n = final_equities'
    OBVIOUS
  <2>8. Samples(n) /\ Size(n) = Size(final_equities) + 1
    BY <2>3, <2>5, <2>6, <2>7, SampleAdded
  <2>9. Samples(final_equities)' /\ Size(final_equities)' = Size(final_equities) + 1
    BY <2>7, <2>8
  <2>. QED BY <1>5, <2>9 DEF SimulatorInv, SimulatePath
<1>. QED BY <1>1, <1>2, <1>3, <1>4, <1>5 DEF SimulatorNext

LEMMA SimulatorStart == SimulatorInit => SimulatorInv
<1>. SUFFICES ASSUME SimulatorInit PROVE SimulatorInv
  OBVIOUS
<1>1. DOMAIN final_equities = {}
  BY DEF SimulatorInit
<1>2. Samples(final_equities) /\ Size(final_equities) = 0
  BY <1>1, NothingSampled
<1>. QED BY <1>2 DEF SimulatorInit, SimulatorInv

(* For any trades, any draws and any number of paths, the two percentiles  *)
(* printed are there and rank as they should.                              *)
THEOREM PercentilesOfOutcomes == AnalysesSpec => []OutcomesRank
<1>1. AnalysesInit => SimulatorInv
  BY SimulatorStart DEF AnalysesInit
<1>2. SimulatorInv => OutcomesRank
  BY PercentilesRank DEF SimulatorInv, OutcomesRank
<1>. QED BY <1>1, <1>2, SimulatorStep, PTL DEF AnalysesSpec
-----------------------------------------------------------------------------
(***************************************************************************)
(* The measured times.                                                     *)
(***************************************************************************)
MonitorInv == metrics \in [Timed -> [Durations -> 0 .. MaxSamples]]

LEMMA MetricsAreSamples ==
  ASSUME MonitorInv, NEW f \in Timed
  PROVE  Samples(metrics[f]) /\ \A t \in Durations : metrics[f][t] <= Size(metrics[f])
                                                    /\ Size(metrics[f]) \in Nat
<1>1. metrics[f] \in [Durations -> 0 .. MaxSamples]
  BY DEF MonitorInv
<1>2. PICK m : m = metrics[f]
  OBVIOUS
<1>3. DOMAIN m = Durations /\ \A t \in Durations : m[t] \in 0 .. MaxSamples
  BY <1>1, <1>2
<1>4. Samples(m)
  <2>1. IsFiniteSet(DOMAIN m)
    BY <1>3, MonitorAssumption
  <2>2. DOMAIN m \subseteq Int
    BY <1>3, MonitorAssumption
  <2>3. \A t \in DOMAIN m : m[t] \in Nat
    <3>1. MaxSamples \in Nat /\ \A t \in DOMAIN m : m[t] \in 0 .. MaxSamples
      BY <1>3, MonitorAssumption
    <3>. QED BY ONLY <3>1
  <2>. QED BY <2>1, <2>2, <2>3 DEF Samples
<1>5. ASSUME NEW t \in Durations PROVE m[t] <= Size(m) /\ Size(m) \in Nat
  <2>1. /\ Size(m) \in Nat /\ Below(m, t) \in Nat /\ Above(m, t) \in Nat
        /\ Size(m) = Below(m, t) + m[t] + Above(m, t)
    BY <1>3, <1>4, CountsAddUp
  <2>2. m[t] \in Nat
    BY <1>3, <1>4 DEF Samples
  <2>. QED BY <2>1, <2>2
<1>. QED BY <1>2, <1>4, <1>5

LEMMA MonitorStep == MonitorInv /\ [AnalysesNext]_analyses_vars => MonitorInv'
<1>. SUFFICES ASSUME MonitorInv, [AnalysesNext]_analyses_vars PROVE MonitorInv'
  OBVIOUS
<1>1. MonitorNext \/ UNCHANGED metrics
  BY DEF AnalysesNext, analyses_vars
<1>2. CASE UNCHANGED metrics
  BY <1>2 DEF MonitorInv
<1>3. CASE Reset
  BY <1>3, MonitorAssumption DEF Reset, MonitorInv
<1>4. CASE LeaveTimed
  <2>1. PICK f \in Timed, t \in Durations :
          /\ Size(metrics[f]) < MaxSamples
          /\ metrics' = [metrics EXCEPT ![f][t] = @ + 1]
    BY <1>4 DEF LeaveTimed, Recorded
  <2>2. metrics[f][t] <= Size(metrics[f]) /\ Size(metrics[f]) \in Nat
    BY MetricsAreSamples
  <2>3. metrics[f][t] + 1 \in 0 .. MaxSamples
    BY <2>1, <2>2, MonitorAssumption DEF MonitorInv
  <2>. QED BY <2>1, <2>3 DEF MonitorInv
<1>. QED BY <1>1, <1>2, <1>3, <1>4 DEF MonitorNext

(* Whatever was measured how often, the percentiles of two and more        *)
(* measurements are there, in order, and rank as they should.              *)
THEOREM PercentilesOfTimes == AnalysesSpec => []LatenciesRank
<1>1. AnalysesInit => MonitorInv
  BY MonitorAssumption DEF AnalysesInit, MonitorInit, MonitorInv
<1>2. MonitorInv => LatenciesRank
  <2>. SUFFICES ASSUME MonitorInv, NEW f \in Timed, GetStatistics(f).count > 1
                PROVE  /\ \A percent \in {90, 95, 99} : RanksFromAbove(metrics[f], percent)
                       /\ \A x \in GetStatistics(f).p90, y \in GetStatistics(f).p95,
                             z \in GetStatistics(f).p99 : x <= y /\ y <= z
    BY DEF LatenciesRank
  <2>1. /\ GetStatistics(f).count = Size(metrics[f])
        /\ GetStatistics(f).p90 = Percentile(metrics[f], 90)
        /\ GetStatistics(f).p95 = Percentile(metrics[f], 95)
        /\ GetStatistics(f).p99 = Percentile(metrics[f], 99)
    BY DEF GetStatistics
  <2>2. Samples(metrics[f])
    BY MetricsAreSamples
  <2>3. Size(metrics[f]) > 0
    <3>1. PICK m : m = metrics[f]
      OBVIOUS
    <3>2. DOMAIN m # {}
      <4>. SUFFICES ASSUME DOMAIN m = {} PROVE FALSE
        OBVIOUS
      <4>1. Size(m) = 0
        BY NothingSampled
      <4>. QED BY <2>1, <3>1, <4>1
    <3>3. Size(m) \in Nat
      BY <2>2, <3>1, <3>2, CountsAddUp
    <3>. QED BY <2>1, <3>1, <3>3
  <2>4. \A percent \in {90, 95, 99} : RanksFromAbove(metrics[f], percent)
    BY <2>2, <2>3, PercentilesRank
  <2>5. ASSUME NEW p \in {90, 95, 99}, NEW q \in {90, 95, 99}, p <= q,
               NEW x \in Percentile(metrics[f], p), NEW y \in Percentile(metrics[f], q)
        PROVE  x <= y
    <3>1. p \in 0 .. 99 /\ q \in 0 .. 99
      OBVIOUS
    <3>2. PICK m : m = metrics[f]
      OBVIOUS
    <3>3. Samples(m) /\ x \in Percentile(m, p) /\ y \in Percentile(m, q) /\ p <= q
      BY <2>2, <2>5, <3>2
    <3>. QED BY ONLY <3>1, <3>3, PercentilesOrdered, SMTT(30)
  <2>6. /\ \A x \in Percentile(metrics[f], 90), y \in Percentile(metrics[f], 95) : x <= y
        /\ \A y \in Percentile(metrics[f], 95), z \in Percentile(metrics[f], 99) : y <= z
    <3>1. 90 <= 95 /\ 95 <= 99
      OBVIOUS
    <3>. QED BY ONLY <2>5, <3>1
  <2>. QED BY <2>1, <2>4, <2>6
<1>. QED BY <1>1, <1>2, MonitorStep, PTL DEF AnalysesSpec
-----------------------------------------------------------------------------
(***************************************************************************)
(* The market regime detector.                                             *)
(***************************************************************************)
LEMMA WindowIsLonger ==
  DetectorTypeOK => /\ Window \in Nat \ {0}
                    /\ Window \in {volatility_period, trend_period}
                    /\ volatility_period <= Window /\ trend_period <= Window
                    /\ volatility_period \in Nat \ {0} /\ trend_period \in Nat \ {0}
<1>. SUFFICES ASSUME DetectorTypeOK
              PROVE  /\ Window \in Nat \ {0}
                     /\ Window \in {volatility_period, trend_period}
                     /\ volatility_period <= Window /\ trend_period <= Window
                     /\ volatility_period \in Nat \ {0} /\ trend_period \in Nat \ {0}
  OBVIOUS
<1>1. volatility_period \in Nat \ {0} /\ trend_period \in Nat \ {0}
  BY DetectorAssumption DEF DetectorTypeOK
<1>2. \E x \in {volatility_period, trend_period} :
        \A y \in {volatility_period, trend_period} : x >= y
  <2>1. CASE volatility_period >= trend_period
    BY <1>1, <2>1
  <2>2. CASE trend_period >= volatility_period
    BY <1>1, <2>2
  <2>. QED BY <1>1, <2>1, <2>2
<1>3. /\ Window \in {volatility_period, trend_period}
      /\ \A y \in {volatility_period, trend_period} : Window >= y
  BY <1>2 DEF Window, Max
<1>. QED BY <1>1, <1>3

(* on_market_event() is owed only once there is a price. *)
DetectorInv == DetectorTypeOK /\ (owed > 0 => prices # <<>>)

LEMMA RegimesAreStates ==
  /\ Default \in MarketStates
  /\ \A h : VolatilitiesOf(h) \subseteq Volatilities
  /\ \A h : TrendsOf(h) \subseteq Trends
<1>1. Default \in MarketStates
  BY DEF Default, MarketStates, Volatilities, Trends
<1>2. ASSUME NEW h PROVE VolatilitiesOf(h) \subseteq Volatilities
  BY DEF VolatilitiesOf, Volatilities
<1>3. ASSUME NEW h PROVE TrendsOf(h) \subseteq Trends
  BY DEF TrendsOf, Trends
<1>. QED BY <1>1, <1>2, <1>3

(* What on_market_event() does: the window moves on, and a regime computed *)
(* from it that differs from the current one is stored and published.      *)
LEMMA DetectorHears ==
  ASSUME DetectorInv, OnMarketEvent
  PROVE  /\ owed \in Nat \ {0} /\ owed' = owed - 1 /\ Len(prices) > 0
         /\ UNCHANGED <<volatility_period, trend_period, subscriptions, prices>>
         /\ Window' = Window
         /\ price_history' \in Seq(Prices) /\ Len(price_history') <= Window
         /\ price_history' = Pushed(prices[Len(prices)])
         /\ current_state' \in MarketStates /\ told' \in MarketStates
<1>. USE DetectorAssumption
<1>1. /\ owed \in Nat \ {0} /\ owed' = owed - 1
      /\ prices \in Seq(Prices) /\ Len(prices) > 0
  <2>1. owed \in Nat \ {0} /\ owed' = owed - 1 /\ prices # <<>> /\ prices \in Seq(Prices)
    BY DEF DetectorInv, DetectorTypeOK, OnMarketEvent
  <2>. QED BY <2>1
<1>2. UNCHANGED <<volatility_period, trend_period, subscriptions, prices>> /\ Window' = Window
  BY DEF OnMarketEvent, Window
<1>3. price_history' \in Seq(Prices) /\ Len(price_history') <= Window
  <2>1. PICK w : w = Window
    OBVIOUS
  <2>2. w \in Nat \ {0} /\ Len(price_history) <= w /\ price_history \in Seq(Prices)
    BY <2>1, WindowIsLonger DEF DetectorInv, DetectorTypeOK
  <2>3. PICK p : p = prices[Len(prices)]
    OBVIOUS
  <2>4. p \in Prices
    BY <1>1, <2>3
  <2>5. PICK h : h = Append(price_history, p)
    OBVIOUS
  <2>6. h \in Seq(Prices) /\ Len(h) = Len(price_history) + 1
    BY <2>2, <2>4, <2>5, AppendProperties
  <2>7. price_history' = IF Len(h) > w THEN Tail(h) ELSE h
    BY <2>1, <2>3, <2>5 DEF OnMarketEvent, Pushed
  <2>8. h # <<>> /\ Len(price_history) \in Nat
    BY <2>2, <2>6
  <2>9. Tail(h) \in Seq(Prices) /\ Len(Tail(h)) = Len(price_history)
    BY <2>6, <2>8, HeadTailProperties
  <2>. QED BY <2>1, <2>2, <2>6, <2>7, <2>8, <2>9
<1>4. current_state' \in MarketStates /\ told' \in MarketStates
  <2>1. current_state \in MarketStates /\ told \in MarketStates
    BY DEF DetectorInv, DetectorTypeOK
  <2>2. \/ UNCHANGED <<current_state, told>>
        \/ \E v \in VolatilitiesOf(price_history'), t \in TrendsOf(price_history') :
             \/ /\ current_state' = [volatility |-> v, trend |-> t]
                /\ told' = [volatility |-> v, trend |-> t]
             \/ UNCHANGED <<current_state, told>>
    BY DEF OnMarketEvent
  <2>3. \A v \in VolatilitiesOf(price_history'), t \in TrendsOf(price_history') :
          [volatility |-> v, trend |-> t] \in MarketStates
    BY RegimesAreStates DEF MarketStates
  <2>. QED BY <2>1, <2>2, <2>3
<1>5. price_history' = Pushed(prices[Len(prices)])
  BY DEF OnMarketEvent
<1>. QED BY <1>1, <1>2, <1>3, <1>4, <1>5

LEMMA DetectorStep == DetectorInv /\ [AnalysesNext]_analyses_vars => DetectorInv'
<1>. SUFFICES ASSUME DetectorInv, [AnalysesNext]_analyses_vars PROVE DetectorInv'
  OBVIOUS
<1>. USE DetectorAssumption
<1>1. DetectorNext \/ UNCHANGED detector_vars
  BY DEF AnalysesNext, analyses_vars
<1>2. CASE UNCHANGED detector_vars
  BY <1>2 DEF DetectorInv, DetectorTypeOK, detector_vars, Window
<1>3. CASE Start
  BY <1>3 DEF DetectorInv, DetectorTypeOK, Start, Window
<1>4. ASSUME NEW p \in Prices, Market(p) PROVE DetectorInv'
  <2>1. prices' \in Seq(Prices) /\ Len(prices') = Len(prices) + 1 /\ Len(prices) \in Nat
    BY <1>4, AppendProperties DEF DetectorInv, DetectorTypeOK, Market
  <2>2. prices' # <<>>
    BY <2>1
  <2>. QED BY <1>4, <2>1, <2>2 DEF DetectorInv, DetectorTypeOK, Market, Window
<1>5. CASE OnMarketEvent
  <2>1. Len(prices) > 0 => prices # <<>>
    OBVIOUS
  <2>2. DetectorTypeOK'
    <3>1. owed' \in 0 .. MaxStarts
      BY <1>5, DetectorHears DEF DetectorInv, DetectorTypeOK
    <3>2. /\ <<volatility_period, trend_period>>' \in Periods
          /\ subscriptions' \in 0 .. MaxStarts /\ prices' \in Seq(Prices)
      BY <1>5, DetectorHears DEF DetectorInv, DetectorTypeOK
    <3>3. /\ price_history' \in Seq(Prices) /\ Len(price_history') <= Window'
          /\ current_state' \in MarketStates /\ told' \in MarketStates
      BY <1>5, DetectorHears
    <3>. QED BY <3>1, <3>2, <3>3 DEF DetectorTypeOK
  <2>3. prices' # <<>>
    BY <1>5, <2>1, DetectorHears
  <2>. QED BY <2>2, <2>3 DEF DetectorInv
<1>. QED BY <1>1, <1>2, <1>3, <1>4, <1>5 DEF DetectorNext

LEMMA DetectorStart == AnalysesInit => DetectorInv
<1>. SUFFICES ASSUME AnalysesInit PROVE DetectorInv
  OBVIOUS
<1>1. PICK p \in Periods : volatility_period = p[1] /\ trend_period = p[2]
  BY DEF AnalysesInit, DetectorInit
<1>2. /\ subscriptions = 0 /\ owed = 0 /\ price_history = <<>> /\ prices = <<>>
      /\ current_state = Default /\ told = Default
  BY DEF AnalysesInit, DetectorInit
<1>3. <<volatility_period, trend_period>> \in Periods
  BY <1>1, DetectorAssumption
<1>4. volatility_period \in Nat \ {0} /\ trend_period \in Nat \ {0}
  BY <1>3, DetectorAssumption
<1>5. Window \in Nat
  <2>1. \E x \in {volatility_period, trend_period} :
          \A y \in {volatility_period, trend_period} : x >= y
    <3>1. CASE volatility_period >= trend_period
      BY <1>4, <3>1
    <3>2. CASE trend_period >= volatility_period
      BY <1>4, <3>2
    <3>. QED BY <1>4, <3>1, <3>2
  <2>. QED BY <1>4, <2>1 DEF Window, Max
<1>6. price_history \in Seq(Prices) /\ prices \in Seq(Prices) /\ Len(price_history) = 0
  BY <1>2
<1>7. MaxStarts \in Nat
  BY DetectorAssumption
<1>. QED BY <1>2, <1>3, <1>5, <1>6, <1>7, RegimesAreStates DEF DetectorInv, DetectorTypeOK

(* In every analysis, whatever the files, trades, measured times and       *)
(* prices: no value leaves its type, no more paths are sampled than asked  *)
(* for, and the detector's window does not outgrow the longer period.      *)
THEOREM AnalysesTypeCorrect == AnalysesSpec => []AnalysesTypeOK
<1>1. AnalysesInit => WalkInv /\ SimulatorInv /\ MonitorInv
  BY WalkInit, SimulatorStart, MonitorAssumption
  DEF AnalysesInit, MonitorInit, MonitorInv
<1>2. WalkInv /\ SimulatorInv /\ MonitorInv /\ DetectorInv => AnalysesTypeOK
  BY DEF WalkInv, SimulatorInv, MonitorInv, DetectorInv, AnalysesTypeOK
<1>. QED BY <1>1, <1>2, DetectorStart, WalkStep, SimulatorStep, MonitorStep, DetectorStep, PTL
         DEF AnalysesSpec
-----------------------------------------------------------------------------
(***************************************************************************)
(* The reports.                                                            *)
(***************************************************************************)
(* The module's sums, as sums of functions. *)
LEMMA ValuesAreSum ==
  ASSUME NEW p, NEW S, NEW g, Summable(g, S), \A s \in S : g[s] = p[s].value
  PROVE  MapThenSumSet(LAMBDA s : p[s].value, S) = SumOf(g, S)
<1>. DEFINE Fold(f, T) ==
       [s \in SUBSET T |->
          IF s = {} THEN 0
          ELSE p[CHOOSE x \in s : TRUE].value + f[s \ {CHOOSE x \in s : TRUE}]]
            sum == CHOOSE f : f = Fold(f, S)
<1>1. PICK f : IsSum(f, g, S)
  BY SumExists
<1>2. f = Fold(f, S)
  <2>1. \A s \in SUBSET S : s # {} => g[AnyOf(s)] = p[AnyOf(s)].value
    BY DEF AnyOf
  <2>. QED BY <1>1, <2>1 DEF IsSum, Sums, AnyOf
<1>3. sum = Fold(sum, S)
  <2>. HIDE DEF Fold
  <2>. QED BY <1>2
<1>4. MapThenSumSet(LAMBDA s : p[s].value, S) = sum[S]
  BY DEF MapThenSumSet, MapThenFoldSet
<1>5. PICK h : h = sum
  OBVIOUS
<1>6. h = Fold(h, S)
  <2>. HIDE DEF sum, Fold
  <2>. QED BY <1>3, <1>5
<1>7. Sums(h, g, S)
  <2>. HIDE DEF sum
  <2>1. \A s \in SUBSET S : s # {} => g[AnyOf(s)] = p[AnyOf(s)].value
    BY DEF AnyOf
  <2>2. \A s \in SUBSET S :
          h[s] = IF s = {} THEN 0 ELSE p[AnyOf(s)].value + h[s \ {AnyOf(s)}]
    BY <1>6 DEF AnyOf
  <2>. HIDE DEF Fold
  <2>. QED BY <2>1, <2>2 DEF Sums
<1>8. SumOf(g, S) = h[S]
  <2>. HIDE DEF sum, Fold
  <2>. QED BY <1>7, SumUnique
<1>. QED BY <1>4, <1>5, <1>8

LEMMA ProfitsAreSum ==
  ASSUME NEW p, NEW S, NEW g, Summable(g, S), \A i \in S : g[i] = p[i].pnl
  PROVE  MapThenSumSet(LAMBDA i : p[i].pnl, S) = SumOf(g, S)
<1>. DEFINE Fold(f, T) ==
       [s \in SUBSET T |->
          IF s = {} THEN 0
          ELSE p[CHOOSE x \in s : TRUE].pnl + f[s \ {CHOOSE x \in s : TRUE}]]
            sum == CHOOSE f : f = Fold(f, S)
<1>1. PICK f : IsSum(f, g, S)
  BY SumExists
<1>2. f = Fold(f, S)
  <2>1. \A s \in SUBSET S : s # {} => g[AnyOf(s)] = p[AnyOf(s)].pnl
    BY DEF AnyOf
  <2>. QED BY <1>1, <2>1 DEF IsSum, Sums, AnyOf
<1>3. sum = Fold(sum, S)
  <2>. HIDE DEF Fold
  <2>. QED BY <1>2
<1>4. MapThenSumSet(LAMBDA i : p[i].pnl, S) = sum[S]
  BY DEF MapThenSumSet, MapThenFoldSet
<1>5. PICK h : h = sum
  OBVIOUS
<1>6. h = Fold(h, S)
  <2>. HIDE DEF sum, Fold
  <2>. QED BY <1>3, <1>5
<1>7. Sums(h, g, S)
  <2>. HIDE DEF sum
  <2>1. \A s \in SUBSET S : s # {} => g[AnyOf(s)] = p[AnyOf(s)].pnl
    BY DEF AnyOf
  <2>2. \A s \in SUBSET S :
          h[s] = IF s = {} THEN 0 ELSE p[AnyOf(s)].pnl + h[s \ {AnyOf(s)}]
    BY <1>6 DEF AnyOf
  <2>. HIDE DEF Fold
  <2>. QED BY <2>1, <2>2 DEF Sums
<1>8. SumOf(g, S) = h[S]
  <2>. HIDE DEF sum, Fold
  <2>. QED BY <1>7, SumUnique
<1>. QED BY <1>4, <1>5, <1>8

LEMMA FeesAreSum ==
  ASSUME NEW p, NEW S, NEW g, Summable(g, S), \A i \in S : g[i] = p[i].fees
  PROVE  MapThenSumSet(LAMBDA i : p[i].fees, S) = SumOf(g, S)
<1>. DEFINE Fold(f, T) ==
       [s \in SUBSET T |->
          IF s = {} THEN 0
          ELSE p[CHOOSE x \in s : TRUE].fees + f[s \ {CHOOSE x \in s : TRUE}]]
            sum == CHOOSE f : f = Fold(f, S)
<1>1. PICK f : IsSum(f, g, S)
  BY SumExists
<1>2. f = Fold(f, S)
  <2>1. \A s \in SUBSET S : s # {} => g[AnyOf(s)] = p[AnyOf(s)].fees
    BY DEF AnyOf
  <2>. QED BY <1>1, <2>1 DEF IsSum, Sums, AnyOf
<1>3. sum = Fold(sum, S)
  <2>. HIDE DEF Fold
  <2>. QED BY <1>2
<1>4. MapThenSumSet(LAMBDA i : p[i].fees, S) = sum[S]
  BY DEF MapThenSumSet, MapThenFoldSet
<1>5. PICK h : h = sum
  OBVIOUS
<1>6. h = Fold(h, S)
  <2>. HIDE DEF sum, Fold
  <2>. QED BY <1>3, <1>5
<1>7. Sums(h, g, S)
  <2>. HIDE DEF sum
  <2>1. \A s \in SUBSET S : s # {} => g[AnyOf(s)] = p[AnyOf(s)].fees
    BY DEF AnyOf
  <2>2. \A s \in SUBSET S :
          h[s] = IF s = {} THEN 0 ELSE p[AnyOf(s)].fees + h[s \ {AnyOf(s)}]
    BY <1>6 DEF AnyOf
  <2>. HIDE DEF Fold
  <2>. QED BY <2>1, <2>2 DEF Sums
<1>8. SumOf(g, S) = h[S]
  <2>. HIDE DEF sum, Fold
  <2>. QED BY <1>7, SumUnique
<1>. QED BY <1>4, <1>5, <1>8

LEMMA SumOfZeros ==
  ASSUME NEW S, IsFiniteSet(S), NEW g, \A v \in S : g[v] = 0
  PROVE  SumOf(g, S) = 0
<1>1. PICK zero : zero = [v \in S |-> 0]
  OBVIOUS
<1>2. Summable(g, S)
  BY DEF Summable
<1>3. PICK Good : Good = {s \in SUBSET S : SumOf(g, s) = 0}
  OBVIOUS
<1>4. ASSUME NEW s \in SUBSET S, \A x \in s : s \ {x} \in Good PROVE s \in Good
  <2>1. Summable(g, s)
    BY <1>2, SummableWithin
  <2>2. CASE s = {}
    BY <1>3, <2>1, <2>2, SumFacts
  <2>3. CASE s # {}
    <3>1. PICK x \in s : TRUE
      BY <2>3
    <3>2. SumOf(g, s) = g[x] + SumOf(g, s \ {x})
      BY <2>1, SumFacts
    <3>3. SumOf(g, s \ {x}) = 0 /\ g[x] = 0
      BY <1>3, <1>4
    <3>. QED BY <1>3, <3>2, <3>3
  <2>. QED BY <2>2, <2>3
<1>5. SUBSET S \subseteq Good
  BY <1>4, SubsetInduction
<1>. QED BY <1>3, <1>5

(* What the symbols' positions are worth. *)
Basis == [s \in Symbols |-> PositionIn(s).value]

LEMMA EquityIsSum ==
  PortfolioTypeOK => /\ Summable(Basis, Symbols)
                     /\ TotalEquity = cash + SumOf(Basis, Symbols)
                     /\ TotalEquity \in Int
<1>. SUFFICES ASSUME PortfolioTypeOK
              PROVE  /\ Summable(Basis, Symbols)
                     /\ TotalEquity = cash + SumOf(Basis, Symbols)
                     /\ TotalEquity \in Int
  OBVIOUS
<1>1. PICK D, rest, g : D = DOMAIN positions /\ rest = Symbols \ D /\ g = Basis
  OBVIOUS
<1>2. /\ D \in SUBSET Symbols
      /\ \A s \in Symbols : g[s] = IF s \in D THEN positions[s].value ELSE 0
      /\ \A s \in D : positions[s].value \in Int
  BY <1>1 DEF PortfolioTypeOK, Basis, PositionIn, NoPosition, Positions
<1>3. Summable(g, Symbols)
  BY <1>2, ReportsAssumption DEF Summable
<1>4. Summable(g, D) /\ Summable(g, rest)
  BY <1>1, <1>2, <1>3, SummableWithin
<1>5. SumOf(g, Symbols) = SumOf(g, D) + SumOf(g, rest)
  BY <1>1, <1>2, <1>3, SumUnion
<1>6. SumOf(g, rest) = 0
  <2>1. IsFiniteSet(rest)
    BY <1>4 DEF Summable
  <2>2. \A v \in rest : g[v] = 0
    BY <1>1, <1>2
  <2>. QED BY <2>1, <2>2, SumOfZeros
<1>7. OpenPositionsValue = SumOf(g, D)
  <2>1. \A s \in D : g[s] = positions[s].value
    BY <1>2
  <2>2. MapThenSumSet(LAMBDA s : positions[s].value, D) = SumOf(g, D)
    BY <1>4, <2>1, ValuesAreSum
  <2>. QED BY <1>1, <2>2 DEF OpenPositionsValue
<1>8. SumOf(g, D) \in Int /\ cash \in Int
  BY <1>4, SumFacts DEF PortfolioTypeOK
<1>. QED BY <1>1, <1>3, <1>5, <1>6, <1>7, <1>8 DEF TotalEquity

(* A trade adds its profit to the log's. *)
Profits(log) == [i \in DOMAIN log |-> log[i].pnl]
PnlSum(log) == SumOf(Profits(log), DOMAIN log)

LEMMA LogSummable ==
  ASSUME NEW log \in Seq(Trades)
  PROVE  Summable(Profits(log), DOMAIN log)
<1>1. \A i \in DOMAIN log : log[i].pnl \in Int
  <2>1. ASSUME NEW i \in DOMAIN log PROVE log[i] \in Trades
    OBVIOUS
  <2>. QED BY <2>1 DEF Trades
<1>2. IsFiniteSet(DOMAIN log)
  BY FS_Interval
<1>. QED BY <1>1, <1>2 DEF Summable, Profits

LEMMA TradeLogged ==
  ASSUME NEW log \in Seq(Trades), NEW t \in Trades
  PROVE  PnlSum(Append(log, t)) = PnlSum(log) + t.pnl
<1>1. PICK longer, D, E, g, h : /\ longer = Append(log, t)
                                /\ D = DOMAIN log /\ E = DOMAIN longer
                                /\ g = Profits(log) /\ h = Profits(longer)
  OBVIOUS
<1>2. PICK n : n = Len(log) + 1
  OBVIOUS
<1>3. /\ longer \in Seq(Trades) /\ Len(longer) = n /\ longer[n] = t
      /\ n \in Nat \ {0} /\ D = 1 .. n - 1 /\ E = 1 .. n
      /\ \A i \in D : longer[i] = log[i]
  BY <1>1, <1>2, AppendProperties
<1>4. n \in E /\ D = E \ {n}
  BY <1>3
<1>5. Summable(g, D) /\ Summable(h, E)
  BY <1>1, <1>3, LogSummable
<1>6. SumOf(h, E) = h[n] + SumOf(h, D)
  BY <1>4, <1>5, SumFacts
<1>7. \A i \in D : h[i] = g[i]
  BY <1>1, <1>3, <1>4 DEF Profits
<1>8. SumOf(h, D) = SumOf(g, D) /\ SumOf(g, D) \in Int
  BY <1>5, <1>7, SumAgree, SumFacts
<1>9. h[n] = t.pnl /\ t.pnl \in Int
  BY <1>1, <1>3, <1>4 DEF Profits, Trades
<1>. QED BY <1>1, <1>6, <1>8, <1>9 DEF PnlSum

(* The report's profit and loss are those of the log. *)
LEMMA ProfitAndLoss ==
  ASSUME NEW log \in Seq(Trades)
  PROVE  /\ PnlOf(log, Winning(log)) \in Int /\ PnlOf(log, Losing(log)) \in Int
         /\ PnlOf(log, Winning(log)) + PnlOf(log, Losing(log)) = PnlSum(log)
<1>1. PICK D, W, L, g : /\ D = DOMAIN log /\ W = Winning(log) /\ L = D \ W
                        /\ g = Profits(log)
  OBVIOUS
<1>2. W \in SUBSET D /\ L \in SUBSET D /\ L = Losing(log)
  BY <1>1 DEF Winning, Losing
<1>3. Summable(g, D) /\ Summable(g, W) /\ Summable(g, L)
  BY <1>1, <1>2, LogSummable, SummableWithin
<1>4. SumOf(g, D) = SumOf(g, W) + SumOf(g, L) /\ SumOf(g, W) \in Int /\ SumOf(g, L) \in Int
  <2>1. SumOf(g, D) = SumOf(g, W) + SumOf(g, D \ W)
    BY <1>2, <1>3, SumUnion
  <2>2. SumOf(g, W) \in Int /\ SumOf(g, L) \in Int
    BY <1>3, SumFacts
  <2>3. D \ W = L
    BY <1>1
  <2>. QED BY <2>1, <2>2, <2>3
<1>5. /\ \A i \in W : g[i] = log[i].pnl
      /\ \A i \in L : g[i] = log[i].pnl
  BY <1>1, <1>2 DEF Profits
<1>6. PnlOf(log, W) = SumOf(g, W) /\ PnlOf(log, L) = SumOf(g, L)
  BY <1>3, <1>5, ProfitsAreSum DEF PnlOf
<1>. QED BY <1>1, <1>2, <1>4, <1>6 DEF PnlSum

Received == [s \in Symbols |-> ledger[s].received]
Realised == [s \in Symbols |-> ledger[s].realised]

(* The curve runs from the capital to the equity, with a point per fill;   *)
(* the cash that moved, and the profit logged, are those of the ledger.    *)
ReportInv ==
  /\ IInv
  /\ equity_curve \in Seq(Int) /\ Len(equity_curve) = filled + 1
  /\ equity_curve[1] = InitialCapital /\ equity_curve[Len(equity_curve)] = TotalEquity
  /\ SumOf(Received, Symbols) = cash - InitialCapital
  /\ SumOf(Realised, Symbols) = PnlSum(trade_log)

LEMMA LedgerSummable ==
  TypeOK => /\ Summable(Received, Symbols)
            /\ Summable(Realised, Symbols)
BY ReportsAssumption DEF TypeOK, LedgerEntries, Summable, Received, Realised

(* What a fill enters into the ledger is what it moves, and logs. *)
LEMMA FillBooked ==
  ASSUME IInv, NEW f \in Fills, Fill(f)
  PROVE  /\ SumOf(Received, Symbols)' = SumOf(Received, Symbols) + (cash' - cash)
         /\ SumOf(Realised, Symbols)' - SumOf(Realised, Symbols)
              = PnlSum(trade_log)' - PnlSum(trade_log)
<1>1. /\ f \in FillEvents /\ f.symbol \in Symbols /\ OnFill(f)
      /\ ledger' = [ledger EXCEPT ![f.symbol] = Entry(@, f)]
      /\ TypeOK
  BY LedgerAssumption DEF Fill, FillEvents, IInv
<1>2. /\ ledger'[f.symbol] = Entry(ledger[f.symbol], f)
      /\ \A s \in Symbols \ {f.symbol} : ledger'[s] = ledger[s]
      /\ ledger' \in [Symbols -> LedgerEntries]
  BY <1>1, Entered
<1>3. PICK rcv, rcv1, rls, rls1, x : /\ rcv = Received /\ rcv1 = Received'
                                     /\ rls = Realised /\ rls1 = Realised'
                                     /\ x = f.symbol
  OBVIOUS
<1>4. Summable(rcv, Symbols) /\ Summable(rls, Symbols) /\ x \in Symbols
  BY <1>1, <1>3, LedgerSummable
<1>5. /\ \A v \in Symbols \ {x} : rcv1[v] = rcv[v] /\ rls1[v] = rls[v]
      /\ rcv1[x] \in Int /\ rls1[x] \in Int /\ rcv[x] \in Int /\ rls[x] \in Int
      /\ rcv1[x] = rcv[x] + (cash' - cash)
      /\ rls1[x] = rls[x] + (IF IsClosingTrade(f) THEN Trade(f).pnl ELSE 0)
  <2>1. \A v \in Symbols \ {x} : rcv1[v] = rcv[v] /\ rls1[v] = rls[v]
    BY <1>2, <1>3 DEF Received, Realised
  <2>2. rcv1[x] \in Int /\ rls1[x] \in Int /\ rcv[x] \in Int /\ rls[x] \in Int
    BY <1>1, <1>2, <1>3 DEF Received, Realised, TypeOK, LedgerEntries
  <2>3. /\ rcv1[x] = rcv[x] + (cash' - cash)
        /\ rls1[x] = rls[x] + (IF IsClosingTrade(f) THEN Trade(f).pnl ELSE 0)
    BY <1>1, <1>2, <1>3 DEF Received, Realised, Entry
  <2>. QED BY <2>1, <2>2, <2>3
<1>6. /\ SumOf(rcv1, Symbols) = SumOf(rcv, Symbols) + (rcv1[x] - rcv[x])
      /\ SumOf(rls1, Symbols) = SumOf(rls, Symbols) + (rls1[x] - rls[x])
  BY <1>4, <1>5, SumChanges
<1>7. SumOf(rcv, Symbols) \in Int /\ SumOf(rls, Symbols) \in Int
  BY <1>4, SumFacts
<1>8. cash \in Int /\ cash' \in Int
  BY <1>1, MovesIntegers DEF OnFill, TypeOK, PortfolioTypeOK
<1>9. trade_log \in Seq(Trades) /\ PnlSum(trade_log) \in Int
  BY <1>1, LogSummable, SumFacts DEF TypeOK, PortfolioTypeOK, PnlSum
<1>10. rls1[x] - rls[x] = PnlSum(trade_log)' - PnlSum(trade_log)
  <2>1. CASE IsClosingTrade(f)
    <3>1. Trade(f) \in Trades
      BY <1>1, <2>1, CloseBounds, MovesIntegers DEF Trade, Trades, TypeOK, FillEvents
    <3>2. PICK t : t = Trade(f)
      OBVIOUS
    <3>3. trade_log' = Append(trade_log, t)
      BY <1>1, <2>1, <3>2 DEF OnFill, Close
    <3>4. PnlSum(Append(trade_log, t)) = PnlSum(trade_log) + t.pnl
      BY <1>9, <3>1, <3>2, TradeLogged
    <3>5. PnlSum(trade_log)' = PnlSum(trade_log) + t.pnl
      BY <3>3, <3>4 DEF PnlSum, Profits
    <3>6. t.pnl \in Int /\ rls1[x] = rls[x] + t.pnl
      BY <1>5, <2>1, <3>1, <3>2 DEF Trades
    <3>. QED BY <1>5, <1>9, <3>5, <3>6
  <2>2. CASE ~ IsClosingTrade(f)
    <3>1. trade_log' = trade_log
      BY <1>1, <2>2 DEF OnFill, Open
    <3>2. PnlSum(trade_log)' = PnlSum(trade_log)
      BY <3>1 DEF PnlSum, Profits
    <3>. QED BY <1>5, <1>9, <2>2, <3>2
  <2>. QED BY <2>1, <2>2
<1>11. /\ SumOf(Received, Symbols)' = SumOf(rcv1, Symbols)
       /\ SumOf(Realised, Symbols)' = SumOf(rls1, Symbols)
  BY <1>3
<1>. QED BY <1>3, <1>5, <1>6, <1>7, <1>8, <1>10, <1>11

LEMMA CurveGrows ==
  ASSUME NEW c \in Seq(Int), Len(c) > 0, NEW e \in Int, NEW d, d = Append(c, e)
  PROVE  d \in Seq(Int) /\ Len(d) = Len(c) + 1 /\ d[1] = c[1] /\ d[Len(d)] = e
<1>1. d \in Seq(Int) /\ Len(d) = Len(c) + 1 /\ d[Len(c) + 1] = e
  BY AppendProperties
<1>2. 1 \in 1 .. Len(c)
  OBVIOUS
<1>3. d[1] = c[1]
  BY <1>2, AppendProperties
<1>. QED BY <1>1, <1>3

EquitySummed == /\ TotalEquity = cash + SumOf(Basis, Symbols)
                /\ TotalEquity \in Int
                /\ SumOf(Realised, Symbols) \in Int
                /\ PnlSum(trade_log) \in Int

LEMMA SumsInteger == TypeOK => EquitySummed
<1>1. TypeOK => TotalEquity = cash + SumOf(Basis, Symbols) /\ TotalEquity \in Int
  BY EquityIsSum DEF TypeOK
<1>2. TypeOK => SumOf(Realised, Symbols) \in Int
  BY LedgerSummable, SumFacts
<1>3. TypeOK => PnlSum(trade_log) \in Int
  BY LogSummable, SumFacts DEF TypeOK, PortfolioTypeOK, PnlSum
<1>. QED BY <1>1, <1>2, <1>3 DEF EquitySummed

LEMMA SumsStayInteger == TypeOK' => EquitySummed'
BY SumsInteger, PTL

LEMMA ReportStep == ReportInv /\ [ReportsNext]_report_vars => ReportInv'
<1>. SUFFICES ASSUME ReportInv, [ReportsNext]_report_vars PROVE ReportInv'
  OBVIOUS
<1>1. CASE UNCHANGED report_vars
  <2>1. UNCHANGED vars /\ equity_curve' = equity_curve
    BY <1>1 DEF report_vars
  <2>2. IInv'
    BY <2>1 DEF ReportInv, vars, portfolio_vars, IInv, TypeOK, PortfolioTypeOK,
                UnitsExplained, FlowExplained, HeldUnits, HeldBasis, PositionIn
  <2>3. UNCHANGED <<cash, trade_log, filled, Received, Realised, TotalEquity>>
    <3>1. UNCHANGED <<cash, trade_log, filled, Received, Realised, Basis>>
      BY <2>1 DEF vars, portfolio_vars, Received, Realised, Basis, PositionIn
    <3>2. EquitySummed /\ EquitySummed'
      BY <2>2, SumsInteger, SumsStayInteger DEF ReportInv, IInv
    <3>3. SumOf(Basis, Symbols)' = SumOf(Basis, Symbols)
      BY <3>1
    <3>. QED BY <3>1, <3>2, <3>3 DEF EquitySummed
  <2>. QED BY <2>1, <2>2, <2>3 DEF ReportInv
<1>2. ASSUME NEW f \in Fills, Fill(f), Updated PROVE ReportInv'
  <2>1. IInv'
    BY <1>2, FillStep DEF ReportInv
  <2>2. TotalEquity' \in Int
    BY <2>1, SumsStayInteger DEF IInv, EquitySummed
  <2>3. /\ SumOf(Received, Symbols)' = SumOf(Received, Symbols) + (cash' - cash)
        /\ SumOf(Realised, Symbols)' - SumOf(Realised, Symbols)
             = PnlSum(trade_log)' - PnlSum(trade_log)
    BY <1>2, FillBooked DEF ReportInv
  <2>4. filled \in Nat /\ filled' = filled + 1
    BY <1>2 DEF Fill, ReportInv, IInv, TypeOK
  <2>5. PICK e, d : e = TotalEquity' /\ d = equity_curve'
    OBVIOUS
  <2>6. d \in Seq(Int) /\ Len(d) = filled + 2 /\ d[1] = InitialCapital /\ d[Len(d)] = e
    <3>1. /\ equity_curve \in Seq(Int) /\ Len(equity_curve) = filled + 1
          /\ equity_curve[1] = InitialCapital
      BY DEF ReportInv
    <3>2. d = Append(equity_curve, e) /\ e \in Int
      BY <1>2, <2>2, <2>5 DEF Updated
    <3>. QED BY <2>4, <3>1, <3>2, CurveGrows
  <2>7. SumOf(Received, Symbols)' = cash' - InitialCapital
    <3>1. SumOf(Received, Symbols) = cash - InitialCapital
      BY DEF ReportInv
    <3>2. cash \in Int /\ cash' \in Int /\ InitialCapital \in Int
      BY <2>1, PortfolioAssumption DEF ReportInv, IInv, TypeOK, PortfolioTypeOK
    <3>. QED BY <2>3, <3>1, <3>2
  <2>8. SumOf(Realised, Symbols)' = PnlSum(trade_log)'
    <3>1. SumOf(Realised, Symbols) = PnlSum(trade_log)
      BY DEF ReportInv
    <3>2. SumOf(Realised, Symbols)' \in Int /\ SumOf(Realised, Symbols) \in Int
      BY <2>1, SumsInteger, SumsStayInteger DEF ReportInv, IInv, EquitySummed
    <3>3. PnlSum(trade_log)' \in Int
      BY <2>1, SumsStayInteger DEF IInv, EquitySummed
    <3>. QED BY <2>3, <3>1, <3>2, <3>3
  <2>. QED BY <2>1, <2>4, <2>5, <2>6, <2>7, <2>8 DEF ReportInv
<1>. QED BY <1>1, <1>2 DEF ReportsNext

LEMMA ReportStart == ReportsInit => ReportInv
<1>. SUFFICES ASSUME ReportsInit PROVE ReportInv
  OBVIOUS
<1>1. IInv
  BY InitInvariant DEF ReportsInit
<1>2. /\ cash = InitialCapital /\ DOMAIN positions = {} /\ trade_log = <<>> /\ filled = 0
      /\ \A s \in Symbols : ledger[s].received = 0 /\ ledger[s].realised = 0
  BY DEF ReportsInit, Init, PortfolioInit
<1>3. SumOf(Received, Symbols) = 0 /\ SumOf(Realised, Symbols) = 0
  <2>1. /\ \A s \in Symbols : Received[s] = 0
        /\ \A s \in Symbols : Realised[s] = 0
    BY <1>2 DEF Received, Realised
  <2>. QED BY <2>1, SumOfZeros, ReportsAssumption
<1>4. SumOf(Basis, Symbols) = 0
  <2>1. \A s \in Symbols : Basis[s] = 0
    BY <1>2 DEF Basis, PositionIn, NoPosition
  <2>. QED BY <2>1, SumOfZeros, ReportsAssumption
<1>5. InitialCapital \in Int
  BY PortfolioAssumption
<1>6. TotalEquity = InitialCapital
  <2>1. TotalEquity = cash + SumOf(Basis, Symbols)
    BY <1>1, EquityIsSum DEF IInv, TypeOK
  <2>. QED BY <1>2, <1>4, <1>5, <2>1
<1>7. PnlSum(trade_log) = 0
  <2>1. PICK D : D = DOMAIN trade_log
    OBVIOUS
  <2>2. D = {} /\ IsFiniteSet(D)
    BY <1>2, <2>1, FS_EmptySet
  <2>. QED BY <2>1, <2>2, SumOfZeros DEF PnlSum
<1>8. PICK c : c = equity_curve
  OBVIOUS
<1>9. c \in Seq(Int) /\ Len(c) = 1 /\ c[1] = InitialCapital
  BY <1>5, <1>8 DEF ReportsInit
<1>. QED BY <1>1, <1>2, <1>3, <1>5, <1>6, <1>7, <1>8, <1>9 DEF ReportInv

THEOREM ReportsInvariance == ReportsSpec => []ReportInv
BY ReportStart, ReportStep, PTL DEF ReportsSpec

LEMMA ReportFields ==
  ASSUME NEW curve \in Seq(Int), Len(curve) >= 2, NEW log
  PROVE  \E R : /\ R = GenerateReport(curve, log)
                /\ R.final_equity = Last(curve) /\ R.initial_equity = Head(curve)
                /\ R.max_drawdown = MaxDrawdown(curve)
                /\ log = <<>> => "total_profit" \notin DOMAIN R /\ "total_loss" \notin DOMAIN R
                /\ log # <<>> => /\ "total_profit" \in DOMAIN R
                                 /\ "total_loss" \in DOMAIN R
                                 /\ R["total_profit"] = PnlOf(log, Winning(log))
                                 /\ R["total_loss"] = PnlOf(log, Losing(log))
<1>1. PICK R : R = GenerateReport(curve, log)
  OBVIOUS
<1>2. PICK u, v : /\ u = CurveFields(curve)
                  /\ v = IF log = <<>> THEN <<>> ELSE TradeFields(log)
  OBVIOUS
<1>3. R = [x \in (DOMAIN u) \cup (DOMAIN v) |-> IF x \in DOMAIN u THEN u[x] ELSE v[x]]
  <2>. HIDE DEF CurveFields, TradeFields
  <2>1. ~ (Len(curve) < 2)
    OBVIOUS
  <2>. QED BY <1>1, <1>2, <2>1 DEF GenerateReport
<1>4. DOMAIN u = {"initial_equity", "final_equity", "total_return", "max_drawdown", "ratios"}
  BY <1>2 DEF CurveFields
<1>5. /\ u.final_equity = Last(curve) /\ u.initial_equity = Head(curve)
      /\ u.max_drawdown = MaxDrawdown(curve)
  BY <1>2 DEF CurveFields
<1>6. log = <<>> => DOMAIN v = {}
  BY <1>2
<1>7. log # <<>> => /\ DOMAIN v = {"total_trades", "win_rate", "profit_factor",
                                   "total_profit", "total_loss"}
                    /\ v["total_profit"] = PnlOf(log, Winning(log))
                    /\ v["total_loss"] = PnlOf(log, Losing(log))
  BY <1>2 DEF TradeFields
<1>. QED BY <1>1, <1>3, <1>4, <1>5, <1>6, <1>7, SMTT(30)

LEMMA SumAdds ==
  ASSUME NEW S, NEW g, NEW k, Summable(g, S), Summable(k, S),
         NEW h, \A v \in S : h[v] = g[v] + k[v]
  PROVE  SumOf(h, S) = SumOf(g, S) + SumOf(k, S) /\ Summable(h, S)
<1>1. Summable(h, S)
  BY DEF Summable
<1>2. PICK Good : Good = {s \in SUBSET S : SumOf(h, s) = SumOf(g, s) + SumOf(k, s)}
  OBVIOUS
<1>3. ASSUME NEW s \in SUBSET S, \A x \in s : s \ {x} \in Good PROVE s \in Good
  <2>1. Summable(g, s) /\ Summable(k, s) /\ Summable(h, s)
    BY <1>1, SummableWithin
  <2>2. CASE s = {}
    <3>1. SumOf(h, s) = 0 /\ SumOf(g, s) = 0 /\ SumOf(k, s) = 0
      BY <2>1, <2>2, SumFacts
    <3>. QED BY <1>2, <3>1
  <2>3. CASE s # {}
    <3>1. PICK x \in s : TRUE
      BY <2>3
    <3>2. PICK r : r = s \ {x}
      OBVIOUS
    <3>3. /\ SumOf(h, s) = h[x] + SumOf(h, r)
          /\ SumOf(g, s) = g[x] + SumOf(g, r)
          /\ SumOf(k, s) = k[x] + SumOf(k, r)
      BY <2>1, <3>2, SumFacts
    <3>4. r \in Good
      BY <1>3, <3>2
    <3>5. SumOf(h, r) = SumOf(g, r) + SumOf(k, r)
      BY <1>2, <3>4
    <3>6. SumOf(g, r) \in Int /\ SumOf(k, r) \in Int
      <4>1. Summable(g, r) /\ Summable(k, r)
        BY <2>1, <3>2, SummableWithin
      <4>. QED BY <4>1, SumFacts
    <3>7. g[x] \in Int /\ k[x] \in Int /\ h[x] = g[x] + k[x]
      BY DEF Summable
    <3>8. SumOf(h, s) = SumOf(g, s) + SumOf(k, s)
      BY <3>3, <3>5, <3>6, <3>7
    <3>. QED BY <1>2, <3>8
  <2>. QED BY <2>2, <2>3
<1>4. IsFiniteSet(S)
  BY DEF Summable
<1>5. SUBSET S \subseteq Good
  BY ONLY <1>3, <1>4, SubsetInduction
<1>. QED BY <1>1, <1>2, <1>5

(* The cash that came for a symbol held long, if at all, and never closed  *)
(* beyond its position.                                                    *)
LEMMA LongFlow ==
  ASSUME IInv, NEW s \in Symbols, ~ (HeldUnits(s) < 0), ledger[s].unbooked = 0
  PROVE  /\ ledger[s].realised = Basis[s] + (ledger[s].received + ledger[s].fees)
         /\ ledger[s].received \in Int /\ ledger[s].fees \in Int
<1>1. /\ ledger[s].received \in Int /\ ledger[s].realised \in Int
      /\ ledger[s].fees \in Int /\ ledger[s].unbooked \in Int
  BY DEF IInv, TypeOK, LedgerEntries
<1>2. PICK p : p = PositionIn(s)
  OBVIOUS
<1>3. \/ p.direction = "BUY" /\ p.value \in Int
      \/ p.direction = "SELL" /\ p.quantity \in Nat \ {0}
  BY <1>2 DEF IInv, TypeOK, PortfolioTypeOK, PositionIn, NoPosition, Positions, Directions
<1>4. p.direction = "BUY" /\ p.value \in Int
  <2>1. HeldUnits(s) = IF p.direction = "BUY" THEN p.quantity ELSE - p.quantity
    BY <1>2 DEF HeldUnits, Signed
  <2>. QED BY <1>3, <2>1
<1>5. HeldBasis(s) = p.value /\ Basis[s] = p.value
  BY <1>2, <1>4 DEF HeldBasis, Signed, Basis
<1>6. ledger[s].received = ledger[s].realised - ledger[s].fees
                             - HeldBasis(s) + ledger[s].unbooked
  BY DEF IInv, FlowExplained
<1>. QED BY <1>1, <1>4, <1>5, <1>6

LEMMA AddsUp == ReportInv => ReportAddsUp
<1>. DEFINE fees == MapThenSumSet(LAMBDA s : ledger[s].fees, Symbols)
<1>. SUFFICES ASSUME ReportInv, filled # 0,
                     \A s \in Symbols : ~ (HeldUnits(s) < 0) /\ ledger[s].unbooked = 0
              PROVE  Report.final_equity - Report.initial_equity
                       = Field("total_profit", 0) + Field("total_loss", 0) - fees
  BY DEF ReportAddsUp, EquityIsEarned
<1>1. TypeOK /\ trade_log \in Seq(Trades) /\ cash \in Int /\ InitialCapital \in Int
  BY PortfolioAssumption DEF ReportInv, IInv, TypeOK, PortfolioTypeOK
<1>2. PICK c : c = equity_curve
  OBVIOUS
<1>3. c \in Seq(Int) /\ Len(c) >= 2 /\ Head(c) = InitialCapital /\ Last(c) = TotalEquity
  <2>1. /\ c \in Seq(Int) /\ Len(c) = filled + 1 /\ c[1] = InitialCapital
        /\ c[Len(c)] = TotalEquity /\ filled \in Nat
    BY <1>1, <1>2 DEF ReportInv, TypeOK
  <2>. QED BY <2>1 DEF Last
<1>4. PICK R : /\ R = GenerateReport(c, trade_log)
               /\ R.final_equity = Last(c) /\ R.initial_equity = Head(c)
               /\ trade_log = <<>> =>
                    "total_profit" \notin DOMAIN R /\ "total_loss" \notin DOMAIN R
               /\ trade_log # <<>> =>
                    /\ "total_profit" \in DOMAIN R /\ "total_loss" \in DOMAIN R
                    /\ R["total_profit"] = PnlOf(trade_log, Winning(trade_log))
                    /\ R["total_loss"] = PnlOf(trade_log, Losing(trade_log))
  BY <1>3, ReportFields
<1>5. Report = R
  BY <1>2, <1>4 DEF Report
<1>6. /\ Field("total_profit", 0) \in Int /\ Field("total_loss", 0) \in Int
      /\ Field("total_profit", 0) + Field("total_loss", 0) = PnlSum(trade_log)
  <2>1. CASE trade_log = <<>>
    <3>1. PICK D : D = DOMAIN trade_log
      OBVIOUS
    <3>2. D = {} /\ IsFiniteSet(D)
      BY <2>1, <3>1, FS_EmptySet
    <3>3. PnlSum(trade_log) = 0
      BY <3>1, <3>2, SumOfZeros DEF PnlSum
    <3>. QED BY <1>4, <1>5, <2>1, <3>3 DEF Field
  <2>2. CASE trade_log # <<>>
    <3>1. /\ Field("total_profit", 0) = PnlOf(trade_log, Winning(trade_log))
          /\ Field("total_loss", 0) = PnlOf(trade_log, Losing(trade_log))
      BY <1>4, <1>5, <2>2 DEF Field
    <3>. QED BY <1>1, <3>1, ProfitAndLoss
  <2>. QED BY <2>1, <2>2
<1>7. PICK F, M : /\ F = [s \in Symbols |-> ledger[s].fees]
                  /\ M = [s \in Symbols |-> ledger[s].received + ledger[s].fees]
  OBVIOUS
<1>8. PICK B, V, W : B = Basis /\ V = Received /\ W = Realised
  OBVIOUS
<1>9. /\ Summable(F, Symbols) /\ Summable(B, Symbols) /\ Summable(V, Symbols)
      /\ Summable(W, Symbols)
  <2>1. Summable(F, Symbols)
    BY <1>1, <1>7, ReportsAssumption DEF TypeOK, LedgerEntries, Summable
  <2>2. Summable(B, Symbols) /\ Summable(V, Symbols) /\ Summable(W, Symbols)
    BY <1>1, <1>8, LedgerSummable, EquityIsSum DEF TypeOK
  <2>. QED BY <2>1, <2>2
<1>10. fees = SumOf(F, Symbols)
  BY <1>7, <1>9, FeesAreSum
<1>11. SumOf(M, Symbols) = SumOf(V, Symbols) + SumOf(F, Symbols) /\ Summable(M, Symbols)
  <2>1. \A s \in Symbols : M[s] = V[s] + F[s]
    BY <1>7, <1>8 DEF Received
  <2>. QED BY <1>9, <2>1, SumAdds
<1>12. SumOf(W, Symbols) = SumOf(B, Symbols) + SumOf(M, Symbols)
  <2>1. \A s \in Symbols : W[s] = B[s] + M[s]
    BY <1>7, <1>8, LongFlow DEF Realised, ReportInv
  <2>. QED BY <1>9, <1>11, <2>1, SumAdds
<1>13. /\ SumOf(V, Symbols) = cash - InitialCapital
       /\ SumOf(W, Symbols) = PnlSum(trade_log)
       /\ TotalEquity = cash + SumOf(B, Symbols)
  BY <1>1, <1>8, SumsInteger DEF ReportInv, EquitySummed
<1>14. SumOf(B, Symbols) \in Int /\ SumOf(F, Symbols) \in Int
  BY <1>9, SumFacts
<1>. HIDE DEF fees
<1>15. /\ Report.final_equity = cash + SumOf(B, Symbols)
       /\ Report.initial_equity = InitialCapital
  BY <1>3, <1>4, <1>5, <1>13
<1>16. PnlSum(trade_log) = SumOf(B, Symbols) + ((cash - InitialCapital) + SumOf(F, Symbols))
  BY <1>11, <1>12, <1>13
<1>17. PICK profit, loss, b, f, capital, ready :
          /\ profit = Field("total_profit", 0) /\ loss = Field("total_loss", 0)
          /\ b = SumOf(B, Symbols) /\ f = SumOf(F, Symbols)
          /\ capital = InitialCapital /\ ready = cash
  OBVIOUS
<1>18. /\ profit \in Int /\ loss \in Int /\ b \in Int /\ f \in Int
       /\ capital \in Int /\ ready \in Int
       /\ profit + loss = b + ((ready - capital) + f)
  BY <1>1, <1>6, <1>14, <1>16, <1>17
<1>19. (ready + b) - capital = profit + loss - f
  BY ONLY <1>18
<1>. QED BY <1>10, <1>15, <1>17, <1>19

(* What Analytics reports adds up for any symbols and any fills, however   *)
(* many, as long as the symbols are held long and none is over-closed.     *)
THEOREM ReportsAddUp == ReportsSpec => []ReportAddsUp
BY AddsUp, ReportsInvariance, PTL
-----------------------------------------------------------------------------
LEMMA ProductsIntegers == \A x, y \in Int : x * y \in Int
OBVIOUS

LEMMA ProductsOrdered ==
  ASSUME NEW x \in Int, NEW y \in Int, NEW q \in Nat, x <= y
  PROVE  x * q <= y * q
OBVIOUS

LEMMA ProductsCancelled ==
  ASSUME NEW x \in Int, NEW y \in Int, NEW q \in Nat \ {0}, x * q <= y * q
  PROVE  x <= y
<1>. SUFFICES ASSUME x > y PROVE FALSE
  OBVIOUS
<1>1. PICK d \in Nat \ {0} : x = y + d
  <2>1. x - y \in Nat \ {0} /\ x = y + (x - y)
    OBVIOUS
  <2>. QED BY <2>1
<1>2. x * q = y * q + d * q
  BY <1>1
<1>3. d * q > 0 /\ d * q \in Int
  OBVIOUS
<1>4. x * q \in Int /\ y * q \in Int
  BY ProductsIntegers
<1>. QED BY <1>2, <1>3, <1>4

LEMMA Reordered ==
  ASSUME NEW x \in Int, NEW y \in Int, NEW z \in Int
  PROVE  /\ (x * y) * z = (x * z) * y
         /\ (x * y) * z = (y * z) * x
         /\ (x - y) * z = x * z - y * z
OBVIOUS

(* Fractions are ordered by their cross products. *)
LEMMA RatiosOrdered ==
  ASSUME NEW x \in Int, NEW y \in Int, NEW z \in Int,
         NEW p \in Nat \ {0}, NEW q \in Nat \ {0}, NEW r \in Nat \ {0},
         x * q <= y * p, y * r <= z * q
  PROVE  x * r <= z * p
<1>1. PICK xq, yp, yr, zq : xq = x * q /\ yp = y * p /\ yr = y * r /\ zq = z * q
  OBVIOUS
<1>2. xq \in Int /\ yp \in Int /\ yr \in Int /\ zq \in Int /\ xq <= yp /\ yr <= zq
  BY <1>1, ProductsIntegers
<1>3. xq * r <= yp * r /\ yr * p <= zq * p
  BY <1>2, ProductsOrdered
<1>4. /\ xq * r = (x * r) * q
      /\ yp * r = yr * p
      /\ zq * p = (z * p) * q
  BY <1>1, Reordered
<1>5. (x * r) * q <= (z * p) * q
  <2>1. xq * r \in Int /\ yp * r \in Int /\ zq * p \in Int
    BY <1>2, ProductsIntegers
  <2>. QED BY <1>3, <1>4, <2>1
<1>6. x * r \in Int /\ z * p \in Int
  BY ProductsIntegers
<1>. QED BY <1>5, <1>6, ProductsCancelled

DrawdownStates == [peak : Int, worst : Int \X Int]

LEMMA FallTypes ==
  ASSUME NEW d \in DrawdownStates, NEW e \in Int, NEW n, n = Fall(d, e)
  PROVE  /\ n \in DrawdownStates
         /\ n.peak = IF e > d.peak THEN e ELSE d.peak
         /\ \/ /\ n.worst = <<n.peak - e, n.peak>>
               /\ (n.peak - e) * d.worst[2] > d.worst[1] * n.peak
            \/ /\ n.worst = d.worst
               /\ ~ ((n.peak - e) * d.worst[2] > d.worst[1] * n.peak)
<1>1. d.peak \in Int /\ d.worst \in Int \X Int
  BY DEF DrawdownStates
<1>2. PICK p : p = IF e > d.peak THEN e ELSE d.peak
  OBVIOUS
<1>3. p \in Int /\ p - e \in Int
  BY <1>1, <1>2
<1>4. Fall(d, e) = [peak |-> p, worst |-> IF (p - e) * d.worst[2] > d.worst[1] * p
                                          THEN <<p - e, p>> ELSE d.worst]
  BY <1>2 DEF Fall
<1>. QED BY <1>1, <1>2, <1>3, <1>4 DEF DrawdownStates

Seen(i) == {1} \cup 1 .. i
WorstSoFar(c, i, d) ==
  /\ d.worst[2] > 0
  /\ \A k \in Seen(i) : c[k] <= d.peak
  /\ \E k \in Seen(i) : c[k] = d.peak
  /\ \A j, k \in Seen(i) :
       k <= j => (c[k] - c[j]) * d.worst[2] <= d.worst[1] * c[k]
  /\ \E j, k \in Seen(i) :
       k <= j /\ (c[k] - c[j]) * d.worst[2] = d.worst[1] * c[k]

LEMMA WorstStep ==
  ASSUME NEW c \in Seq(Int), \A i \in DOMAIN c : c[i] > 0,
         NEW i \in Nat, i + 1 \in DOMAIN c,
         NEW d \in DrawdownStates, WorstSoFar(c, i, d)
  PROVE  WorstSoFar(c, i + 1, Fall(d, c[i + 1]))
<1>1. PICK e, n : e = c[i + 1] /\ n = Fall(d, e)
  OBVIOUS
<1>2. e \in Nat \ {0}
  BY <1>1
<1>3. \A k \in Seen(i + 1) : c[k] \in Nat \ {0} /\ (k \in Seen(i) \/ (k = i + 1 /\ c[k] = e))
  BY <1>1 DEF Seen
<1>4. Seen(i) \subseteq Seen(i + 1) /\ i + 1 \in Seen(i + 1)
  BY DEF Seen
<1>5. PICK P, a, b : P = d.peak /\ a = d.worst[1] /\ b = d.worst[2]
  OBVIOUS
<1>6. P \in Int /\ a \in Int /\ b \in Nat \ {0}
  <2>1. P \in Int /\ a \in Int /\ b \in Int
    BY <1>5 DEF DrawdownStates
  <2>2. b > 0
    BY <1>5 DEF WorstSoFar
  <2>. QED BY ONLY <2>1, <2>2
<1>7. PICK Q, x, y : Q = n.peak /\ x = n.worst[1] /\ y = n.worst[2]
  OBVIOUS
<1>8. /\ Q \in Int /\ x \in Int /\ y \in Int
      /\ Q = IF e > P THEN e ELSE P
      /\ \/ x = Q - e /\ y = Q /\ (Q - e) * b > a * Q
         \/ x = a /\ y = b /\ (Q - e) * b <= a * Q
  <2>1. /\ n \in DrawdownStates
        /\ n.peak = IF e > d.peak THEN e ELSE d.peak
        /\ \/ /\ n.worst = <<n.peak - e, n.peak>>
              /\ (n.peak - e) * d.worst[2] > d.worst[1] * n.peak
           \/ /\ n.worst = d.worst
              /\ ~ ((n.peak - e) * d.worst[2] > d.worst[1] * n.peak)
    <3>1. d \in DrawdownStates /\ e \in Int /\ n = Fall(d, e)
      BY <1>1, <1>2
    <3>. QED BY ONLY <3>1, FallTypes, ZenonT(60)
  <2>2. Q \in Int /\ x \in Int /\ y \in Int
    BY <1>7, <2>1 DEF DrawdownStates
  <2>3. Q = IF e > P THEN e ELSE P
    BY <1>5, <1>7, <2>1
  <2>4. \/ x = Q - e /\ y = Q /\ (Q - e) * b > a * Q
        \/ x = a /\ y = b /\ ~ ((Q - e) * b > a * Q)
    <3>1. CASE n.worst = <<n.peak - e, n.peak>> /\ (n.peak - e) * d.worst[2] > d.worst[1] * n.peak
      BY <1>5, <1>7, <3>1
    <3>2. CASE n.worst = d.worst /\ ~ ((n.peak - e) * d.worst[2] > d.worst[1] * n.peak)
      BY <1>5, <1>7, <3>2
    <3>. QED BY <2>1, <3>1, <3>2
  <2>5. (Q - e) * b \in Int /\ a * Q \in Int
    <3>1. Q - e \in Int
      BY <1>2, <2>2
    <3>. QED BY <1>6, <2>2, <3>1, ProductsIntegers
  <2>6. ~ ((Q - e) * b > a * Q) => (Q - e) * b <= a * Q
    BY <2>5
  <2>. QED BY <2>2, <2>3, <2>4, <2>6

<1>9. \A k \in Seen(i + 1) : c[k] <= Q
  <2>1. \A k \in Seen(i) : c[k] <= P
    BY <1>5 DEF WorstSoFar
  <2>. QED BY <1>2, <1>3, <1>6, <1>8, <2>1
<1>10. \E k \in Seen(i + 1) : c[k] = Q
  <2>1. \E k \in Seen(i) : c[k] = P
    BY <1>5 DEF WorstSoFar
  <2>. QED BY <1>1, <1>4, <1>8, <2>1
<1>11. Q \in Nat \ {0} /\ Q >= e /\ y \in Nat \ {0}
  BY <1>2, <1>3, <1>6, <1>8, <1>9, <1>10
(* The new point's losses are at most that below the peak. *)
<1>12. \A k \in Seen(i + 1) : (c[k] - e) * Q <= (Q - e) * c[k]
  <2>. SUFFICES ASSUME NEW k \in Seen(i + 1) PROVE (c[k] - e) * Q <= (Q - e) * c[k]
    OBVIOUS
  <2>1. PICK v : v = c[k]
    OBVIOUS
  <2>2. v \in Nat /\ v <= Q
    BY <1>3, <1>9, <2>1
  <2>3. v * e <= Q * e
    BY <1>2, <1>11, <2>2, ProductsOrdered
  <2>4. (v - e) * Q = v * Q - e * Q /\ (Q - e) * v = Q * v - e * v
    BY <1>2, <1>11, <2>2, Reordered
  <2>5. v * Q = Q * v /\ v * e = e * v /\ Q * e = e * Q
    BY <1>2, <1>11, <2>2
  <2>6. Q * v \in Int /\ e * v \in Int /\ e * Q \in Int
    BY <1>2, <1>11, <2>2, ProductsIntegers
  <2>. QED BY <2>1, <2>3, <2>4, <2>5, <2>6
<1>13. \A j, k \in Seen(i) : k <= j => (c[k] - c[j]) * b <= a * c[k]
  BY <1>5 DEF WorstSoFar
<1>14. \A j, k \in Seen(i + 1) : k <= j => (c[k] - c[j]) * y <= x * c[k]
  <2>. SUFFICES ASSUME NEW j \in Seen(i + 1), NEW k \in Seen(i + 1), k <= j
                PROVE  (c[k] - c[j]) * y <= x * c[k]
    OBVIOUS
  <2>1. PICK v, l : v = c[k] /\ l = c[k] - c[j]
    OBVIOUS
  <2>2. v \in Nat \ {0} /\ l \in Int
    BY <1>3, <2>1
  <2>3. CASE x = Q - e /\ y = Q /\ (Q - e) * b > a * Q
    <3>1. CASE j \in Seen(i) /\ k \in Seen(i)
      <4>1. l * b <= a * v
        BY <1>13, <2>1, <3>1
      <4>2. a * Q <= (Q - e) * b
        <5>1. a * Q \in Int /\ (Q - e) * b \in Int
          BY <1>2, <1>6, <1>11, ProductsIntegers
        <5>. QED BY <2>3, <5>1
      <4>3. Q - e \in Int
        BY <1>2, <1>11
      <4>4. l * Q <= (Q - e) * v
        BY <1>6, <1>11, <2>2, <4>1, <4>2, <4>3, RatiosOrdered
      <4>. QED BY <2>1, <2>3, <4>4
    <3>2. CASE c[j] = e
      BY <1>12, <2>3, <3>2
    <3>. QED BY <1>3, <3>1, <3>2 DEF Seen
  <2>4. CASE x = a /\ y = b /\ (Q - e) * b <= a * Q
    <3>1. CASE j \in Seen(i) /\ k \in Seen(i)
      BY <1>13, <2>4, <3>1
    <3>2. CASE c[j] = e
      <4>1. l * Q <= (Q - e) * v
        BY <1>12, <2>1, <3>2
      <4>2. Q - e \in Int
        BY <1>2, <1>11
      <4>3. l * b <= a * v
        BY <1>6, <1>11, <2>2, <2>4, <4>1, <4>2, RatiosOrdered, ZenonT(60)
      <4>. QED BY <2>1, <2>4, <4>3
    <3>. QED BY <1>3, <3>1, <3>2 DEF Seen
  <2>. QED BY <1>8, <2>3, <2>4
<1>15. \E j, k \in Seen(i + 1) : k <= j /\ (c[k] - c[j]) * y = x * c[k]
  <2>1. CASE x = Q - e /\ y = Q
    <3>1. PICK k \in Seen(i + 1) : c[k] = Q
      BY <1>10
    <3>2. k <= i + 1
      BY DEF Seen
    <3>3. (c[k] - c[i + 1]) * y = x * c[k]
      BY <1>1, <2>1, <3>1
    <3>. QED BY <1>4, <3>2, <3>3
  <2>2. CASE x = a /\ y = b
    <3>1. \E j, k \in Seen(i) : k <= j /\ (c[k] - c[j]) * b = a * c[k]
      BY <1>5 DEF WorstSoFar
    <3>. QED BY <1>4, <2>2, <3>1
  <2>. QED BY <1>8, <2>1, <2>2
<1>16. y > 0
  BY <1>11
<1>. QED BY <1>1, <1>7, <1>9, <1>10, <1>14, <1>15, <1>16 DEF WorstSoFar

(* The fold's steps, point by point. *)
LEMMA DrawdownSteps ==
  ASSUME NEW curve \in Seq(Int), Len(curve) > 0
  PROVE  \E h : /\ h[0] = [peak |-> curve[1], worst |-> <<0, 1>>]
                /\ \A i \in 1 .. Len(curve) : h[i] = Fall(h[i - 1], curve[i])
                /\ MaxDrawdown(curve) = h[Len(curve)].worst
<1>1. PICK D, start : D = DOMAIN curve /\ start = [peak |-> curve[1], worst |-> <<0, 1>>]
  OBVIOUS
<1>2. /\ D = 1 .. Len(curve) /\ IsFiniteSet(D) /\ D \in SUBSET Int
      /\ \A i \in D : curve[i] \in Int
      /\ Len(curve) \in Nat
  <2>1. D = 1 .. Len(curve) /\ Len(curve) \in Nat
    BY <1>1
  <2>2. IsFiniteSet(D) /\ D \in SUBSET Int
    BY <2>1, FS_Interval
  <2>. QED BY <1>1, <2>1, <2>2
<1>3. \A s \in SUBSET D : s # {} => Max(s) \in s
  <2>. SUFFICES ASSUME NEW s \in SUBSET D, s # {} PROVE Max(s) \in s
    OBVIOUS
  <2>1. s \in SUBSET Int /\ IsFiniteSet(s)
    BY <1>2, FS_Subset
  <2>2. PICK x \in s : \A y \in s : y <= x
    BY <2>1, Extremes
  <2>3. \A y \in s : x >= y
    BY <2>1, <2>2
  <2>. QED BY <2>3 DEF Max
<1>4. start \in DrawdownStates
  <2>1. curve[1] \in Int
    BY <1>2
  <2>. QED BY <1>1, <2>1 DEF DrawdownStates
<1>. DEFINE Fold(f, T) ==
       [s \in SUBSET T |->
          IF s = {} THEN start ELSE Fall(f[s \ {Max(s)}], curve[Max(s)])]
            iter == CHOOSE f : f = Fold(f, D)
<1>5. \E f : f = Fold(f, D)
  <2>1. PICK chosen : chosen = [s \in SUBSET D |-> Max(s)]
    OBVIOUS
  <2>2. PICK V : V = DrawdownStates
    OBVIOUS
  <2>3. PICK step : step = [p \in (SUBSET D) \X V |->
                              IF p[1] = {} THEN p[2] ELSE Fall(p[2], curve[Max(p[1])])]
    OBVIOUS
  <2>4. step \in [(SUBSET D) \X V -> V]
    <3>1. ASSUME NEW p \in (SUBSET D) \X V
          PROVE  (IF p[1] = {} THEN p[2] ELSE Fall(p[2], curve[Max(p[1])])) \in V
      <4>1. p[1] \in SUBSET D /\ p[2] \in DrawdownStates
        BY <2>2
      <4>2. CASE p[1] # {}
        <5>1. Max(p[1]) \in D
          BY <1>3, <4>1, <4>2
        <5>2. curve[Max(p[1])] \in Int
          BY <1>2, <5>1
        <5>. QED BY <2>2, <4>1, <4>2, <5>2, FallTypes
      <4>. QED BY <2>2, <4>1, <4>2
    <3>. QED BY <2>3, <3>1
  <2>5. Chooses(chosen, D)
    BY <1>3, <2>1 DEF Chooses
  <2>6. start \in V
    BY <1>4, <2>2
  <2>7. PICK f : IsFold(f, D, V, start, step, chosen)
    BY ONLY <1>2, <2>4, <2>5, <2>6, FoldExists
  <2>8. ASSUME NEW s \in SUBSET D, s # {}
        PROVE  f[s] = Fall(f[s \ {Max(s)}], curve[Max(s)])
    <3>1. PICK r \in SUBSET D : r = s \ {Max(s)}
      OBVIOUS
    <3>2. f[r] \in V /\ f[s] = step[<<s, f[r]>>]
      BY <2>1, <2>7, <2>8, <3>1 DEF IsFold
    <3>. QED BY <2>3, <2>8, <3>1, <3>2
  <2>9. f = Fold(f, D)
    <3>1. \A s \in SUBSET D : s = {} => f[s] = start
      BY <2>7 DEF IsFold
    <3>2. f = [s \in SUBSET D |-> f[s]]
      BY <2>7 DEF IsFold
    <3>. QED BY <2>8, <3>1, <3>2
  <2>. HIDE DEF Fold
  <2>. QED BY <2>9
<1>6. iter = Fold(iter, D)
  <2>. HIDE DEF Fold
  <2>. QED BY <1>5
<1>7. MaxDrawdown(curve) = iter[D].worst
  BY <1>1 DEF MaxDrawdown, FoldLeft, MapThenFoldSet
<1>8. PICK g : g = iter
  OBVIOUS
<1>9. g = Fold(g, D)
  <2>. HIDE DEF Fold, iter
  <2>. QED BY <1>6, <1>8
<1>. HIDE DEF iter
<1>10. PICK h : h = [i \in 0 .. Len(curve) |-> g[1 .. i]]
  OBVIOUS
<1>11. h[0] = start
  <2>1. PICK none : none = 1 .. 0
    OBVIOUS
  <2>2. none = {} /\ none \in SUBSET D
    BY <2>1
  <2>3. g[none] = start
    BY <1>9, <2>2
  <2>. QED BY <1>10, <2>1, <2>3
<1>12. ASSUME NEW i \in 1 .. Len(curve) PROVE h[i] = Fall(h[i - 1], curve[i])
  <2>1. PICK s, r : s = 1 .. i /\ r = 1 .. i - 1
    OBVIOUS
  <2>0. i \in Nat \ {0} /\ i <= Len(curve) /\ Len(curve) \in Nat
    BY <1>2
  <2>2. i \in s /\ s \in SUBSET D /\ s # {} /\ \A x \in s : i >= x /\ x \in Int
    <3>1. i \in s /\ \A x \in s : i >= x /\ x \in Int
      BY <2>0, <2>1
    <3>2. \A x \in s : x \in D
      BY <1>2, <2>0, <2>1
    <3>. QED BY <3>1, <3>2
  <2>3. Max(s) \in s /\ \A x \in s : Max(s) >= x
    <3>1. \E x \in s : \A y \in s : x >= y
      BY ONLY <2>2
    <3>. QED BY <3>1 DEF Max
  <2>4. Max(s) = i
    <3>1. i \in s /\ Max(s) \in Int
      BY <2>1, <2>2, <2>3
    <3>. QED BY <2>2, <2>3, <3>1
  <2>5. r = s \ {i}
    BY <2>1
  <2>6. g[s] = Fall(g[r], curve[i])
    BY <1>9, <2>2, <2>4, <2>5
  <2>7. h[i] = g[s] /\ h[i - 1] = g[r]
    BY <1>10, <2>1
  <2>. QED BY <2>6, <2>7
<1>13. h[Len(curve)] = g[D]
  BY <1>2, <1>10
<1>. QED BY <1>1, <1>7, <1>8, <1>11, <1>12, <1>13

LEMMA DrawdownFound ==
  ASSUME NEW c \in Seq(Int), Len(c) > 0, \A i \in DOMAIN c : c[i] > 0,
         NEW d, d = MaxDrawdown(c)
  PROVE  /\ \A j \in DOMAIN c : \A i \in 1 .. j : (c[i] - c[j]) * d[2] <= d[1] * c[i]
         /\ \E j \in DOMAIN c : \E i \in 1 .. j : (c[i] - c[j]) * d[2] = d[1] * c[i]
<1>1. PICK h : /\ h[0] = [peak |-> c[1], worst |-> <<0, 1>>]
               /\ \A i \in 1 .. Len(c) : h[i] = Fall(h[i - 1], c[i])
               /\ MaxDrawdown(c) = h[Len(c)].worst
  BY DrawdownSteps
<1>2. PICK Good : Good = {i \in Nat : i <= Len(c) =>
                            h[i] \in DrawdownStates /\ WorstSoFar(c, i, h[i])}
  OBVIOUS
<1>3. 0 \in Good
  <2>1. PICK start : start = h[0]
    OBVIOUS
  <2>2. start.peak = c[1] /\ start.worst = <<0, 1>> /\ start \in DrawdownStates
    BY <1>1, <2>1 DEF DrawdownStates
  <2>3. Seen(0) = {1}
    BY DEF Seen
  <2>4. c[1] \in Int
    OBVIOUS
  <2>5. WorstSoFar(c, 0, start)
    <3>1. (c[1] - c[1]) * 1 = 0 * c[1]
      BY <2>4
    <3>. QED BY <2>2, <2>3, <2>4, <3>1 DEF WorstSoFar
  <2>. QED BY <1>2, <2>1, <2>2, <2>5
<1>4. ASSUME NEW i \in Nat, i \in Good PROVE i + 1 \in Good
  <2>. SUFFICES ASSUME i + 1 <= Len(c)
                PROVE  h[i + 1] \in DrawdownStates /\ WorstSoFar(c, i + 1, h[i + 1])
    BY <1>2
  <2>1. i + 1 \in DOMAIN c /\ c[i + 1] \in Int /\ i + 1 \in 1 .. Len(c) /\ (i + 1) - 1 = i
    OBVIOUS
  <2>2. h[i] \in DrawdownStates /\ WorstSoFar(c, i, h[i])
    BY <1>2, <1>4
  <2>3. h[i + 1] = Fall(h[i], c[i + 1])
    BY <1>1, <2>1
  <2>. QED BY <2>1, <2>2, <2>3, FallTypes, WorstStep
<1>5. Len(c) \in Good
  <2>1. Nat \subseteq Good
    BY <1>3, <1>4, NaturalInduction
  <2>. QED BY <2>1
<1>6. WorstSoFar(c, Len(c), h[Len(c)])
  BY <1>2, <1>5
<1>7. Seen(Len(c)) = DOMAIN c
  <2>1. PICK n \in Nat \ {0} : n = Len(c)
    OBVIOUS
  <2>2. DOMAIN c = 1 .. n /\ 1 \in 1 .. n
    BY <2>1
  <2>. QED BY <2>1, <2>2 DEF Seen
<1>8. d = h[Len(c)].worst
  BY <1>1
<1>9. /\ \A j, k \in DOMAIN c : k <= j => (c[k] - c[j]) * d[2] <= d[1] * c[k]
      /\ \E j, k \in DOMAIN c : k <= j /\ (c[k] - c[j]) * d[2] = d[1] * c[k]
  BY <1>6, <1>7, <1>8 DEF WorstSoFar
<1>10. \A j \in DOMAIN c : \A i \in 1 .. j : i \in DOMAIN c /\ i <= j
  OBVIOUS
<1>11. \A j, i \in DOMAIN c : i <= j => i \in 1 .. j
  OBVIOUS
<1>. QED BY <1>9, <1>10, <1>11

(* The deepest fall reported is the worst loss between two points of the   *)
(* curve, however many there are, as long as all are positive.             *)
THEOREM DrawdownIsWorst == ReportsSpec => []DrawdownIsWorstLoss
<1>1. ReportInv => DrawdownIsWorstLoss
  <2>. SUFFICES ASSUME ReportInv, filled # 0, \A i \in DOMAIN equity_curve : ~ (equity_curve[i] <= 0)
                PROVE  DrawdownIsWorstLoss
    BY DEF DrawdownIsWorstLoss
  <2>1. PICK c : c = equity_curve
    OBVIOUS
  <2>2. c \in Seq(Int) /\ Len(c) >= 2
    BY <2>1 DEF ReportInv, IInv, TypeOK
  <2>3. \A i \in DOMAIN c : c[i] > 0
    BY <2>1, <2>2
  <2>4. PICK R : R = GenerateReport(c, trade_log) /\ R.max_drawdown = MaxDrawdown(c)
    BY <2>2, ReportFields
  <2>5. PICK d : d = MaxDrawdown(c)
    OBVIOUS
  <2>6. Report.max_drawdown = d
    BY <2>1, <2>4, <2>5 DEF Report
  <2>7. /\ \A j \in DOMAIN c : \A i \in 1 .. j : (c[i] - c[j]) * d[2] <= d[1] * c[i]
        /\ \E j \in DOMAIN c : \E i \in 1 .. j : (c[i] - c[j]) * d[2] = d[1] * c[i]
    BY <2>2, <2>3, <2>5, DrawdownFound, SMTT(30)
  <2>8. DrawdownIsWorstLoss <=>
          \/ filled = 0 \/ \E i \in DOMAIN c : c[i] <= 0
          \/ /\ \A j \in DOMAIN c : \A i \in 1 .. j : (c[i] - c[j]) * d[2] <= d[1] * c[i]
             /\ \E j \in DOMAIN c : \E i \in 1 .. j : (c[i] - c[j]) * d[2] = d[1] * c[i]
    BY ONLY <2>1, <2>6 DEF DrawdownIsWorstLoss
  <2>. QED BY ONLY <2>7, <2>8
<1>. QED BY <1>1, ReportsInvariance, PTL
-----------------------------------------------------------------------------
(***************************************************************************)
(* The detector's regime.                                                  *)
(***************************************************************************)
LEMMA SquaresAreSum ==
  ASSUME NEW r, NEW S, NEW g, Summable(g, S), \A i \in S : g[i] = r[i] * r[i]
  PROVE  MapThenSumSet(LAMBDA i : r[i] * r[i], S) = SumOf(g, S)
<1>. DEFINE Squared(x) == r[x] * r[x]
            Fold(f, T) ==
       [s \in SUBSET T |->
          IF s = {} THEN 0
          ELSE Squared(CHOOSE x \in s : TRUE) + f[s \ {CHOOSE x \in s : TRUE}]]
<1>1. \E f : f = Fold(f, S)
  <2>1. PICK f : IsSum(f, g, S)
    BY SumExists
  <2>2. \A s \in SUBSET S : s # {} => g[AnyOf(s)] = Squared(AnyOf(s))
    BY DEF AnyOf
  <2>. HIDE DEF Squared
  <2>3. f = Fold(f, S)
    BY <2>1, <2>2 DEF IsSum, Sums, AnyOf
  <2>. QED BY <2>3
<1>2. PICK h : h = Fold(h, S) /\ h[S] = MapThenSumSet(LAMBDA i : r[i] * r[i], S)
  <2>1. PICK h : h = CHOOSE f : f = Fold(f, S)
    OBVIOUS
  <2>2. h[S] = MapThenSumSet(LAMBDA i : r[i] * r[i], S)
    BY <2>1 DEF MapThenSumSet, MapThenFoldSet
  <2>3. h = Fold(h, S)
    <3>. HIDE DEF Fold
    <3>. QED BY <1>1, <2>1
  <2>. QED BY <2>2, <2>3
<1>3. Sums(h, g, S)
  <2>1. \A s \in SUBSET S : s # {} => g[AnyOf(s)] = Squared(AnyOf(s))
    BY DEF AnyOf
  <2>. HIDE DEF Squared
  <2>2. \A s \in SUBSET S :
          h[s] = IF s = {} THEN 0 ELSE Squared(AnyOf(s)) + h[s \ {AnyOf(s)}]
    BY <1>2 DEF AnyOf
  <2>. HIDE DEF Fold
  <2>. QED BY <2>1, <2>2 DEF Sums
<1>4. SumOf(g, S) = h[S]
  <2>. HIDE DEF Fold, Squared
  <2>. QED BY <1>3, SumUnique
<1>. QED BY <1>2, <1>4

LEMMA DifferencesAreSum ==
  ASSUME NEW r, NEW S, NEW g, Summable(g, S),
         \A ij \in S : g[ij] = (r[ij[1]] - r[ij[2]]) * (r[ij[1]] - r[ij[2]])
  PROVE  MapThenSumSet(LAMBDA ij : (r[ij[1]] - r[ij[2]]) * (r[ij[1]] - r[ij[2]]), S) = SumOf(g, S)
<1>. DEFINE Squared(x) == (r[x[1]] - r[x[2]]) * (r[x[1]] - r[x[2]])
            Fold(f, T) ==
       [s \in SUBSET T |->
          IF s = {} THEN 0
          ELSE Squared(CHOOSE x \in s : TRUE) + f[s \ {CHOOSE x \in s : TRUE}]]
<1>1. \E f : f = Fold(f, S)
  <2>1. PICK f : IsSum(f, g, S)
    BY SumExists
  <2>2. \A s \in SUBSET S : s # {} => g[AnyOf(s)] = Squared(AnyOf(s))
    BY DEF AnyOf
  <2>. HIDE DEF Squared
  <2>3. f = Fold(f, S)
    BY <2>1, <2>2 DEF IsSum, Sums, AnyOf
  <2>. QED BY <2>3
<1>2. PICK h : h = Fold(h, S) /\ h[S] = MapThenSumSet(LAMBDA ij : (r[ij[1]] - r[ij[2]]) * (r[ij[1]] - r[ij[2]]), S)
  <2>1. PICK h : h = CHOOSE f : f = Fold(f, S)
    OBVIOUS
  <2>2. h[S] = MapThenSumSet(LAMBDA ij : (r[ij[1]] - r[ij[2]]) * (r[ij[1]] - r[ij[2]]), S)
    BY <2>1 DEF MapThenSumSet, MapThenFoldSet
  <2>3. h = Fold(h, S)
    <3>. HIDE DEF Fold
    <3>. QED BY <1>1, <2>1
  <2>. QED BY <2>2, <2>3
<1>3. Sums(h, g, S)
  <2>1. \A s \in SUBSET S : s # {} => g[AnyOf(s)] = Squared(AnyOf(s))
    BY DEF AnyOf
  <2>. HIDE DEF Squared
  <2>2. \A s \in SUBSET S :
          h[s] = IF s = {} THEN 0 ELSE Squared(AnyOf(s)) + h[s \ {AnyOf(s)}]
    BY <1>2 DEF AnyOf
  <2>. HIDE DEF Fold
  <2>. QED BY <2>1, <2>2 DEF Sums
<1>4. SumOf(g, S) = h[S]
  <2>. HIDE DEF Fold, Squared
  <2>. QED BY <1>3, SumUnique
<1>. QED BY <1>2, <1>4

(* n times the sum of squares, less the square of the sum, of n numbers is *)
(* the sum of the squares of their differences.                            *)
Pairs(n) == {ij \in (1 .. n) \X (1 .. n) : ij[1] < ij[2]}
PairsWith(m, k) == (1 .. k) \X {m}

LEMMA Expanded ==
  ASSUME NEW n \in Int, NEW a \in Int, NEW q \in Int, NEW s \in Int, NEW x \in Int,
         NEW y \in Int,
         n * q - a * a = s
  PROVE  /\ (n + 1) * (q + x * x) - (a + x) * (a + x) = s + (q - 2 * (x * a) + n * (x * x))
         /\ (q + y * y) - 2 * (x * (a + y)) + (n + 1) * (x * x)
              = (q - 2 * (x * a) + n * (x * x)) + (y - x) * (y - x)
<1>1. (n + 1) * (q + x * x) = n * q + n * (x * x) + q + x * x
  OBVIOUS
<1>2. (a + x) * (a + x) = a * a + 2 * (x * a) + x * x
  OBVIOUS
<1>3. (y - x) * (y - x) = y * y - 2 * (x * y) + x * x
  OBVIOUS
<1>4. x * (a + y) = x * a + x * y
  OBVIOUS
<1>5. (n + 1) * (x * x) = n * (x * x) + x * x
  OBVIOUS
<1>. QED BY <1>1, <1>2, <1>3, <1>4, <1>5

LEMMA SumSplit ==
  ASSUME NEW S, NEW g, Summable(g, S), NEW x \in S, NEW R, R = S \ {x}
  PROVE  SumOf(g, S) = g[x] + SumOf(g, R)
BY SumFacts

(* One more number adds its squared differences with all others. *)
LEMMA VarianceStep ==
  ASSUME NEW r, NEW sq, NEW d, NEW n \in Nat, NEW m, m = n + 1,
         \A i \in 1 .. m : r[i] \in Int /\ sq[i] = r[i] * r[i],
         \A ij \in (1 .. m) \X (1 .. m) :
           d[ij] = (r[ij[1]] - r[ij[2]]) * (r[ij[1]] - r[ij[2]]),
         n * SumOf(sq, 1 .. n) - SumOf(r, 1 .. n) * SumOf(r, 1 .. n) = SumOf(d, Pairs(n))
  PROVE  m * SumOf(sq, 1 .. m) - SumOf(r, 1 .. m) * SumOf(r, 1 .. m) = SumOf(d, Pairs(m))
<1>. DEFINE All == (1 .. m) \X (1 .. m)
<1>0. m \in Nat /\ IsFiniteSet(1 .. m)
  <2>1. m \in Nat /\ 1 \in Int
    OBVIOUS
  <2>. QED BY <2>1, FS_Interval
<1>1. Summable(r, 1 .. m) /\ Summable(sq, 1 .. m)
  <2>1. IsFiniteSet(1 .. m)
    BY <1>0
  <2>2. \A i \in 1 .. m : sq[i] \in Int
    BY ProductsIntegers
  <2>. QED BY <2>1, <2>2 DEF Summable
<1>2. Summable(d, All)
  <2>1. IsFiniteSet(All)
    BY <1>0, FS_Product
  <2>2. ASSUME NEW ij \in All PROVE d[ij] \in Int
    <3>1. PICK x \in Int : x = r[ij[1]] - r[ij[2]]
      OBVIOUS
    <3>2. x * x \in Int
      BY ProductsIntegers
    <3>. QED BY <3>1, <3>2
  <2>. QED BY <2>1, <2>2 DEF Summable
<1>3. PICK x \in Int : x = r[m]
  OBVIOUS
<1>4. /\ m \in 1 .. m /\ 1 .. n = (1 .. m) \ {m}
      /\ 1 .. n \in SUBSET (1 .. m)
  OBVIOUS
<1>5. Summable(r, 1 .. n) /\ Summable(sq, 1 .. n)
  BY <1>1, <1>4, SummableWithin
<1>6. PICK a, q, s : a = SumOf(r, 1 .. n) /\ q = SumOf(sq, 1 .. n) /\ s = SumOf(d, Pairs(n))
  OBVIOUS
<1>7. Pairs(n) \in SUBSET All /\ Pairs(m) \in SUBSET All /\ PairsWith(m, n) \in SUBSET All
  BY DEF Pairs, PairsWith
<1>8. a \in Int /\ q \in Int /\ s \in Int
  <2>1. Summable(d, Pairs(n))
    BY <1>2, <1>7, SummableWithin
  <2>. QED BY <1>5, <1>6, <2>1, SumFacts
<1>9. SumOf(r, 1 .. m) = a + x /\ SumOf(sq, 1 .. m) = q + x * x
  <2>1. /\ SumOf(r, 1 .. m) = r[m] + SumOf(r, 1 .. n)
        /\ SumOf(sq, 1 .. m) = sq[m] + SumOf(sq, 1 .. n)
    BY <1>1, <1>4, SumSplit
  <2>2. PICK z \in Int : z = x * x
    BY ProductsIntegers
  <2>3. sq[m] = z /\ r[m] = x
    BY <1>3, <1>4, <2>2
  <2>4. SumOf(r, 1 .. m) = x + a /\ SumOf(sq, 1 .. m) = z + q
    BY <1>6, <2>1, <2>3
  <2>5. x + a = a + x /\ z + q = q + z
    BY <1>8
  <2>. QED BY <2>2, <2>4, <2>5
<1>10. SumOf(d, PairsWith(m, n)) = q - 2 * (x * a) + n * (x * x)
  <2>1. PICK Good :
          Good = {k \in Nat : k <= n =>
                    SumOf(d, PairsWith(m, k))
                      = SumOf(sq, 1 .. k) - 2 * (x * SumOf(r, 1 .. k)) + k * (x * x)}
    OBVIOUS
  <2>2. 0 \in Good
    <3>1. PICK none : none = 1 .. 0
      OBVIOUS
    <3>2. none = {} /\ PairsWith(m, 0) = {} /\ IsFiniteSet({})
      BY <3>1, FS_EmptySet DEF PairsWith
    <3>3. SumOf(d, {}) = 0 /\ SumOf(sq, {}) = 0 /\ SumOf(r, {}) = 0
      BY <3>2, SumOfZeros
    <3>4. 0 = 0 - 2 * (x * 0) + 0 * (x * x)
      BY ProductsIntegers
    <3>. QED BY <2>1, <3>1, <3>2, <3>3, <3>4
  <2>3. ASSUME NEW k \in Nat, k \in Good PROVE k + 1 \in Good
    <3>. SUFFICES ASSUME NEW l, l = k + 1, l <= n
                  PROVE  SumOf(d, PairsWith(m, l))
                           = SumOf(sq, 1 .. l) - 2 * (x * SumOf(r, 1 .. l)) + l * (x * x)
      BY <2>1
    <3>1. /\ l \in 1 .. l /\ 1 .. k = (1 .. l) \ {l}
          /\ 1 .. k \in SUBSET (1 .. m) /\ 1 .. l \in SUBSET (1 .. m) /\ l \in 1 .. m
      OBVIOUS
    <3>2. Summable(r, 1 .. k) /\ Summable(sq, 1 .. k) /\ Summable(r, 1 .. l) /\ Summable(sq, 1 .. l)
      BY <1>1, <3>1, SummableWithin
    <3>3. PICK b, p, y : b = SumOf(r, 1 .. k) /\ p = SumOf(sq, 1 .. k) /\ y = r[l]
      OBVIOUS
    <3>4. b \in Int /\ p \in Int /\ y \in Int /\ sq[l] = y * y /\ y * y \in Int
      BY <3>1, <3>2, <3>3, SumFacts, ProductsIntegers
    <3>5. SumOf(r, 1 .. l) = b + y /\ SumOf(sq, 1 .. l) = p + y * y
      <4>1. /\ SumOf(r, 1 .. l) = r[l] + SumOf(r, 1 .. k)
            /\ SumOf(sq, 1 .. l) = sq[l] + SumOf(sq, 1 .. k)
        BY <3>1, <3>2, SumSplit
      <4>. QED BY <3>3, <3>4, <4>1, SMTT(30)
    <3>6. SumOf(d, PairsWith(m, l)) = d[<<l, m>>] + SumOf(d, PairsWith(m, k))
      <4>1. <<l, m>> \in PairsWith(m, l) /\ PairsWith(m, k) = PairsWith(m, l) \ {<<l, m>>}
        BY <3>1 DEF PairsWith
      <4>2. PairsWith(m, l) \in SUBSET All
        BY <3>1, <1>4 DEF PairsWith
      <4>3. Summable(d, PairsWith(m, l))
        BY <1>2, <4>2, SummableWithin
      <4>4. PICK S, R, e : S = PairsWith(m, l) /\ R = PairsWith(m, k) /\ e = <<l, m>>
        OBVIOUS
      <4>5. e \in S /\ R = S \ {e} /\ Summable(d, S)
        BY <4>1, <4>3, <4>4
      <4>6. SumOf(d, S) = d[e] + SumOf(d, R)
        BY ONLY <4>5, SumSplit
      <4>. QED BY <4>4, <4>6
    <3>7. d[<<l, m>>] = (y - x) * (y - x)
      <4>1. <<l, m>> \in All
        BY <3>1, <1>4
      <4>. QED BY <1>3, <3>3, <4>1
    <3>8. SumOf(d, PairsWith(m, k)) = p - 2 * (x * b) + k * (x * x)
      BY <2>1, <2>3, <3>3
    <3>9. (p + y * y) - 2 * (x * (b + y)) + (k + 1) * (x * x)
              = (p - 2 * (x * b) + k * (x * x)) + (y - x) * (y - x)
      <4>1. PICK z \in Int : k * p - b * b = z
        <5>1. k * p \in Int /\ b * b \in Int
          BY <3>4, ProductsIntegers
        <5>. QED BY <5>1
      <4>. QED BY <3>4, <4>1, Expanded
    <3>10. PICK u, v : u = p - 2 * (x * b) + k * (x * x) /\ v = (y - x) * (y - x)
      OBVIOUS
    <3>11. u \in Int /\ v \in Int
      <4>1. x * b \in Int /\ x * x \in Int /\ k * (x * x) \in Int /\ y - x \in Int
        BY <3>4, ProductsIntegers
      <4>2. (y - x) * (y - x) \in Int
        BY <4>1, ProductsIntegers
      <4>. QED BY <3>4, <3>10, <4>1, <4>2
    <3>12. v + u = u + v
      BY <3>11
    <3>. QED BY <3>5, <3>6, <3>7, <3>8, <3>9, <3>10, <3>12
  <2>4. Nat \subseteq Good
    BY <2>2, <2>3, NaturalInduction
  <2>5. n \in Good
    BY <2>4
  <2>. QED BY <1>6, <2>1, <2>5
<1>11. SumOf(d, Pairs(m)) = s + SumOf(d, PairsWith(m, n))
  <2>1. Pairs(n) \in SUBSET Pairs(m) /\ Pairs(m) \ Pairs(n) = PairsWith(m, n)
    BY DEF Pairs, PairsWith
  <2>2. Summable(d, Pairs(m))
    BY <1>2, <1>7, SummableWithin
  <2>3. SumOf(d, Pairs(m)) = SumOf(d, Pairs(n)) + SumOf(d, Pairs(m) \ Pairs(n))
    BY <2>1, <2>2, SumUnion
  <2>. QED BY <1>6, <2>1, <2>3
<1>12. n * q - a * a = s
  BY <1>6
<1>13. (n + 1) * (q + x * x) - (a + x) * (a + x) = s + (q - 2 * (x * a) + n * (x * x))
  BY <1>8, <1>12, Expanded
<1>. QED BY <1>9, <1>10, <1>11, <1>13

(* n ^ 2 times the variance of n returns, as calculate_volatility() has it. *)
Variance(r, n) == n * MapThenSumSet(LAMBDA i : r[i] * r[i], 1 .. n)
                    - Total(r, 1, n) * Total(r, 1, n)

LEMMA VarianceIsSpread ==
  ASSUME NEW n \in Nat, NEW r, DOMAIN r = 1 .. n, \A i \in 1 .. n : r[i] \in Int
  PROVE  Variance(r, n) = Spread(r) /\ Spread(r) \in Int
<1>1. PICK sq, d : /\ sq = [i \in 1 .. n |-> r[i] * r[i]]
                   /\ d = [ij \in (1 .. n) \X (1 .. n) |->
                             (r[ij[1]] - r[ij[2]]) * (r[ij[1]] - r[ij[2]])]
  OBVIOUS
<1>2. PICK Good :
        Good = {k \in Nat : k <= n => k * SumOf(sq, 1 .. k) - SumOf(r, 1 .. k) * SumOf(r, 1 .. k)
                                        = SumOf(d, Pairs(k))}
  OBVIOUS
<1>3. 0 \in Good
  <2>1. PICK none : none = 1 .. 0
    OBVIOUS
  <2>2. none = {} /\ Pairs(0) = {} /\ IsFiniteSet({})
    BY <2>1, FS_EmptySet DEF Pairs
  <2>3. SumOf(d, {}) = 0 /\ SumOf(sq, {}) = 0 /\ SumOf(r, {}) = 0
    BY <2>2, SumOfZeros
  <2>4. SumOf(d, Pairs(0)) = 0 /\ SumOf(sq, 1 .. 0) = 0 /\ SumOf(r, 1 .. 0) = 0
    BY <2>1, <2>2, <2>3
  <2>5. 0 * 0 - 0 * 0 = 0
    OBVIOUS
  <2>6. 0 * SumOf(sq, 1 .. 0) - SumOf(r, 1 .. 0) * SumOf(r, 1 .. 0) = SumOf(d, Pairs(0))
    BY ONLY <2>4, <2>5
  <2>. QED BY <1>2, <2>6
<1>4. ASSUME NEW k \in Nat, k \in Good PROVE k + 1 \in Good
  <2>. SUFFICES ASSUME NEW m, m = k + 1, m <= n
                PROVE  m * SumOf(sq, 1 .. m) - SumOf(r, 1 .. m) * SumOf(r, 1 .. m)
                         = SumOf(d, Pairs(m))
    BY <1>2
  <2>1. \A i \in 1 .. m : r[i] \in Int /\ sq[i] = r[i] * r[i]
    BY <1>1
  <2>2. \A ij \in (1 .. m) \X (1 .. m) :
          d[ij] = (r[ij[1]] - r[ij[2]]) * (r[ij[1]] - r[ij[2]])
    <3>1. \A ij \in (1 .. m) \X (1 .. m) : ij \in (1 .. n) \X (1 .. n)
      OBVIOUS
    <3>. QED BY <1>1, <3>1
  <2>3. k * SumOf(sq, 1 .. k) - SumOf(r, 1 .. k) * SumOf(r, 1 .. k) = SumOf(d, Pairs(k))
    BY <1>2, <1>4
  <2>4. k \in Nat /\ m = k + 1
    OBVIOUS
  <2>. QED BY ONLY <2>1, <2>2, <2>3, <2>4, VarianceStep
<1>5. n * SumOf(sq, 1 .. n) - SumOf(r, 1 .. n) * SumOf(r, 1 .. n) = SumOf(d, Pairs(n))
  <2>1. n \in Good
    BY <1>3, <1>4, NaturalInduction
  <2>. QED BY <1>2, <2>1
<1>6. IsFiniteSet(1 .. n)
  BY FS_Interval
<1>7. Summable(sq, 1 .. n)
  <2>1. \A i \in 1 .. n : sq[i] \in Int
    BY <1>1, ProductsIntegers
  <2>. QED BY <1>6, <2>1 DEF Summable
<1>8. Summable(d, Pairs(n))
  <2>1. Summable(d, (1 .. n) \X (1 .. n))
    <3>1. IsFiniteSet((1 .. n) \X (1 .. n))
      BY <1>6, FS_Product
    <3>2. ASSUME NEW ij \in (1 .. n) \X (1 .. n) PROVE d[ij] \in Int
      <4>1. PICK x \in Int : x = r[ij[1]] - r[ij[2]]
        OBVIOUS
      <4>2. x * x \in Int
        BY ProductsIntegers
      <4>. QED BY <1>1, <4>1, <4>2
    <3>. QED BY <3>1, <3>2 DEF Summable
  <2>2. Pairs(n) \in SUBSET ((1 .. n) \X (1 .. n))
    BY DEF Pairs
  <2>. QED BY <2>1, <2>2, SummableWithin
<1>9. MapThenSumSet(LAMBDA i : r[i] * r[i], 1 .. n) = SumOf(sq, 1 .. n)
  <2>1. \A i \in 1 .. n : sq[i] = r[i] * r[i]
    BY <1>1
  <2>. QED BY <1>7, <2>1, SquaresAreSum
<1>10. Total(r, 1, n) = SumOf(r, 1 .. n)
  BY DEF Total, SumOf
<1>11. Spread(r) = SumOf(d, Pairs(n))
  <2>1. {ij \in (DOMAIN r) \X (DOMAIN r) : ij[1] < ij[2]} = Pairs(n)
    BY DEF Pairs
  <2>2. \A ij \in Pairs(n) : d[ij] = (r[ij[1]] - r[ij[2]]) * (r[ij[1]] - r[ij[2]])
    BY <1>1 DEF Pairs
  <2>3. MapThenSumSet(LAMBDA ij : (r[ij[1]] - r[ij[2]]) * (r[ij[1]] - r[ij[2]]), Pairs(n))
          = SumOf(d, Pairs(n))
    BY <1>8, <2>2, DifferencesAreSum
  <2>. QED BY <2>1, <2>3 DEF Spread
<1>12. SumOf(d, Pairs(n)) \in Int
  BY <1>8, SumFacts
<1>. QED BY <1>5, <1>9, <1>10, <1>11, <1>12 DEF Variance

(* A sum of consecutive numbers of a sequence shifted. *)
Shifted(g, h, a, k, n) == \A i \in a .. a + n - 1 : g[i] \in Int /\ h[i + k] = g[i]

LEMMA SumShifted ==
  ASSUME NEW g, NEW h, NEW a \in Int, NEW k \in Int, NEW n \in Nat, Shifted(g, h, a, k, n)
  PROVE  /\ SumOf(g, a .. a + n - 1) = SumOf(h, a + k .. a + k + n - 1)
         /\ SumOf(g, a .. a + n - 1) \in Int
<1>. USE DEF Shifted
<1>1. PICK Good :
        Good = {m \in Nat : m <= n =>
                  /\ SumOf(g, a .. a + m - 1) = SumOf(h, a + k .. a + k + m - 1)
                  /\ SumOf(g, a .. a + m - 1) \in Int}
  OBVIOUS
<1>2. 0 \in Good
  <2>1. PICK S, T : S = a .. a + 0 - 1 /\ T = a + k .. a + k + 0 - 1
    OBVIOUS
  <2>2. S = {} /\ T = {} /\ IsFiniteSet({})
    BY <2>1, FS_EmptySet
  <2>3. SumOf(g, {}) = 0 /\ SumOf(h, {}) = 0
    BY <2>2, SumOfZeros
  <2>. QED BY <1>1, <2>1, <2>2, <2>3
<1>3. ASSUME NEW m \in Nat, m \in Good PROVE m + 1 \in Good
  <2>. SUFFICES ASSUME m + 1 <= n
                PROVE  /\ SumOf(g, a .. a + (m + 1) - 1) = SumOf(h, a + k .. a + k + (m + 1) - 1)
                       /\ SumOf(g, a .. a + (m + 1) - 1) \in Int
    BY <1>1
  <2>1. PICK S, T, R, Q, x, y :
          /\ S = a .. a + (m + 1) - 1 /\ T = a + k .. a + k + (m + 1) - 1
          /\ R = a .. a + m - 1 /\ Q = a + k .. a + k + m - 1
          /\ x = a + m /\ y = a + m + k
    OBVIOUS
  <2>2. x \in S /\ R = S \ {x} /\ y \in T /\ Q = T \ {y}
    BY <2>1, SMTT(30)
  <2>3. /\ \A i \in S : g[i] \in Int
        /\ \A i \in T : h[i] \in Int
        /\ h[y] = g[x]
    <3>1. \A i \in S : i \in a .. a + n - 1
      BY <2>1
    <3>2. ASSUME NEW i \in T PROVE h[i] \in Int
      <4>1. PICK j \in S : i = j + k
        <5>1. i - k \in S /\ i = (i - k) + k
          BY <2>1
        <5>. QED BY <5>1
      <4>. QED BY <3>1, <4>1
    <3>3. y = x + k /\ x \in S
      BY <2>1
    <3>. QED BY <3>1, <3>2, <3>3
  <2>4. IsFiniteSet(S) /\ IsFiniteSet(T)
    BY <2>1, FS_Interval
  <2>5. Summable(g, S) /\ Summable(h, T)
    BY <2>3, <2>4 DEF Summable
  <2>6. SumOf(g, S) = g[x] + SumOf(g, R) /\ SumOf(h, T) = h[y] + SumOf(h, Q)
    BY <2>2, <2>5, SumSplit
  <2>7. SumOf(g, R) = SumOf(h, Q)
    BY <1>1, <1>3, <2>1
  <2>8. SumOf(g, S) \in Int
    BY <2>5, SumFacts
  <2>. QED BY <2>1, <2>3, <2>6, <2>7, <2>8
<1>4. n \in Good
  BY <1>2, <1>3, NaturalInduction
<1>. QED BY <1>1, <1>4

(* The latest p elements of h; the returns of n + 1 prices s; what a       *)
(* regime says of the latest prices, as RegimeKnown states it.             *)
LatestOf(h, p) == SubSeq(h, Len(h) - p + 1, Len(h))
Changes(s, n) == [i \in 1 .. n |-> (s[i + 1] - s[i]) * (Unit \div s[i])]
VolatilityFits(v, s, p) ==
  LET n      == p - 1
      spread == Spread(Changes(s, n))
  IN /\ v = "HIGH"   => n > 0 /\ spread >= Square(n, 50)
     /\ v = "LOW"    => n > 0 /\ spread <= Square(n, 200)
     /\ v = "NORMAL" => n = 0 \/ spread = 0 \/ spread \in Square(n, 200) .. Square(n, 50)
TrendFits(t, s, p) ==
  LET earlier == Total(s, 1, p \div 2)
      later   == Total(s, p \div 2 + 1, p)
  IN /\ t = "TRENDING_UP"   => 100 * later >= 101 * earlier
     /\ t = "TRENDING_DOWN" => 100 * later <= 99 * earlier
     /\ t = "SIDEWAYS"      => 100 * later <= 101 * earlier /\ 100 * later >= 99 * earlier

LEMMA LatestPrices ==
  ASSUME NEW h \in Seq(Prices), NEW p \in Nat, p <= Len(h)
  PROVE  /\ Len(h) \in Nat
         /\ LatestOf(h, p) \in Seq(Prices) /\ Len(LatestOf(h, p)) = p
         /\ \A i \in 1 .. p : LatestOf(h, p)[i] = h[Len(h) - p + i]
<1>1. PICK l, m : l = Len(h) /\ m = l - p + 1
  OBVIOUS
<1>2. l \in Nat /\ m \in Int /\ l \in Int /\ \A i \in m .. l : h[i] \in Prices
  BY <1>1
<1>3. PICK s : s = SubSeq(h, m, l)
  OBVIOUS
<1>4. /\ s \in Seq(Prices) /\ Len(s) = (IF m <= l THEN l - m + 1 ELSE 0)
      /\ \A i \in 1 .. l - m + 1 : s[i] = h[m + i - 1]
  BY <1>2, <1>3, SubSeqProperties
<1>5. l - m + 1 = p /\ \A i \in 1 .. p : m + i - 1 = l - p + i
  BY <1>1, <1>2
<1>6. Len(s) = p /\ \A i \in 1 .. p : s[i] = h[l - p + i]
  BY <1>1, <1>2, <1>4, <1>5
<1>. QED BY <1>1, <1>2, <1>3, <1>4, <1>6 DEF LatestOf

LEMMA UnitDivides == \A d \in {50, 200} \cup Prices : Unit \div d \in Int
BY DetectorAssumption

LEMMA SquaresInteger == \A n \in Nat : Square(n, 50) \in Int /\ Square(n, 200) \in Int
<1>. SUFFICES ASSUME NEW n \in Nat, NEW d \in {50, 200} PROVE Square(n, d) \in Int
  OBVIOUS
<1>1. PICK q : q = Unit \div d
  OBVIOUS
<1>2. q \in Int
  BY <1>1, UnitDivides
<1>3. PICK x : x = n * q
  OBVIOUS
<1>4. x \in Int /\ x * x \in Int
  BY <1>2, <1>3, ProductsIntegers
<1>. QED BY <1>1, <1>3, <1>4 DEF Square

(* The returns of the window are those of its latest prices. *)
LEMMA ReturnsOfLatest ==
  ASSUME DetectorTypeOK, NEW h \in Seq(Prices), Len(h) = Window
  PROVE  /\ Returns(h) = Changes(LatestOf(h, volatility_period), volatility_period - 1)
         /\ volatility_period - 1 \in Nat
         /\ DOMAIN Returns(h) = 1 .. volatility_period - 1
         /\ Len(Returns(h)) = volatility_period - 1
         /\ \A i \in 1 .. volatility_period - 1 : Returns(h)[i] \in Int
<1>1. PICK p, n, l : p = volatility_period /\ n = p - 1 /\ l = Len(h)
  OBVIOUS
<1>2. p \in Nat \ {0} /\ p <= l /\ n \in Nat /\ l \in Nat
  BY <1>1, WindowIsLonger
<1>3. PICK s : s = LatestOf(h, p)
  OBVIOUS
<1>4. \A i \in 1 .. p : s[i] = h[l - p + i]
  BY <1>1, <1>2, <1>3, LatestPrices
<1>5. Returns(h) = [i \in 1 .. n |-> (h[l - p + i + 1] - h[l - p + i]) * (Unit \div h[l - p + i])]
  BY <1>1 DEF Returns
<1>6. ASSUME NEW i \in 1 .. n
      PROVE  /\ (s[i + 1] - s[i]) * (Unit \div s[i])
                  = (h[l - p + i + 1] - h[l - p + i]) * (Unit \div h[l - p + i])
             /\ (s[i + 1] - s[i]) * (Unit \div s[i]) \in Int
  <2>1. /\ i \in 1 .. p /\ i + 1 \in 1 .. p /\ l - p + (i + 1) = l - p + i + 1
        /\ l - p + i \in 1 .. l /\ l - p + i + 1 \in 1 .. l
    BY <1>1, <1>2
  <2>2. PICK x, y : x = h[l - p + i] /\ y = h[l - p + i + 1]
    OBVIOUS
  <2>3. s[i] = x /\ s[i + 1] = y
    BY <1>4, <2>1, <2>2
  <2>4. x \in Prices /\ y \in Prices
    BY <1>1, <2>1, <2>2
  <2>5. PICK q : q = Unit \div x
    OBVIOUS
  <2>6. q \in Int /\ y - x \in Int
    BY <2>4, <2>5, UnitDivides, DetectorAssumption
  <2>7. (y - x) * q \in Int
    BY <2>6, ProductsIntegers
  <2>. QED BY <2>2, <2>3, <2>5, <2>7
<1>7. Returns(h) = Changes(s, n)
  BY <1>5, <1>6 DEF Changes
<1>8. DOMAIN Returns(h) = 1 .. n /\ \A i \in 1 .. n : Returns(h)[i] \in Int
  BY <1>6, <1>7 DEF Changes
<1>9. Len(Returns(h)) = n
  BY <1>2, <1>8
<1>. QED BY <1>1, <1>2, <1>3, <1>7, <1>8, <1>9

LEMMA VolatilityOfLatest ==
  ASSUME DetectorTypeOK, NEW h \in Seq(Prices), Len(h) = Window, NEW v \in VolatilitiesOf(h)
  PROVE  VolatilityFits(v, LatestOf(h, volatility_period), volatility_period)
<1>1. PICK p, n, r : p = volatility_period /\ n = p - 1 /\ r = Returns(h)
  OBVIOUS
<1>2. /\ r = Changes(LatestOf(h, p), n) /\ n \in Nat /\ DOMAIN r = 1 .. n /\ Len(r) = n
      /\ \A i \in 1 .. n : r[i] \in Int
  BY <1>1, ReturnsOfLatest
<1>3. PICK variance : variance = Variance(r, n)
  OBVIOUS
<1>4. variance = Spread(r) /\ Spread(r) \in Int
  BY <1>2, <1>3, VarianceIsSpread
<1>5. PICK low, high : low = Square(n, 200) /\ high = Square(n, 50)
  OBVIOUS
<1>6. low \in Int /\ high \in Int
  BY <1>2, <1>5, SquaresInteger
<1>7. CASE n = 0
  <2>1. v = "NORMAL"
    <3>1. Len(Returns(h)) = 0
      BY <1>1, <1>2, <1>7
    <3>2. VolatilitiesOf(h) = {"NORMAL"}
      BY <3>1 DEF VolatilitiesOf
    <3>. QED BY <3>2
  <2>. QED BY <1>1, <1>7, <2>1 DEF VolatilityFits
<1>8. CASE n # 0
  <2>1. /\ v \in Volatilities
        /\ CASE v = "HIGH"   -> variance >= Square(n, 50)
             [] v = "LOW"    -> variance <= Square(n, 200)
             [] v = "NORMAL" -> \/ Square(n, 200) <= variance /\ variance <= Square(n, 50)
                                \/ variance = 0 /\ r[1] # 0
    <3>1. PICK l : l = Len(Returns(h))
      OBVIOUS
    <3>2. l # 0 /\ l = n
      BY <1>1, <1>2, <1>8, <3>1
    <3>3. /\ v \in Volatilities
          /\ CASE v = "HIGH"   -> Variance(Returns(h), Len(Returns(h))) >= Square(Len(Returns(h)), 50)
               [] v = "LOW"    -> Variance(Returns(h), Len(Returns(h))) <= Square(Len(Returns(h)), 200)
               [] v = "NORMAL" ->
                    \/ /\ Square(Len(Returns(h)), 200) <= Variance(Returns(h), Len(Returns(h)))
                       /\ Variance(Returns(h), Len(Returns(h))) <= Square(Len(Returns(h)), 50)
                    \/ Variance(Returns(h), Len(Returns(h))) = 0 /\ Returns(h)[1] # 0
      BY <3>1, <3>2 DEF VolatilitiesOf, Variance
    <3>. QED BY <1>1, <1>3, <3>1, <3>2, <3>3, ZenonT(60)
  <2>2. /\ v = "HIGH" => variance >= high
        /\ v = "LOW"  => variance <= low
        /\ v = "NORMAL" => (low <= variance /\ variance <= high) \/ variance = 0
    BY <1>5, <2>1 DEF Volatilities
  <2>3. v = "NORMAL" => variance = 0 \/ variance \in low .. high
    BY <1>4, <1>6, <2>2
  <2>4. n > 0
    BY <1>2, <1>8
  <2>. QED BY <1>1, <1>2, <1>4, <1>5, <2>2, <2>3, <2>4 DEF VolatilityFits
<1>. QED BY <1>7, <1>8

LEMMA TotalIsSum == \A s, a, b : Total(s, a, b) = SumOf(s, a .. b)
BY DEF Total, SumOf

LEMMA TrendOfLatest ==
  ASSUME DetectorTypeOK, trend_period % 2 = 0, NEW h \in Seq(Prices), Len(h) = Window,
         NEW t \in TrendsOf(h)
  PROVE  TrendFits(t, LatestOf(h, trend_period), trend_period)
<1>1. PICK p, l, half : p = trend_period /\ l = Len(h) /\ half = p \div 2
  OBVIOUS
<1>2. p \in Nat \ {0} /\ p <= l /\ l \in Nat /\ p % 2 = 0
  BY <1>1, WindowIsLonger
<1>3. half \in Nat \ {0} /\ p = half + half
  BY <1>1, <1>2
<1>4. PICK s, k : s = LatestOf(h, p) /\ k = l - p
  OBVIOUS
<1>5. k \in Int /\ \A i \in 1 .. p : s[i] = h[i + k] /\ s[i] \in Int
  <2>1. s \in Seq(Prices) /\ Len(s) = p /\ \A i \in 1 .. p : s[i] = h[l - p + i]
    BY <1>1, <1>2, <1>4, LatestPrices
  <2>2. ASSUME NEW i \in 1 .. p PROVE s[i] \in Prices
    <3>1. i \in 1 .. Len(s)
      BY <2>1
    <3>. QED BY ONLY <2>1, <3>1
  <2>3. k \in Int /\ \A i \in 1 .. p : l - p + i = i + k
    BY <1>2, <1>4
  <2>4. \A x \in Prices : x \in Int
    BY DetectorAssumption
  <2>5. ASSUME NEW i \in 1 .. p PROVE s[i] = h[i + k]
    BY ONLY <2>1, <2>3
  <2>. QED BY ONLY <2>2, <2>3, <2>4, <2>5
<1>6. PICK first, second, earlier, later :
        /\ first = Total(h, l - p + 1, l - half) /\ second = Total(h, l - half + 1, l)
        /\ earlier = Total(s, 1, half) /\ later = Total(s, half + 1, p)
  OBVIOUS
<1>7. earlier = first /\ earlier \in Int
  <2>1. PICK a : a = 1
    OBVIOUS
  <2>2. Shifted(s, h, a, k, half)
    BY <1>3, <1>5, <2>1 DEF Shifted
  <2>4. a \in Int /\ half \in Nat /\ k \in Int
    BY <1>3, <1>5, <2>1
  <2>5. /\ SumOf(s, a .. a + half - 1) = SumOf(h, a + k .. a + k + half - 1)
        /\ SumOf(s, a .. a + half - 1) \in Int
    BY ONLY <2>2, <2>4, SumShifted
  <2>3. a + half - 1 = half /\ a + k = l - p + 1 /\ a + k + half - 1 = l - half
    BY <1>2, <1>3, <1>4, <2>1
  <2>. QED BY <1>6, <2>1, <2>3, <2>5, TotalIsSum
<1>8. later = second /\ later \in Int
  <2>1. PICK a : a = half + 1
    OBVIOUS
  <2>2. Shifted(s, h, a, k, half)
    BY <1>3, <1>5, <2>1 DEF Shifted
  <2>3. a + half - 1 = p /\ a + k = l - half + 1 /\ a + k + half - 1 = l
    BY <1>2, <1>3, <1>4, <2>1
  <2>4. a \in Int /\ half \in Nat /\ k \in Int
    BY <1>3, <1>5, <2>1
  <2>5. /\ SumOf(s, a .. a + half - 1) = SumOf(h, a + k .. a + k + half - 1)
        /\ SumOf(s, a .. a + half - 1) \in Int
    BY ONLY <2>2, <2>4, SumShifted
  <2>. QED BY <1>6, <2>1, <2>3, <2>5, TotalIsSum
<1>9. /\ t \in Trends
      /\ CASE t = "TRENDING_UP"   -> 100 * second >= 101 * first
           [] t = "TRENDING_DOWN" -> 100 * second <= 99 * first
           [] t = "SIDEWAYS"      -> /\ 100 * second <= 101 * first
                                     /\ 100 * second >= 99 * first
  BY <1>1, <1>3, <1>6, ZenonT(60) DEF TrendsOf
<1>10. /\ t = "TRENDING_UP"   => 100 * second >= 101 * first
       /\ t = "TRENDING_DOWN" => 100 * second <= 99 * first
       /\ t = "SIDEWAYS" => 100 * second <= 101 * first /\ 100 * second >= 99 * first
  BY <1>9 DEF Trends
<1>. QED BY <1>1, <1>4, <1>6, <1>7, <1>8, <1>10 DEF TrendFits

(* h holds the latest of the first `heard' prices, w of them at most. *)
Holds(h, ps, heard, w) ==
  /\ Len(h) = IF heard < w THEN heard ELSE w
  /\ \A i \in 1 .. Len(h) : h[i] = ps[heard - Len(h) + i]

(* The current regime is that of the window. *)
Computed ==
  /\ VolatilityFits(current_state.volatility, LatestOf(price_history, volatility_period),
                    volatility_period)
  /\ trend_period % 2 = 0 =>
       TrendFits(current_state.trend, LatestOf(price_history, trend_period), trend_period)

(* Started once, the detector's window holds the latest prices but the one *)
(* on_market_event() is still owed, and a full window's regime is current. *)
RegimeInv ==
  /\ DetectorInv
  /\ told = current_state
  /\ owed <= subscriptions
  /\ subscriptions = 0 => prices = <<>> /\ price_history = <<>>
  /\ subscriptions = 1 =>
       /\ Holds(price_history, prices, Len(prices) - owed, Window)
       /\ Len(price_history) = Window => Computed

LEMMA HoldsLatest ==
  ASSUME NEW g, NEW ps, NEW heard, NEW w, NEW m, Len(g) = m,
         m = IF heard < w THEN heard ELSE w,
         \A i \in 1 .. m : g[i] = ps[heard - m + i]
  PROVE  Holds(g, ps, heard, w)
BY DEF Holds

LEMMA WindowMoves ==
  ASSUME NEW h \in Seq(Prices), NEW ps \in Seq(Prices), NEW w \in Nat \ {0}, NEW heard \in Nat,
         heard + 1 = Len(ps), Holds(h, ps, heard, w),
         NEW g, g = IF Len(Append(h, ps[Len(ps)])) > w THEN Tail(Append(h, ps[Len(ps)]))
                    ELSE Append(h, ps[Len(ps)])
  PROVE  Holds(g, ps, heard + 1, w)
<1>1. PICK l, p, a : l = Len(h) /\ p = ps[Len(ps)] /\ a = Append(h, p)
  OBVIOUS
<1>2. /\ l \in Nat /\ p \in Prices /\ l = (IF heard < w THEN heard ELSE w) /\ p = ps[heard + 1]
      /\ \A i \in 1 .. l : h[i] = ps[heard - l + i]
  BY <1>1 DEF Holds
<1>3. /\ a \in Seq(Prices) /\ Len(a) = l + 1 /\ \A i \in 1 .. l : a[i] = h[i]
      /\ a[l + 1] = p
  <2>1. Len(h) \in Nat /\ Len(h) = l
    BY <1>1, <1>2
  <2>2. /\ a \in Seq(Prices) /\ Len(a) = Len(h) + 1 /\ \A i \in 1 .. Len(h) : a[i] = h[i]
        /\ a[Len(h) + 1] = p
    <3>1. h \in Seq(Prices) /\ p \in Prices /\ a = Append(h, p)
      BY <1>1, <1>2
    <3>. QED BY ONLY <3>1, AppendProperties
  <2>. QED BY ONLY <2>1, <2>2
<1>4. \A i \in 1 .. l + 1 : a[i] = ps[heard - l + i]
  <2>1. ASSUME NEW i \in 1 .. l + 1 PROVE a[i] = ps[heard - l + i]
    <3>1. CASE i = l + 1
      <4>1. heard - l + i = heard + 1
        BY <1>2, <3>1
      <4>. QED BY <1>2, <1>3, <3>1, <4>1
    <3>2. CASE i \in 1 .. l
      BY <1>2, <1>3, <3>2
    <3>. QED BY <1>2, <3>1, <3>2
  <2>. QED BY <2>1
<1>5. CASE l + 1 > w
  <2>1. l = w /\ heard >= w
    BY <1>2, <1>5
  <2>2. g = Tail(a) /\ a # <<>>
    BY <1>1, <1>2, <1>3, <1>5
  <2>3. Len(g) = l /\ \A i \in 1 .. l : g[i] = a[i + 1]
    <3>1. PICK b : b = Tail(a)
      OBVIOUS
    <3>2. Len(b) = Len(a) - 1 /\ \A i \in 1 .. Len(b) : b[i] = a[i + 1]
      BY <1>3, <2>2, <3>1, HeadTailProperties
    <3>3. Len(b) = l
      BY <1>2, <1>3, <3>2
    <3>. QED BY <2>2, <3>1, <3>2, <3>3
  <2>4. ASSUME NEW i \in 1 .. l PROVE g[i] = ps[heard + 1 - l + i]
    <3>1. l \in Nat
      BY <1>2
    <3>2. i + 1 \in 1 .. l + 1 /\ heard - l + (i + 1) = heard + 1 - l + i
      BY <3>1
    <3>3. g[i] = a[i + 1]
      BY <2>3
    <3>4. a[i + 1] = ps[heard - l + (i + 1)]
      BY <1>4, <3>2
    <3>. QED BY <3>2, <3>3, <3>4
  <2>5. ~(heard + 1 < w)
    BY <2>1
  <2>6. PICK n \in Nat : n = heard + 1
    OBVIOUS
  <2>7. Len(g) = l /\ l = IF n < w THEN n ELSE w
    BY <2>1, <2>3, <2>5, <2>6
  <2>8. ASSUME NEW i \in 1 .. l PROVE g[i] = ps[n - l + i]
    <3>1. PICK j, k : j = heard + 1 - l + i /\ k = n - l + i
      OBVIOUS
    <3>2. j = k
      BY <1>2, <2>6, <3>1
    <3>3. g[i] = ps[j]
      BY <2>4, <3>1
    <3>. QED BY ONLY <3>1, <3>2, <3>3
  <2>9. Holds(g, ps, n, w)
    BY ONLY <2>7, <2>8, HoldsLatest
  <2>. QED BY <2>6, <2>9
<1>6. CASE ~(l + 1 > w)
  <2>1. l = heard /\ heard < w
    BY <1>2, <1>6
  <2>2. g = a
    BY <1>1, <1>3, <1>6
  <2>3. Len(g) = (IF heard + 1 < w THEN heard + 1 ELSE w) /\ Len(g) = l + 1
    BY <1>3, <1>6, <2>1, <2>2
  <2>4. ASSUME NEW i \in 1 .. l + 1 PROVE g[i] = ps[heard + 1 - (l + 1) + i]
    <3>1. heard - l + i = heard + 1 - (l + 1) + i
      BY <1>2
    <3>. QED BY <1>4, <2>2, <3>1
  <2>5. PICK n \in Nat : n = heard + 1
    OBVIOUS
  <2>6. Len(g) = n /\ n = IF n < w THEN n ELSE w
    BY <2>1, <2>3, <2>5
  <2>7. ASSUME NEW i \in 1 .. n PROVE g[i] = ps[n - n + i]
    <3>1. i \in 1 .. l + 1 /\ n = l + 1
      BY <2>1, <2>5
    <3>2. PICK j, k : j = heard + 1 - (l + 1) + i /\ k = n - n + i
      OBVIOUS
    <3>3. j = k
      BY <2>5, <3>1, <3>2
    <3>4. g[i] = ps[j]
      BY <2>4, <3>1, <3>2
    <3>. QED BY ONLY <3>2, <3>3, <3>4
  <2>8. Holds(g, ps, n, w)
    BY ONLY <2>6, <2>7, HoldsLatest
  <2>. QED BY <2>5, <2>8
<1>. QED BY <1>5, <1>6

(* After on_market_event() with a full window, the regime is the window's. *)
LEMMA RegimeComputed ==
  ASSUME DetectorInv, OnMarketEvent, Len(price_history') = Window
  PROVE  Computed'
<1>1. PICK h, w, vp, tp : h = price_history' /\ w = Window /\ vp = volatility_period /\ tp = trend_period
  OBVIOUS
<1>2. h \in Seq(Prices) /\ Len(h) = Window /\ volatility_period' = vp /\ trend_period' = tp
  BY <1>1, DetectorHears
<1>3. current_state \in MarketStates /\ DetectorTypeOK
  BY DEF DetectorInv, DetectorTypeOK
<1>4. ~(Len(price_history') < Window)
  BY <1>1, <1>3, WindowIsLonger
<1>5. PICK v \in VolatilitiesOf(h), t \in TrendsOf(h) :
        LET new_state == [volatility |-> v, trend |-> t]
        IN IF Changed(new_state) THEN current_state' = new_state ELSE UNCHANGED current_state
  BY <1>1, <1>4 DEF OnMarketEvent
<1>6. current_state'.volatility = v /\ current_state'.trend = t
  BY <1>3, <1>5 DEF Changed, MarketStates
<1>7. VolatilityFits(v, LatestOf(h, vp), vp)
  BY <1>1, <1>2, <1>3, VolatilityOfLatest
<1>8. tp % 2 = 0 => TrendFits(t, LatestOf(h, tp), tp)
  BY <1>1, <1>2, <1>3, TrendOfLatest
<1>. QED BY <1>1, <1>2, <1>6, <1>7, <1>8 DEF Computed

LEMMA RegimeStep == RegimeInv /\ [AnalysesNext]_analyses_vars => RegimeInv'
<1>. SUFFICES ASSUME RegimeInv, [AnalysesNext]_analyses_vars PROVE RegimeInv'
  OBVIOUS
<1>1. DetectorNext \/ UNCHANGED detector_vars
  BY DEF AnalysesNext, analyses_vars
<1>2. DetectorInv /\ DetectorInv'
  BY DetectorStep DEF RegimeInv
<1>3. /\ subscriptions \in Nat /\ owed \in Nat /\ price_history \in Seq(Prices)
      /\ prices \in Seq(Prices) /\ Len(prices) \in Nat
  BY <1>2, DetectorAssumption DEF DetectorInv, DetectorTypeOK
<1>4. Window \in Nat \ {0}
  BY <1>2, WindowIsLonger DEF DetectorInv
<1>5. CASE UNCHANGED detector_vars
  <2>1. Window' = Window /\ (Computed <=> Computed')
    BY <1>5 DEF detector_vars, Window, Computed
  <2>. QED BY <1>2, <1>5, <2>1 DEF RegimeInv, detector_vars
<1>6. CASE Start
  <2>1. /\ subscriptions' = subscriptions + 1
        /\ UNCHANGED <<owed, price_history, current_state, prices, told>>
    BY <1>6 DEF Start
  <2>2. ASSUME subscriptions' = 1
        PROVE  /\ Holds(price_history', prices', Len(prices') - owed', Window')
               /\ Len(price_history') = Window' => Computed'
    <3>1. prices = <<>> /\ price_history = <<>> /\ owed = 0
      BY <1>3, <2>1, <2>2 DEF RegimeInv
    <3>2. Len(price_history') = 0 /\ Len(prices') - owed' = 0
      BY <2>1, <3>1
    <3>3. Window' = Window
      BY <1>6 DEF Start, Window
    <3>. QED BY <1>4, <3>2, <3>3 DEF Holds
  <2>. QED BY <1>2, <1>3, <2>1, <2>2 DEF RegimeInv
<1>7. ASSUME NEW p \in Prices, Market(p) PROVE RegimeInv'
  <2>1. /\ owed = 0 /\ subscriptions > 0 /\ owed' = subscriptions
        /\ prices' = Append(prices, p)
        /\ UNCHANGED <<volatility_period, trend_period, subscriptions, price_history,
                       current_state, told>>
    BY <1>7 DEF Market
  <2>2. Window' = Window /\ (Computed' <=> Computed)
    BY <2>1 DEF Window, Computed
  <2>3. Len(prices') = Len(prices) + 1 /\ \A i \in 1 .. Len(prices) : prices'[i] = prices[i]
    BY <1>3, <2>1, AppendProperties
  <2>4. ASSUME subscriptions' = 1
        PROVE  /\ Holds(price_history', prices', Len(prices') - owed', Window')
               /\ Len(price_history') = Window' => Computed'
    <3>1. Holds(price_history, prices, Len(prices) - owed, Window)
      BY <2>1, <2>4 DEF RegimeInv
    <3>2. PICK l, w, n : l = Len(price_history) /\ w = Window /\ n = Len(prices)
      OBVIOUS
    <3>3. Len(prices) - owed = n /\ Len(prices') - owed' = n
      BY <1>3, <2>1, <2>3, <2>4, <3>2
    <3>4. /\ l = (IF n < w THEN n ELSE w)
          /\ \A i \in 1 .. l : price_history[i] = prices[n - l + i]
      BY <3>1, <3>2, <3>3 DEF Holds
    <3>5. \A i \in 1 .. l : n - l + i \in 1 .. n
      BY <1>3, <1>4, <3>2, <3>4
    <3>6. \A i \in 1 .. l : price_history[i] = prices'[n - l + i]
      BY <2>3, <3>2, <3>4, <3>5
    <3>7. Holds(price_history', prices', n, w)
      BY <2>1, <3>2, <3>4, <3>6 DEF Holds
    <3>8. Len(price_history) = Window => Computed
      BY <2>1, <2>4 DEF RegimeInv
    <3>. QED BY <2>1, <2>2, <3>2, <3>3, <3>7, <3>8
  <2>. QED BY <1>2, <1>3, <2>1, <2>4 DEF RegimeInv
<1>8. CASE OnMarketEvent
  <2>1. /\ owed \in Nat \ {0} /\ owed' = owed - 1
        /\ UNCHANGED <<subscriptions, prices>> /\ Window' = Window /\ Len(prices) > 0
        /\ price_history' = Pushed(prices[Len(prices)])
    BY <1>2, <1>8, DetectorHears
  <2>2. told' = current_state'
    <3>1. told = current_state
      BY DEF RegimeInv
    <3>2. \/ UNCHANGED <<current_state, told>>
          \/ \E v \in VolatilitiesOf(price_history'), t \in TrendsOf(price_history') :
               \/ /\ current_state' = [volatility |-> v, trend |-> t]
                  /\ told' = [volatility |-> v, trend |-> t]
               \/ UNCHANGED <<current_state, told>>
      BY <1>8 DEF OnMarketEvent
    <3>. QED BY <3>1, <3>2
  <2>3. owed' <= subscriptions' /\ subscriptions' # 0
    BY <1>3, <2>1 DEF RegimeInv
  <2>4. ASSUME subscriptions' = 1
        PROVE  Holds(price_history', prices', Len(prices') - owed', Window')
    <3>1. owed = 1 /\ Holds(price_history, prices, Len(prices) - owed, Window)
      BY <1>3, <2>1, <2>4 DEF RegimeInv
    <3>2. PICK heard : heard = Len(prices) - 1
      OBVIOUS
    <3>3. /\ heard \in Nat /\ heard + 1 = Len(prices) /\ Len(prices) - owed = heard
          /\ Len(prices') - owed' = heard + 1
      BY <1>3, <2>1, <3>1, <3>2
    <3>4. PICK w, g : w = Window /\ g = price_history'
      OBVIOUS
    <3>5. /\ w \in Nat \ {0} /\ Holds(price_history, prices, heard, w)
          /\ g = IF Len(Append(price_history, prices[Len(prices)])) > w
                 THEN Tail(Append(price_history, prices[Len(prices)]))
                 ELSE Append(price_history, prices[Len(prices)])
      BY <1>4, <2>1, <3>1, <3>3, <3>4 DEF Pushed
    <3>6. Holds(g, prices, heard + 1, w)
      BY <1>3, <3>3, <3>5, WindowMoves
    <3>. QED BY <2>1, <3>3, <3>4, <3>6
  <2>5. Len(price_history') = Window' => Computed'
    BY <1>2, <1>8, <2>1, RegimeComputed
  <2>. QED BY <1>2, <2>2, <2>3, <2>4, <2>5 DEF RegimeInv
<1>. QED BY <1>1, <1>5, <1>6, <1>7, <1>8 DEF DetectorNext

(* A full window's latest prices are the latest prices of all. *)
LEMMA LatestOfAll ==
  ASSUME DetectorTypeOK, Holds(price_history, prices, Len(prices), Window),
         Len(price_history) = Window, NEW p \in Nat, p <= Window
  PROVE  LatestOf(price_history, p) = LastOf(p)
<1>1. PICK h, ps, l, n : h = price_history /\ ps = prices /\ l = Len(h) /\ n = Len(ps)
  OBVIOUS
<1>2. h \in Seq(Prices) /\ ps \in Seq(Prices) /\ l \in Nat /\ n \in Nat /\ p <= l /\ l <= n
  <2>1. h \in Seq(Prices) /\ ps \in Seq(Prices) /\ l \in Nat /\ n \in Nat
    BY <1>1 DEF DetectorTypeOK
  <2>2. l = Window /\ l = IF n < l THEN n ELSE l
    BY <1>1 DEF Holds
  <2>. QED BY <2>1, <2>2
<1>3. PICK a, b : a = LatestOf(h, p) /\ b = LatestOf(ps, p)
  OBVIOUS
<1>4. /\ a \in Seq(Prices) /\ Len(a) = p /\ \A i \in 1 .. p : a[i] = h[l - p + i]
      /\ b \in Seq(Prices) /\ Len(b) = p /\ \A i \in 1 .. p : b[i] = ps[n - p + i]
  <2>1. /\ a \in Seq(Prices) /\ Len(a) = p /\ \A i \in 1 .. p : a[i] = h[Len(h) - p + i]
    BY <1>1, <1>2, <1>3, LatestPrices, ZenonT(60)
  <2>2. p <= Len(ps)
    BY <1>1, <1>2
  <2>3. /\ b \in Seq(Prices) /\ Len(b) = p /\ \A i \in 1 .. p : b[i] = ps[Len(ps) - p + i]
    BY <1>2, <1>3, <2>2, LatestPrices
  <2>. QED BY <1>1, <2>1, <2>3
<1>5. ASSUME NEW i \in 1 .. p PROVE a[i] = b[i]
  <2>1. l - p + i \in 1 .. l /\ n - l + (l - p + i) = n - p + i
    BY <1>2
  <2>2. h[l - p + i] = ps[n - l + (l - p + i)]
    BY <1>1, <2>1 DEF Holds
  <2>. QED BY <1>4, <2>1, <2>2
<1>6. a = b
  BY <1>4, <1>5
<1>. QED BY <1>1, <1>3, <1>6 DEF LatestOf, LastOf

LEMMA RegimeFollows == RegimeInv => RegimeKnown
<1>. SUFFICES ASSUME RegimeInv, subscriptions = 1, owed = 0, trend_period % 2 = 0,
                     Len(prices) >= Window
              PROVE  /\ VolatilityFits(told.volatility, LastOf(volatility_period), volatility_period)
                     /\ TrendFits(told.trend, LastOf(trend_period), trend_period)
  BY DEF RegimeKnown, VolatilityFits, TrendFits, Changes
<1>1. /\ DetectorTypeOK /\ prices \in Seq(Prices) /\ price_history \in Seq(Prices)
      /\ volatility_period <= Window /\ trend_period <= Window /\ Window \in Nat
      /\ volatility_period \in Nat /\ trend_period \in Nat
  BY WindowIsLonger DEF RegimeInv, DetectorInv, DetectorTypeOK
<1>2. /\ Holds(price_history, prices, Len(prices) - owed, Window)
      /\ Len(price_history) = Window => Computed
      /\ told = current_state
  BY DEF RegimeInv
<1>3. Len(prices) - owed = Len(prices)
  BY <1>1
<1>4. Len(price_history) = Window
  <2>1. Len(price_history) = IF Len(prices) < Window THEN Len(prices) ELSE Window
    BY <1>2, <1>3 DEF Holds
  <2>2. ~(Len(prices) < Window)
    BY <1>1
  <2>. QED BY <2>1, <2>2
<1>5. /\ LatestOf(price_history, volatility_period) = LastOf(volatility_period)
      /\ LatestOf(price_history, trend_period) = LastOf(trend_period)
  BY <1>1, <1>2, <1>3, <1>4, LatestOfAll
<1>. QED BY <1>2, <1>4, <1>5 DEF Computed

(* Whatever the prices and periods: for a detector started once, with an   *)
(* even trend period, the regime last published is that of the latest      *)
(* prices, as on_market_event() and calculate_regime() are to keep it.     *)
THEOREM RegimeIsKnown == AnalysesSpec => []RegimeKnown
<1>1. AnalysesInit => RegimeInv
  <2>. SUFFICES ASSUME AnalysesInit PROVE RegimeInv
    OBVIOUS
  <2>1. /\ subscriptions = 0 /\ owed = 0 /\ price_history = <<>> /\ prices = <<>>
        /\ told = current_state
    BY DEF AnalysesInit, DetectorInit
  <2>. QED BY <2>1, DetectorStart DEF RegimeInv
<1>. QED BY <1>1, RegimeStep, RegimeFollows, PTL DEF AnalysesSpec
=============================================================================
