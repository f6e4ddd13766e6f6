----------------------------- MODULE CounterSums -----------------------------
(***************************************************************************)
(* The sum of a function over its domain, as the community modules define  *)
(* it: what it is for an array of counters, and what counting does to it.  *)
(* The fold is a recursive function, and its sum is known by induction on  *)
(* the size of the set. The induction is over the SET of the sizes a claim *)
(* holds for, which keeps every fact first-order.                          *)
(***************************************************************************)
EXTENDS Integers, FiniteSetsExt, FiniteSetTheorems, WellFoundedInduction, TLAPS

Sum(f) == MapThenSumSet(LAMBDA i : f[i], DOMAIN f)

\* The fold's recursion: F[s] is the sum over the subset s.
AnyOf(s) == CHOOSE x \in s : TRUE
SumStep(f, F, s) == IF s = {} THEN 0 ELSE f[AnyOf(s)] + F[s \ {AnyOf(s)}]
IsSum(f, F) == F = [s \in SUBSET DOMAIN f |-> SumStep(f, F, s)]

\* Induction over Nat, for a set of numbers.
LEMMA SizeInduction ==
  ASSUME NEW I, 0 \in I, \A n \in Nat : n \in I => n + 1 \in I
  PROVE  Nat \subseteq I
<1> SUFFICES ASSUME ~(Nat \subseteq I) PROVE FALSE
  OBVIOUS
<1>1. PICK m \in Nat \ I : \A n \in Nat \ I : <<n, m>> \notin OpToRel(<, Nat)
  BY WFMin, NatLessThanWellFounded
<1>2. m # 0 /\ m \in Nat /\ m \notin I
  BY <1>1
<1>3. m - 1 \in Nat /\ m - 1 < m /\ (m - 1) + 1 = m
  BY <1>2
<1>4. <<m - 1, m>> \in OpToRel(<, Nat)
  BY <1>2, <1>3 DEF OpToRel
<1> QED BY <1>1, <1>2, <1>3, <1>4

\* A set loses one element when its chosen one is taken away.
LEMMA OneLess ==
  ASSUME NEW S, IsFiniteSet(S), NEW s \in SUBSET S, s # {}
  PROVE  /\ AnyOf(s) \in s /\ s \ {AnyOf(s)} \in SUBSET S
         /\ Cardinality(s) \in Nat /\ Cardinality(s \ {AnyOf(s)}) \in Nat
         /\ Cardinality(s \ {AnyOf(s)}) = Cardinality(s) - 1
<1>1. AnyOf(s) \in s
  BY DEF AnyOf
<1>2. IsFiniteSet(s)
  BY FS_Subset
<1>3. Cardinality(s \ {AnyOf(s)}) = Cardinality(s) - 1 /\ IsFiniteSet(s \ {AnyOf(s)})
  BY <1>1, <1>2, FS_RemoveElement
<1> QED BY <1>1, <1>2, <1>3, FS_CardinalityType

\* What holds of the empty set, and of each set if it holds of the one with an element less,
\* holds of every subset of a finite set. Good is the set of the subsets it holds for.
LEMMA SubsetInduction ==
  ASSUME NEW S, IsFiniteSet(S), NEW Good, {} \in Good,
         \A s \in SUBSET S : s # {} /\ s \ {AnyOf(s)} \in Good => s \in Good
  PROVE  SUBSET S \subseteq Good
<1> DEFINE I == {n \in Nat : \A s \in SUBSET S : Cardinality(s) = n => s \in Good}
<1>1. \A s \in SUBSET S : IsFiniteSet(s) /\ Cardinality(s) \in Nat
  BY FS_Subset, FS_CardinalityType
<1>2. 0 \in I
  BY <1>1, FS_EmptySet
<1>3. ASSUME NEW n \in Nat, n \in I PROVE n + 1 \in I
  <2>1. ASSUME NEW s \in SUBSET S, Cardinality(s) = n + 1 PROVE s \in Good
    <3>1. s # {}
      BY <2>1, FS_EmptySet
    <3>2. s \ {AnyOf(s)} \in SUBSET S /\ Cardinality(s \ {AnyOf(s)}) = n
      BY <2>1, <3>1, OneLess
    <3>3. s \ {AnyOf(s)} \in Good
      BY <1>3, <3>2
    <3> QED BY <3>1, <3>3
  <2> QED BY <2>1
<1>4. Nat \subseteq I
  <2> HIDE DEF I
  <2> QED BY <1>2, <1>3, SizeInduction
<1> QED BY <1>1, <1>4
-----------------------------------------------------------------------------
\* The recursion has a solution, so that the fold is one.
LEMMA SumExists ==
  ASSUME NEW f, IsFiniteSet(DOMAIN f)
  PROVE  \E F : IsSum(f, F)
<1> DEFINE S == DOMAIN f
           UpTo(F, n) == \A s \in SUBSET S : Cardinality(s) <= n => F[s] = SumStep(f, F, s)
           I == {n \in Nat : \E F : F = [s \in SUBSET S |-> F[s]] /\ UpTo(F, n)}
<1>1. \A s \in SUBSET S : IsFiniteSet(s) /\ Cardinality(s) \in Nat
                          /\ Cardinality(s) <= Cardinality(S)
  BY FS_Subset, FS_CardinalityType
<1>2. 0 \in I
  <2> DEFINE F == [s \in SUBSET S |-> 0]
  <2>1. ASSUME NEW s \in SUBSET S, Cardinality(s) <= 0 PROVE F[s] = SumStep(f, F, s)
    <3>1. s = {}
      BY <1>1, <2>1, FS_EmptySet
    <3> QED BY <3>1 DEF SumStep
  <2>2. UpTo(F, 0)
    BY <2>1
  <2>3. F = [s \in SUBSET S |-> F[s]]
    OBVIOUS
  <2> HIDE DEF F, UpTo
  <2> QED BY <2>2, <2>3
<1>3. ASSUME NEW n \in Nat, n \in I PROVE n + 1 \in I
  <2>1. PICK F : F = [s \in SUBSET S |-> F[s]] /\ UpTo(F, n)
    BY <1>3
  <2> DEFINE G == [s \in SUBSET S |-> IF Cardinality(s) <= n THEN F[s] ELSE SumStep(f, F, s)]
  <2>2. ASSUME NEW s \in SUBSET S, Cardinality(s) <= n + 1 PROVE G[s] = SumStep(f, G, s)
    <3>1. CASE s = {}
      BY <2>1, <3>1, FS_EmptySet DEF SumStep
    <3>2. CASE s # {}
      <4> DEFINE r == s \ {AnyOf(s)}
      <4>1. r \in SUBSET S /\ Cardinality(r) <= n
        BY <1>1, <2>2, <3>2, OneLess
      <4>2. G[r] = F[r]
        BY <4>1
      <4>3. SumStep(f, G, s) = SumStep(f, F, s)
        BY <3>2, <4>2 DEF SumStep
      <4>4. G[s] = SumStep(f, F, s)
        BY <2>1
      <4> QED BY <4>3, <4>4
    <3> QED BY <3>1, <3>2
  <2>3. UpTo(G, n + 1)
    BY <2>2
  <2>4. G = [s \in SUBSET S |-> G[s]]
    OBVIOUS
  <2> HIDE DEF G, UpTo
  <2> QED BY <2>3, <2>4
<1>4. Nat \subseteq I
  <2> HIDE DEF I
  <2> QED BY <1>2, <1>3, SizeInduction
<1>5. Cardinality(S) \in I
  BY <1>4, FS_CardinalityType
<1>6. PICK F : F = [s \in SUBSET S |-> F[s]] /\ UpTo(F, Cardinality(S))
  BY <1>5
<1>7. \A s \in SUBSET S : F[s] = SumStep(f, F, s)
  BY <1>1, <1>6
<1>8. F = [s \in SUBSET S |-> SumStep(f, F, s)]
  BY <1>6, <1>7
<1> QED BY <1>8 DEF IsSum

LEMMA SumUnfolds ==
  ASSUME NEW f, IsFiniteSet(DOMAIN f)
  PROVE  \E F : IsSum(f, F) /\ Sum(f) = F[DOMAIN f]
<1>1. Sum(f) = (CHOOSE F : IsSum(f, F))[DOMAIN f]
  BY DEF Sum, MapThenSumSet, MapThenFoldSet, IsSum, SumStep, AnyOf
<1> QED BY <1>1, SumExists

\* What the solution says of each subset.
LEMMA SumRecursion ==
  ASSUME NEW f, NEW F, IsSum(f, F)
  PROVE  /\ F[{}] = 0
         /\ \A s \in SUBSET DOMAIN f :
              s # {} => F[s] = f[AnyOf(s)] + F[s \ {AnyOf(s)}]
<1>1. \A s \in SUBSET DOMAIN f : F[s] = SumStep(f, F, s)
  BY DEF IsSum
<1> QED BY <1>1 DEF SumStep

LEMMA SumTypes ==
  ASSUME NEW f, IsFiniteSet(DOMAIN f), f \in [DOMAIN f -> Nat], NEW F, IsSum(f, F)
  PROVE  \A s \in SUBSET DOMAIN f : F[s] \in Nat
<1> DEFINE Good == {s \in SUBSET DOMAIN f : F[s] \in Nat}
<1>1. {} \in Good
  BY SumRecursion
<1>2. ASSUME NEW s \in SUBSET DOMAIN f, s # {}, s \ {AnyOf(s)} \in Good PROVE s \in Good
  <2>1. F[s] = f[AnyOf(s)] + F[s \ {AnyOf(s)}]
    BY <1>2, SumRecursion
  <2>2. AnyOf(s) \in DOMAIN f
    BY <1>2, OneLess
  <2>3. f[AnyOf(s)] \in Nat
    BY <2>2
  <2> QED BY <1>2, <2>1, <2>3
<1>3. SUBSET DOMAIN f \subseteq Good
  <2> HIDE DEF Good
  <2> QED BY <1>1, <1>2, SubsetInduction
<1> QED BY <1>3
-----------------------------------------------------------------------------
(* What is used of sums. *)

\* The sum of counters is a number;
LEMMA SumIsNat ==
  ASSUME NEW S, IsFiniteSet(S), NEW f \in [S -> Nat]
  PROVE  Sum(f) \in Nat
<1>1. DOMAIN f = S
  OBVIOUS
<1> QED BY <1>1, SumUnfolds, SumTypes

\* it is 0 if all are;
LEMMA SumOfZeros ==
  ASSUME NEW S, IsFiniteSet(S)
  PROVE  Sum([i \in S |-> 0]) = 0
<1> DEFINE f == [i \in S |-> 0]
<1>1. DOMAIN f = S /\ \A i \in S : f[i] = 0
  OBVIOUS
<1> HIDE DEF f
<1>2. PICK F : IsSum(f, F) /\ Sum(f) = F[S]
  BY <1>1, SumUnfolds
<1> DEFINE Good == {s \in SUBSET S : F[s] = 0}
<1>3. {} \in Good /\ \A s \in SUBSET S : s # {} => F[s] = f[AnyOf(s)] + F[s \ {AnyOf(s)}]
  <2>1. DOMAIN f = S /\ IsSum(f, F)
    BY <1>1, <1>2
  <2> HIDE DEF Good
  <2>2. F[{}] = 0 /\ \A s \in SUBSET S : s # {} => F[s] = f[AnyOf(s)] + F[s \ {AnyOf(s)}]
    BY <2>1, SumRecursion
  <2> QED BY <2>2 DEF Good
<1>4. ASSUME NEW s \in SUBSET S, s # {}, s \ {AnyOf(s)} \in Good PROVE s \in Good
  <2>1. F[s] = f[AnyOf(s)] + F[s \ {AnyOf(s)}]
    BY <1>3, <1>4
  <2>2. AnyOf(s) \in S
    BY <1>4, OneLess
  <2> QED BY <1>1, <1>4, <2>1, <2>2
<1>5. SUBSET S \subseteq Good
  <2> HIDE DEF Good
  <2> QED BY <1>3, <1>4, SubsetInduction
<1> QED BY <1>2, <1>5 DEF f

\* and counting one of them counts in the sum.
LEMMA SumCounts ==
  ASSUME NEW S, IsFiniteSet(S), NEW f \in [S -> Nat], NEW i \in S
  PROVE  Sum([f EXCEPT ![i] = @ + 1]) = Sum(f) + 1
<1> DEFINE g == [f EXCEPT ![i] = @ + 1]
<1>1. /\ DOMAIN f = S /\ DOMAIN g = S /\ g[i] = f[i] + 1
      /\ \A j \in S : f[j] \in Nat /\ (j # i => g[j] = f[j])
  OBVIOUS
<1> HIDE DEF g
<1>2. PICK F : IsSum(f, F) /\ Sum(f) = F[S]
  BY <1>1, SumUnfolds
<1>3. PICK G : IsSum(g, G) /\ Sum(g) = G[S]
  BY <1>1, SumUnfolds
<1>4. \A s \in SUBSET S : F[s] \in Nat
  BY <1>1, <1>2, SumTypes
<1> DEFINE Good == {s \in SUBSET S : G[s] = F[s] + (IF i \in s THEN 1 ELSE 0)}
<1>5. {} \in Good
  BY <1>2, <1>3, SumRecursion
<1>6. ASSUME NEW s \in SUBSET S, s # {}, s \ {AnyOf(s)} \in Good PROVE s \in Good
  <2> DEFINE x == AnyOf(s)
             r == s \ {x}
  <2>1. F[s] = f[x] + F[r] /\ G[s] = g[x] + G[r]
    BY <1>1, <1>2, <1>3, <1>6, SumRecursion
  <2>0. x \in s /\ x \in S /\ r \in SUBSET S
    BY <1>6, OneLess
  <2>2. G[r] = F[r] + (IF i \in r THEN 1 ELSE 0) /\ F[r] \in Nat /\ f[x] \in Nat
    BY <1>1, <1>4, <1>6, <2>0
  <2>3. CASE x = i
    BY <1>1, <2>0, <2>1, <2>2, <2>3
  <2>4. CASE x # i
    <3>1. i \in r <=> i \in s
      BY <2>4
    <3> QED BY <1>1, <2>0, <2>1, <2>2, <2>4, <3>1
  <2> QED BY <2>3, <2>4
<1>7. SUBSET S \subseteq Good
  <2> HIDE DEF Good
  <2> QED BY <1>5, <1>6, SubsetInduction
<1> QED BY <1>2, <1>3, <1>7 DEF g
=============================================================================
