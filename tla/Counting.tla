------------------------------ MODULE Counting ------------------------------
(***************************************************************************)
(* What the proofs about EventStore and Drift need to know of counting:     *)
(* induction over naturals and over finite sets, the rank of an element     *)
(* among finitely many integers, and sums over finite sets.                 *)
(*                                                                         *)
(* Induction is stated with sets: what is to be shown of every natural      *)
(* number, or every finite set, is a set that contains the first of them    *)
(* and with each the next.                                                  *)
(***************************************************************************)
EXTENDS Integers, FiniteSets, Functions, FiniteSetTheorems, WellFoundedInduction, TLAPS

\* A nonempty set of natural numbers has a least element.
LEMMA LeastOfNaturals ==
    ASSUME NEW S \in SUBSET Nat, S # {}
    PROVE  \E m \in S : \A n \in S : m <= n
<1>1. PICK m \in S : \A n \in S : <<n, m>> \notin OpToRel(<, Nat)
  BY NatLessThanWellFounded, WFMin, Zenon
<1>2. \A n \in S : n \in Nat /\ ~ (n < m)
  BY <1>1 DEF OpToRel
<1> QED
  BY <1>2

\* Induction over the natural numbers.
LEMMA NaturalInduction ==
    ASSUME NEW Good \in SUBSET Nat, 0 \in Good, \A n \in Good : n + 1 \in Good
    PROVE  Good = Nat
<1> SUFFICES ASSUME Nat \ Good # {} PROVE FALSE
  OBVIOUS
<1>1. PICK m \in Nat \ Good : \A n \in Nat \ Good : m <= n
  BY LeastOfNaturals
<1>2. m # 0 /\ m - 1 \in Nat
  BY <1>1
<1>3. m - 1 \in Good
  BY <1>1, <1>2
<1> QED
  BY <1>1, <1>3

\* Induction over the subsets of a finite set.
LEMMA SubsetInduction ==
    ASSUME NEW S, IsFiniteSet(S), NEW Good \in SUBSET SUBSET S, {} \in Good,
           \A T \in SUBSET S : T # {} /\ (\A x \in T : T \ {x} \in Good) => T \in Good
    PROVE  Good = SUBSET S
<1> DEFINE Sizes == {n \in Nat : \A T \in SUBSET S : Cardinality(T) = n => T \in Good}
<1>1. \A T \in SUBSET S : IsFiniteSet(T) /\ Cardinality(T) \in Nat
  BY FS_Subset, FS_CardinalityType
<1>2. 0 \in Sizes
  BY <1>1, FS_EmptySet
<1>3. ASSUME NEW n \in Sizes PROVE n + 1 \in Sizes
  <2> SUFFICES ASSUME NEW T \in SUBSET S, Cardinality(T) = n + 1 PROVE T \in Good
    OBVIOUS
  <2>1. T # {}
    BY FS_EmptySet
  <2>2. ASSUME NEW x \in T PROVE T \ {x} \in Good
    <3>1. Cardinality(T \ {x}) = n
      BY <1>1, FS_RemoveElement
    <3> QED
      BY <3>1
  <2> QED
    BY <2>1, <2>2
<1> HIDE DEF Sizes
<1>4. Sizes = Nat
  <2>1. Sizes \in SUBSET Nat
    BY DEF Sizes
  <2> QED
    BY <1>2, <1>3, <2>1, NaturalInduction
<1> QED
  BY <1>1, <1>4 DEF Sizes
-----------------------------------------------------------------------------
(* Ranks.                                                                  *)

\* The elements of S above x.
Above(S, x) == {y \in S : y > x}

\* The higher of two elements has fewer above it.
LEMMA FewerAbove ==
    ASSUME NEW S \in SUBSET Int, IsFiniteSet(S), NEW x \in S, NEW y \in S, x < y
    PROVE  Cardinality(Above(S, y)) < Cardinality(Above(S, x))
<1>1. /\ IsFiniteSet(Above(S, x))
      /\ Above(S, y) \in SUBSET Above(S, x)
  <2>1. Above(S, x) \in SUBSET S
    BY DEF Above
  <2>2. \A z \in S : z > y => z > x
    OBVIOUS
  <2> QED
    BY <2>1, <2>2, FS_Subset DEF Above
<1>2. Above(S, y) # Above(S, x)
  BY DEF Above
<1>3. /\ IsFiniteSet(Above(S, y))
      /\ Cardinality(Above(S, y)) <= Cardinality(Above(S, x))
      /\ Cardinality(Above(S, x)) # Cardinality(Above(S, y))
  BY <1>1, <1>2, FS_Subset
<1>4. Cardinality(Above(S, x)) \in Nat /\ Cardinality(Above(S, y)) \in Nat
  BY <1>1, <1>3, FS_CardinalityType
<1> QED
  BY <1>3, <1>4

\* An element has fewer above it than there are elements.
LEMMA RankBound ==
    ASSUME NEW S \in SUBSET Int, IsFiniteSet(S), NEW x \in S
    PROVE  Cardinality(Above(S, x)) \in 0..(Cardinality(S) - 1)
<1>1. /\ IsFiniteSet(S \ {x})
      /\ Cardinality(S \ {x}) = Cardinality(S) - 1
  BY FS_RemoveElement
<1>2. Above(S, x) \in SUBSET (S \ {x})
  BY DEF Above
<1>3. /\ IsFiniteSet(Above(S, x))
      /\ Cardinality(Above(S, x)) <= Cardinality(S \ {x})
  BY <1>1, <1>2, FS_Subset
<1> QED
  BY <1>1, <1>3, FS_CardinalityType

\* Every rank is taken.
LEMMA RankTaken ==
    ASSUME NEW S \in SUBSET Int, IsFiniteSet(S), NEW k \in 0..(Cardinality(S) - 1)
    PROVE  \E x \in S : Cardinality(Above(S, x)) = k
<1> DEFINE n == Cardinality(S)
           rank == [x \in S |-> Cardinality(Above(S, x))]
<1>1. n \in Nat
  BY FS_CardinalityType
<1>2. rank \in [S -> 0..(n - 1)]
  BY RankBound
<1>3. \A x, y \in S : rank[x] = rank[y] => x = y
  <2> SUFFICES ASSUME NEW x \in S, NEW y \in S, rank[x] = rank[y], x < y PROVE FALSE
    OBVIOUS
  <2> QED
    BY <1>2, FewerAbove
<1>4. rank \in Injection(S, 0..(n - 1))
  BY <1>2, <1>3 DEF Injection, IsInjective
<1>5. IsFiniteSet(0..(n - 1)) /\ Cardinality(0..(n - 1)) = n
  BY <1>1, FS_Interval
<1> HIDE DEF rank, n
<1>6. rank \in Surjection(S, 0..(n - 1))
  BY <1>4, <1>5, FS_Injection DEF n
<1> QED
  BY <1>6 DEF Surjection, rank, n

\* No two elements have the same rank.
LEMMA RankIsOne ==
    ASSUME NEW S \in SUBSET Int, IsFiniteSet(S), NEW x \in S, NEW y \in S,
           Cardinality(Above(S, x)) = Cardinality(Above(S, y))
    PROVE  x = y
<1>1. Cardinality(Above(S, x)) \in Int
  BY RankBound
<1> QED
  BY <1>1, FewerAbove

\* A finite nonempty set of integers has a greatest element.
LEMMA GreatestOf ==
    ASSUME NEW S \in SUBSET Int, IsFiniteSet(S), S # {}
    PROVE  \E x \in S : \A y \in S : y <= x
<1>1. Cardinality(S) \in Nat \ {0}
  BY FS_CardinalityType, FS_EmptySet
<1>2. PICK x \in S : Cardinality(Above(S, x)) = 0
  BY <1>1, RankTaken
<1>3. IsFiniteSet(Above(S, x))
  BY FS_Subset DEF Above
<1>4. Above(S, x) = {}
  BY <1>2, <1>3, FS_EmptySet
<1> QED
  BY <1>4 DEF Above

\* And a least one.
LEMMA LeastOf ==
    ASSUME NEW S \in SUBSET Int, IsFiniteSet(S), S # {}
    PROVE  \E x \in S : \A y \in S : x <= y
<1>1. Cardinality(S) \in Nat \ {0}
  BY FS_CardinalityType, FS_EmptySet
<1>2. PICK x \in S : Cardinality(Above(S, x)) = Cardinality(S) - 1
  BY <1>1, RankTaken
<1>3. /\ IsFiniteSet(S \ {x})
      /\ Cardinality(S \ {x}) = Cardinality(S) - 1
  BY FS_RemoveElement
<1>4. Above(S, x) \in SUBSET (S \ {x})
  BY DEF Above
<1>5. Above(S, x) = S \ {x}
  BY <1>2, <1>3, <1>4, FS_Subset
<1>6. \A y \in S \ {x} : y > x
  BY <1>5 DEF Above
<1> QED
  BY <1>6
-----------------------------------------------------------------------------
(* Sums.                                                                   *)

\* The sum of f over S, as the fold takes it, one element after the other.
Sum(f, S) == FoldFunctionOnSet(+, 0, f, S)

Unfolds(g, f, S) ==
    g = [T \in SUBSET S |->
           IF T = {} THEN 0 ELSE LET x == CHOOSE x \in T : TRUE IN f[x] + g[T \ {x}]]

\* The fold over a finite set has a value.
LEMMA UnfoldsExists ==
    ASSUME NEW f, NEW S, IsFiniteSet(S)
    PROVE  \E g : Unfolds(g, f, S)
<1> DEFINE Upto(n) == {T \in SUBSET S : Cardinality(T) <= n}
           Next(g, T) == IF T = {} THEN 0
                         ELSE LET x == CHOOSE x \in T : TRUE IN f[x] + g[T \ {x}]
           Sizes == {n \in Nat : \E g : g = [T \in Upto(n) |-> Next(g, T)]}
<1>1. \A T \in SUBSET S : IsFiniteSet(T) /\ Cardinality(T) \in Nat
  BY FS_Subset, FS_CardinalityType
<1>2. \A T \in SUBSET S : T # {} =>
         /\ (CHOOSE x \in T : TRUE) \in T
         /\ T \ {CHOOSE x \in T : TRUE} \in SUBSET S
         /\ Cardinality(T \ {CHOOSE x \in T : TRUE}) = Cardinality(T) - 1
  <2> SUFFICES ASSUME NEW T \in SUBSET S, T # {}
               PROVE  /\ (CHOOSE x \in T : TRUE) \in T
                      /\ Cardinality(T \ {CHOOSE x \in T : TRUE}) = Cardinality(T) - 1
    OBVIOUS
  <2>1. (CHOOSE x \in T : TRUE) \in T
    OBVIOUS
  <2> QED
    BY <1>1, <2>1, FS_RemoveElement
<1>3. 0 \in Sizes
  <2> DEFINE g == [T \in Upto(0) |-> 0]
  <2>1. \A T \in Upto(0) : T = {}
    BY <1>1, FS_EmptySet
  <2>2. g = [T \in Upto(0) |-> Next(g, T)]
    BY <2>1
  <2> HIDE DEF g
  <2> QED
    BY <2>2
<1>4. ASSUME NEW n \in Sizes PROVE n + 1 \in Sizes
  <2>1. PICK g : g = [T \in Upto(n) |-> Next(g, T)]
    OBVIOUS
  <2> DEFINE h == [T \in Upto(n + 1) |-> Next(g, T)]
  <2>2. \A T \in Upto(n) : T \in Upto(n + 1) /\ h[T] = g[T]
    <3> SUFFICES ASSUME NEW T \in Upto(n) PROVE T \in Upto(n + 1) /\ h[T] = g[T]
      OBVIOUS
    <3>1. T \in Upto(n + 1)
      BY <1>1
    <3>2. g[T] = Next(g, T)
      BY <2>1
    <3> HIDE DEF Next, Upto
    <3> QED
      BY <3>1, <3>2
  <2>3. ASSUME NEW T \in Upto(n + 1) PROVE Next(g, T) = Next(h, T)
    <3>1. CASE T = {}
      BY <3>1
    <3>2. CASE T # {}
      <4>1. T \ {CHOOSE x \in T : TRUE} \in Upto(n)
        BY <1>1, <1>2, <3>2
      <4> HIDE DEF h, Upto
      <4> QED
        BY <2>2, <3>2, <4>1
    <3> QED
      BY <3>1, <3>2
  <2>4. h = [T \in Upto(n + 1) |-> Next(h, T)]
    <3> HIDE DEF Next, Upto
    <3> QED
      BY <2>3
  <2> HIDE DEF h, Next, Upto
  <2> QED
    BY <2>4
<1>5. Sizes = Nat
  <2>1. Sizes \in SUBSET Nat
    OBVIOUS
  <2> HIDE DEF Sizes
  <2> QED
    BY <1>3, <1>4, <2>1, NaturalInduction
<1>6. Upto(Cardinality(S)) = SUBSET S /\ Cardinality(S) \in Sizes
  BY <1>1, <1>5, FS_Subset, FS_CardinalityType
<1> QED
  BY <1>6 DEF Unfolds

\* Two of them agree where both are defined.
LEMMA UnfoldsAgree ==
    ASSUME NEW f, NEW S, IsFiniteSet(S), NEW T \in SUBSET S,
           NEW g, Unfolds(g, f, S), NEW h, Unfolds(h, f, T)
    PROVE  g[T] = h[T]
<1> DEFINE Good == {U \in SUBSET T : g[U] = h[U]}
<1>1. {} \in Good
  BY DEF Unfolds
<1>2. ASSUME NEW U \in SUBSET T, U # {}, \A x \in U : U \ {x} \in Good
      PROVE  U \in Good
  <2> DEFINE x == CHOOSE x \in U : TRUE
  <2>1. x \in U /\ U \ {x} \in Good
    BY <1>2
  <2>2. g[U] = f[x] + g[U \ {x}] /\ h[U] = f[x] + h[U \ {x}]
    BY <1>2 DEF Unfolds
  <2> QED
    BY <2>1, <2>2
<1>3. IsFiniteSet(T) /\ Good \in SUBSET SUBSET T
  BY FS_Subset
<1> HIDE DEF Good
<1>4. Good = SUBSET T
  BY <1>1, <1>2, <1>3, SubsetInduction
<1> QED
  BY <1>4 DEF Good

\* The fold is that value.
LEMMA SumUnfolds ==
    ASSUME NEW f, NEW S, IsFiniteSet(S)
    PROVE  \E g : Unfolds(g, f, S) /\ Sum(f, S) = g[S]
<1> DEFINE g == CHOOSE g : Unfolds(g, f, S)
<1>1. Unfolds(g, f, S)
  BY UnfoldsExists
<1>2. Sum(f, S) = g[S]
  BY DEF Sum, FoldFunctionOnSet, MapThenFoldSet, Unfolds
<1> QED
  BY <1>1, <1>2

\* The sum over nothing.
LEMMA SumEmpty == \A f : Sum(f, {}) = 0
<1> SUFFICES ASSUME NEW f PROVE Sum(f, {}) = 0
  OBVIOUS
<1>1. PICK g : Unfolds(g, f, {}) /\ Sum(f, {}) = g[{}]
  BY SumUnfolds, FS_EmptySet
<1> QED
  BY <1>1 DEF Unfolds

\* The sum over some elements is that of the chosen one and the others.
LEMMA SumChosen ==
    ASSUME NEW f, NEW S, IsFiniteSet(S), S # {}
    PROVE  \E x \in S : x = (CHOOSE y \in S : TRUE) /\ Sum(f, S) = f[x] + Sum(f, S \ {x})
<1> DEFINE x == CHOOSE y \in S : TRUE
<1>1. x \in S
  OBVIOUS
<1>2. PICK g : Unfolds(g, f, S) /\ Sum(f, S) = g[S]
  BY SumUnfolds
<1>3. IsFiniteSet(S \ {x})
  BY FS_RemoveElement
<1>4. PICK h : Unfolds(h, f, S \ {x}) /\ Sum(f, S \ {x}) = h[S \ {x}]
  BY <1>3, SumUnfolds
<1>5. g[S \ {x}] = h[S \ {x}]
  BY <1>2, <1>4, UnfoldsAgree
<1>6. g[S] = f[x] + g[S \ {x}]
  BY <1>2 DEF Unfolds
<1> QED
  BY <1>1, <1>2, <1>4, <1>5, <1>6

\* A sum of integers is an integer.
LEMMA SumType ==
    ASSUME NEW S, IsFiniteSet(S), NEW f, \A x \in S : f[x] \in Int
    PROVE  Sum(f, S) \in Int
<1> DEFINE Good == {T \in SUBSET S : Sum(f, T) \in Int}
<1>1. {} \in Good
  BY SumEmpty
<1>2. ASSUME NEW T \in SUBSET S, T # {}, \A x \in T : T \ {x} \in Good PROVE T \in Good
  <2>1. IsFiniteSet(T)
    BY FS_Subset
  <2>2. PICK x \in T : Sum(f, T) = f[x] + Sum(f, T \ {x})
    BY <1>2, <2>1, SumChosen
  <2> QED
    BY <1>2, <2>2
<1>3. Good \in SUBSET SUBSET S
  OBVIOUS
<1> HIDE DEF Good
<1>4. Good = SUBSET S
  BY <1>1, <1>2, <1>3, SubsetInduction
<1> QED
  BY <1>4 DEF Good

\* The order in which the fold takes the elements does not matter.
LEMMA SumRemove ==
    ASSUME NEW S, IsFiniteSet(S), NEW f, \A x \in S : f[x] \in Int, NEW z \in S
    PROVE  Sum(f, S) = f[z] + Sum(f, S \ {z})
<1> DEFINE Good == {T \in SUBSET S : \A y \in T : Sum(f, T) = f[y] + Sum(f, T \ {y})}
<1>1. {} \in Good
  OBVIOUS
<1>2. ASSUME NEW T \in SUBSET S, T # {}, \A x \in T : T \ {x} \in Good PROVE T \in Good
  <2>1. IsFiniteSet(T)
    BY FS_Subset
  <2>2. PICK x \in T : Sum(f, T) = f[x] + Sum(f, T \ {x})
    BY <1>2, <2>1, SumChosen
  <2> SUFFICES ASSUME NEW y \in T PROVE Sum(f, T) = f[y] + Sum(f, T \ {y})
    OBVIOUS
  <2>3. CASE y = x
    BY <2>2, <2>3
  <2>4. CASE y # x
    <3>1. Sum(f, T \ {x}) = f[y] + Sum(f, (T \ {x}) \ {y})
      BY <1>2, <2>4
    <3>2. Sum(f, T \ {y}) = f[x] + Sum(f, (T \ {y}) \ {x})
      BY <1>2, <2>4
    <3>3. (T \ {x}) \ {y} = (T \ {y}) \ {x}
      OBVIOUS
    <3>4. Sum(f, (T \ {x}) \ {y}) \in Int
      <4>1. IsFiniteSet((T \ {x}) \ {y})
        BY <2>1, FS_RemoveElement
      <4>2. \A w \in (T \ {x}) \ {y} : f[w] \in Int
        OBVIOUS
      <4> QED
        BY <4>1, <4>2, SumType
    <3> DEFINE rest == Sum(f, (T \ {x}) \ {y})
    <3>5. f[x] + (f[y] + rest) = f[y] + (f[x] + rest)
      <4>1. f[x] \in Int /\ f[y] \in Int /\ rest \in Int
        BY <3>4
      <4> HIDE DEF rest
      <4> QED
        BY <4>1
    <3>6. Sum(f, T) = f[x] + (f[y] + rest)
      BY <2>2, <3>1
    <3>7. Sum(f, T \ {y}) = f[x] + rest
      BY <3>2, <3>3
    <3> QED
      BY <3>5, <3>6, <3>7
  <2> QED
    BY <2>3, <2>4
<1>3. Good \in SUBSET SUBSET S
  OBVIOUS
<1> HIDE DEF Good
<1>4. Good = SUBSET S
  BY <1>1, <1>2, <1>3, SubsetInduction
<1> QED
  BY <1>4 DEF Good

\* A sum of zeros is zero.
LEMMA SumOfZeros ==
    ASSUME NEW S, IsFiniteSet(S), NEW f, \A x \in S : f[x] = 0
    PROVE  Sum(f, S) = 0
<1> DEFINE Good == {T \in SUBSET S : Sum(f, T) = 0}
<1>1. {} \in Good
  BY SumEmpty
<1>2. ASSUME NEW T \in SUBSET S, T # {}, \A x \in T : T \ {x} \in Good PROVE T \in Good
  <2>1. IsFiniteSet(T)
    BY FS_Subset
  <2>2. PICK x \in T : Sum(f, T) = f[x] + Sum(f, T \ {x})
    BY <1>2, <2>1, SumChosen
  <2> QED
    BY <1>2, <2>2
<1>3. Good \in SUBSET SUBSET S
  OBVIOUS
<1> HIDE DEF Good
<1>4. Good = SUBSET S
  BY <1>1, <1>2, <1>3, SubsetInduction
<1> QED
  BY <1>4 DEF Good

\* A sum of natural numbers is one, and at least each of them.
LEMMA SumAtLeast ==
    ASSUME NEW S, IsFiniteSet(S), NEW f, \A x \in S : f[x] \in Nat
    PROVE  Sum(f, S) \in Nat /\ \A x \in S : Sum(f, S) >= f[x]
<1> DEFINE Good == {T \in SUBSET S : Sum(f, T) \in Nat}
<1>1. {} \in Good
  BY SumEmpty
<1>2. ASSUME NEW T \in SUBSET S, T # {}, \A x \in T : T \ {x} \in Good PROVE T \in Good
  <2>1. IsFiniteSet(T)
    BY FS_Subset
  <2>2. PICK x \in T : Sum(f, T) = f[x] + Sum(f, T \ {x})
    BY <1>2, <2>1, SumChosen
  <2> QED
    BY <1>2, <2>2
<1>3. Good \in SUBSET SUBSET S
  OBVIOUS
<1> HIDE DEF Good
<1>4. Good = SUBSET S
  BY <1>1, <1>2, <1>3, SubsetInduction
<1>5. ASSUME NEW x \in S PROVE Sum(f, S) >= f[x]
  <2>1. Sum(f, S) = f[x] + Sum(f, S \ {x})
    BY SumRemove
  <2>2. Sum(f, S \ {x}) \in Nat /\ f[x] \in Nat
    BY <1>4 DEF Good
  <2> QED
    BY <2>1, <2>2
<1> QED
  BY <1>4, <1>5 DEF Good
-----------------------------------------------------------------------------
(* Places.                                                                 *)

\* The indices from 1 to n at which p takes a value in S.
At(p, n, S) == {i \in 1..n : p[i] \in S}

\* How many of them hold x.
Count(p, n, x) == Cardinality(At(p, n, {x}))

\* There are finitely many of them.
LEMMA AtFinite ==
    ASSUME NEW p, NEW n \in Nat, NEW S
    PROVE  IsFiniteSet(At(p, n, S)) /\ Cardinality(At(p, n, S)) \in Nat
<1>1. IsFiniteSet(1..n)
  BY FS_Interval
<1>2. At(p, n, S) \in SUBSET (1..n)
  BY DEF At
<1>3. IsFiniteSet(At(p, n, S))
  BY <1>1, <1>2, FS_Subset
<1> QED
  BY <1>3, FS_CardinalityType

\* Those of a set are those of one value and those of the others.
LEMMA AtRemove ==
    ASSUME NEW p, NEW n \in Nat, NEW S, NEW x \in S
    PROVE  Cardinality(At(p, n, S)) = Cardinality(At(p, n, {x})) + Cardinality(At(p, n, S \ {x}))
<1>1. At(p, n, S) = At(p, n, {x}) \cup At(p, n, S \ {x})
  BY DEF At
<1>2. At(p, n, {x}) \cap At(p, n, S \ {x}) = {}
  BY DEF At
<1>3. /\ IsFiniteSet(At(p, n, {x}))
      /\ IsFiniteSet(At(p, n, S \ {x}))
  BY AtFinite
<1>4. Cardinality(At(p, n, {x}) \cup At(p, n, S \ {x}))
        = Cardinality(At(p, n, {x})) + Cardinality(At(p, n, S \ {x})) - Cardinality({})
  BY <1>2, <1>3, FS_Union
<1>5. /\ Cardinality({}) = 0
      /\ Cardinality(At(p, n, {x})) \in Nat
      /\ Cardinality(At(p, n, S \ {x})) \in Nat
  BY AtFinite, FS_EmptySet
<1> QED
  BY <1>1, <1>4, <1>5

\* The sizes of the bins add up to the number of places that are in a bin.
LEMMA BinsAddUp ==
    ASSUME NEW p, NEW n \in Nat, NEW S, IsFiniteSet(S), NEW f,
           \A b \in S : f[b] = Cardinality(At(p, n, {b}))
    PROVE  Sum(f, S) = Cardinality(At(p, n, S))
<1> DEFINE Good == {T \in SUBSET S : Sum(f, T) = Cardinality(At(p, n, T))}
<1>1. {} \in Good
  <2>1. At(p, n, {}) = {}
    BY DEF At
  <2> QED
    BY <2>1, SumEmpty, FS_EmptySet
<1>2. ASSUME NEW T \in SUBSET S, T # {}, \A x \in T : T \ {x} \in Good PROVE T \in Good
  <2>1. IsFiniteSet(T)
    BY FS_Subset
  <2>2. PICK x \in T : Sum(f, T) = f[x] + Sum(f, T \ {x})
    BY <1>2, <2>1, SumChosen
  <2>3. Cardinality(At(p, n, T)) = Cardinality(At(p, n, {x})) + Cardinality(At(p, n, T \ {x}))
    BY AtRemove
  <2> QED
    BY <1>2, <2>2, <2>3
<1>3. Good \in SUBSET SUBSET S
  OBVIOUS
<1> HIDE DEF Good
<1>4. Good = SUBSET S
  BY <1>1, <1>2, <1>3, SubsetInduction
<1> QED
  BY <1>4 DEF Good

\* Values that come in proportion, come in proportion together.
LEMMA AtInProportion ==
    ASSUME NEW p, NEW n \in Nat, NEW q, NEW m \in Nat, NEW S, IsFiniteSet(S),
           \A x \in S : Count(p, n, x) * m = Count(q, m, x) * n
    PROVE  Cardinality(At(p, n, S)) * m = Cardinality(At(q, m, S)) * n
<1> DEFINE a(T) == Cardinality(At(p, n, T))
           b(T) == Cardinality(At(q, m, T))
           Good == {T \in SUBSET S : a(T) * m = b(T) * n}
<1>1. {} \in Good
  <2>1. At(p, n, {}) = {} /\ At(q, m, {}) = {}
    BY DEF At
  <2>2. a({}) = 0 /\ b({}) = 0
    BY <2>1, FS_EmptySet
  <2> HIDE DEF a, b
  <2> QED
    BY <2>2
<1>2. ASSUME NEW T \in SUBSET S, T # {}, \A x \in T : T \ {x} \in Good PROVE T \in Good
  <2>1. PICK x \in T : TRUE
    BY <1>2
  <2>2. /\ a(T) = a({x}) + a(T \ {x})
        /\ b(T) = b({x}) + b(T \ {x})
    BY AtRemove
  <2>3. /\ a({x}) \in Nat /\ a(T \ {x}) \in Nat
        /\ b({x}) \in Nat /\ b(T \ {x}) \in Nat
    BY AtFinite
  <2>4. a({x}) * m = b({x}) * n /\ a(T \ {x}) * m = b(T \ {x}) * n
    BY <1>2 DEF Count
  <2> HIDE DEF a, b
  <2>5. /\ (a({x}) + a(T \ {x})) * m = a({x}) * m + a(T \ {x}) * m
        /\ (b({x}) + b(T \ {x})) * n = b({x}) * n + b(T \ {x}) * n
    BY <2>3
  <2> QED
    BY <2>2, <2>4, <2>5
<1>3. Good \in SUBSET SUBSET S
  OBVIOUS
<1> HIDE DEF Good
<1>4. Good = SUBSET S
  BY <1>1, <1>2, <1>3, SubsetInduction
<1> QED
  BY <1>4 DEF Good
=============================================================================
