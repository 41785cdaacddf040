--------------------------- MODULE TaskSetProofs ---------------------------
(***************************************************************************)
(* Theorems about sums over finite sets and about the arithmetic of the    *)
(* schedulability analysis, which know nothing of the kernel.              *)
(***************************************************************************)
EXTENDS Schedulability, FiniteSetTheorems, WellFoundedInduction, TLAPS

-----------------------------------------------------------------------------
(***************************************************************************)
(* Induction over finite sets and over the natural numbers.                *)
(***************************************************************************)

\* The strict order of the subsets of a finite set is well founded.
LEMMA MinimalSubset ==
    ASSUME NEW S, IsFiniteSet(S), NEW T \in SUBSET SUBSET S, T # {}
    PROVE  \E A \in T : \A B \in T : B \subseteq A => B = A
<1>1. IsWellFoundedOn(StrictSubsetOrdering(S), SUBSET S)
  BY FS_StrictSubsetOrderingWellFounded, FS_FiniteSubsetsOfFinite
<1>2. PICK A \in T : \A B \in T : ~(<<B, A>> \in StrictSubsetOrdering(S))
  BY <1>1, WFMin
<1>3. ASSUME NEW B \in T, B \subseteq A, B # A PROVE FALSE
  BY <1>2, <1>3 DEF StrictSubsetOrdering
<1> QED
  BY <1>2, <1>3

\* A property of every subset all of whose subsets one element smaller have it.
LEMMA SubsetInduction ==
    ASSUME NEW S, IsFiniteSet(S), NEW T,
           \A A \in SUBSET S : (\A x \in A : A \ {x} \in T) => A \in T
    PROVE  SUBSET S \subseteq T
<1> DEFINE bad == (SUBSET S) \ T
<1>1. SUFFICES ASSUME bad # {} PROVE FALSE
  OBVIOUS
<1>2. bad \in SUBSET SUBSET S
  OBVIOUS
<1> HIDE DEF bad
<1>3. PICK A \in bad : \A B \in bad : B \subseteq A => B = A
  BY <1>1, <1>2, MinimalSubset
<1>4. A \in SUBSET S /\ A \notin T
  BY DEF bad
<1>5. ASSUME NEW x \in A PROVE A \ {x} \in T
  BY <1>3, <1>4 DEF bad
<1> QED
  BY <1>4, <1>5

\* Its initial segments up to one element are subsets of a finite set.
LEMMA LeastNatural ==
    ASSUME NEW T \in SUBSET Nat, T # {}
    PROVE  \E n \in T : \A m \in T : n <= m
<1>1. PICK k \in T : k \in Nat
  OBVIOUS
<1> DEFINE initial == {0..m : m \in {i \in T : i <= k}}
           all == 0..k
<1>2. IsFiniteSet(all)
  BY <1>1, FS_Interval
<1>3. initial \in SUBSET SUBSET all
  BY <1>1
<1>4. initial # {}
  BY <1>1
<1> HIDE DEF initial, all
<1>5. PICK A \in initial : \A B \in initial : B \subseteq A => B = A
  BY <1>2, <1>3, <1>4, MinimalSubset
<1>6. PICK n \in T : n <= k /\ A = 0..n
  BY DEF initial
<1>7. ASSUME NEW m \in T, m < n PROVE FALSE
  <2>1. m <= k /\ 0..m \subseteq 0..n /\ n \in 0..n /\ n \notin 0..m
    BY <1>1, <1>6, <1>7
  <2>2. 0..m \in initial
    BY <2>1 DEF initial
  <2> QED
    BY <2>1, <2>2, <1>5, <1>6
<1> QED
  BY <1>6, <1>7

\* The least number without the property would have a predecessor with it.
LEMMA NaturalInduction ==
    ASSUME NEW T, 0 \in T, \A n \in Nat : n \in T => n + 1 \in T
    PROVE  Nat \subseteq T
<1> SUFFICES ASSUME Nat \ T # {} PROVE FALSE
  OBVIOUS
<1>1. PICK n \in Nat \ T : \A m \in Nat \ T : n <= m
  <2> DEFINE bad == Nat \ T
  <2>1. bad \in SUBSET Nat /\ bad # {}
    OBVIOUS
  <2> HIDE DEF bad
  <2>2. \E n \in bad : \A m \in bad : n <= m
    BY <2>1, LeastNatural
  <2> QED
    BY <2>2 DEF bad
<1>2. n # 0 /\ n - 1 \in Nat
  BY <1>1
<1>3. n - 1 \in T
  BY <1>1, <1>2
<1> QED
  BY <1>1, <1>2, <1>3

-----------------------------------------------------------------------------
\* The element the community module takes first, and its recursion unfolded once.
Some(s) == CHOOSE x \in s : TRUE
Unfold(f, S, g) == [s \in SUBSET S |-> IF s = {} THEN 0 ELSE f[Some(s)] + g[s \ {Some(s)}]]

\* A sum is what a function that is its own unfolding gives to the whole set.
LEMMA SumIsUnfolded ==
    ASSUME NEW f, NEW S
    PROVE  SumFunctionOnSet(f, S) = (CHOOSE g : g = Unfold(f, S, g))[S]
BY DEF SumFunctionOnSet, FoldFunctionOnSet, MapThenFoldSet, Unfold, Some

\* At every set of at most n elements g is what its unfolding says.
Unfolds(f, S, g, n) ==
    \A s \in SUBSET S : Cardinality(s) <= n => g[s] = Unfold(f, S, g)[s]

\* There is such a function: unfolding settles one more size each time.
LEMMA SumExists ==
    ASSUME NEW S, IsFiniteSet(S), NEW f, \A x \in S : f[x] \in Int
    PROVE  \E g \in [SUBSET S -> Int] : g = Unfold(f, S, g)
<1> DEFINE T == {n \in Nat : \E g \in [SUBSET S -> Int] : Unfolds(f, S, g, n)}
<1>1. \A s \in SUBSET S : IsFiniteSet(s) /\ Cardinality(s) \in Nat
  BY FS_Subset, FS_CardinalityType
<1>2. \A s \in SUBSET S : s # {} => /\ Some(s) \in s
                                    /\ Cardinality(s \ {Some(s)}) = Cardinality(s) - 1
  BY <1>1, FS_RemoveElement DEF Some
<1>3. ASSUME NEW g \in [SUBSET S -> Int] PROVE Unfold(f, S, g) \in [SUBSET S -> Int]
  <2>1. \A s \in SUBSET S : s # {} => f[Some(s)] \in Int /\ g[s \ {Some(s)}] \in Int
    BY <1>2
  <2> QED
    BY <2>1 DEF Unfold
<1>4. 0 \in T
  <2> DEFINE g == [s \in SUBSET S |-> 0]
  <2>1. \A s \in SUBSET S : Cardinality(s) <= 0 => s = {}
    BY <1>1, FS_EmptySet
  <2>2. g \in [SUBSET S -> Int] /\ Unfolds(f, S, g, 0)
    BY <2>1 DEF Unfolds, Unfold
  <2> QED
    BY <2>2
<1>5. ASSUME NEW n \in Nat, n \in T PROVE n + 1 \in T
  <2>1. PICK g \in [SUBSET S -> Int] : Unfolds(f, S, g, n)
    BY <1>5
  <2> DEFINE h == Unfold(f, S, g)
  <2>2. h \in [SUBSET S -> Int]
    BY <1>3
  <2>3. ASSUME NEW s \in SUBSET S, Cardinality(s) <= n + 1
        PROVE  h[s] = Unfold(f, S, h)[s]
    <3>1. CASE s = {}
      BY <3>1 DEF Unfold
    <3>2. CASE s # {}
      <4>1. s \ {Some(s)} \in SUBSET S
        OBVIOUS
      <4>5. Cardinality(s \ {Some(s)}) = Cardinality(s) - 1 /\ Cardinality(s) \in Nat
        BY <1>1, <1>2, <3>2
      <4>6. Cardinality(s \ {Some(s)}) <= n
        BY <4>5, <2>3
      <4>2. g[s \ {Some(s)}] = h[s \ {Some(s)}]
        BY <2>1, <4>1, <4>6 DEF Unfolds
      <4>3. h[s] = f[Some(s)] + g[s \ {Some(s)}]
        BY <3>2 DEF Unfold
      <4>4. Unfold(f, S, h)[s] = f[Some(s)] + h[s \ {Some(s)}]
        BY <3>2 DEF Unfold
      <4> QED
        BY <4>2, <4>3, <4>4
    <3> QED
      BY <3>1, <3>2
  <2>4. Unfolds(f, S, h, n + 1)
    BY <2>3 DEF Unfolds
  <2> QED
    BY <2>2, <2>4
<1>6. Nat \subseteq T
  <2> HIDE DEF T
  <2> QED
    BY <1>4, <1>5, NaturalInduction
<1>7. PICK g \in [SUBSET S -> Int] : Unfolds(f, S, g, Cardinality(S))
  BY <1>6, FS_CardinalityType
<1>8. \A s \in SUBSET S : Cardinality(s) <= Cardinality(S)
  BY FS_Subset
<1>9. \A s \in SUBSET S : g[s] = Unfold(f, S, g)[s]
  BY <1>7, <1>8 DEF Unfolds
<1>10. Unfold(f, S, g) \in [SUBSET S -> Int]
  BY <1>3
<1> QED
  BY <1>9, <1>10

\* Two such functions agree where both are defined.
LEMMA SumUnique ==
    ASSUME NEW S, IsFiniteSet(S), NEW f, NEW R \in SUBSET S,
           NEW g, g = Unfold(f, S, g), NEW h, h = Unfold(f, R, h)
    PROVE  \A s \in SUBSET R : g[s] = h[s]
<1> DEFINE T == {s \in SUBSET R : g[s] = h[s]}
<1>1. IsFiniteSet(R)
  BY FS_Subset
<1>2. ASSUME NEW A \in SUBSET R, \A x \in A : A \ {x} \in T PROVE A \in T
  <2>1. CASE A = {}
    BY <2>1 DEF Unfold
  <2>2. CASE A # {}
    <3>1. Some(A) \in A
      BY <2>2 DEF Some
    <3>2. g[A \ {Some(A)}] = h[A \ {Some(A)}]
      BY <1>2, <3>1
    <3>3. g[A] = f[Some(A)] + g[A \ {Some(A)}]
      BY <2>2 DEF Unfold
    <3>4. h[A] = f[Some(A)] + h[A \ {Some(A)}]
      BY <2>2 DEF Unfold
    <3> QED
      BY <3>2, <3>3, <3>4
  <2> QED
    BY <2>1, <2>2
<1>3. SUBSET R \subseteq T
  <2> HIDE DEF T
  <2> QED
    BY <1>1, <1>2, SubsetInduction
<1> QED
  BY <1>3

\* The sum over a set, by the element the community module takes first.
LEMMA SumTakesSome ==
    ASSUME NEW S, IsFiniteSet(S), NEW f, \A x \in S : f[x] \in Int
    PROVE  /\ SumFunctionOnSet(f, {}) = 0
           /\ SumFunctionOnSet(f, S) \in Int
           /\ S # {} => SumFunctionOnSet(f, S) =
                           f[Some(S)] + SumFunctionOnSet(f, S \ {Some(S)})
<1> DEFINE It(A) == CHOOSE g : g = Unfold(f, A, g)
<1>1. ASSUME NEW A \in SUBSET S
      PROVE  It(A) = Unfold(f, A, It(A)) /\ It(A) \in [SUBSET A -> Int]
  <2>1. IsFiniteSet(A)
    BY FS_Subset
  <2>2. PICK g \in [SUBSET A -> Int] : g = Unfold(f, A, g)
    BY <2>1, SumExists
  <2>3. It(A) = Unfold(f, A, It(A))
    BY <2>2
  <2>4. \A s \in SUBSET A : g[s] = It(A)[s]
    <3> HIDE DEF It
    <3> QED
      BY <2>1, <2>2, <2>3, SumUnique
  <2>5. DOMAIN It(A) = SUBSET A /\ It(A) = [s \in SUBSET A |-> It(A)[s]]
    <3> HIDE DEF It
    <3> QED
      BY <2>3 DEF Unfold
  <2> HIDE DEF It
  <2> QED
    BY <2>2, <2>3, <2>4, <2>5
<1>2. ASSUME NEW A \in SUBSET S PROVE SumFunctionOnSet(f, A) = It(A)[A]
  BY SumIsUnfolded
<1> HIDE DEF It
<1>3. SumFunctionOnSet(f, {}) = 0
  <2>1. It({}) = Unfold(f, {}, It({}))
    BY <1>1
  <2>2. It({})[{}] = 0
    BY <2>1 DEF Unfold
  <2> QED
    BY <1>2, <2>2
<1>4. SumFunctionOnSet(f, S) \in Int
  <2>1. S \in SUBSET S
    OBVIOUS
  <2>2. It(S) \in [SUBSET S -> Int] /\ SumFunctionOnSet(f, S) = It(S)[S]
    BY <1>1, <1>2, <2>1
  <2> QED
    BY <2>1, <2>2
<1>5. ASSUME S # {} PROVE SumFunctionOnSet(f, S) = f[Some(S)] + SumFunctionOnSet(f, S \ {Some(S)})
  <2> DEFINE R == S \ {Some(S)}
  <2>1. It(S)[S] = f[Some(S)] + It(S)[R]
    <3>1. It(S) = Unfold(f, S, It(S))
      BY <1>1
    <3> QED
      BY <1>5, <3>1 DEF Unfold
  <2>2. It(S)[R] = It(R)[R]
    <3>1. R \in SUBSET S
      OBVIOUS
    <3> HIDE DEF R
    <3>2. It(S) = Unfold(f, S, It(S)) /\ It(R) = Unfold(f, R, It(R))
      BY <1>1, <3>1
    <3> QED
      BY <3>1, <3>2, SumUnique
  <2>3. SumFunctionOnSet(f, S) = It(S)[S] /\ SumFunctionOnSet(f, R) = It(R)[R]
    BY <1>2
  <2> QED
    BY <2>1, <2>2, <2>3
<1> QED
  BY <1>3, <1>4, <1>5

\* The order in which the elements are taken does not matter.
LEMMA SumTakesAny ==
    ASSUME NEW S, IsFiniteSet(S), NEW f, \A x \in S : f[x] \in Int, NEW a \in S
    PROVE  SumFunctionOnSet(f, S) = f[a] + SumFunctionOnSet(f, S \ {a})
<1> DEFINE Sum(A) == SumFunctionOnSet(f, A)
           T == {A \in SUBSET S : \A x \in A : Sum(A) = f[x] + Sum(A \ {x})}
<1>1. ASSUME NEW A \in SUBSET S
      PROVE  Sum(A) \in Int /\ (A # {} => Sum(A) = f[Some(A)] + Sum(A \ {Some(A)}))
  <2>1. IsFiniteSet(A)
    BY FS_Subset
  <2> QED
    BY <2>1, SumTakesSome
<1>2. ASSUME NEW A \in SUBSET S, \A x \in A : A \ {x} \in T, NEW x \in A
      PROVE  Sum(A) = f[x] + Sum(A \ {x})
  <2> DEFINE c == Some(A)
  <2>1. c \in A
    BY DEF Some
  <2>2. Sum(A) = f[c] + Sum(A \ {c})
    BY <1>1
  <2> HIDE DEF c
  <2>3. CASE x = c
    BY <2>2, <2>3
  <2>4. CASE x # c
    <3>1. Sum(A \ {c}) = f[x] + Sum((A \ {c}) \ {x})
      BY <1>2, <2>1, <2>4
    <3>2. Sum(A \ {x}) = f[c] + Sum((A \ {x}) \ {c})
      BY <1>2, <2>1, <2>4
    <3>3. (A \ {c}) \ {x} = (A \ {x}) \ {c}
      OBVIOUS
    <3>4. f[x] \in Int /\ f[c] \in Int /\ Sum((A \ {x}) \ {c}) \in Int
      BY <1>1, <2>1
    <3>5. \A p, q, r \in Int : p + (q + r) = q + (p + r)
      OBVIOUS
    <3> HIDE DEF Sum
    <3>6. Sum(A) = f[c] + (f[x] + Sum((A \ {x}) \ {c}))
      BY <2>2, <3>1, <3>3
    <3> QED
      BY <3>2, <3>4, <3>5, <3>6
  <2> QED
    BY <2>3, <2>4
<1>3. SUBSET S \subseteq T
  <2>1. \A A \in SUBSET S : (\A x \in A : A \ {x} \in T) => A \in T
    BY <1>2
  <2> HIDE DEF T
  <2> QED
    BY <2>1, SubsetInduction
<1> QED
  BY <1>3

\* Nothing sums to zero.
LEMMA SumEmpty == ASSUME NEW f PROVE SumFunctionOnSet(f, {}) = 0
BY SumTakesSome, FS_EmptySet

\* Integers sum to an integer, and natural numbers to a natural number.
LEMMA SumTyped ==
    ASSUME NEW S, IsFiniteSet(S), NEW f, \A x \in S : f[x] \in Int
    PROVE  SumFunctionOnSet(f, S) \in Int
BY SumTakesSome

\* The sum depends on the values in the set only.
LEMMA SumSame ==
    ASSUME NEW S, IsFiniteSet(S), NEW f, NEW g,
           \A x \in S : f[x] \in Int /\ g[x] = f[x]
    PROVE  SumFunctionOnSet(g, S) = SumFunctionOnSet(f, S)
<1> DEFINE T == {A \in SUBSET S : SumFunctionOnSet(g, A) = SumFunctionOnSet(f, A)}
<1>1. ASSUME NEW A \in SUBSET S, \A x \in A : A \ {x} \in T PROVE A \in T
  <2>1. CASE A = {}
    BY <2>1, SumEmpty
  <2>2. ASSUME NEW x \in A PROVE SumFunctionOnSet(g, A) = SumFunctionOnSet(f, A)
    <3>1. IsFiniteSet(A) /\ (\A y \in A : f[y] \in Int /\ g[y] \in Int)
      BY FS_Subset
    <3>2. SumFunctionOnSet(g, A \ {x}) = SumFunctionOnSet(f, A \ {x})
      BY <1>1, <2>2
    <3>3. SumFunctionOnSet(g, A) = g[x] + SumFunctionOnSet(g, A \ {x})
      BY <2>2, <3>1, SumTakesAny
    <3>4. SumFunctionOnSet(f, A) = f[x] + SumFunctionOnSet(f, A \ {x})
      BY <2>2, <3>1, SumTakesAny
    <3>5. g[x] = f[x]
      BY <2>2
    <3> QED
      BY <3>2, <3>3, <3>4, <3>5
  <2> QED
    BY <2>1, <2>2
<1>2. SUBSET S \subseteq T
  <2> HIDE DEF T
  <2> QED
    BY <1>1, SubsetInduction
<1> QED
  BY <1>2

\* One value that changes changes the sum by as much.
LEMMA SumChanges ==
    ASSUME NEW S, IsFiniteSet(S), NEW f, NEW g, NEW a \in S,
           \A x \in S : f[x] \in Int /\ g[x] \in Int,
           \A x \in S : x # a => g[x] = f[x]
    PROVE  SumFunctionOnSet(g, S) = SumFunctionOnSet(f, S) + (g[a] - f[a])
<1> DEFINE R == S \ {a}
<1>1. IsFiniteSet(R) /\ (\A x \in S : g[x] \in Int)
  BY FS_Subset
<1>2. SumFunctionOnSet(g, R) = SumFunctionOnSet(f, R) /\ SumFunctionOnSet(f, R) \in Int
  <2>1. \A x \in R : f[x] \in Int /\ g[x] = f[x]
    OBVIOUS
  <2> HIDE DEF R
  <2> QED
    BY <1>1, <2>1, SumSame, SumTyped
<1>3. /\ SumFunctionOnSet(g, S) = g[a] + SumFunctionOnSet(g, R)
      /\ SumFunctionOnSet(f, S) = f[a] + SumFunctionOnSet(f, R)
  BY <1>1, SumTakesAny
<1> HIDE DEF R
<1> QED
  BY <1>2, <1>3

LEMMA SumNatural ==
    ASSUME NEW S, IsFiniteSet(S), NEW f, \A x \in S : f[x] \in Nat
    PROVE  SumFunctionOnSet(f, S) \in Nat
<1> DEFINE T == {A \in SUBSET S : SumFunctionOnSet(f, A) \in Nat}
<1>1. ASSUME NEW A \in SUBSET S, \A x \in A : A \ {x} \in T PROVE A \in T
  <2>1. CASE A = {}
    BY <2>1, SumEmpty
  <2>2. ASSUME NEW x \in A PROVE SumFunctionOnSet(f, A) \in Nat
    <3>1. IsFiniteSet(A) /\ (\A y \in A : f[y] \in Int)
      BY FS_Subset
    <3>2. SumFunctionOnSet(f, A \ {x}) \in Nat
      BY <1>1, <2>2
    <3>3. SumFunctionOnSet(f, A) = f[x] + SumFunctionOnSet(f, A \ {x})
      BY <2>2, <3>1, SumTakesAny
    <3>4. f[x] \in Nat
      BY <2>2
    <3> QED
      BY <3>2, <3>3, <3>4
  <2> QED
    BY <2>1, <2>2
<1>2. SUBSET S \subseteq T
  <2> HIDE DEF T
  <2> QED
    BY <1>1, SubsetInduction
<1> QED
  BY <1>2

\* A sum of zeros is zero.
LEMMA SumOfZeros ==
    ASSUME NEW S, IsFiniteSet(S), NEW f, \A x \in S : f[x] = 0
    PROVE  SumFunctionOnSet(f, S) = 0
<1> DEFINE T == {A \in SUBSET S : SumFunctionOnSet(f, A) = 0}
<1>1. ASSUME NEW A \in SUBSET S, \A x \in A : A \ {x} \in T PROVE A \in T
  <2>1. CASE A = {}
    BY <2>1, SumEmpty
  <2>2. ASSUME NEW x \in A PROVE SumFunctionOnSet(f, A) = 0
    <3>1. IsFiniteSet(A) /\ (\A y \in A : f[y] \in Int)
      BY FS_Subset
    <3>2. SumFunctionOnSet(f, A) = f[x] + SumFunctionOnSet(f, A \ {x})
      BY <2>2, <3>1, SumTakesAny
    <3>3. SumFunctionOnSet(f, A \ {x}) = 0 /\ f[x] = 0
      BY <1>1, <2>2
    <3> QED
      BY <3>2, <3>3
  <2> QED
    BY <2>1, <2>2
<1>2. SUBSET S \subseteq T
  <2> HIDE DEF T
  <2> QED
    BY <1>1, SubsetInduction
<1> QED
  BY <1>2

\* A sum over a prefix grows by the next value.
LEMMA SumUpTo ==
    ASSUME NEW n \in Nat, NEW f, \A i \in 1..n+1 : f[i] \in Int
    PROVE  SumFunctionOnSet(f, 1..n+1) = SumFunctionOnSet(f, 1..n) + f[n+1]
<1> DEFINE all == 1..n+1
<1>1. IsFiniteSet(all) /\ n + 1 \in all /\ all \ {n + 1} = 1..n
  BY FS_Interval
<1>2. \A i \in all : f[i] \in Int
  OBVIOUS
<1>3. IsFiniteSet(1..n) /\ (\A i \in 1..n : f[i] \in Int) /\ f[n+1] \in Int
  BY FS_Interval
<1> HIDE DEF all
<1>4. SumFunctionOnSet(f, all) = f[n+1] + SumFunctionOnSet(f, 1..n)
  BY <1>1, <1>2, SumTakesAny
<1>5. SumFunctionOnSet(f, 1..n) \in Int
  BY <1>3, SumTyped
<1> QED
  BY <1>3, <1>4, <1>5 DEF all

\* Greater values have a greater sum.
LEMMA SumAtLeast ==
    ASSUME NEW S, IsFiniteSet(S), NEW f, NEW g,
           \A x \in S : f[x] \in Int /\ g[x] \in Int /\ f[x] <= g[x]
    PROVE  SumFunctionOnSet(f, S) <= SumFunctionOnSet(g, S)
<1> DEFINE T == {A \in SUBSET S : SumFunctionOnSet(f, A) <= SumFunctionOnSet(g, A)}
<1>1. ASSUME NEW A \in SUBSET S, \A x \in A : A \ {x} \in T
      PROVE  A \in T
  <2>1. IsFiniteSet(A)
    BY FS_Subset
  <2>2. CASE A = {}
    BY <2>2, SumEmpty
  <2>3. CASE A # {}
    <3>1. PICK a \in A : TRUE
      BY <2>3
    <3>2. \A x \in A : f[x] \in Int
      OBVIOUS
    <3>3. \A x \in A : g[x] \in Int
      OBVIOUS
    <3>4. SumFunctionOnSet(f, A) = f[a] + SumFunctionOnSet(f, A \ {a})
      BY <2>1, <3>2, SumTakesAny
    <3>5. SumFunctionOnSet(g, A) = g[a] + SumFunctionOnSet(g, A \ {a})
      BY <2>1, <3>3, SumTakesAny
    <3>6. IsFiniteSet(A \ {a})
      BY <2>1, FS_Subset
    <3>7. SumFunctionOnSet(f, A \ {a}) \in Int
      BY <3>2, <3>6, SumTyped
    <3>8. SumFunctionOnSet(g, A \ {a}) \in Int
      BY <3>3, <3>6, SumTyped
    <3>9. SumFunctionOnSet(f, A \ {a}) <= SumFunctionOnSet(g, A \ {a})
      BY <1>1
    <3>10. f[a] \in Int /\ g[a] \in Int /\ f[a] <= g[a]
      OBVIOUS
    <3> QED
      BY <3>4, <3>5, <3>7, <3>8, <3>9, <3>10
  <2> QED
    BY <2>2, <2>3
<1>2. SUBSET S \subseteq T
  <2> HIDE DEF T
  <2> QED
    BY <1>1, SubsetInduction
<1> QED
  BY <1>2

LEMMA SumExceeds ==
    ASSUME NEW S, IsFiniteSet(S), NEW f, NEW g,
           \A x \in S : f[x] \in Int /\ g[x] \in Int /\ f[x] <= g[x],
           NEW a \in S, f[a] + 1 <= g[a]
    PROVE  SumFunctionOnSet(f, S) + 1 <= SumFunctionOnSet(g, S)
<1>1. IsFiniteSet(S \ {a})
  BY FS_Subset
<1>2. \A x \in S : f[x] \in Int
  OBVIOUS
<1>3. \A x \in S : g[x] \in Int
  OBVIOUS
<1>4. SumFunctionOnSet(f, S) = f[a] + SumFunctionOnSet(f, S \ {a})
  BY <1>2, SumTakesAny
<1>5. SumFunctionOnSet(g, S) = g[a] + SumFunctionOnSet(g, S \ {a})
  BY <1>3, SumTakesAny
<1>6. SumFunctionOnSet(f, S \ {a}) <= SumFunctionOnSet(g, S \ {a})
  BY <1>1, SumAtLeast
<1>7. SumFunctionOnSet(f, S \ {a}) \in Int
  BY <1>1, <1>2, SumTyped
<1>8. SumFunctionOnSet(g, S \ {a}) \in Int
  BY <1>1, <1>3, SumTyped
<1> QED
  BY <1>2, <1>3, <1>4, <1>5, <1>6, <1>7, <1>8

-----------------------------------------------------------------------------
(***************************************************************************)
(* Choices by priority and id.                                             *)
(***************************************************************************)
\* A choice is unique.
LEMMA BestUnique ==
    ASSUME NEW S \in SUBSET Nat, NEW prio, \A x \in S : prio[x] \in Nat,
           NEW v \in Best(S, prio)
    PROVE  Best(S, prio) = {v}
<1>1. ASSUME NEW w \in Best(S, prio) PROVE w = v
  <2>1. /\ w \in S /\ v \in S
        /\ prio[w] > prio[v] \/ (prio[w] = prio[v] /\ w <= v)
        /\ prio[v] > prio[w] \/ (prio[v] = prio[w] /\ v <= w)
    BY <1>1 DEF Best
  <2>2. w \in Nat /\ v \in Nat /\ prio[w] \in Nat /\ prio[v] \in Nat
    BY <2>1
  <2> QED
    BY <2>1, <2>2
<1> QED
  BY <1>1

\* Among some there is one.
LEMMA BestExists ==
    ASSUME NEW S, IsFiniteSet(S), S \subseteq Nat, S # {}, NEW prio, \A x \in S : prio[x] \in Nat
    PROVE  \E v \in S : Best(S, prio) = {v}
<1> DEFINE T == {A \in SUBSET S : A = {} \/ \E v \in A : v \in Best(A, prio)}
<1>1. ASSUME NEW A \in SUBSET S, \A x \in A : A \ {x} \in T PROVE A \in T
  <2> SUFFICES ASSUME A # {} PROVE \E v \in A : v \in Best(A, prio)
    OBVIOUS
  <2>1. PICK a \in A : TRUE
    OBVIOUS
  <2>2. \A x \in A : x \in Nat /\ prio[x] \in Nat
    OBVIOUS
  <2>3. CASE A \ {a} = {}
    <3>1. \A x \in A : x = a
      BY <2>3
    <3> QED
      BY <2>1, <2>2, <3>1 DEF Best
  <2>4. CASE A \ {a} # {}
    <3>1. PICK w \in A \ {a} : w \in Best(A \ {a}, prio)
      BY <1>1, <2>4
    <3>2. \A x \in A \ {a} : prio[w] > prio[x] \/ (prio[w] = prio[x] /\ w <= x)
      BY <3>1 DEF Best
    <3>3. CASE prio[w] > prio[a] \/ (prio[w] = prio[a] /\ w <= a)
      <4>1. \A x \in A : prio[w] > prio[x] \/ (prio[w] = prio[x] /\ w <= x)
        BY <3>2, <3>3
      <4> QED
        BY <3>1, <4>1 DEF Best
    <3>4. CASE ~(prio[w] > prio[a] \/ (prio[w] = prio[a] /\ w <= a))
      <4>1. prio[a] > prio[w] \/ (prio[a] = prio[w] /\ a <= w)
        BY <2>1, <2>2, <3>1, <3>4
      <4>2. \A x \in A : prio[a] > prio[x] \/ (prio[a] = prio[x] /\ a <= x)
        BY <2>1, <2>2, <3>1, <3>2, <4>1
      <4> QED
        BY <2>1, <4>2 DEF Best
    <3> QED
      BY <3>3, <3>4
  <2> QED
    BY <2>3, <2>4
<1>2. SUBSET S \subseteq T
  <2> HIDE DEF T
  <2> QED
    BY <1>1, SubsetInduction
<1>3. PICK v \in S : v \in Best(S, prio)
  BY <1>2
<1> QED
  BY <1>3, BestUnique

-----------------------------------------------------------------------------
(***************************************************************************)
(* Division that rounds up.                                                *)
(***************************************************************************)
LEMMA ProductOrder ==
    ASSUME NEW a \in Int, NEW b \in Int, NEW c \in Nat
    PROVE  /\ a * c \in Int
           /\ a <= b => a * c <= b * c
           /\ a * c < b * c => a < b
OBVIOUS

\* How many times a fits into a number, and what is left.
LEMMA Division ==
    ASSUME NEW a \in Nat, NEW T \in Nat \ {0}
    PROVE  /\ a \div T \in Nat
           /\ (a \div T) * T <= a
           /\ a < ((a \div T) + 1) * T
OBVIOUS

LEMMA CeilTyped ==
    ASSUME NEW r \in Nat, NEW T \in Nat \ {0}
    PROVE  div_ceil(r, T) \in Nat
<1>1. r + T - 1 \in Nat
  OBVIOUS
<1> QED
  BY <1>1, Division DEF div_ceil

\* Of arrivals one period apart, the first at 0, at most this many fall before r.
LEMMA CeilIsEnough ==
    ASSUME NEW k \in Int, NEW d \in Nat, NEW T \in Nat \ {0}, (k - 1) * T <= d
    PROVE  k <= div_ceil(d + 1, T)
<1> DEFINE q == (d + T) \div T
<1>1. d + T \in Nat /\ (d + 1) + T - 1 = d + T
  OBVIOUS
<1>2. q \in Nat /\ d + T < (q + 1) * T
  BY <1>1, Division
<1>3. div_ceil(d + 1, T) = q
  BY <1>1 DEF div_ceil
<1> HIDE DEF q
<1>4. k * T = (k - 1) * T + T
  OBVIOUS
<1>5. k * T \in Int /\ (k - 1) * T \in Int /\ (q + 1) * T \in Int
  BY <1>2
<1>6. k * T < (q + 1) * T
  BY <1>2, <1>4, <1>5
<1>7. k < q + 1
  BY <1>2, <1>6, ProductOrder
<1> QED
  BY <1>2, <1>3, <1>7

\* And no fewer, when the next one falls at r or later.
LEMMA CeilIsReached ==
    ASSUME NEW k \in Nat, NEW r \in Nat, NEW T \in Nat \ {0}, r <= k * T
    PROVE  div_ceil(r, T) <= k
<1> DEFINE q == (r + T - 1) \div T
<1>1. r + T - 1 \in Nat
  OBVIOUS
<1>2. q \in Nat /\ q * T <= r + T - 1
  BY <1>1, Division
<1>3. div_ceil(r, T) = q
  BY DEF div_ceil
<1> HIDE DEF q
<1>4. (k + 1) * T = k * T + T
  OBVIOUS
<1>5. q * T \in Int /\ k * T \in Int /\ (k + 1) * T \in Int
  BY <1>2
<1>6. q * T < (k + 1) * T
  BY <1>2, <1>4, <1>5
<1>7. q < k + 1
  BY <1>2, <1>6, ProductOrder
<1> QED
  BY <1>2, <1>3, <1>7

LEMMA CeilGrows ==
    ASSUME NEW a \in Nat, NEW b \in Nat, NEW T \in Nat \ {0}, a <= b
    PROVE  div_ceil(a, T) <= div_ceil(b, T)
<1> DEFINE p == (a + T - 1) \div T
           q == (b + T - 1) \div T
<1>1. a + T - 1 \in Nat /\ b + T - 1 \in Nat
  OBVIOUS
<1>2. p \in Nat /\ p * T <= a + T - 1
  BY <1>1, Division
<1>3. q \in Nat /\ b + T - 1 < (q + 1) * T
  BY <1>1, Division
<1>4. div_ceil(a, T) = p /\ div_ceil(b, T) = q
  BY DEF div_ceil
<1> HIDE DEF p, q
<1>5. p * T \in Int /\ (q + 1) * T \in Int
  BY <1>2, <1>3
<1>6. p * T < (q + 1) * T
  BY <1>2, <1>3, <1>5
<1>7. p < q + 1
  BY <1>2, <1>3, <1>6, ProductOrder
<1> QED
  BY <1>2, <1>3, <1>4, <1>7

-----------------------------------------------------------------------------
(***************************************************************************)
(* The demand.                                                             *)
(***************************************************************************)
\* A set of tasks whose jobs ask for some work, with periods that are not 0.
TaskSet ==
    [ period        : [Tasks -> (Nat \ {0}) \union {Never}],
      wcet          : [Tasks -> Nat \ {0}],
      base_priority : [Tasks -> Nat] ]

LEMMA PeriodicTyped ==
    ASSUME NEW ts \in TaskSet, NEW t
    PROVE  /\ Periodic(ts) \subseteq Tasks /\ IsFiniteSet(Periodic(ts))
           /\ interferers(ts, t) \subseteq Periodic(ts) /\ IsFiniteSet(interferers(ts, t))
           /\ \A o \in Periodic(ts) : ts.period[o] \in Nat \ {0} /\ ts.wcet[o] \in Nat \ {0}
<1>1. Periodic(ts) \subseteq Tasks /\ interferers(ts, t) \subseteq Periodic(ts)
  BY DEF TaskSet, Periodic, interferers
<1>2. IsFiniteSet(Periodic(ts)) /\ IsFiniteSet(interferers(ts, t))
  BY <1>1, FS_Subset, TasksAssumption
<1> QED
  BY <1>1, <1>2 DEF TaskSet, Periodic

\* The demand is a number, at least that of the job itself, and grows with the window.
LEMMA DemandTyped ==
    ASSUME NEW ts \in TaskSet, NEW t \in Tasks, NEW r \in Nat
    PROVE  interference(ts, t, r) \in Nat /\ demand(ts, t, r) \in Nat /\ ts.wcet[t] <= demand(ts, t, r)
<1> DEFINE work == [o \in Periodic(ts) |-> div_ceil(r, ts.period[o]) * ts.wcet[o]]
<1>1. \A o \in interferers(ts, t) : work[o] \in Nat
  <2> SUFFICES ASSUME NEW o \in interferers(ts, t) PROVE work[o] \in Nat
    OBVIOUS
  <2>1. o \in Periodic(ts) /\ ts.period[o] \in Nat \ {0} /\ ts.wcet[o] \in Nat
    BY PeriodicTyped
  <2>2. div_ceil(r, ts.period[o]) \in Nat
    BY <2>1, CeilTyped
  <2> QED
    BY <2>1, <2>2
<1>2. IsFiniteSet(interferers(ts, t))
  BY PeriodicTyped
<1>3. SumFunctionOnSet(work, interferers(ts, t)) \in Nat
  <2> HIDE DEF work
  <2> QED
    BY <1>1, <1>2, SumNatural
<1>4. ts.wcet[t] \in Nat
  BY DEF TaskSet
<1> QED
  BY <1>3, <1>4 DEF interference, demand

LEMMA DemandGrows ==
    ASSUME NEW ts \in TaskSet, NEW t \in Tasks, NEW r \in Nat, NEW s \in Nat, r <= s
    PROVE  demand(ts, t, r) <= demand(ts, t, s)
<1> DEFINE work(x) == [o \in Periodic(ts) |-> div_ceil(x, ts.period[o]) * ts.wcet[o]]
<1>1. \A o \in interferers(ts, t) :
          /\ work(r)[o] \in Int /\ work(s)[o] \in Int /\ work(r)[o] <= work(s)[o]
  <2> SUFFICES ASSUME NEW o \in interferers(ts, t)
               PROVE  /\ work(r)[o] \in Int /\ work(s)[o] \in Int
                      /\ work(r)[o] <= work(s)[o]
    OBVIOUS
  <2>1. o \in Periodic(ts) /\ ts.period[o] \in Nat \ {0} /\ ts.wcet[o] \in Nat
    BY PeriodicTyped
  <2>2. div_ceil(r, ts.period[o]) \in Nat /\ div_ceil(s, ts.period[o]) \in Nat
    BY <2>1, CeilTyped
  <2>3. div_ceil(r, ts.period[o]) <= div_ceil(s, ts.period[o])
    BY <2>1, CeilGrows
  <2> QED
    BY <2>1, <2>2, <2>3, ProductOrder
<1>2. IsFiniteSet(interferers(ts, t))
  BY PeriodicTyped
<1>3. SumFunctionOnSet(work(r), interferers(ts, t)) <= SumFunctionOnSet(work(s), interferers(ts, t))
  <2> HIDE DEF work
  <2> QED
    BY <1>1, <1>2, SumAtLeast
<1>4. interference(ts, t, r) <= interference(ts, t, s)
  BY <1>3 DEF interference
<1>5. ts.wcet[t] \in Nat /\ interference(ts, t, r) \in Nat /\ interference(ts, t, s) \in Nat
  BY DemandTyped DEF TaskSet
<1> QED
  BY <1>4, <1>5 DEF demand

-----------------------------------------------------------------------------
(***************************************************************************)
(* The iteration.                                                          *)
(***************************************************************************)
Grows(F) == \A a, b \in Nat : a <= b => F[a] <= F[b]

\* One turn of the loop, for a demand F and a deadline D.
Iterate(F, D, f) ==
    [r \in Nat |-> IF F[r] > D THEN Never ELSE IF F[r] = r THEN r ELSE f[F[r]]]

Least(S) == CHOOSE n \in S : \A m \in S : n <= m
Greatest(S) == CHOOSE n \in S : \A m \in S : m <= n

\* Where F stands still from r upwards, and downwards.
StillAbove(F, D, r) == {x \in Nat : r <= x /\ x <= D /\ F[x] = x}
StillBelow(F, r) == {x \in Nat : x <= r /\ F[x] = x}

Destination(F, D) ==
    [r \in Nat |-> IF F[r] > D THEN Never
                   ELSE IF F[r] < r THEN Greatest(StillBelow(F, r))
                   ELSE IF StillAbove(F, D, r) = {} THEN Never
                   ELSE Least(StillAbove(F, D, r))]

\* The recursion has a solution: the loop comes to the next number where the
\* demand stands still.
LEMMA IterationExists ==
    ASSUME NEW F \in [Nat -> Nat], Grows(F), NEW D \in Nat
    PROVE  \E f : f = Iterate(F, D, f)
<1> DEFINE f == Destination(F, D)
<1> SUFFICES f = Iterate(F, D, f)
  OBVIOUS
<1> SUFFICES ASSUME NEW r \in Nat PROVE f[r] = Iterate(F, D, f)[r]
  BY DEF Destination, Iterate
<1>1. F[r] \in Nat /\ F[F[r]] \in Nat
  OBVIOUS
<1>2. CASE F[r] > D
  BY <1>2 DEF Destination, Iterate
<1>3. CASE F[r] = r /\ ~(F[r] > D)
  <2>1. r \in StillAbove(F, D, r) /\ \A m \in StillAbove(F, D, r) : r <= m
    BY <1>3 DEF StillAbove
  <2>2. Least(StillAbove(F, D, r)) = r
    <3>1. \A n \in StillAbove(F, D, r) : n \in Nat /\ n >= r
      BY DEF StillAbove
    <3> QED
      BY <2>1, <3>1 DEF Least
  <2>3. f[r] = r
    BY <1>3, <2>1, <2>2 DEF Destination
  <2> QED
    BY <1>3, <2>3 DEF Iterate
<1>4. CASE F[r] > r /\ ~(F[r] > D)
  <2> DEFINE s == F[r]
  <2>1. s \in Nat /\ F[s] \in Nat /\ s <= F[s] /\ r < s /\ s <= D
    BY <1>1, <1>4 DEF Grows
  <2>2. StillAbove(F, D, r) = StillAbove(F, D, s)
    <3>1. ASSUME NEW x \in Nat, r <= x, F[x] = x PROVE s <= x
      BY <3>1 DEF Grows
    <3>2. ASSUME NEW x \in Nat, s <= x PROVE r <= x
      BY <2>1, <3>2
    <3> QED
      BY <3>1, <3>2 DEF StillAbove
  <2>3. F[s] > D => StillAbove(F, D, s) = {}
    <3> SUFFICES ASSUME F[s] > D, NEW x \in StillAbove(F, D, s) PROVE FALSE
      OBVIOUS
    <3>1. x \in Nat /\ s <= x /\ x <= D /\ F[x] = x
      BY DEF StillAbove
    <3>2. F[s] <= x
      BY <2>1, <3>1 DEF Grows
    <3> QED
      BY <2>1, <3>1, <3>2
  <2>4. f[r] = IF StillAbove(F, D, s) = {} THEN Never ELSE Least(StillAbove(F, D, s))
    BY <1>1, <1>4, <2>2 DEF Destination
  <2>5. f[s] = IF F[s] > D THEN Never
               ELSE IF StillAbove(F, D, s) = {} THEN Never ELSE Least(StillAbove(F, D, s))
    BY <2>1 DEF Destination
  <2>6. f[r] = f[s]
    BY <2>3, <2>4, <2>5
  <2>7. Iterate(F, D, f)[r] = f[s]
    BY <1>1, <1>4 DEF Iterate
  <2> QED
    BY <2>6, <2>7
<1>5. CASE F[r] < r /\ ~(F[r] > D)
  <2> DEFINE s == F[r]
  <2>1. s \in Nat /\ F[s] \in Nat /\ F[s] <= s /\ s < r /\ s <= D
    BY <1>1, <1>5 DEF Grows
  <2>2. StillBelow(F, r) = StillBelow(F, s)
    <3>1. ASSUME NEW x \in Nat, x <= r, F[x] = x PROVE x <= s
      BY <3>1 DEF Grows
    <3>2. ASSUME NEW x \in Nat, x <= s PROVE x <= r
      BY <2>1, <3>2
    <3> QED
      BY <3>1, <3>2 DEF StillBelow
  <2>3. f[r] = Greatest(StillBelow(F, s))
    BY <1>1, <1>5, <2>2 DEF Destination
  <2>4. CASE F[s] < s
    <3>1. f[s] = Greatest(StillBelow(F, s))
      BY <2>1, <2>4 DEF Destination
    <3>2. Iterate(F, D, f)[r] = f[s]
      BY <1>1, <1>5 DEF Iterate
    <3> QED
      BY <2>3, <3>1, <3>2
  <2>5. CASE F[s] = s
    <3>1. s \in StillBelow(F, s) /\ \A m \in StillBelow(F, s) : m \in Nat /\ m <= s
      BY <2>1, <2>5 DEF StillBelow
    <3>2. Greatest(StillBelow(F, s)) = s
      BY <2>1, <3>1 DEF Greatest
    <3>3. s \in StillAbove(F, D, s) /\ \A m \in StillAbove(F, D, s) : m \in Nat /\ s <= m
      BY <2>1, <2>5 DEF StillAbove
    <3>4. Least(StillAbove(F, D, s)) = s
      BY <2>1, <3>3 DEF Least
    <3>5. f[s] = s
      BY <2>1, <2>5, <3>3, <3>4 DEF Destination
    <3>6. Iterate(F, D, f)[r] = f[s]
      BY <1>1, <1>5 DEF Iterate
    <3> QED
      BY <2>3, <3>2, <3>5, <3>6
  <2> QED
    BY <2>1, <2>4, <2>5
<1> QED
  BY <1>1, <1>2, <1>3, <1>4, <1>5

\* From a number below which the demand stands still nowhere, the loop comes to
\* the least where it does, or to Never if there is none up to the deadline.
LEMMA IterationIsLeast ==
    ASSUME NEW F \in [Nat -> Nat], Grows(F), NEW D \in Nat, NEW f, f = Iterate(F, D, f),
           NEW c \in Nat, \A r \in Nat : c <= F[r]
    PROVE  /\ f[c] # Never => /\ f[c] \in Nat /\ f[c] <= D /\ F[f[c]] = f[c]
                              /\ \A x \in Nat : x < f[c] => x < F[x]
           /\ f[c] = Never => \A x \in Nat : x <= D => x < F[x]
<1> DEFINE Right(r) ==
             /\ f[r] # Never => /\ f[r] \in Nat /\ f[r] <= D /\ F[f[r]] = f[r]
                                /\ \A x \in Nat : x < f[r] => x < F[x]
             /\ f[r] = Never => \A x \in Nat : x <= D => x < F[x]
           Reached(r) == r <= F[r] /\ \A x \in Nat : x < r => x < F[x]
           T == {n \in Nat : \A r \in Nat : D + 1 - r <= n /\ Reached(r) => Right(r)}
<1>1. ASSUME NEW r \in Nat, Reached(r), F[r] > D PROVE Right(r)
  <2>1. f[r] = Never
    BY <1>1 DEF Iterate
  <2>2. ASSUME NEW x \in Nat, x <= D PROVE x < F[x]
    <3>1. CASE x < r
      BY <1>1, <3>1
    <3>2. CASE r <= x
      <4>1. F[r] <= F[x] /\ F[r] \in Nat /\ F[x] \in Nat
        BY <3>2 DEF Grows
      <4> QED
        BY <1>1, <2>2, <4>1
    <3> QED
      BY <3>1, <3>2
  <2> QED
    BY <2>1, <2>2
<1>2. ASSUME NEW r \in Nat, Reached(r), F[r] = r, r <= D PROVE Right(r)
  <2>1. f[r] = r
    BY <1>2 DEF Iterate
  <2>2. r # Never
    BY NeverAssumption
  <2> QED
    BY <1>2, <2>1, <2>2
<1>3. ASSUME NEW r \in Nat, Reached(r), F[r] # r, F[r] <= D
      PROVE  F[r] \in Nat /\ r < F[r] /\ Reached(F[r]) /\ f[r] = f[F[r]]
  <2> DEFINE s == F[r]
  <2>1. s \in Nat /\ F[s] \in Nat /\ r < s
    BY <1>3
  <2>2. s <= F[s]
    BY <2>1 DEF Grows
  <2>3. ASSUME NEW x \in Nat, x < s PROVE x < F[x]
    <3>1. CASE x < r
      BY <1>3, <3>1
    <3>2. CASE r <= x
      <4>1. F[r] <= F[x] /\ F[r] \in Nat /\ F[x] \in Nat
        BY <3>2 DEF Grows
      <4> QED
        BY <2>3, <4>1
    <3> QED
      BY <3>1, <3>2
  <2>4. f[r] = f[s]
    BY <1>3, <2>1 DEF Iterate
  <2> QED
    BY <2>1, <2>2, <2>3, <2>4
<1> HIDE DEF Right, Reached
<1>4. 0 \in T
  <2> SUFFICES ASSUME NEW r \in Nat, D + 1 - r <= 0, Reached(r) PROVE Right(r)
    OBVIOUS
  <2>1. r <= F[r] /\ F[r] \in Nat
    BY DEF Reached
  <2> QED
    BY <1>1, <2>1
<1>5. ASSUME NEW n \in Nat, n \in T PROVE n + 1 \in T
  <2> SUFFICES ASSUME NEW r \in Nat, D + 1 - r <= n + 1, Reached(r) PROVE Right(r)
    OBVIOUS
  <2>1. F[r] \in Nat
    OBVIOUS
  <2>2. CASE F[r] > D
    BY <1>1, <2>2
  <2>3. CASE F[r] <= D /\ F[r] = r
    BY <1>2, <2>3
  <2>4. CASE F[r] <= D /\ F[r] # r
    <3>1. F[r] \in Nat /\ r < F[r] /\ Reached(F[r]) /\ f[r] = f[F[r]]
      BY <1>3, <2>4
    <3>2. D + 1 - F[r] <= n
      BY <3>1
    <3>3. Right(F[r])
      BY <1>5, <3>1, <3>2
    <3> QED
      BY <3>1, <3>3 DEF Right
  <2> QED
    BY <2>1, <2>2, <2>3, <2>4
<1>6. Nat \subseteq T
  <2> HIDE DEF T
  <2> QED
    BY <1>4, <1>5, NaturalInduction
<1>7. Reached(c)
  <2>1. ASSUME NEW x \in Nat, x < c PROVE x < F[x]
    <3>1. c <= F[x] /\ F[x] \in Nat
      OBVIOUS
    <3> QED
      BY <2>1, <3>1
  <2> QED
    BY <2>1 DEF Reached
<1>8. D + 1 \in T /\ D + 1 - c <= D + 1
  BY <1>6
<1>9. Right(c)
  BY <1>7, <1>8
<1> QED
  BY <1>9 DEF Right

\* What the analysis computes: the least window that has room for its demand, or
\* Never if no window up to the period has.
THEOREM ResponseTimeIsLeast ==
    ASSUME NEW ts \in TaskSet, NEW t \in Periodic(ts)
    PROVE  LET R == response_time(ts, t)
           IN  /\ R # Never => /\ R \in Nat \ {0} /\ R <= ts.period[t] /\ demand(ts, t, R) = R
                               /\ \A r \in Nat : r < R => r < demand(ts, t, r)
               /\ R = Never => \A r \in Nat : r <= ts.period[t] => r < demand(ts, t, r)
<1> DEFINE F == [r \in Nat |-> demand(ts, t, r)]
           D == ts.period[t]
           c == ts.wcet[t]
           f == iteration(ts, t)
<1>1. t \in Tasks /\ D \in Nat /\ c \in Nat \ {0}
  BY PeriodicTyped
<1>2. F \in [Nat -> Nat] /\ Grows(F) /\ \A r \in Nat : c <= F[r]
  <2>1. \A r \in Nat : demand(ts, t, r) \in Nat /\ c <= demand(ts, t, r)
    BY <1>1, DemandTyped
  <2>2. \A r, s \in Nat : r <= s => demand(ts, t, r) <= demand(ts, t, s)
    BY <1>1, DemandGrows
  <2> QED
    BY <2>1, <2>2 DEF Grows
<1>3. f = CHOOSE g : g = Iterate(F, D, g)
  <2>1. \A g : Iterate(F, D, g) =
          [r \in Nat |-> IF demand(ts, t, r) > D THEN Never
                         ELSE IF demand(ts, t, r) = r THEN r ELSE g[demand(ts, t, r)]]
    BY DEF Iterate
  <2> QED
    BY <2>1 DEF iteration
<1>4. f = Iterate(F, D, f)
  <2> HIDE DEF F, D, f
  <2>1. \E g : g = Iterate(F, D, g)
    BY <1>1, <1>2, IterationExists
  <2> QED
    BY <1>3, <2>1
<1>5. /\ f[c] # Never => /\ f[c] \in Nat /\ f[c] <= D /\ F[f[c]] = f[c]
                         /\ \A x \in Nat : x < f[c] => x < F[x]
      /\ f[c] = Never => \A x \in Nat : x <= D => x < F[x]
  <2> HIDE DEF F, D, f, c
  <2> QED
    BY <1>1, <1>2, <1>4, IterationIsLeast
<1>6. response_time(ts, t) = f[c]
  BY DEF response_time
<1>7. ASSUME f[c] # Never PROVE f[c] # 0
  <2>1. F[f[c]] = f[c] /\ f[c] \in Nat /\ c <= F[f[c]]
    BY <1>2, <1>5, <1>7
  <2> HIDE DEF F, f, c
  <2> QED
    BY <1>1, <2>1
<1> HIDE DEF f
<1> QED
  BY <1>5, <1>6, <1>7

-----------------------------------------------------------------------------
(***************************************************************************)
(* Common multiples.                                                       *)
(***************************************************************************)
Divides(d, n) == \E q \in Nat : n = q * d

CommonDivisors(a, b) == {d \in Nat \ {0} : Divides(d, a) /\ Divides(d, b)}

LEMMA ProductTwice ==
    ASSUME NEW a \in Nat, NEW b \in Nat, NEW c \in Nat
    PROVE  a * b \in Nat /\ a * b = b * a /\ (a * b) * c = a * (b * c)
OBVIOUS

LEMMA DivisionExact ==
    ASSUME NEW a \in Nat, NEW b \in Nat \ {0}
    PROVE  /\ a \div b \in Nat /\ a % b \in Nat /\ a % b < b
           /\ a = (a \div b) * b + (a % b)
<1>1. a \div b \in Nat /\ a % b \in Nat /\ a % b < b
  OBVIOUS
<1>2. a = b * (a \div b) + (a % b)
  OBVIOUS
<1>3. b * (a \div b) = (a \div b) * b
  BY <1>1
<1> QED
  BY <1>1, <1>2, <1>3

LEMMA DividesItself == ASSUME NEW n \in Nat PROVE Divides(n, n) /\ Divides(n, 0)
<1>1. 1 \in Nat /\ n = 1 * n /\ 0 \in Nat /\ 0 = 0 * n
  OBVIOUS
<1> QED
  BY <1>1 DEF Divides

LEMMA DividesMultiple ==
    ASSUME NEW d \in Nat, NEW n \in Nat, Divides(d, n), NEW k \in Nat
    PROVE  Divides(d, k * n)
<1>1. PICK q \in Nat : n = q * d
  BY DEF Divides
<1>2. k * n = (k * q) * d /\ k * q \in Nat
  BY <1>1, ProductTwice
<1> QED
  BY <1>2 DEF Divides

LEMMA DividesSum ==
    ASSUME NEW d \in Nat, NEW m \in Nat, NEW n \in Nat, Divides(d, m), Divides(d, n)
    PROVE  Divides(d, m + n) /\ (n <= m => Divides(d, m - n))
<1>1. PICK p \in Nat : m = p * d
  BY DEF Divides
<1>2. PICK q \in Nat : n = q * d
  BY DEF Divides
<1>3. (p + q) * d = p * d + q * d
  OBVIOUS
<1>4. m + n = (p + q) * d /\ p + q \in Nat
  BY <1>1, <1>2, <1>3
<1>5. ASSUME n <= m PROVE Divides(d, m - n)
  <2>1. CASE d = 0
    <3>1. m - n = 0
      BY <1>1, <1>2, <2>1
    <3> QED
      BY <3>1, DividesItself
  <2>2. CASE d # 0
    <3>1. q <= p
      <4> SUFFICES ASSUME p < q PROVE FALSE
        OBVIOUS
      <4>1. p * d < q * d
        <5>1. p + 1 <= q /\ (p + 1) * d = p * d + d /\ p * d \in Nat
          OBVIOUS
        <5>2. (p + 1) * d <= q * d
          BY <5>1, ProductOrder
        <5>3. q * d \in Nat
          OBVIOUS
        <5> QED
          BY <2>2, <5>1, <5>2, <5>3
      <4> QED
        BY <1>1, <1>2, <1>5, <4>1
    <3>2. (p - q) * d = p * d - q * d
      OBVIOUS
    <3>3. m - n = (p - q) * d /\ p - q \in Nat
      BY <1>1, <1>2, <3>1, <3>2
    <3> QED
      BY <3>3 DEF Divides
  <2> QED
    BY <2>1, <2>2
<1> QED
  BY <1>4, <1>5 DEF Divides

LEMMA DividesAtMost ==
    ASSUME NEW d \in Nat, NEW n \in Nat \ {0}, Divides(d, n)
    PROVE  d <= n /\ d # 0
<1>1. PICK q \in Nat : n = q * d
  BY DEF Divides
<1>2. q # 0 /\ d # 0
  BY <1>1
<1>3. 1 * d <= q * d
  BY <1>2, ProductOrder
<1> QED
  BY <1>1, <1>2, <1>3

\* The step of Euclid's algorithm keeps the common divisors.
LEMMA SameDivisors ==
    ASSUME NEW a \in Nat, NEW b \in Nat \ {0}, NEW d \in Nat
    PROVE  Divides(d, a) /\ Divides(d, b) <=> Divides(d, b) /\ Divides(d, a % b)
<1> DEFINE k == a \div b
           r == a % b
<1>1. k \in Nat /\ r \in Nat /\ a = k * b + r /\ k * b \in Nat
  BY DivisionExact
<1> HIDE DEF k, r
<1>2. ASSUME Divides(d, b), Divides(d, r) PROVE Divides(d, a)
  <2>1. Divides(d, k * b)
    BY <1>1, <1>2, DividesMultiple
  <2> QED
    BY <1>1, <1>2, <2>1, DividesSum
<1>3. ASSUME Divides(d, b), Divides(d, a) PROVE Divides(d, r)
  <2>1. Divides(d, k * b)
    BY <1>1, <1>3, DividesMultiple
  <2>2. a - k * b = r /\ k * b <= a
    BY <1>1
  <2>3. Divides(d, a - k * b)
    BY <1>1, <1>3, <2>1, <2>2, DividesSum
  <2> QED
    BY <2>2, <2>3
<1> QED
  BY <1>2, <1>3 DEF r

Euclid(g) == [p \in Nat \X Nat |-> IF p[2] = 0 THEN p[1] ELSE g[<<p[2], p[1] % p[2]>>]]

\* The recursion has a solution.
LEMMA EuclidExists == \E g : g = Euclid(g)
<1> DEFINE D == [p \in Nat \X Nat |-> IF p[2] = 0 THEN p[1] ELSE Greatest(CommonDivisors(p[1], p[2]))]
<1> SUFFICES D = Euclid(D)
  OBVIOUS
<1>0. ASSUME NEW a \in Nat, NEW b \in Nat
      PROVE  D[<<a, b>>] = IF b = 0 THEN a ELSE Greatest(CommonDivisors(a, b))
  OBVIOUS
<1>1. ASSUME NEW a \in Nat, NEW b \in Nat
      PROVE  D[<<a, b>>] = IF b = 0 THEN a ELSE D[<<b, a % b>>]
  <2> HIDE DEF D
  <2>1. CASE b = 0
    BY <1>0, <2>1
  <2>2. CASE b # 0
    <3>1. a % b \in Nat /\ b \in Nat \ {0}
      BY <2>2, DivisionExact
    <3>2. CommonDivisors(a, b) = CommonDivisors(b, a % b)
      BY <3>1, SameDivisors DEF CommonDivisors
    <3>3. D[<<a, b>>] = Greatest(CommonDivisors(a, b))
      BY <1>0, <2>2
    <3>4. CASE a % b # 0
      <4>1. D[<<b, a % b>>] = Greatest(CommonDivisors(b, a % b))
        BY <1>0, <3>1, <3>4
      <4> QED
        BY <2>2, <3>2, <3>3, <4>1
    <3>5. CASE a % b = 0
      <4>1. D[<<b, a % b>>] = b
        BY <1>0, <3>1, <3>5
      <4>2. b \in CommonDivisors(b, a % b) /\ \A m \in CommonDivisors(b, a % b) : m \in Nat /\ m <= b
        BY <3>1, <3>5, DividesItself, DividesAtMost DEF CommonDivisors
      <4>3. Greatest(CommonDivisors(b, a % b)) = b
        BY <3>1, <4>2 DEF Greatest
      <4> QED
        BY <2>2, <3>2, <3>3, <4>1, <4>3
    <3> QED
      BY <3>4, <3>5
  <2> QED
    BY <2>1, <2>2
<1>2. ASSUME NEW p \in Nat \X Nat PROVE D[p] = Euclid(D)[p]
  <2>1. PICK a \in Nat, b \in Nat : p = <<a, b>>
    OBVIOUS
  <2> HIDE DEF D
  <2>2. Euclid(D)[<<a, b>>] = IF b = 0 THEN a ELSE D[<<b, a % b>>]
    BY DEF Euclid
  <2> QED
    BY <1>1, <2>1, <2>2
<1>3. DOMAIN Euclid(D) = Nat \X Nat /\ Euclid(D) = [p \in Nat \X Nat |-> Euclid(D)[p]]
  <2> HIDE DEF D
  <2> QED
    BY DEF Euclid
<1>4. D = [p \in Nat \X Nat |-> D[p]]
  OBVIOUS
<1> HIDE DEF D
<1> QED
  BY <1>2, <1>3, <1>4

\* What the algorithm finds divides both numbers.
LEMMA GcdDivides ==
    ASSUME NEW a \in Nat \ {0}, NEW b \in Nat
    PROVE  gcd[<<a, b>>] \in Nat \ {0} /\ Divides(gcd[<<a, b>>], a) /\ Divides(gcd[<<a, b>>], b)
<1> DEFINE Right(x, y) == /\ gcd[<<x, y>>] \in Nat \ {0}
                          /\ Divides(gcd[<<x, y>>], x) /\ Divides(gcd[<<x, y>>], y)
           T == {n \in Nat : \A x \in Nat \ {0} : \A y \in Nat : y <= n => Right(x, y)}
<1>1. gcd = Euclid(gcd)
  <2>1. gcd = CHOOSE g : g = Euclid(g)
    BY DEF gcd, Euclid
  <2> QED
    BY <2>1, EuclidExists
<1>2. ASSUME NEW x \in Nat, NEW y \in Nat
      PROVE  gcd[<<x, y>>] = IF y = 0 THEN x ELSE gcd[<<y, x % y>>]
  <2>1. <<x, y>> \in Nat \X Nat /\ <<x, y>>[1] = x /\ <<x, y>>[2] = y
    OBVIOUS
  <2>2. Euclid(gcd)[<<x, y>>] = IF y = 0 THEN x ELSE gcd[<<y, x % y>>]
    BY <2>1 DEF Euclid
  <2> QED
    BY <1>1, <2>2
<1>3. ASSUME NEW x \in Nat \ {0} PROVE Right(x, 0)
  <2>1. gcd[<<x, 0>>] = x
    BY <1>2
  <2> QED
    BY <2>1, DividesItself
<1> HIDE DEF Right
<1>4. 0 \in T
  BY <1>3
<1>5. ASSUME NEW n \in Nat, n \in T PROVE n + 1 \in T
  <2> SUFFICES ASSUME NEW x \in Nat \ {0}, NEW y \in Nat, y <= n + 1 PROVE Right(x, y)
    OBVIOUS
  <2>1. CASE y = 0
    BY <1>3, <2>1
  <2>2. CASE y # 0
    <3>1. x % y \in Nat /\ x % y <= n /\ y \in Nat \ {0}
      BY <2>2, DivisionExact
    <3>2. Right(y, x % y)
      BY <1>5, <3>1
    <3>3. gcd[<<x, y>>] = gcd[<<y, x % y>>]
      BY <1>2, <2>2
    <3> QED
      BY <3>1, <3>2, <3>3, SameDivisors DEF Right
  <2> QED
    BY <2>1, <2>2
<1>6. Nat \subseteq T
  <2> HIDE DEF T
  <2> QED
    BY <1>4, <1>5, NaturalInduction
<1>7. b \in T
  BY <1>6
<1>8. Right(a, b)
  BY <1>7
<1> QED
  BY <1>8 DEF Right

LEMMA LcmMultiple ==
    ASSUME NEW a \in Nat \ {0}, NEW b \in Nat \ {0}
    PROVE  lcm(a, b) \in Nat \ {0} /\ Divides(a, lcm(a, b)) /\ Divides(b, lcm(a, b))
<1> DEFINE g == gcd[<<a, b>>]
<1>1. g \in Nat \ {0} /\ Divides(g, a) /\ Divides(g, b)
  BY GcdDivides
<1>2. lcm(a, b) = (a \div g) * b
  BY DEF lcm
<1> HIDE DEF g
<1>3. PICK q \in Nat : a = q * g
  BY <1>1 DEF Divides
<1>4. PICK p \in Nat : b = p * g
  BY <1>1 DEF Divides
<1>5. a \div g = q
  <2> DEFINE d == a \div g
  <2>1. d \in Nat /\ d * g <= a /\ a < (d + 1) * g
    BY <1>1, Division
  <2>2. (q + 1) * g = q * g + g /\ q * g \in Nat /\ d * g \in Nat
    BY <1>1, <2>1
  <2> HIDE DEF d
  <2>3. d * g < (q + 1) * g
    BY <1>1, <1>3, <2>1, <2>2
  <2>4. d < q + 1 /\ q < d + 1
    <3>1. q \in Int /\ d \in Int /\ q + 1 \in Int /\ d + 1 \in Int /\ g \in Nat
      BY <1>1, <2>1
    <3> QED
      BY <1>3, <2>1, <2>3, <3>1, ProductOrder
  <2>5. d = q
    BY <2>1, <2>4
  <2> QED
    BY <2>5 DEF d
<1>6. lcm(a, b) = q * b /\ q * b \in Nat
  BY <1>2, <1>5
<1>7. q # 0
  BY <1>1, <1>3
<1>8. q * b # 0
  <2>1. 1 * b <= q * b
    BY <1>7, ProductOrder
  <2> QED
    BY <1>6, <2>1
<1>9. q * b = p * a
  <2>1. q * (p * g) = (q * p) * g /\ p * (q * g) = (p * q) * g /\ p * q = q * p
    BY <1>1, ProductTwice
  <2> QED
    BY <1>3, <1>4, <2>1
<1> QED
  BY <1>6, <1>8, <1>9 DEF Divides

-----------------------------------------------------------------------------
(***************************************************************************)
(* The hyperperiod.                                                        *)
(***************************************************************************)
Multiples(S, g) == [s \in SUBSET S |-> IF s = {} THEN 1 ELSE lcm(Some(s), g[s \ {Some(s)}])]

LEMMA FoldIsMultiples ==
    ASSUME NEW S
    PROVE  FoldSet(lcm, 1, S) = (CHOOSE g : g = Multiples(S, g))[S]
BY DEF FoldSet, MapThenFoldSet, Multiples, Some

LEMMA SomeTaken ==
    ASSUME NEW S, IsFiniteSet(S), NEW s \in SUBSET S, s # {}
    PROVE  /\ Some(s) \in s /\ s \ {Some(s)} \in SUBSET S
           /\ Cardinality(s) \in Nat /\ Cardinality(s \ {Some(s)}) = Cardinality(s) - 1
<1>1. IsFiniteSet(s) /\ Some(s) \in s
  BY FS_Subset DEF Some
<1> QED
  BY <1>1, FS_RemoveElement, FS_CardinalityType

\* At every set of at most n elements g is what its unfolding says.
MultipliesTo(S, g, n) == \A s \in SUBSET S : Cardinality(s) <= n => g[s] = Multiples(S, g)[s]

LEMMA MultiplesTyped ==
    ASSUME NEW S \in SUBSET (Nat \ {0}), IsFiniteSet(S), NEW g \in [SUBSET S -> Nat \ {0}]
    PROVE  Multiples(S, g) \in [SUBSET S -> Nat \ {0}]
<1>1. ASSUME NEW s \in SUBSET S, s # {} PROVE lcm(Some(s), g[s \ {Some(s)}]) \in Nat \ {0}
  <2>1. Some(s) \in s /\ s \ {Some(s)} \in SUBSET S
    BY <1>1, SomeTaken
  <2>2. Some(s) \in Nat \ {0} /\ g[s \ {Some(s)}] \in Nat \ {0}
    BY <2>1
  <2> QED
    BY <2>2, LcmMultiple
<1> QED
  BY <1>1 DEF Multiples

LEMMA MultiplesExist ==
    ASSUME NEW S \in SUBSET (Nat \ {0}), IsFiniteSet(S)
    PROVE  \E g \in [SUBSET S -> Nat \ {0}] : g = Multiples(S, g)
<1> DEFINE T == {n \in Nat : \E g \in [SUBSET S -> Nat \ {0}] : MultipliesTo(S, g, n)}
<1>1. \A s \in SUBSET S : IsFiniteSet(s) /\ Cardinality(s) \in Nat
  BY FS_Subset, FS_CardinalityType
<1>2. 0 \in T
  <2> DEFINE g == [s \in SUBSET S |-> 1]
  <2>1. \A s \in SUBSET S : Cardinality(s) <= 0 => s = {}
    BY <1>1, FS_EmptySet
  <2>2. g \in [SUBSET S -> Nat \ {0}] /\ MultipliesTo(S, g, 0)
    BY <2>1 DEF MultipliesTo, Multiples
  <2> QED
    BY <2>2
<1>3. ASSUME NEW n \in Nat, n \in T PROVE n + 1 \in T
  <2>1. PICK g \in [SUBSET S -> Nat \ {0}] : MultipliesTo(S, g, n)
    BY <1>3
  <2> DEFINE h == Multiples(S, g)
  <2>2. h \in [SUBSET S -> Nat \ {0}]
    BY MultiplesTyped
  <2>3. ASSUME NEW s \in SUBSET S, Cardinality(s) <= n + 1
        PROVE  h[s] = Multiples(S, h)[s]
    <3>1. CASE s = {}
      BY <3>1 DEF Multiples
    <3>2. CASE s # {}
      <4>1. s \ {Some(s)} \in SUBSET S /\ Cardinality(s \ {Some(s)}) <= n
        <5>1. /\ s \ {Some(s)} \in SUBSET S /\ Cardinality(s) \in Nat
              /\ Cardinality(s \ {Some(s)}) = Cardinality(s) - 1
          BY <3>2, SomeTaken
        <5> QED
          BY <2>3, <5>1
      <4>2. g[s \ {Some(s)}] = h[s \ {Some(s)}]
        BY <2>1, <4>1 DEF MultipliesTo
      <4>3. h[s] = lcm(Some(s), g[s \ {Some(s)}])
        BY <3>2 DEF Multiples
      <4>4. Multiples(S, h)[s] = lcm(Some(s), h[s \ {Some(s)}])
        BY <3>2 DEF Multiples
      <4> QED
        BY <4>2, <4>3, <4>4
    <3> QED
      BY <3>1, <3>2
  <2>4. MultipliesTo(S, h, n + 1)
    BY <2>3 DEF MultipliesTo
  <2> QED
    BY <2>2, <2>4
<1>4. Nat \subseteq T
  <2> HIDE DEF T
  <2> QED
    BY <1>2, <1>3, NaturalInduction
<1>5. PICK g \in [SUBSET S -> Nat \ {0}] : MultipliesTo(S, g, Cardinality(S))
  BY <1>4, FS_CardinalityType
<1>6. \A s \in SUBSET S : Cardinality(s) <= Cardinality(S)
  BY FS_Subset
<1>7. \A s \in SUBSET S : g[s] = Multiples(S, g)[s]
  BY <1>5, <1>6 DEF MultipliesTo
<1>8. Multiples(S, g) \in [SUBSET S -> Nat \ {0}]
  BY MultiplesTyped
<1> QED
  BY <1>7, <1>8

\* The fold is a multiple of every element.
LEMMA FoldMultiple ==
    ASSUME NEW S \in SUBSET (Nat \ {0}), IsFiniteSet(S)
    PROVE  FoldSet(lcm, 1, S) \in Nat \ {0} /\ \A x \in S : Divides(x, FoldSet(lcm, 1, S))
<1> DEFINE g == CHOOSE h : h = Multiples(S, h)
           T == {s \in SUBSET S : g[s] \in Nat \ {0} /\ \A x \in s : Divides(x, g[s])}
<1>1. g = Multiples(S, g)
  BY MultiplesExist
<1>2. FoldSet(lcm, 1, S) = g[S]
  BY FoldIsMultiples
<1> HIDE DEF g
<1>3. ASSUME NEW A \in SUBSET S, \A x \in A : A \ {x} \in T PROVE A \in T
  <2>1. CASE A = {}
    BY <1>1, <2>1 DEF Multiples
  <2>2. CASE A # {}
    <3> DEFINE a == Some(A)
               B == A \ {a}
    <3>1. a \in A /\ B \in T
      BY <1>3, <2>2, SomeTaken
    <3>2. g[A] = lcm(a, g[B])
      <4>1. Multiples(S, g)[A] = lcm(a, g[B])
        BY <2>2 DEF Multiples
      <4> QED
        BY <1>1, <4>1
    <3>3. A = B \union {a} /\ g[B] \in Nat \ {0} /\ a \in Nat \ {0} /\ \A x \in B : Divides(x, g[B])
      BY <3>1
    <3> HIDE DEF a, B, T
    <3>4. g[A] \in Nat \ {0} /\ Divides(a, g[A]) /\ Divides(g[B], g[A])
      BY <3>2, <3>3, LcmMultiple
    <3>5. ASSUME NEW x \in B PROVE Divides(x, g[A])
      <4>1. Divides(x, g[B]) /\ x \in Nat
        BY <3>3
      <4>2. PICK q \in Nat : g[A] = q * g[B]
        BY <3>4 DEF Divides
      <4> QED
        BY <3>3, <4>1, <4>2, DividesMultiple
    <3>6. \A x \in A : Divides(x, g[A])
      BY <3>3, <3>4, <3>5
    <3> QED
      BY <3>4, <3>6 DEF T
  <2> QED
    BY <2>1, <2>2
<1>4. SUBSET S \subseteq T
  <2> HIDE DEF T
  <2> QED
    BY <1>3, SubsetInduction
<1>5. S \in T
  BY <1>4
<1> QED
  BY <1>2, <1>5

\* The hyperperiod is a multiple of every period, or the cap.
LEMMA HyperperiodMultiple ==
    ASSUME NEW ts \in TaskSet, NEW cap \in Nat \ {0}, NEW t \in Periodic(ts)
    PROVE  /\ hyperperiod(ts, cap) \in Nat \ {0}
           /\ hyperperiod(ts, cap) = cap \/ Divides(ts.period[t], hyperperiod(ts, cap))
<1> DEFINE S == PeriodsOf(ts)
           H == FoldSet(lcm, 1, S)
<1>1. Periodic(ts) # {} /\ IsFiniteSet(Periodic(ts))
  BY PeriodicTyped
<1>2. S \in SUBSET (Nat \ {0}) /\ ts.period[t] \in S
  BY PeriodicTyped DEF PeriodsOf
<1>3. IsFiniteSet(S)
  <2> DEFINE f == [u \in Periodic(ts) |-> ts.period[u]]
  <2>1. f \in Surjection(Periodic(ts), S)
    BY DEF Surjection, PeriodsOf
  <2> HIDE DEF f, S
  <2> QED
    BY <1>1, <2>1, FS_Surjection
<1>4. H \in Nat \ {0} /\ Divides(ts.period[t], H)
  <2> HIDE DEF S
  <2> QED
    BY <1>2, <1>3, FoldMultiple
<1>5. hyperperiod(ts, cap) = IF H >= cap THEN cap ELSE AtLeast(H, 1)
  BY <1>1 DEF hyperperiod
<1> HIDE DEF H
<1>6. AtLeast(H, 1) = H
  BY <1>4 DEF AtLeast
<1> QED
  BY <1>4, <1>5, <1>6

-----------------------------------------------------------------------------
(***************************************************************************)
(* Powers and means.                                                       *)
(***************************************************************************)
Powers(x, n, g) == [k \in 0..n |-> IF k = 0 THEN 1 ELSE x * g[k - 1]]

\* The recursion has a solution, one for each exponent.
LEMMA PowersExist ==
    ASSUME NEW x \in Nat, NEW n \in Nat
    PROVE  \E g \in [0..n -> Nat] : g = Powers(x, n, g)
<1> DEFINE T == {m \in Nat : \E g \in [0..m -> Nat] : g = Powers(x, m, g)}
<1>1. 0 \in T
  <2> DEFINE g == [k \in 0..0 |-> 1]
  <2>1. g \in [0..0 -> Nat] /\ g = Powers(x, 0, g)
    BY DEF Powers
  <2> QED
    BY <2>1
<1>2. ASSUME NEW m \in Nat, m \in T PROVE m + 1 \in T
  <2>1. PICK g \in [0..m -> Nat] : g = Powers(x, m, g)
    BY <1>2
  <2> DEFINE h == [k \in 0..m+1 |-> IF k = m + 1 THEN x * g[m] ELSE g[k]]
  <2>2. x * g[m] \in Nat
    <3>1. g[m] \in Nat
      OBVIOUS
    <3> QED
      BY <3>1
  <2>3. h \in [0..m+1 -> Nat]
    BY <2>2
  <2>4. ASSUME NEW k \in 0..m+1 PROVE h[k] = IF k = 0 THEN 1 ELSE x * h[k - 1]
    <3>1. CASE k = m + 1
      BY <3>1
    <3>2. CASE k # m + 1
      <4>1. k \in 0..m /\ h[k] = g[k]
        BY <3>2
      <4>2. g[k] = IF k = 0 THEN 1 ELSE x * g[k - 1]
        BY <2>1, <4>1 DEF Powers
      <4>3. k # 0 => k - 1 \in 0..m /\ k - 1 # m + 1 /\ k - 1 \in 0..m+1
        BY <4>1
      <4> QED
        BY <4>1, <4>2, <4>3
    <3> QED
      BY <3>1, <3>2
  <2> HIDE DEF h
  <2>5. h = Powers(x, m + 1, h)
    <3>1. DOMAIN h = 0..m+1 /\ h = [k \in 0..m+1 |-> h[k]]
      BY <2>3
    <3> QED
      BY <2>4, <3>1 DEF Powers
  <2> QED
    BY <2>3, <2>5
<1>3. Nat \subseteq T
  <2> HIDE DEF T
  <2> QED
    BY <1>1, <1>2, NaturalInduction
<1> QED
  BY <1>3

\* The laws the recursion states.
LEMMA PowerIs ==
    ASSUME NEW x \in Nat
    PROVE  /\ power(x, 0) = 1
           /\ \A n \in Nat : power(x, n) \in Nat /\ power(x, n + 1) = x * power(x, n)
<1> DEFINE of(n) == CHOOSE g : g = Powers(x, n, g)
<1>1. ASSUME NEW n \in Nat
      PROVE  power(x, n) = of(n)[n] /\ of(n) = Powers(x, n, of(n)) /\ of(n) \in [0..n -> Nat]
  <2>1. power(x, n) = of(n)[n]
    BY DEF power, Powers
  <2>2. PICK f \in [0..n -> Nat] : f = Powers(x, n, f)
    BY PowersExist
  <2>3. of(n) = Powers(x, n, of(n))
    BY <2>2
  <2> DEFINE g == of(n)
             T == {k \in Nat : k <= n => g[k] = f[k]}
  <2> HIDE DEF of
  <2>4. \A k \in 0..n : /\ g[k] = (IF k = 0 THEN 1 ELSE x * g[k - 1])
                        /\ f[k] = (IF k = 0 THEN 1 ELSE x * f[k - 1])
    BY <2>2, <2>3 DEF Powers
  <2>5. 0 \in T
    BY <2>4
  <2>6. ASSUME NEW k \in Nat, k \in T PROVE k + 1 \in T
    BY <2>4, <2>6
  <2>7. Nat \subseteq T
    <3> HIDE DEF T
    <3> QED
      BY <2>5, <2>6, NaturalInduction
  <2>8. \A k \in 0..n : g[k] = f[k]
    BY <2>7
  <2>9. g = [k \in 0..n |-> g[k]]
    BY <2>3 DEF Powers
  <2>10. g = f
    BY <2>8, <2>9
  <2> QED
    BY <2>1, <2>3, <2>10
<1> HIDE DEF of
<1>2. ASSUME NEW n \in Nat, NEW k \in 0..n
      PROVE  of(n)[k] = IF k = 0 THEN 1 ELSE x * of(n)[k - 1]
  BY <1>1 DEF Powers
<1>3. ASSUME NEW n \in Nat PROVE of(n + 1)[n] = of(n)[n]
  <2> DEFINE T == {k \in Nat : k <= n => of(n + 1)[k] = of(n)[k]}
  <2>1. 0 \in T
    <3>1. 0 \in 0..n /\ 0 \in 0..n+1 /\ n + 1 \in Nat
      OBVIOUS
    <3> QED
      BY <1>2, <3>1
  <2>2. ASSUME NEW k \in Nat, k \in T PROVE k + 1 \in T
    <3> SUFFICES ASSUME k + 1 <= n PROVE of(n + 1)[k + 1] = of(n)[k + 1]
      OBVIOUS
    <3>1. k + 1 \in 0..n /\ k + 1 \in 0..n+1 /\ n + 1 \in Nat /\ k + 1 # 0 /\ (k + 1) - 1 = k
      OBVIOUS
    <3>2. of(n + 1)[k] = of(n)[k]
      BY <2>2, <3>1
    <3>3. of(n + 1)[k + 1] = x * of(n + 1)[k]
      BY <1>2, <3>1
    <3>4. of(n)[k + 1] = x * of(n)[k]
      BY <1>2, <3>1
    <3> QED
      BY <3>2, <3>3, <3>4
  <2>3. Nat \subseteq T
    <3> HIDE DEF T
    <3> QED
      BY <2>1, <2>2, NaturalInduction
  <2> QED
    BY <2>3
<1>4. power(x, 0) = 1
  <2>1. 0 \in 0..0
    OBVIOUS
  <2> QED
    BY <1>1, <1>2, <2>1
<1>5. ASSUME NEW n \in Nat PROVE power(x, n) \in Nat /\ power(x, n + 1) = x * power(x, n)
  <2>1. n + 1 \in Nat /\ n + 1 \in 0..n+1 /\ n + 1 # 0 /\ (n + 1) - 1 = n /\ n \in 0..n
    OBVIOUS
  <2>2. of(n + 1)[n + 1] = x * of(n + 1)[n]
    BY <1>2, <2>1
  <2>3. of(n)[n] \in Nat
    BY <1>1, <2>1
  <2> QED
    BY <1>1, <1>3, <2>1, <2>2, <2>3
<1> QED
  BY <1>4, <1>5

\* Powers of products, of greater numbers and of numbers that are not 0.
LEMMA PowerLaws ==
    ASSUME NEW x \in Nat, NEW y \in Nat, NEW n \in Nat
    PROVE  /\ power(x * y, n) = power(x, n) * power(y, n)
           /\ x <= y => power(x, n) <= power(y, n)
           /\ x # 0 => power(x, n) > 0
<1> DEFINE Laws(m) == /\ power(x * y, m) = power(x, m) * power(y, m)
                      /\ x <= y => power(x, m) <= power(y, m)
                      /\ x # 0 => power(x, m) > 0
           T == {m \in Nat : Laws(m)}
<1>1. x * y \in Nat
  OBVIOUS
<1>2. 0 \in T
  <2>1. power(x, 0) = 1 /\ power(y, 0) = 1 /\ power(x * y, 0) = 1
    BY <1>1, PowerIs
  <2> QED
    BY <2>1
<1>3. ASSUME NEW m \in Nat, m \in T PROVE m + 1 \in T
  <2> DEFINE a == power(x, m)
             b == power(y, m)
             c == power(x * y, m)
  <2>1. /\ a \in Nat /\ b \in Nat /\ c \in Nat
        /\ power(x, m + 1) = x * a /\ power(y, m + 1) = y * b
        /\ power(x * y, m + 1) = (x * y) * c
    BY <1>1, PowerIs
  <2>2. c = a * b /\ (x <= y => a <= b) /\ (x # 0 => a > 0)
    BY <1>3
  <2> HIDE DEF a, b, c
  <2>3. (x * y) * (a * b) = (x * a) * (y * b)
    BY <2>1
  <2>4. ASSUME x <= y PROVE x * a <= y * b
    <3>1. x * a <= y * a
      BY <2>1, <2>4
    <3>2. y * a <= y * b
      BY <2>1, <2>2, <2>4
    <3>3. x * a \in Nat /\ y * a \in Nat /\ y * b \in Nat
      BY <2>1
    <3> QED
      BY <3>1, <3>2, <3>3
  <2>5. x # 0 => x * a > 0
    BY <2>1, <2>2
  <2> QED
    BY <2>1, <2>2, <2>3, <2>4, <2>5
<1>4. Nat \subseteq T
  <2> HIDE DEF T
  <2> QED
    BY <1>2, <1>3, NaturalInduction
<1> QED
  BY <1>4

\* The polynomial step of the inequality of Bernoulli.
LEMMA BernoulliStep ==
    ASSUME NEW p \in Nat, NEW q \in Nat, NEW n \in Nat, NEW P \in Nat, NEW Q \in Nat,
           (n + 1) * (p * Q) <= P + n * (q * Q)
    PROVE  (n + 2) * (p * (q * Q)) <= p * P + (n + 1) * (q * (q * Q))
<1> DEFINE A == p * (p * Q)
           B == p * (q * Q)
           C == q * (q * Q)
<1>1. A \in Nat /\ B \in Nat /\ C \in Nat /\ p * P \in Nat
  OBVIOUS
<1>2. (n + 1) * A <= p * P + n * B
  <2> DEFINE u == (n + 1) * (p * Q)
             v == P + n * (q * Q)
  <2>1. u \in Nat /\ v \in Nat /\ u <= v
    OBVIOUS
  <2>2. p * u = (n + 1) * A
    OBVIOUS
  <2>3. p * v = p * P + n * B
    OBVIOUS
  <2> HIDE DEF u, v
  <2>4. p * u <= p * v
    BY <2>1
  <2> QED
    BY <2>2, <2>3, <2>4
<1>3. A + C >= B + B
  <2>1. (p - q) * (p - q) >= 0
    OBVIOUS
  <2>2. p * p + q * q >= 2 * (p * q)
    BY <2>1
  <2> DEFINE u == 2 * (p * q)
             v == p * p + q * q
  <2>3. u \in Nat /\ v \in Nat /\ u <= v
    BY <2>2
  <2>4. u * Q = B + B
    OBVIOUS
  <2>5. v * Q = A + C
    OBVIOUS
  <2> HIDE DEF u, v, A, B, C
  <2>6. u * Q <= v * Q
    BY <2>3, ProductOrder
  <2> QED
    BY <2>4, <2>5, <2>6
<1> HIDE DEF A, B, C
<1>4. (n + 1) * (B + B) <= (n + 1) * (A + C)
  <2> DEFINE m == n + 1
             u == B + B
             v == A + C
  <2>1. m \in Nat /\ u \in Nat /\ v \in Nat /\ u <= v
    BY <1>1, <1>3
  <2> HIDE DEF m, u, v
  <2>2. m * u <= m * v
    BY <2>1
  <2> QED
    BY <2>2 DEF m, u, v
<1>5. /\ (n + 1) * (A + C) = (n + 1) * A + (n + 1) * C
      /\ (n + 1) * (B + B) = (n + 2) * B + n * B
      /\ (n + 1) * A \in Nat /\ (n + 1) * C \in Nat /\ (n + 2) * B \in Nat /\ n * B \in Nat
  BY <1>1
<1>6. (n + 2) * B <= p * P + (n + 1) * C
  BY <1>1, <1>2, <1>4, <1>5
<1> QED
  BY <1>6 DEF B, C

\* The inequality of Bernoulli for p / q, multiplied out.
LEMMA Bernoulli ==
    ASSUME NEW p \in Nat, NEW q \in Nat, NEW n \in Nat
    PROVE  (n + 1) * (p * power(q, n)) <= power(p, n + 1) + n * power(q, n + 1)
<1> DEFINE T == {m \in Nat : (m + 1) * (p * power(q, m)) <= power(p, m + 1) + m * (q * power(q, m))}
<1>1. 0 \in T
  <2>1. power(q, 0) = 1 /\ power(p, 0 + 1) = p * 1
    BY PowerIs
  <2> QED
    BY <2>1
<1>2. ASSUME NEW m \in Nat, m \in T PROVE m + 1 \in T
  <2> DEFINE P == power(p, m + 1)
             Q == power(q, m)
  <2>1. /\ P \in Nat /\ Q \in Nat
        /\ power(q, m + 1) = q * Q /\ power(p, (m + 1) + 1) = p * P
    <3>1. m + 1 \in Nat
      OBVIOUS
    <3> QED
      BY <3>1, PowerIs
  <2>2. (m + 1) * (p * Q) <= P + m * (q * Q)
    BY <1>2
  <2> HIDE DEF P, Q
  <2>3. (m + 2) * (p * (q * Q)) <= p * P + (m + 1) * (q * (q * Q))
    BY <2>1, <2>2, BernoulliStep
  <2>4. (m + 1) + 1 = m + 2
    OBVIOUS
  <2> QED
    BY <2>1, <2>3, <2>4
<1>3. Nat \subseteq T
  <2> HIDE DEF T
  <2> QED
    BY <1>1, <1>2, NaturalInduction
<1>4. n \in T
  BY <1>3
<1> QED
  BY <1>4, PowerIs

\* One more number b beside m numbers with sum Y: what the inequality of the
\* arithmetic and the geometric mean gains with it.
LEMMA OneMoreMean ==
    ASSUME NEW m \in Nat, NEW Y \in Nat, NEW b \in Nat
    PROVE  power(m + 1, m + 1) * (power(Y, m) * b) <= power(m, m) * power(Y + b, m + 1)
<1> DEFINE p == m * (Y + b)
           q == (m + 1) * Y
           z == power(Y + b, m + 1)
           y == power(Y, m)
           M == power(m, m)
           N == power(m + 1, m)
           Q == power(q, m)
<1>1. m + 1 \in Nat /\ Y + b \in Nat /\ p \in Nat /\ q \in Nat
  OBVIOUS
<1> HIDE DEF p, q
<1>2. /\ z \in Nat /\ y \in Nat /\ M \in Nat /\ N \in Nat /\ Q \in Nat
      /\ power(m + 1, m + 1) = (m + 1) * N
      /\ power(m, m + 1) = m * M
      /\ power(q, m + 1) = q * Q
  BY <1>1, PowerIs
<1>3. Q = N * y
  BY <1>1, PowerLaws DEF q
<1>4. power(p, m + 1) = power(m, m + 1) * z
  BY <1>1, PowerLaws DEF p
<1>5. (m + 1) * (p * Q) <= power(p, m + 1) + m * power(q, m + 1)
  BY <1>1, Bernoulli
<1> HIDE DEF z, y, M, N, Q
<1>6. (m + 1) * (p * Q) <= (m * M) * z + m * (q * Q)
  BY <1>2, <1>4, <1>5
<1>7. (m + 1) * (p * Q) = m * (((m + 1) * N) * (y * b)) + m * (q * Q)
  BY <1>2, <1>3 DEF p, q
<1> DEFINE u == ((m + 1) * N) * (y * b)
           v == M * z
<1>8. u \in Nat /\ v \in Nat /\ m * u \in Nat /\ m * v \in Nat /\ m * (q * Q) \in Nat
  BY <1>1, <1>2
<1>9. (m * M) * z = m * v
  BY <1>2
<1>10. m * u <= m * v
  <2> DEFINE w == m * (q * Q)
  <2>1. m * u + w <= m * v + w
    BY <1>6, <1>7, <1>9
  <2> HIDE DEF u, v, w
  <2> QED
    BY <1>8, <2>1 DEF w
<1>11. u <= v
  <2>1. CASE m = 0
    <3>1. power(m, 0) = 1 /\ power(Y, 0) = 1 /\ power(m + 1, 0) = 1 /\ power(Y + b, 0) = 1
      BY <1>1, PowerIs
    <3>2. M = 1 /\ y = 1 /\ N = 1
      BY <2>1, <3>1 DEF M, y, N
    <3>3. 0 \in Nat /\ power(Y + b, 0 + 1) = (Y + b) * power(Y + b, 0)
      BY <1>1, PowerIs
    <3>4. z = Y + b
      BY <1>1, <2>1, <3>1, <3>3 DEF z
    <3> QED
      BY <2>1, <3>2, <3>4
  <2>2. CASE m # 0
    <3> HIDE DEF u, v
    <3> QED
      BY <1>8, <1>10, <2>2
  <2> QED
    BY <2>1, <2>2
<1> QED
  BY <1>2, <1>11 DEF u, v, M, y, z

\* The inequality of the means, taken one number further together with a value
\* that grows by no greater a factor.
LEMMA MeanStep ==
    ASSUME NEW m \in Nat, NEW K \in Nat \ {0}, NEW Y \in Nat, NEW b \in Nat,
           NEW a \in Nat, NEW c \in Nat, NEW S \in Nat,
           power(m, m) * (power(K, m) * a) <= S * power(Y, m), K * c <= b * a
    PROVE  /\ power(m + 1, m + 1) * (power(K, m + 1) * c) <= S * power(Y + b, m + 1)
           /\ K * c < b * a =>
                power(m + 1, m + 1) * (power(K, m + 1) * c) < S * power(Y + b, m + 1)
<1> DEFINE M == power(m, m)
           N == power(m + 1, m + 1)
           k == power(K, m)
           y == power(Y, m)
           z == power(Y + b, m + 1)
<1>1. m + 1 \in Nat /\ Y + b \in Nat
  OBVIOUS
<1>2. /\ M \in Nat /\ N \in Nat /\ k \in Nat /\ y \in Nat /\ z \in Nat
      /\ power(K, m + 1) = K * k
  BY <1>1, PowerIs
<1>3. M > 0 /\ N > 0 /\ k > 0
  <2>1. power(m, 0) = 1 /\ (m # 0 => power(m, m) > 0)
    BY PowerIs, PowerLaws
  <2>2. m + 1 # 0 /\ K # 0
    OBVIOUS
  <2>3. power(m + 1, m + 1) > 0 /\ power(K, m) > 0
    BY <1>1, <2>2, PowerLaws
  <2> QED
    BY <2>1, <2>3
<1>4. N * (y * b) <= M * z
  BY OneMoreMean
<1>5. M * (k * a) <= S * y
  OBVIOUS
<1> HIDE DEF M, N, k, y, z
<1> DEFINE u == M * (k * a)
           v == S * y
           r == K * c
           s == b * a
<1>6. u \in Nat /\ v \in Nat /\ u <= v /\ r \in Nat /\ s \in Nat /\ r <= s
  BY <1>2, <1>5
<1> DEFINE left == N * (k * r)
           right == S * z
<1>7. left \in Nat /\ right \in Nat
  BY <1>2, <1>6
<1> DEFINE f == M * (N * k)
<1>8. f \in Nat \ {0}
  <2>1. N * k \in Nat \ {0}
    BY <1>2, <1>3
  <2> DEFINE g == N * k
  <2> HIDE DEF g
  <2>2. M * g \in Nat \ {0}
    BY <1>2, <1>3, <2>1 DEF g
  <2> QED
    BY <2>2 DEF g
<1>9. M * left = f * r
  BY <1>2, <1>6
<1>10. f * s = (N * b) * u
  BY <1>2
<1>11. (N * b) * v = S * (N * (y * b))
  BY <1>2
<1>12. S * (M * z) = M * right
  BY <1>2
<1> DEFINE h == N * b
           i == N * (y * b)
           j == M * z
<1>13. h \in Nat /\ i \in Nat /\ j \in Nat /\ i <= j
  BY <1>2, <1>4
<1> HIDE DEF u, v, r, s, left, right, f, h, i, j
<1>14. h * u <= h * v /\ S * i <= S * j
  BY <1>6, <1>13
<1>15. f * r <= f * s /\ (r < s => f * r < f * s)
  BY <1>6, <1>8
<1>16. /\ M * left = f * r /\ f * s = h * u /\ h * v = S * i /\ S * j = M * right
       /\ f * r \in Nat /\ f * s \in Nat /\ h * v \in Nat /\ S * j \in Nat
  BY <1>6, <1>8, <1>9, <1>10, <1>11, <1>12, <1>13 DEF h, i, j
<1>17. M * left <= M * right /\ (r < s => M * left < M * right)
  BY <1>14, <1>15, <1>16
<1>18. left <= right /\ (r < s => left < right)
  BY <1>2, <1>3, <1>7, <1>17
<1>19. N * ((K * k) * c) = left
  BY <1>2 DEF left, r
<1> QED
  BY <1>2, <1>18, <1>19 DEF right, r, s, N, z

-----------------------------------------------------------------------------
(***************************************************************************)
(* More about sums.                                                        *)
(***************************************************************************)
\* Sums add up and scale.
LEMMA SumLinear ==
    ASSUME NEW S, IsFiniteSet(S), NEW f, NEW g, NEW h, NEW q \in Int,
           \A x \in S : f[x] \in Int /\ g[x] \in Int,
           \A x \in S : h[x] = f[x] + q * g[x]
    PROVE  SumFunctionOnSet(h, S) = SumFunctionOnSet(f, S) + q * SumFunctionOnSet(g, S)
<1> DEFINE T == {A \in SUBSET S : SumFunctionOnSet(h, A)
                                    = SumFunctionOnSet(f, A) + q * SumFunctionOnSet(g, A)}
<1>0. /\ \A x \in S : f[x] \in Int
      /\ \A x \in S : g[x] \in Int
      /\ \A x \in S : h[x] \in Int
  OBVIOUS
<1>1. ASSUME NEW A \in SUBSET S, \A x \in A : A \ {x} \in T PROVE A \in T
  <2>1. IsFiniteSet(A)
    BY FS_Subset
  <2>2. CASE A = {}
    <3>1. SumFunctionOnSet(f, A) = 0 /\ SumFunctionOnSet(g, A) = 0 /\ SumFunctionOnSet(h, A) = 0
      BY <2>2, SumEmpty
    <3> QED
      BY <3>1
  <2>3. ASSUME NEW a \in A PROVE A \in T
    <3> DEFINE R == A \ {a}
    <3>1. \A x \in A : f[x] \in Int
      BY <1>0
    <3>2. \A x \in A : g[x] \in Int
      BY <1>0
    <3>3. \A x \in A : h[x] \in Int
      BY <1>0
    <3>4. SumFunctionOnSet(f, A) = f[a] + SumFunctionOnSet(f, R)
      BY <2>1, <3>1, SumTakesAny
    <3>5. SumFunctionOnSet(g, A) = g[a] + SumFunctionOnSet(g, R)
      BY <2>1, <3>2, SumTakesAny
    <3>6. SumFunctionOnSet(h, A) = h[a] + SumFunctionOnSet(h, R)
      BY <2>1, <3>3, SumTakesAny
    <3>7. IsFiniteSet(R)
      BY <2>1, FS_Subset
    <3>8. SumFunctionOnSet(f, R) \in Int
      BY <3>1, <3>7, SumTyped
    <3>9. SumFunctionOnSet(g, R) \in Int
      BY <3>2, <3>7, SumTyped
    <3>10. SumFunctionOnSet(h, R) = SumFunctionOnSet(f, R) + q * SumFunctionOnSet(g, R)
      BY <1>1, <2>3
    <3>11. f[a] \in Int /\ g[a] \in Int /\ h[a] = f[a] + q * g[a]
      BY <2>3
    <3> DEFINE F == SumFunctionOnSet(f, R)
               G == SumFunctionOnSet(g, R)
               H == SumFunctionOnSet(h, R)
               FA == SumFunctionOnSet(f, A)
               GA == SumFunctionOnSet(g, A)
               HA == SumFunctionOnSet(h, A)
               x == f[a]
               y == g[a]
    <3>12. /\ F \in Int /\ G \in Int /\ x \in Int /\ y \in Int /\ FA = x + F /\ GA = y + G
           /\ HA = (x + q * y) + (F + q * G)
      BY <3>4, <3>5, <3>6, <3>8, <3>9, <3>10, <3>11
    <3> HIDE DEF F, G, H, FA, GA, HA, x, y
    <3>13. q * (y + G) = q * y + q * G
      BY <3>12
    <3>14. HA = FA + q * GA
      BY <3>12, <3>13
    <3> QED
      BY <3>14 DEF FA, GA, HA
  <2> QED
    BY <2>2, <2>3
<1>2. SUBSET S \subseteq T
  <2> HIDE DEF T
  <2> QED
    BY <1>1, SubsetInduction
<1> QED
  BY <1>2

\* A sum over some of a set is a sum over all of it with zeros for the others.
LEMMA SumWithin ==
    ASSUME NEW S, IsFiniteSet(S), NEW R \in SUBSET S, NEW f, NEW h,
           \A x \in R : f[x] \in Int,
           \A x \in S : h[x] = IF x \in R THEN f[x] ELSE 0
    PROVE  SumFunctionOnSet(f, R) = SumFunctionOnSet(h, S)
<1> DEFINE T == {A \in SUBSET S : SumFunctionOnSet(f, A \cap R) = SumFunctionOnSet(h, A)}
<1>0. \A x \in S : h[x] \in Int
  OBVIOUS
<1>1. ASSUME NEW A \in SUBSET S, \A x \in A : A \ {x} \in T PROVE A \in T
  <2>1. IsFiniteSet(A) /\ IsFiniteSet(A \cap R) /\ \A x \in A : h[x] \in Int
    BY <1>0, FS_Subset
  <2>2. CASE A = {}
    <3>1. A \cap R = {}
      BY <2>2
    <3> QED
      BY <2>2, <3>1, SumEmpty
  <2>3. ASSUME NEW a \in A PROVE A \in T
    <3>1. SumFunctionOnSet(h, A) = h[a] + SumFunctionOnSet(h, A \ {a})
      BY <2>1, SumTakesAny
    <3>2. SumFunctionOnSet(f, (A \ {a}) \cap R) = SumFunctionOnSet(h, A \ {a})
      BY <1>1
    <3>3. CASE a \in R
      <4> DEFINE B == A \cap R
      <4>1. B \ {a} = (A \ {a}) \cap R /\ a \in B /\ \A x \in B : f[x] \in Int
        BY <3>3
      <4>2. IsFiniteSet(B)
        BY <2>1
      <4> HIDE DEF B
      <4>3. SumFunctionOnSet(f, B) = f[a] + SumFunctionOnSet(f, B \ {a})
        BY <4>1, <4>2, SumTakesAny
      <4>4. h[a] = f[a]
        BY <3>3
      <4>5. SumFunctionOnSet(f, B) = SumFunctionOnSet(h, A)
        BY <3>1, <3>2, <4>1, <4>3, <4>4
      <4> QED
        BY <4>5 DEF B
    <3>4. CASE a \notin R
      <4>1. A \cap R = (A \ {a}) \cap R /\ h[a] = 0
        BY <3>4
      <4>2. IsFiniteSet(A \ {a}) /\ \A x \in A \ {a} : h[x] \in Int
        BY <2>1, FS_Subset
      <4> DEFINE B == A \ {a}
      <4> HIDE DEF B
      <4>3. SumFunctionOnSet(h, B) \in Int
        BY <4>2, SumTyped DEF B
      <4>4. SumFunctionOnSet(h, A) = SumFunctionOnSet(h, B)
        BY <3>1, <4>1, <4>3 DEF B
      <4> QED
        BY <3>2, <4>1, <4>4 DEF B
    <3> QED
      BY <3>3, <3>4
  <2> QED
    BY <2>2, <2>3
<1>2. SUBSET S \subseteq T
  <2> HIDE DEF T
  <2> QED
    BY <1>1, SubsetInduction
<1>3. S \in T /\ S \cap R = R
  BY <1>2
<1> QED
  BY <1>3

-----------------------------------------------------------------------------
(***************************************************************************)
(* The utilization bound.                                                  *)
(***************************************************************************)
\* What those of I ask for whose x comes before that of j.
ArrivedBefore(I, x, c, j) == [i \in I |-> IF x[i] < x[j] THEN c[i] ELSE 0]

\* The inequality of the means along a set of tasks.
Mean(A, K, S, c, g) ==
    LET m == Cardinality(A)
    IN  power(m, m) * (power(K, m) * (S + SumFunctionOnSet(c, A)))
            <= S * power(m * K + SumFunctionOnSet(g, A), m)

\* With one more task, no x of which is greater than the value so far.
LEMMA MeanGrows ==
    ASSUME NEW A, IsFiniteSet(A), NEW K \in Nat \ {0}, NEW S \in Nat,
           NEW c, NEW g, \A i \in A : c[i] \in Nat /\ g[i] \in Nat,
           NEW j \in A, NEW y \in Nat, g[j] * y = K * c[j],
           y <= S + SumFunctionOnSet(c, A \ {j}),
           Mean(A \ {j}, K, S, c, g)
    PROVE  Mean(A, K, S, c, g)
<1> DEFINE R == A \ {j}
           m == Cardinality(R)
           C == SumFunctionOnSet(c, R)
           G == SumFunctionOnSet(g, R)
<1>1. IsFiniteSet(R) /\ m \in Nat /\ Cardinality(A) = m + 1
  BY FS_RemoveElement, FS_CardinalityType, FS_Subset
<1>2. C \in Nat /\ G \in Nat
  <2>1. \A i \in R : c[i] \in Nat
    OBVIOUS
  <2>2. \A i \in R : g[i] \in Nat
    OBVIOUS
  <2> HIDE DEF R
  <2> QED
    BY <1>1, <2>1, <2>2, SumNatural
<1>3. SumFunctionOnSet(c, A) = c[j] + C /\ SumFunctionOnSet(g, A) = g[j] + G
  <2>1. \A i \in A : c[i] \in Int
    OBVIOUS
  <2>2. \A i \in A : g[i] \in Int
    OBVIOUS
  <2> QED
    BY <2>1, <2>2, SumTakesAny
<1>4. c[j] \in Nat /\ g[j] \in Nat /\ y <= S + C
  OBVIOUS
<1>5. power(m, m) * (power(K, m) * (S + C)) <= S * power(m * K + G, m)
  BY DEF Mean
<1> DEFINE p == c[j]
           q == g[j]
           a == S + C
           b == K + q
           Y == m * K + G
<1>6. g[j] * y = K * p
  OBVIOUS
<1> HIDE DEF R, m, C, G, p, q
<1>7. p \in Nat /\ q \in Nat /\ a \in Nat /\ b \in Nat /\ Y \in Nat /\ a + p \in Nat
  BY <1>1, <1>2, <1>4 DEF p, q
<1>8. K * (a + p) <= b * a
  <2>1. q * y = K * p
    BY <1>6 DEF q
  <2>2. q * y <= q * a
    BY <1>4, <1>7
  <2>3. K * (a + p) = K * a + K * p /\ b * a = K * a + q * a
    BY <1>7
  <2>4. K * a \in Nat /\ K * p \in Nat /\ q * a \in Nat
    BY <1>7
  <2> QED
    BY <2>1, <2>2, <2>3, <2>4
<1> HIDE DEF a, b, Y
<1>9. power(m, m) * (power(K, m) * a) <= S * power(Y, m)
  BY <1>5 DEF a, Y
<1>10. power(m + 1, m + 1) * (power(K, m + 1) * (a + p)) <= S * power(Y + b, m + 1)
  BY <1>1, <1>7, <1>8, <1>9, MeanStep
<1>11. a + p = S + SumFunctionOnSet(c, A)
  BY <1>2, <1>3, <1>7 DEF a, p
<1>12. Y + b = (m + 1) * K + SumFunctionOnSet(g, A)
  <2>1. (m + 1) * K = m * K + K
    BY <1>1
  <2>2. m * K \in Nat
    BY <1>1
  <2> QED
    BY <1>2, <1>3, <1>7, <2>1, <2>2 DEF Y, b, q
<1> QED
  BY <1>1, <1>10, <1>11, <1>12 DEF Mean

\* Taken in the order of their x, each of which the work before it covers.
LEMMA MeanOfAll ==
    ASSUME NEW I \in SUBSET Nat, IsFiniteSet(I), NEW K \in Nat \ {0}, NEW S \in Nat,
           NEW x, NEW c, NEW g,
           \A j \in I : x[j] \in Nat /\ c[j] \in Nat /\ g[j] \in Nat,
           \A j \in I : g[j] * x[j] = K * c[j],
           \A j \in I : x[j] <= S + SumFunctionOnSet(ArrivedBefore(I, x, c, j), I)
    PROVE  Mean(I, K, S, c, g)
<1> DEFINE Covered(A) == \A j \in A : x[j] <= S + SumFunctionOnSet(ArrivedBefore(I, x, c, j), A)
           T == {A \in SUBSET I : Covered(A) => Mean(A, K, S, c, g)}
<1>1. \A j \in I : \A i \in I : ArrivedBefore(I, x, c, j)[i] = IF x[i] < x[j] THEN c[i] ELSE 0
  BY DEF ArrivedBefore
<1>2. \A j \in I : \A i \in I : ArrivedBefore(I, x, c, j)[i] \in Nat /\ ArrivedBefore(I, x, c, j)[i] <= c[i]
  BY <1>1
<1>3. ASSUME NEW A \in SUBSET I, \A j \in A : A \ {j} \in T PROVE A \in T
  <2>1. IsFiniteSet(A) /\ A \subseteq Nat
    BY FS_Subset
  <2>2. CASE A = {}
    <3>1. /\ Cardinality(A) = 0 /\ SumFunctionOnSet(c, A) = 0 /\ SumFunctionOnSet(g, A) = 0
      BY <2>2, FS_EmptySet, SumEmpty
    <3>2. power(0, 0) = 1 /\ power(K, 0) = 1
      BY PowerIs
    <3>3. 0 * K + 0 = 0
      OBVIOUS
    <3>4. Mean(A, K, S, c, g)
      BY <3>1, <3>2, <3>3 DEF Mean
    <3> QED
      BY <3>4
  <2>3. CASE A # {}
    <3> SUFFICES ASSUME Covered(A) PROVE Mean(A, K, S, c, g)
      OBVIOUS
    <3>1. \A i \in A : x[i] \in Nat
      OBVIOUS
    <3>2. PICK j \in A : Best(A, x) = {j}
      BY <2>1, <2>3, <3>1, BestExists
    <3>3. \A i \in A : x[i] <= x[j]
      <4>1. j \in Best(A, x)
        BY <3>2
      <4> QED
        BY <3>1, <4>1 DEF Best
    <3> DEFINE R == A \ {j}
    <3>4. IsFiniteSet(R)
      BY <2>1, FS_Subset
    <3>5. ASSUME NEW k \in A
          PROVE  SumFunctionOnSet(ArrivedBefore(I, x, c, k), A) = SumFunctionOnSet(ArrivedBefore(I, x, c, k), R)
      <4> DEFINE f == ArrivedBefore(I, x, c, k)
      <4>1. f[j] = 0
        BY <1>1, <3>1, <3>3
      <4>2. \A i \in A : f[i] \in Int
        BY <1>2
      <4>3. \A i \in R : f[i] \in Int
        BY <4>2
      <4> HIDE DEF f
      <4>4. SumFunctionOnSet(f, A) = f[j] + SumFunctionOnSet(f, R)
        BY <2>1, <4>2, SumTakesAny
      <4>5. SumFunctionOnSet(f, R) \in Int
        <5> HIDE DEF R
        <5> QED
          BY <3>4, <4>3, SumTyped
      <4>6. SumFunctionOnSet(f, A) = SumFunctionOnSet(f, R)
        BY <4>1, <4>4, <4>5
      <4> QED
        BY <4>6 DEF f
    <3>6. Covered(R)
      BY <3>5
    <3>7. R \in T
      BY <1>3
    <3>8. Mean(R, K, S, c, g)
      BY <3>6, <3>7
    <3>9. x[j] <= S + SumFunctionOnSet(c, R)
      <4> DEFINE f == ArrivedBefore(I, x, c, j)
      <4>1. \A i \in R : f[i] \in Int /\ c[i] \in Int /\ f[i] <= c[i]
        BY <1>2
      <4>2. x[j] <= S + SumFunctionOnSet(f, R)
        BY <3>5
      <4> HIDE DEF f, R
      <4>3. SumFunctionOnSet(f, R) <= SumFunctionOnSet(c, R)
        BY <3>4, <4>1, SumAtLeast
      <4>4. \A i \in R : f[i] \in Int
        BY <4>1
      <4>5. \A i \in R : c[i] \in Int
        BY <4>1
      <4>6. SumFunctionOnSet(f, R) \in Int
        BY <3>4, <4>4, SumTyped
      <4>7. SumFunctionOnSet(c, R) \in Int
        BY <3>4, <4>5, SumTyped
      <4>8. x[j] \in Int
        BY <3>1
      <4> QED
        BY <4>2, <4>3, <4>6, <4>7, <4>8
    <3>10. /\ \A i \in A : c[i] \in Nat /\ g[i] \in Nat
           /\ x[j] \in Nat /\ g[j] * x[j] = K * c[j]
      OBVIOUS
    <3> QED
      BY <2>1, <3>8, <3>9, <3>10, MeanGrows
  <2> QED
    BY <2>2, <2>3
<1>4. SUBSET I \subseteq T
  <2> HIDE DEF T
  <2> QED
    BY <1>3, SubsetInduction
<1>5. I \in T
  BY <1>4
<1> QED
  BY <1>5

\* With a last number that the value so far exceeds: twice the power of the
\* whole is less than the power of what was asked for.
LEMMA MeanExceeds ==
    ASSUME NEW I \in SUBSET Nat, IsFiniteSet(I), NEW K \in Nat \ {0}, NEW B \in Nat \ {0}, NEW D \in Nat,
           NEW x, NEW c, NEW g, NEW b \in Nat \ {0},
           \A j \in I : x[j] \in Nat /\ c[j] \in Nat /\ g[j] \in Nat,
           \A j \in I : g[j] * x[j] = K * c[j],
           \A j \in I : x[j] <= B + SumFunctionOnSet(c, I) + SumFunctionOnSet(ArrivedBefore(I, x, c, j), I),
           b * D = K * B,
           D < B + SumFunctionOnSet(c, I) + SumFunctionOnSet(c, I)
    PROVE  LET n == Cardinality(I) + 1
           IN  2 * power(n * K, n) < power(n * K + SumFunctionOnSet(g, I) + b, n)
<1> DEFINE m == Cardinality(I)
           C == SumFunctionOnSet(c, I)
           G == SumFunctionOnSet(g, I)
           S == B + C
           a == S + C
           Y == m * K + G
           e == K + b
           n == m + 1
<1>1. m \in Nat /\ C \in Nat /\ G \in Nat
  <2>1. \A i \in I : c[i] \in Nat
    OBVIOUS
  <2>2. \A i \in I : g[i] \in Nat
    OBVIOUS
  <2> QED
    BY <2>1, <2>2, SumNatural, FS_CardinalityType
<1>2. S \in Nat \ {0}
  BY <1>1
<1>3. Mean(I, K, S, c, g)
  <2>1. \A j \in I : x[j] <= S + SumFunctionOnSet(ArrivedBefore(I, x, c, j), I)
    OBVIOUS
  <2> HIDE DEF S
  <2> QED
    BY <1>2, <2>1, MeanOfAll
<1>4. power(m, m) * (power(K, m) * a) <= S * power(Y, m)
  BY <1>3 DEF Mean
<1>5. D < a
  OBVIOUS
<1>6. Y + e = n * K + G + b
  <2>1. (m + 1) * K = m * K + K /\ m * K \in Nat
    BY <1>1
  <2> HIDE DEF m, G
  <2> QED
    BY <1>1, <2>1
<1>7. a + B = 2 * S
  BY <1>1
<1> HIDE DEF m, C, G
<1>8. a \in Nat /\ Y \in Nat /\ e \in Nat /\ n \in Nat /\ 2 * S \in Nat
  <2>1. m * K \in Nat
    BY <1>1
  <2> QED
    BY <1>1, <1>2, <2>1
<1> HIDE DEF S, a, Y, n
<1>9. K * (2 * S) < e * a
  <2>1. K * (2 * S) = K * a + K * B
    <3>1. K * (a + B) = K * a + K * B
      BY <1>8
    <3> QED
      BY <1>7, <3>1
  <2>2. e * a = K * a + b * a
    BY <1>8
  <2>3. b * D < b * a
    BY <1>5, <1>8
  <2>4. K * a \in Nat /\ K * B \in Nat /\ b * D \in Nat /\ b * a \in Nat
    BY <1>8
  <2> QED
    BY <2>1, <2>2, <2>3, <2>4
<1>10. power(n, n) * (power(K, n) * (2 * S)) < S * power(Y + e, n)
  <2> DEFINE s == 2 * S
  <2> HIDE DEF e, s
  <2>1. K * s <= e * a /\ K * s < e * a
    <3>1. K * s \in Int /\ e * a \in Int
      BY <1>8 DEF s
    <3> QED
      BY <1>9, <3>1 DEF s
  <2>2. s \in Nat /\ S \in Nat
    BY <1>2, <1>8 DEF s
  <2>3. power(m + 1, m + 1) * (power(K, m + 1) * s) < S * power(Y + e, m + 1)
    BY <1>1, <1>4, <1>8, <2>1, <2>2, MeanStep
  <2> QED
    BY <2>3 DEF n, s
<1> DEFINE N == power(n, n)
           k == power(K, n)
           z == power(Y + e, n)
<1>11. power(n * K, n) = N * k
  BY <1>8, PowerLaws
<1>12. N \in Nat /\ k \in Nat /\ z \in Nat
  <2>1. Y + e \in Nat
    BY <1>8
  <2> HIDE DEF e
  <2> QED
    BY <1>8, <2>1, PowerIs
<1>13. N * (k * (2 * S)) < S * z
  BY <1>10
<1> HIDE DEF N, k, z
<1>14. 2 * (N * k) < z
  <2> DEFINE u == 2 * (N * k)
  <2>1. N * (k * (2 * S)) = u * S /\ S * z = z * S
    BY <1>2, <1>12
  <2>2. u \in Nat
    BY <1>12
  <2> HIDE DEF u
  <2>3. u < z
    BY <1>2, <1>12, <1>13, <2>1, <2>2, ProductOrder
  <2> QED
    BY <2>3 DEF u
<1>15. 2 * power(n * K, n) < power(n * K + G + b, n)
  BY <1>6, <1>11, <1>14 DEF z
<1> QED
  BY <1>15 DEF n, m, G

-----------------------------------------------------------------------------
(***************************************************************************)
(* The least favourable period of a task t: how often the more urgent ones *)
(* fit into it whole, when each arrives for the last time, and what its    *)
(* last job and the earlier ones ask for.                                  *)
(***************************************************************************)
Others(ts, t) == Periodic(ts) \ {t}

Wholes(ts, t) == [o \in Others(ts, t) |-> ts.period[t] \div ts.period[o]]

LastArrival(ts, t) ==
    [o \in Others(ts, t) |-> IF o \in interferers(ts, t) THEN Wholes(ts, t)[o] * ts.period[o]
                             ELSE ts.period[t]]

LastJob(ts, t) == [o \in Others(ts, t) |-> IF o \in interferers(ts, t) THEN ts.wcet[o] ELSE 0]

EarlierJobs(ts, t) ==
    [o \in Others(ts, t) |-> IF o \in interferers(ts, t)
                             THEN (Wholes(ts, t)[o] - 1) * ts.wcet[o] ELSE 0]

\* More urgent tasks have no longer periods.
ShortFirst(ts, t) == \A o \in interferers(ts, t) : ts.period[o] <= ts.period[t]

LEMMA OthersTyped ==
    ASSUME NEW ts \in TaskSet, NEW t \in Periodic(ts)
    PROVE  /\ Others(ts, t) \in SUBSET Nat /\ IsFiniteSet(Others(ts, t))
           /\ interferers(ts, t) \in SUBSET Others(ts, t)
           /\ Cardinality(Periodic(ts)) = Cardinality(Others(ts, t)) + 1
           /\ ts.period[t] \in Nat \ {0} /\ ts.wcet[t] \in Nat \ {0}
<1>1. t \in Tasks /\ Periodic(ts) \subseteq Tasks /\ IsFiniteSet(Periodic(ts))
  BY PeriodicTyped
<1>2. Tasks \subseteq Nat
  BY TasksAssumption
<1>3. t \notin interferers(ts, t)
  <2>1. ts.base_priority[t] \in Nat
    BY <1>1 DEF TaskSet
  <2> QED
    BY <2>1 DEF interferers
<1>4. IsFiniteSet(Others(ts, t)) /\ Cardinality(Others(ts, t)) = Cardinality(Periodic(ts)) - 1
  BY <1>1, FS_RemoveElement DEF Others
<1>5. Cardinality(Periodic(ts)) \in Nat
  BY <1>1, FS_CardinalityType
<1>6. interferers(ts, t) \in SUBSET Others(ts, t) /\ Others(ts, t) \in SUBSET Nat
  <2>1. interferers(ts, t) \subseteq Periodic(ts)
    BY PeriodicTyped
  <2> QED
    BY <1>1, <1>2, <1>3, <2>1 DEF Others
<1>7. Cardinality(Periodic(ts)) = Cardinality(Others(ts, t)) + 1
  BY <1>4, <1>5
<1> QED
  BY <1>4, <1>6, <1>7, PeriodicTyped

\* The more urgent tasks fit in at least once, and arrive for the last time
\* within the period of t.
LEMMA WholeFits ==
    ASSUME NEW ts \in TaskSet, NEW t \in Periodic(ts), ShortFirst(ts, t), NEW o \in interferers(ts, t)
    PROVE  LET F == Wholes(ts, t)[o]
               T == ts.period[o]
           IN  /\ F \in Nat \ {0} /\ T \in Nat \ {0} /\ ts.wcet[o] \in Nat
               /\ F * T \in Nat \ {0} /\ F * T <= ts.period[t] /\ ts.period[t] < (F + 1) * T
               /\ LastArrival(ts, t)[o] = F * T
               /\ LastJob(ts, t)[o] = ts.wcet[o]
               /\ EarlierJobs(ts, t)[o] = (F - 1) * ts.wcet[o]
<1> DEFINE F == Wholes(ts, t)[o]
           T == ts.period[o]
           D == ts.period[t]
           C == ts.wcet[o]
<1>1. o \in Others(ts, t) /\ o \in Periodic(ts) /\ D \in Nat \ {0}
  BY OthersTyped, PeriodicTyped
<1>2. T \in Nat \ {0} /\ C \in Nat /\ T <= D
  BY <1>1, PeriodicTyped DEF ShortFirst
<1>3. F = D \div T
  BY <1>1 DEF Wholes
<1>4. /\ LastArrival(ts, t)[o] = F * T
      /\ LastJob(ts, t)[o] = C
      /\ EarlierJobs(ts, t)[o] = (F - 1) * C
  BY <1>1 DEF LastArrival, LastJob, EarlierJobs
<1> HIDE DEF F, T, D, C
<1>5. F \in Nat /\ F * T <= D /\ D < (F + 1) * T
  BY <1>1, <1>2, <1>3, Division
<1>6. F # 0
  <2> SUFFICES ASSUME F = 0 PROVE FALSE
    OBVIOUS
  <2>1. (F + 1) * T = T
    BY <1>2
  <2> QED
    BY <1>1, <1>2, <1>5, <2>1
<1>7. F * T \in Nat \ {0}
  BY <1>2, <1>5, <1>6
<1> QED
  BY <1>2, <1>4, <1>5, <1>6, <1>7 DEF F, T, D, C

LEMMA LastTyped ==
    ASSUME NEW ts \in TaskSet, NEW t \in Periodic(ts), ShortFirst(ts, t), NEW o \in Others(ts, t)
    PROVE  /\ LastArrival(ts, t)[o] \in Nat \ {0} /\ LastArrival(ts, t)[o] <= ts.period[t]
           /\ LastJob(ts, t)[o] \in Nat
           /\ EarlierJobs(ts, t)[o] \in Nat
<1>1. CASE o \in interferers(ts, t)
  <2> DEFINE F == Wholes(ts, t)[o]
             C == ts.wcet[o]
  <2>1. F \in Nat \ {0} /\ C \in Nat /\ EarlierJobs(ts, t)[o] = (F - 1) * C
    BY <1>1, WholeFits
  <2> HIDE DEF F, C
  <2>2. F - 1 \in Nat
    BY <2>1
  <2>3. (F - 1) * C \in Nat
    BY <2>1, <2>2, ProductTwice
  <2> QED
    BY <1>1, <2>1, <2>3, WholeFits
<1>2. CASE o \notin interferers(ts, t)
  <2>1. /\ LastArrival(ts, t)[o] = ts.period[t] /\ LastJob(ts, t)[o] = 0
        /\ EarlierJobs(ts, t)[o] = 0
    BY <1>2 DEF LastArrival, LastJob, EarlierJobs
  <2> QED
    BY <2>1, OthersTyped
<1> QED
  BY <1>1, <1>2

\* Up to the deadline, a job of a more urgent task is either an earlier one or
\* the last, which counts once more if it arrives before the end of the window.
LEMMA DemandWithin ==
    ASSUME NEW ts \in TaskSet, NEW t \in Periodic(ts), ShortFirst(ts, t),
           NEW r \in Nat, r <= ts.period[t], NEW b,
           \A o \in Others(ts, t) :
              b[o] = IF LastArrival(ts, t)[o] < r THEN LastJob(ts, t)[o] ELSE 0
    PROVE  demand(ts, t, r) <= ts.wcet[t] + SumFunctionOnSet(EarlierJobs(ts, t), Others(ts, t))
                                + SumFunctionOnSet(LastJob(ts, t), Others(ts, t))
                                + SumFunctionOnSet(b, Others(ts, t))
<1> DEFINE P == Others(ts, t)
           I == interferers(ts, t)
           e == EarlierJobs(ts, t)
           c == LastJob(ts, t)
           work == [o \in Periodic(ts) |-> div_ceil(r, ts.period[o]) * ts.wcet[o]]
           h == [o \in P |-> IF o \in I THEN work[o] ELSE 0]
           u == [o \in P |-> e[o] + 1 * c[o]]
           v == [o \in P |-> u[o] + 1 * b[o]]
<1>1. P \in SUBSET Nat /\ IsFiniteSet(P) /\ I \in SUBSET P
  BY OthersTyped
<1>2. ASSUME NEW o \in P
      PROVE  e[o] \in Nat /\ c[o] \in Nat /\ b[o] \in Nat /\ u[o] \in Nat /\ v[o] \in Nat
  <2>1. e[o] \in Nat /\ c[o] \in Nat
    BY LastTyped
  <2>2. b[o] = c[o] \/ b[o] = 0
    OBVIOUS
  <2> QED
    BY <2>1, <2>2
<1>3. ASSUME NEW o \in I PROVE work[o] \in Nat /\ work[o] <= v[o]
  <2> DEFINE F == Wholes(ts, t)[o]
             T == ts.period[o]
             C == ts.wcet[o]
             k == div_ceil(r, T)
             x == LastArrival(ts, t)[o]
  <2>1. /\ F \in Nat \ {0} /\ T \in Nat \ {0} /\ C \in Nat
        /\ ts.period[t] < (F + 1) * T /\ x = F * T /\ x \in Nat
        /\ e[o] = (F - 1) * C /\ c[o] = C
    BY WholeFits
  <2>2. o \in P /\ o \in Periodic(ts)
    BY <1>1, PeriodicTyped
  <2>3. work[o] = k * C
    BY <2>2
  <2>4. b[o] = IF x < r THEN C ELSE 0
    BY <2>1, <2>2
  <2>5. v[o] = e[o] + C + b[o]
    BY <2>1, <2>2, <1>2
  <2>6. k \in Nat
    BY <2>1, CeilTyped
  <2>7. r <= (F + 1) * T
    <3>1. ts.period[t] \in Nat
      BY OthersTyped
    <3>2. (F + 1) * T \in Nat
      BY <2>1
    <3> HIDE DEF F, T
    <3> QED
      BY <2>1, <3>1, <3>2
  <2> HIDE DEF F, T, C, k, x, e, v, work
  <2>8. k <= F + 1 /\ (r <= F * T => k <= F)
    <3>1. F + 1 \in Nat
      BY <2>1
    <3> QED
      BY <2>1, <2>7, <3>1, CeilIsReached DEF k
  <2>9. (F - 1) * C + C = F * C /\ (F + 1) * C = F * C + C /\ F * C \in Nat /\ k * C \in Nat
    BY <2>1, <2>6
  <2>10. k * C <= (F + 1) * C /\ (k <= F => k * C <= F * C)
    BY <2>1, <2>6, <2>8, ProductOrder
  <2>11. CASE x < r
    BY <2>1, <2>3, <2>4, <2>5, <2>9, <2>10, <2>11
  <2>12. CASE ~(x < r)
    <3>1. k <= F
      BY <2>1, <2>8, <2>12
    <3> QED
      BY <2>1, <2>3, <2>4, <2>5, <2>9, <2>10, <2>12, <3>1
  <2> QED
    BY <2>11, <2>12
<1>4. \A o \in P : h[o] \in Int /\ v[o] \in Int /\ h[o] <= v[o]
  <2> SUFFICES ASSUME NEW o \in P PROVE h[o] \in Int /\ v[o] \in Int /\ h[o] <= v[o]
    OBVIOUS
  <2>1. h[o] = IF o \in I THEN work[o] ELSE 0
    OBVIOUS
  <2>2. v[o] \in Nat
    BY <1>2
  <2> HIDE DEF h, v, work
  <2> QED
    BY <1>3, <2>1, <2>2
<1>5. \A o \in P : u[o] = e[o] + 1 * c[o]
  OBVIOUS
<1>51. \A o \in P : v[o] = u[o] + 1 * b[o]
  OBVIOUS
<1>52. \A o \in P : h[o] = IF o \in I THEN work[o] ELSE 0
  OBVIOUS
<1>6. interference(ts, t, r) = SumFunctionOnSet(work, I)
  BY DEF interference
<1> HIDE DEF P, I, e, c, work, h, u, v
<1>7. SumFunctionOnSet(work, I) = SumFunctionOnSet(h, P)
  <2>1. \A o \in I : work[o] \in Int
    BY <1>3
  <2>2. IsFiniteSet(P)
    BY <1>1
  <2>3. I \in SUBSET P
    BY <1>1
  <2> QED
    BY <1>52, <2>1, <2>2, <2>3, SumWithin
<1>8. SumFunctionOnSet(h, P) <= SumFunctionOnSet(v, P)
  BY <1>1, <1>4, SumAtLeast
<1>9. SumFunctionOnSet(v, P) = SumFunctionOnSet(u, P) + 1 * SumFunctionOnSet(b, P)
  <2>1. \A o \in P : u[o] \in Int /\ b[o] \in Int
    BY <1>2
  <2>2. 1 \in Int
    OBVIOUS
  <2> QED
    BY <1>1, <1>51, <2>1, <2>2, SumLinear
<1>10. SumFunctionOnSet(u, P) = SumFunctionOnSet(e, P) + 1 * SumFunctionOnSet(c, P)
  <2>1. \A o \in P : e[o] \in Int /\ c[o] \in Int
    BY <1>2
  <2>2. 1 \in Int
    OBVIOUS
  <2> QED
    BY <1>1, <1>5, <2>1, <2>2, SumLinear
<1>11. /\ SumFunctionOnSet(e, P) \in Nat /\ SumFunctionOnSet(c, P) \in Nat
       /\ SumFunctionOnSet(b, P) \in Nat /\ SumFunctionOnSet(h, P) \in Int
  <2>1. \A o \in P : e[o] \in Nat
    BY <1>2
  <2>2. \A o \in P : c[o] \in Nat
    BY <1>2
  <2>3. \A o \in P : b[o] \in Nat
    BY <1>2
  <2>4. \A o \in P : h[o] \in Int
    BY <1>4
  <2> QED
    BY <1>1, <2>1, <2>2, <2>3, <2>4, SumNatural, SumTyped
<1>12. ts.wcet[t] \in Nat
  BY OthersTyped
<1>13. demand(ts, t, r) <= ts.wcet[t] + SumFunctionOnSet(e, P) + SumFunctionOnSet(c, P)
                            + SumFunctionOnSet(b, P)
  BY <1>6, <1>7, <1>8, <1>9, <1>10, <1>11, <1>12 DEF demand
<1> QED
  BY <1>13 DEF P, e, c

LEMMA QuotientOfMultiple ==
    ASSUME NEW T \in Nat \ {0}, NEW d \in Nat, Divides(T, d)
    PROVE  d \div T \in Nat /\ d = (d \div T) * T
<1>1. PICK q \in Nat : d = q * T
  BY DEF Divides
<1> DEFINE m == d \div T
<1>2. m \in Nat /\ m * T <= d /\ d < (m + 1) * T
  BY Division
<1> HIDE DEF m
<1>3. m * T \in Int /\ q * T \in Int /\ (q + 1) * T = q * T + T /\ (m + 1) * T \in Int
  BY <1>2
<1>4. m * T < (q + 1) * T /\ q * T < (m + 1) * T
  BY <1>1, <1>2, <1>3
<1>5. m < q + 1 /\ q < m + 1
  BY <1>2, <1>4, ProductOrder
<1>6. m = q
  BY <1>2, <1>5
<1> QED
  BY <1>1, <1>2, <1>6 DEF m

\* Common factors that are not 0 cancel.
LEMMA Cancels ==
    ASSUME NEW a \in Nat, NEW b \in Nat, NEW c \in Nat \ {0}
    PROVE  /\ a * c = b * c => a = b
           /\ a * c <= b * c => a <= b
OBVIOUS

\* A common multiple K of the stretch and of the last arrivals: what the tasks
\* ask for in it is at least the last jobs, each at the rate of its arrival, and
\* the rest of the least favourable period at the rate of t.
LEMMA WorkCovers ==
    ASSUME NEW ts \in TaskSet, NEW t \in Periodic(ts), ShortFirst(ts, t),
           NEW d \in Nat, \A o \in Periodic(ts) : Divides(ts.period[o], d),
           NEW L \in Nat, NEW q, NEW p \in Nat,
           \A o \in Others(ts, t) : q[o] \in Nat /\ q[o] * LastArrival(ts, t)[o] = d * L,
           p * ts.period[t] = d * L,
           NEW g, \A o \in Others(ts, t) : g[o] = q[o] * LastJob(ts, t)[o]
    PROVE  /\ DemandIn(ts, d) \in Nat
           /\ SumFunctionOnSet(g, Others(ts, t))
                + p * (ts.wcet[t] + SumFunctionOnSet(EarlierJobs(ts, t), Others(ts, t)))
                   <= L * DemandIn(ts, d)
<1> DEFINE P == Others(ts, t)
           I == interferers(ts, t)
           A == Periodic(ts)
           e == EarlierJobs(ts, t)
           c == LastJob(ts, t)
           w == [o \in A |-> ts.wcet[o] * (d \div ts.period[o])]
           zero == [o \in P |-> 0]
           y == [o \in P |-> g[o] + p * e[o]]
           z == [o \in P |-> zero[o] + L * w[o]]
           D == ts.period[t]
<1>1. /\ P \in SUBSET Nat /\ IsFiniteSet(P) /\ I \in SUBSET P /\ P = A \ {t} /\ IsFiniteSet(A)
      /\ D \in Nat \ {0} /\ ts.wcet[t] \in Nat
  BY OthersTyped, PeriodicTyped DEF Others
<1>2. ASSUME NEW o \in A
      PROVE  /\ ts.period[o] \in Nat \ {0} /\ ts.wcet[o] \in Nat
             /\ d \div ts.period[o] \in Nat /\ d = (d \div ts.period[o]) * ts.period[o]
             /\ w[o] = ts.wcet[o] * (d \div ts.period[o]) /\ w[o] \in Nat
  <2>1. ts.period[o] \in Nat \ {0} /\ ts.wcet[o] \in Nat
    BY PeriodicTyped
  <2> DEFINE m == d \div ts.period[o]
  <2>2. m \in Nat /\ d = m * ts.period[o]
    BY <2>1, QuotientOfMultiple
  <2> HIDE DEF m
  <2>3. ts.wcet[o] * m \in Nat
    BY <2>1, <2>2
  <2> QED
    BY <2>1, <2>2, <2>3 DEF m
<1>3. ASSUME NEW o \in P
      PROVE  /\ e[o] \in Nat /\ c[o] \in Nat /\ q[o] \in Nat /\ g[o] \in Nat
             /\ y[o] \in Nat /\ z[o] \in Nat /\ z[o] = L * w[o] /\ w[o] \in Nat
             /\ y[o] = g[o] + p * e[o] /\ g[o] = q[o] * c[o]
  <2>1. e[o] \in Nat /\ c[o] \in Nat /\ q[o] \in Nat /\ g[o] = q[o] * c[o]
    BY LastTyped
  <2>2. w[o] \in Nat
    BY <1>1, <1>2
  <2>3. y[o] = g[o] + p * e[o] /\ z[o] = 0 + L * w[o]
    OBVIOUS
  <2> HIDE DEF e, c, w, y, z
  <2>4. q[o] * c[o] \in Nat /\ p * e[o] \in Nat /\ L * w[o] \in Nat
    BY <2>1, <2>2
  <2> QED
    BY <2>1, <2>2, <2>3, <2>4
<1>4. p * ts.wcet[t] = L * w[t]
  <2> DEFINE C == ts.wcet[t]
             m == d \div D
  <2>1. C \in Nat /\ m \in Nat /\ d = m * D /\ w[t] = C * m
    BY <1>2
  <2>2. p * D = d * L
    OBVIOUS
  <2> HIDE DEF C, m, D, w
  <2>3. d * L = (m * L) * D /\ m * L \in Nat
    BY <1>1, <2>1
  <2>4. p = m * L
    BY <1>1, <2>2, <2>3, Cancels
  <2> QED
    BY <2>1, <2>4 DEF C
<1>5. ASSUME NEW o \in P PROVE y[o] <= z[o]
  <2>1. CASE o \in I
    <3> DEFINE F == Wholes(ts, t)[o]
               T == ts.period[o]
               C == ts.wcet[o]
               x == LastArrival(ts, t)[o]
               m == d \div T
               s == q[o]
    <3>1. /\ F \in Nat \ {0} /\ T \in Nat \ {0} /\ C \in Nat
          /\ x = F * T /\ x \in Nat /\ x <= D
          /\ e[o] = (F - 1) * C /\ c[o] = C
      BY <2>1, WholeFits
    <3>2. m \in Nat /\ d = m * T /\ w[o] = C * m
      BY <1>1, <1>2
    <3>3. s \in Nat /\ s * x = d * L /\ p * D = d * L
      OBVIOUS
    <3>4. y[o] = s * C + p * ((F - 1) * C) /\ z[o] = L * (C * m)
      BY <1>3, <3>1, <3>2
    <3> HIDE DEF F, T, C, x, m, s, D, e, c, w, y, z
    <3>5. s * F = m * L
      <4>1. s * x = (s * F) * T /\ d * L = (m * L) * T /\ s * F \in Nat /\ m * L \in Nat
        BY <3>1, <3>2, <3>3
      <4> QED
        BY <3>1, <3>3, <4>1, Cancels
    <3>6. p <= s
      <4>1. s * x <= s * D
        BY <1>1, <3>1, <3>3
      <4>2. p * D <= s * D
        BY <3>3, <4>1
      <4> QED
        BY <1>1, <3>3, <4>2, Cancels
    <3>7. L * (C * m) = (s * F) * C
      BY <3>1, <3>2, <3>5
    <3>8. (s * F) * C = s * C + s * ((F - 1) * C)
      BY <3>1, <3>3
    <3>9. p * ((F - 1) * C) <= s * ((F - 1) * C)
      <4> DEFINE k == (F - 1) * C
      <4>1. k \in Nat
        <5>1. F - 1 \in Nat
          BY <3>1
        <5> QED
          BY <3>1, <5>1, ProductTwice
      <4> HIDE DEF k
      <4>2. p * k <= s * k
        BY <3>3, <3>6, <4>1, ProductOrder
      <4> QED
        BY <4>2 DEF k
    <3> DEFINE u == s * C
               v == p * ((F - 1) * C)
               n == s * ((F - 1) * C)
    <3>10. u \in Int /\ v \in Int /\ n \in Int
      BY <3>1, <3>3
    <3>11. y[o] = u + v /\ z[o] = u + n /\ v <= n
      BY <3>4, <3>7, <3>8, <3>9
    <3> HIDE DEF u, v, n
    <3> QED
      BY <3>10, <3>11
  <2>2. CASE o \notin I
    <3>1. e[o] = 0 /\ c[o] = 0
      BY <2>2 DEF EarlierJobs, LastJob
    <3>2. y[o] = g[o] + p * e[o] /\ g[o] = q[o] * c[o] /\ q[o] \in Nat /\ z[o] \in Nat
      BY <1>3
    <3> HIDE DEF y, z, e, c
    <3> QED
      BY <3>1, <3>2
  <2> QED
    BY <2>1, <2>2
<1>6. \A o \in P : y[o] = g[o] + p * e[o]
  OBVIOUS
<1>7. \A o \in P : z[o] = zero[o] + L * w[o]
  OBVIOUS
<1>8. \A o \in P : zero[o] = 0
  OBVIOUS
<1>9. DemandIn(ts, d) = SumFunctionOnSet(w, A)
  BY DEF DemandIn
<1> HIDE DEF P, I, A, e, c, w, zero, y, z
<1>10. SumFunctionOnSet(w, A) = w[t] + SumFunctionOnSet(w, P)
  <2>1. \A o \in A : w[o] \in Int
    BY <1>2
  <2>2. t \in A
    BY DEF A
  <2> QED
    BY <1>1, <2>1, <2>2, SumTakesAny
<1>11. SumFunctionOnSet(z, P) = L * SumFunctionOnSet(w, P)
  <2>1. \A o \in P : zero[o] \in Int /\ w[o] \in Int
    BY <1>3, <1>8
  <2>2. IsFiniteSet(P) /\ L \in Int
    BY <1>1
  <2>3. SumFunctionOnSet(z, P) = SumFunctionOnSet(zero, P) + L * SumFunctionOnSet(w, P)
    BY <1>7, <2>1, <2>2, SumLinear
  <2>4. SumFunctionOnSet(zero, P) = 0
    BY <1>8, <2>2, SumOfZeros
  <2>5. SumFunctionOnSet(w, P) \in Int
    <3>1. \A o \in P : w[o] \in Int
      BY <1>3
    <3> QED
      BY <2>2, <3>1, SumTyped
  <2> QED
    BY <2>2, <2>3, <2>4, <2>5
<1>12. SumFunctionOnSet(y, P) = SumFunctionOnSet(g, P) + p * SumFunctionOnSet(e, P)
  <2>1. \A o \in P : g[o] \in Int /\ e[o] \in Int
    BY <1>3
  <2>2. IsFiniteSet(P) /\ p \in Int
    BY <1>1
  <2> QED
    BY <1>6, <2>1, <2>2, SumLinear
<1>13. SumFunctionOnSet(y, P) <= SumFunctionOnSet(z, P)
  <2>1. \A o \in P : y[o] \in Int /\ z[o] \in Int /\ y[o] <= z[o]
    BY <1>3, <1>5
  <2> QED
    BY <1>1, <2>1, SumAtLeast
<1> DEFINE W == SumFunctionOnSet(w, P)
           G == SumFunctionOnSet(g, P)
           E == SumFunctionOnSet(e, P)
           C == ts.wcet[t]
           v == w[t]
<1>14. W \in Nat /\ G \in Nat /\ E \in Nat /\ v \in Nat /\ C \in Nat
  <2>1. \A o \in P : w[o] \in Nat
    BY <1>3
  <2>2. \A o \in P : g[o] \in Nat
    BY <1>3
  <2>3. \A o \in P : e[o] \in Nat
    BY <1>3
  <2>4. t \in A
    BY DEF A
  <2> QED
    BY <1>1, <1>2, <2>1, <2>2, <2>3, <2>4, SumNatural
<1>15. G + p * E <= L * W /\ p * C = L * v /\ DemandIn(ts, d) = v + W
  BY <1>4, <1>9, <1>10, <1>11, <1>12, <1>13
<1>16. G + p * (C + E) <= L * DemandIn(ts, d) /\ DemandIn(ts, d) \in Nat
  <2> HIDE DEF W, G, E, C, v
  <2>1. p * (C + E) = p * C + p * E /\ L * (v + W) = L * v + L * W
    BY <1>14
  <2>2. p * C \in Nat /\ p * E \in Nat /\ L * v \in Nat /\ L * W \in Nat
    BY <1>14
  <2> QED
    BY <1>14, <1>15, <2>1, <2>2
<1> QED
  BY <1>16 DEF P, e

\* The utilization bound of Liu and Layland is sufficient: the analysis gives a
\* response time to every task of a set within it, if the more urgent tasks
\* have no longer periods.
THEOREM BoundAdmits ==
    ASSUME NEW ts \in TaskSet, NEW t \in Periodic(ts), ShortFirst(ts, t), within_rm_bound(ts)
    PROVE  response_time(ts, t) # Never
<1> SUFFICES ASSUME response_time(ts, t) = Never PROVE FALSE
  OBVIOUS
<1> DEFINE P == Others(ts, t)
           A == Periodic(ts)
           x == LastArrival(ts, t)
           c == LastJob(ts, t)
           e == EarlierJobs(ts, t)
           D == ts.period[t]
           C == ts.wcet[t]
           d == FoldSet(lcm, 1, PeriodsOf(ts))
           X == {x[o] : o \in P} \union {D}
           L == FoldSet(lcm, 1, X)
           K == d * L
           q == [o \in P |-> CHOOSE k \in Nat : K = k * x[o]]
           g == [o \in P |-> q[o] * c[o]]
           B == C + SumFunctionOnSet(e, P)
           n == Cardinality(P) + 1
           work == DemandIn(ts, d)
<1>1. /\ P \in SUBSET Nat /\ IsFiniteSet(P) /\ Cardinality(A) = n
      /\ D \in Nat \ {0} /\ C \in Nat \ {0} /\ IsFiniteSet(A)
  BY OthersTyped, PeriodicTyped
<1>2. ASSUME NEW o \in P
      PROVE  x[o] \in Nat \ {0} /\ x[o] <= D /\ c[o] \in Nat /\ e[o] \in Nat
  BY LastTyped
<1>3. \A r \in Nat : r <= D => r < demand(ts, t, r)
  BY ResponseTimeIsLeast
<1>4. SumFunctionOnSet(c, P) \in Nat /\ SumFunctionOnSet(e, P) \in Nat
  <2>1. \A o \in P : c[o] \in Nat
    BY <1>2
  <2>2. \A o \in P : e[o] \in Nat
    BY <1>2
  <2> HIDE DEF P, c, e
  <2> QED
    BY <1>1, <2>1, <2>2, SumNatural
<1>5. B \in Nat \ {0}
  BY <1>1, <1>4
<1>6. ASSUME NEW j \in P
      PROVE  x[j] <= B + SumFunctionOnSet(c, P) + SumFunctionOnSet(ArrivedBefore(P, x, c, j), P)
  <2> DEFINE b == ArrivedBefore(P, x, c, j)
  <2>1. \A o \in P : b[o] = IF x[o] < x[j] THEN c[o] ELSE 0
    BY DEF ArrivedBefore
  <2>2. x[j] \in Nat /\ x[j] <= D
    BY <1>2
  <2> HIDE DEF b
  <2>3. demand(ts, t, x[j]) <= C + SumFunctionOnSet(e, P) + SumFunctionOnSet(c, P)
                                + SumFunctionOnSet(b, P)
    BY <2>1, <2>2, DemandWithin
  <2>4. demand(ts, t, x[j]) \in Nat /\ x[j] < demand(ts, t, x[j])
    BY <1>3, <2>2, DemandTyped, PeriodicTyped
  <2>5. SumFunctionOnSet(b, P) \in Nat
    <3>1. \A o \in P : b[o] \in Nat
      BY <1>2, <2>1
    <3> HIDE DEF P
    <3> QED
      BY <1>1, <3>1, SumNatural
  <2>6. x[j] <= B + SumFunctionOnSet(c, P) + SumFunctionOnSet(b, P)
    BY <1>1, <1>4, <2>2, <2>3, <2>4, <2>5
  <2> QED
    BY <2>6 DEF b
<1>7. D < B + SumFunctionOnSet(c, P) + SumFunctionOnSet(c, P)
  <2> DEFINE b == [o \in P |-> IF x[o] < D THEN c[o] ELSE 0]
  <2>1. \A o \in P : b[o] = IF x[o] < D THEN c[o] ELSE 0
    OBVIOUS
  <2> HIDE DEF b
  <2>2. demand(ts, t, D) <= C + SumFunctionOnSet(e, P) + SumFunctionOnSet(c, P)
                             + SumFunctionOnSet(b, P)
    BY <1>1, <2>1, DemandWithin
  <2>3. demand(ts, t, D) \in Nat /\ D < demand(ts, t, D)
    BY <1>1, <1>3, DemandTyped, PeriodicTyped
  <2>4. \A o \in P : b[o] \in Int /\ c[o] \in Int /\ b[o] <= c[o]
    BY <1>2, <2>1
  <2>5. SumFunctionOnSet(b, P) <= SumFunctionOnSet(c, P) /\ SumFunctionOnSet(b, P) \in Int
    <3>1. \A o \in P : b[o] \in Int
      BY <2>4
    <3> HIDE DEF P, c
    <3> QED
      BY <1>1, <2>4, <3>1, SumAtLeast, SumTyped
  <2> QED
    BY <1>1, <1>4, <2>2, <2>3, <2>5
<1>8. d \in Nat \ {0} /\ \A o \in A : Divides(ts.period[o], d)
  <2> DEFINE S == PeriodsOf(ts)
  <2>1. S \in SUBSET (Nat \ {0}) /\ \A o \in A : ts.period[o] \in S
    BY PeriodicTyped DEF PeriodsOf
  <2>2. IsFiniteSet(S)
    <3> DEFINE f == [u \in A |-> ts.period[u]]
    <3>1. f \in Surjection(A, S)
      BY DEF Surjection, PeriodsOf
    <3> HIDE DEF f, S, A
    <3> QED
      BY <1>1, <3>1, FS_Surjection
  <2> HIDE DEF S
  <2>3. FoldSet(lcm, 1, S) \in Nat \ {0} /\ \A y \in S : Divides(y, FoldSet(lcm, 1, S))
    BY <2>1, <2>2, FoldMultiple
  <2> QED
    BY <2>1, <2>3 DEF S
<1>9. L \in Nat \ {0} /\ Divides(D, L) /\ \A o \in P : Divides(x[o], L)
  <2>1. X \in SUBSET (Nat \ {0}) /\ D \in X /\ \A o \in P : x[o] \in X
    BY <1>1, <1>2
  <2>2. IsFiniteSet(X)
    <3> DEFINE Y == {x[o] : o \in P}
               f == [o \in P |-> x[o]]
    <3>1. f \in Surjection(P, Y)
      BY DEF Surjection
    <3>2. IsFiniteSet(Y)
      <4> HIDE DEF f, Y, P
      <4> QED
        BY <1>1, <3>1, FS_Surjection
    <3>3. X = Y \union {D}
      OBVIOUS
    <3> HIDE DEF Y, X
    <3> QED
      BY <3>2, <3>3, FS_AddElement
  <2> HIDE DEF X
  <2> QED
    BY <2>1, <2>2, FoldMultiple
<1> HIDE DEF P, A, x, c, e, D, C, d, X, L, work
<1>10. K \in Nat \ {0}
  BY <1>8, <1>9
<1>11. PICK p \in Nat : K = p * D
  <2>1. Divides(D, K)
    BY <1>1, <1>8, <1>9, DividesMultiple
  <2> QED
    BY <2>1 DEF Divides
<1>12. ASSUME NEW o \in P PROVE q[o] \in Nat /\ q[o] * x[o] = K /\ g[o] = q[o] * c[o] /\ g[o] \in Nat
  <2>1. Divides(x[o], K)
    BY <1>2, <1>8, <1>9, DividesMultiple
  <2>2. \E k \in Nat : K = k * x[o]
    BY <2>1 DEF Divides
  <2> HIDE DEF K
  <2>3. q[o] \in Nat /\ K = q[o] * x[o]
    BY <2>2
  <2>4. g[o] = q[o] * c[o]
    OBVIOUS
  <2> HIDE DEF q, g
  <2> QED
    BY <1>2, <2>3, <2>4, ProductTwice
<1> HIDE DEF q, g
<1>13. p # 0 /\ p * B \in Nat \ {0}
  <2>1. p # 0
    BY <1>1, <1>10, <1>11
  <2> HIDE DEF B
  <2> QED
    BY <1>5, <1>11, <2>1
<1>14. work \in Nat /\ SumFunctionOnSet(g, P) + p * B <= L * work
  <2>1. \A o \in P : q[o] \in Nat /\ q[o] * x[o] = d * L
    BY <1>12
  <2>2. \A o \in P : g[o] = q[o] * c[o]
    BY <1>12
  <2>3. p * D = d * L
    BY <1>11
  <2>4. d \in Nat /\ L \in Nat /\ p \in Nat
    BY <1>8, <1>9
  <2> QED
    BY <1>8, <2>1, <2>2, <2>3, <2>4, WorkCovers DEF work, P, x, c, e, D, C, A
<1>15. n \in Nat \ {0}
  BY <1>1, FS_CardinalityType
<1> HIDE DEF B
<1>16. 2 * power(n * K, n) < power(n * K + SumFunctionOnSet(g, P) + p * B, n)
  <2> DEFINE b == p * B
  <2>1. b \in Nat \ {0} /\ b * D = K * B
    <3>1. (p * B) * D = (p * D) * B
      BY <1>1, <1>5, <1>11
    <3> QED
      BY <1>11, <1>13, <3>1
  <2>2. \A j \in P : x[j] \in Nat /\ c[j] \in Nat /\ g[j] \in Nat
    BY <1>2, <1>12
  <2>3. \A j \in P : g[j] * x[j] = K * c[j]
    <3> SUFFICES ASSUME NEW j \in P PROVE g[j] * x[j] = K * c[j]
      OBVIOUS
    <3>1. q[j] \in Nat /\ x[j] \in Nat /\ c[j] \in Nat /\ K \in Nat
      BY <1>2, <1>10, <1>12
    <3>2. g[j] = q[j] * c[j] /\ K = q[j] * x[j]
      BY <1>12
    <3>3. (q[j] * c[j]) * x[j] = (q[j] * x[j]) * c[j]
      BY <3>1
    <3> QED
      BY <3>2, <3>3
  <2> HIDE DEF b, K, n
  <2>4. \A j \in P : x[j] <= B + SumFunctionOnSet(c, P) + SumFunctionOnSet(ArrivedBefore(P, x, c, j), P)
    BY <1>6
  <2>5. D \in Nat
    BY <1>1
  <2>6. 2 * power((Cardinality(P) + 1) * K, Cardinality(P) + 1)
           < power((Cardinality(P) + 1) * K + SumFunctionOnSet(g, P) + b, Cardinality(P) + 1)
    BY <1>1, <1>5, <1>7, <1>10, <2>1, <2>2, <2>3, <2>4, <2>5, MeanExceeds
  <2> QED
    BY <2>6 DEF n, b
<1> HIDE DEF n
<1> DEFINE G == SumFunctionOnSet(g, P)
           u == n * d
           v == n * d + work
           a == power(u, n)
           z == power(v, n)
           l == power(L, n)
<1>17. /\ u \in Nat /\ v \in Nat /\ u * L = n * K
       /\ G \in Nat /\ v * L \in Nat /\ n * K + G + p * B <= v * L /\ n * K + G + p * B \in Nat
  <2>1. u \in Nat /\ u * L \in Nat /\ u * L = n * K
    BY <1>8, <1>9, <1>15
  <2>2. v * L = u * L + L * work /\ L * work \in Nat
    BY <1>9, <1>14, <2>1
  <2>3. G \in Nat
    <3>1. \A o \in P : g[o] \in Nat
      BY <1>12
    <3> QED
      BY <1>1, <3>1, SumNatural
  <2> HIDE DEF G, K
  <2>4. v \in Nat /\ v * L \in Nat
    <3>1. v \in Nat
      BY <1>14, <2>1
    <3> HIDE DEF v
    <3> QED
      BY <1>9, <3>1
  <2> HIDE DEF u, v
  <2>5. G + p * B <= L * work
    BY <1>14 DEF G
  <2> QED
    BY <1>10, <1>13, <2>1, <2>2, <2>3, <2>4, <2>5
<1> HIDE DEF G, u, v, K
<1>18. a \in Nat /\ z \in Nat /\ l \in Nat \ {0}
  <2>1. u \in Nat /\ v \in Nat /\ L \in Nat /\ L # 0 /\ n \in Nat
    BY <1>9, <1>15, <1>17
  <2>2. power(u, n) \in Nat /\ power(v, n) \in Nat /\ power(L, n) \in Nat
    BY <2>1, PowerIs
  <2>3. power(L, n) > 0
    BY <2>1, PowerLaws
  <2> QED
    BY <2>2, <2>3
<1>19. power(u * L, n) = a * l /\ power(v * L, n) = z * l
  <2>1. u \in Nat /\ v \in Nat /\ L \in Nat /\ n \in Nat
    BY <1>9, <1>15, <1>17
  <2>2. power(u * L, n) = power(u, n) * power(L, n)
    BY <2>1, PowerLaws
  <2>3. power(v * L, n) = power(v, n) * power(L, n)
    BY <2>1, PowerLaws
  <2> QED
    BY <2>2, <2>3
<1>20. power(n * K + G + p * B, n) <= z * l
  <2> DEFINE s == n * K + G + p * B
             r == v * L
  <2>1. s \in Nat /\ r \in Nat /\ s <= r
    BY <1>17
  <2> HIDE DEF s, r
  <2>2. power(s, n) <= power(r, n)
    BY <1>15, <2>1, PowerLaws
  <2> QED
    BY <1>19, <2>2 DEF s, r
<1>21. 2 * (a * l) < z * l
  <2>1. 2 * power(n * K, n) < power(n * K + G + p * B, n)
    BY <1>16 DEF G
  <2>2. 2 * (a * l) < power(n * K + G + p * B, n)
    BY <1>17, <1>19, <2>1
  <2>3. power(n * K + G + p * B, n) \in Nat
    BY <1>15, <1>17, PowerIs
  <2> HIDE DEF a, z, l
  <2>4. a * l \in Nat /\ z * l \in Nat
    BY <1>18
  <2> QED
    BY <1>20, <2>2, <2>3, <2>4
<1>22. 2 * a < z
  <2> HIDE DEF a, z, l
  <2>1. 2 * (a * l) = (2 * a) * l /\ 2 * a \in Int
    BY <1>18
  <2>2. (2 * a) * l < z * l
    BY <1>21, <2>1
  <2> QED
    BY <1>18, <2>1, <2>2, ProductOrder
<1>23. power(n * d + work, n) <= 2 * power(n * d, n)
  <2>1. AtLeast(Cardinality(Periodic(ts)), 1) = n
    BY <1>1, <1>15 DEF AtLeast, A
  <2> QED
    BY <2>1 DEF within_rm_bound, d, work
<1>24. z <= 2 * a
  BY <1>23 DEF u, v
<1> QED
  <2> HIDE DEF a, z, l
  <2> QED
    BY <1>18, <1>22, <1>24
=============================================================================
