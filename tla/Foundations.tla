----------------------------- MODULE Foundations -----------------------------
(***************************************************************************)
(* What the proofs about several components rest on: induction over the    *)
(* natural numbers and over finite sets, with a set in the place of the    *)
(* predicate, and what a sum over a finite set is.                         *)
(***************************************************************************)
EXTENDS Functions, FiniteSetTheorems, WellFoundedInduction, TLAPS

-----------------------------------------------------------------------------
(* Induction.                                                              *)

Less == {p \in Nat \X Nat : p[1] < p[2]}

\* A non-empty set of natural numbers has a least element.
LEMMA LeastNat ==
    ASSUME NEW S, S \subseteq Nat, S # {}
    PROVE  \E m \in S : \A x \in S : m <= x
<1>1. IsWellFoundedOn(Less, Nat)
    BY NatLessThanWellFounded DEF OpToRel, Less
<1>2. PICK m \in S : \A x \in S : ~ (<<x, m>> \in Less)
    BY <1>1, WFMin
<1>3. \A x \in S : m <= x
  <2> TAKE x \in S
  <2>1. ~ x < m
      BY <1>2 DEF Less
  <2> QED
      BY <2>1
<1> QED
    BY <1>3

\* A non-empty set of natural numbers up to b has a greatest element.
LEMMA GreatestNat ==
    ASSUME NEW b \in Nat, NEW S, S \subseteq 0 .. b, S # {}
    PROVE  \E m \in S : \A x \in S : x <= m
<1> DEFINE D == {b - x : x \in S}
<1>1. D \subseteq Nat
  <2> SUFFICES ASSUME NEW x \in S PROVE b - x \in Nat
      OBVIOUS
  <2> QED
      OBVIOUS
<1>2. D # {}
    OBVIOUS
<1>3. PICK m \in D : \A d \in D : m <= d
  <2> HIDE DEF D
  <2> QED
    BY <1>1, <1>2, LeastNat
<1>4. PICK x \in S : m = b - x
    OBVIOUS
<1>5. \A y \in S : y <= x
  <2> TAKE y \in S
  <2>1. m <= b - y
      BY <1>3
  <2> QED
      BY <2>1, <1>4
<1> QED
    BY <1>5

\* A set of natural numbers with 0, and with the successor of each, has them all.
LEMMA AllNat ==
    ASSUME NEW G, 0 \in G, \A n \in Nat : n \in G => n + 1 \in G
    PROVE  Nat \subseteq G
<1> SUFFICES ASSUME Nat \ G # {} PROVE FALSE
    OBVIOUS
<1>1. PICK m \in Nat \ G : \A x \in Nat \ G : m <= x
    BY LeastNat
<1>2. m - 1 \in Nat /\ m - 1 \in G
    BY <1>1
<1> QED
    BY <1>1, <1>2

\* A set has every subset of a finite set S if it has a subset of S whenever it
\* has what is left of it without any of its elements.
LEMMA AllSubsets ==
    ASSUME NEW S, IsFiniteSet(S), NEW G,
           \A T \in SUBSET S : (\A x \in T : T \ {x} \in G) => T \in G
    PROVE  SUBSET S \subseteq G
<1> DEFINE Sizes == {n \in Nat : \A T \in SUBSET S : Cardinality(T) = n => T \in G}
<1>1. \A T \in SUBSET S : IsFiniteSet(T) /\ Cardinality(T) \in Nat
    BY FS_Subset, FS_CardinalityType
<1>2. 0 \in Sizes
  <2> SUFFICES ASSUME NEW T \in SUBSET S, Cardinality(T) = 0
               PROVE  T \in G
      OBVIOUS
  <2>1. T = {}
      BY <1>1, FS_EmptySet
  <2> QED
      BY <2>1
<1>3. ASSUME NEW n \in Nat, n \in Sizes
      PROVE  n + 1 \in Sizes
  <2> SUFFICES ASSUME NEW T \in SUBSET S, Cardinality(T) = n + 1
               PROVE  T \in G
      OBVIOUS
  <2>1. ASSUME NEW x \in T
        PROVE  T \ {x} \in G
    <3>1. T \ {x} \in SUBSET S /\ IsFiniteSet(T)
        BY <1>1
    <3>2. Cardinality(T \ {x}) = Cardinality(T) - 1
        BY <3>1, FS_RemoveElement
    <3>3. Cardinality(T \ {x}) = n
        BY <3>2
    <3> QED
        BY <1>3, <3>1, <3>3
  <2> QED
      BY <2>1
<1>4. Nat \subseteq Sizes
  <2> HIDE DEF Sizes
  <2> QED
    BY <1>2, <1>3, AllNat
<1> QED
    BY <1>1, <1>4

-----------------------------------------------------------------------------
(* Sums.  SumFunction(f) is a recursive function applied to the     *)
(* domain of f; SumTable says that h is this function.                     *)

Row(f, h, T) ==
    IF T = {} THEN 0 ELSE f[CHOOSE x \in T : TRUE] + h[T \ {CHOOSE x \in T : TRUE}]

SumTable(f, h) == h = [T \in SUBSET DOMAIN f |-> Row(f, h, T)]

\* There is such a function: the sums of the sets of n + 1 elements are made
\* from those of the sets of n.
LEMMA TableExists ==
    ASSUME NEW f, IsFiniteSet(DOMAIN f)
    PROVE  \E h : SumTable(f, h)
<1> DEFINE Upto(n) == {T \in SUBSET DOMAIN f : Cardinality(T) <= n}
           Done == {n \in Nat : \E h : h = [T \in Upto(n) |-> Row(f, h, T)]}
<1>1. \A T \in SUBSET DOMAIN f : IsFiniteSet(T) /\ Cardinality(T) \in Nat
    BY FS_Subset, FS_CardinalityType
<1>2. 0 \in Done
  <2> DEFINE k == [T \in Upto(0) |-> 0]
  <2>1. \A T \in Upto(0) : T = {}
      BY <1>1, FS_EmptySet
  <2>2. k = [T \in Upto(0) |-> Row(f, k, T)]
      BY <2>1 DEF Row
  <2> QED
      BY <2>2
<1>3. ASSUME NEW n \in Nat, n \in Done
      PROVE  n + 1 \in Done
  <2>1. PICK h : h = [T \in Upto(n) |-> Row(f, h, T)]
      BY <1>3
  <2> DEFINE k == [T \in Upto(n + 1) |-> Row(f, h, T)]
  <2>2. ASSUME NEW T \in Upto(n + 1)
        PROVE  Row(f, h, T) = Row(f, k, T)
    <3>1. CASE T = {}
        BY <3>1 DEF Row
    <3>2. CASE T # {}
      <4> DEFINE c == CHOOSE x \in T : TRUE
                 U == T \ {c}
      <4>1. c \in T
          BY <3>2
      <4>2. U \in SUBSET DOMAIN f /\ Cardinality(U) = Cardinality(T) - 1
        <5>1. IsFiniteSet(T)
            BY <1>1
        <5> HIDE DEF c
        <5> QED
          BY <4>1, <5>1, FS_RemoveElement
      <4>3. Cardinality(T) \in Nat /\ Cardinality(T) <= n + 1
          BY <1>1
      <4>4. U \in Upto(n) /\ U \in Upto(n + 1)
        <5> HIDE DEF U
        <5> QED
          BY <4>2, <4>3
      <4>5. h[U] = Row(f, h, U)
        <5> HIDE DEF U, Upto
        <5> QED
          BY <2>1, <4>4
      <4>6. k[U] = Row(f, h, U)
        <5> HIDE DEF U, Upto
        <5> QED
          BY <4>4
      <4>7. h[U] = k[U]
          BY <4>5, <4>6
      <4> HIDE DEF k
      <4> QED
          BY <3>2, <4>7 DEF Row
    <3> QED
        BY <3>1, <3>2
  <2>3. k = [T \in Upto(n + 1) |-> Row(f, k, T)]
    <3>1. [T \in Upto(n + 1) |-> Row(f, h, T)] = [T \in Upto(n + 1) |-> Row(f, k, T)]
      <4> HIDE DEF k, Upto
      <4> QED
        BY <2>2
    <3> QED
        BY <3>1
  <2> HIDE DEF k, Upto
  <2> QED
      BY <2>3
<1>4. Cardinality(DOMAIN f) \in Done
  <2>1. Nat \subseteq Done
    <3> HIDE DEF Done
    <3> QED
      BY <1>2, <1>3, AllNat
  <2> HIDE DEF Done
  <2> QED
    BY <1>1, <2>1
<1>5. Upto(Cardinality(DOMAIN f)) = SUBSET DOMAIN f
    BY FS_Subset
<1> QED
  <2> HIDE DEF Upto
  <2> QED
    BY <1>4, <1>5 DEF SumTable

LEMMA TotalInTable ==
    ASSUME NEW f, IsFiniteSet(DOMAIN f)
    PROVE  \E h : SumTable(f, h) /\ SumFunction(f) = h[DOMAIN f]
<1> DEFINE iter == CHOOSE h : SumTable(f, h)
<1>1. SumTable(f, iter)
    BY TableExists
<1>2. SumFunction(f) = iter[DOMAIN f]
    BY DEF SumFunction, SumFunctionOnSet, FoldFunctionOnSet, MapThenFoldSet, SumTable, Row
<1> QED
  <2> HIDE DEF iter
  <2> QED
    BY <1>1, <1>2

-----------------------------------------------------------------------------
(* What such a function says of the subsets.                               *)

LEMMA TableStep ==
    ASSUME NEW S, NEW f \in [S -> Int], NEW h, SumTable(f, h),
           NEW T \in SUBSET S, T # {}
    PROVE  \E c \in T : h[T] = f[c] + h[T \ {c}]
<1> DEFINE c == CHOOSE x \in T : TRUE
<1>1. c \in T
    OBVIOUS
<1>2. h[T] = f[c] + h[T \ {c}]
    BY DEF SumTable, Row
<1> QED
  <2> HIDE DEF c
  <2> QED
    BY <1>1, <1>2

LEMMA TableEmpty ==
    ASSUME NEW S, NEW f \in [S -> Int], NEW h, SumTable(f, h)
    PROVE  h[{}] = 0
    BY DEF SumTable, Row

LEMMA TableType ==
    ASSUME NEW S, IsFiniteSet(S), NEW f \in [S -> Int], NEW h, SumTable(f, h)
    PROVE  \A T \in SUBSET S : h[T] \in Int
<1> DEFINE G == {T \in SUBSET S : h[T] \in Int}
<1>1. ASSUME NEW T \in SUBSET S, \A x \in T : T \ {x} \in G
      PROVE  T \in G
  <2>1. CASE T = {}
      BY <2>1, TableEmpty
  <2>2. CASE T # {}
    <3>1. PICK c \in T : h[T] = f[c] + h[T \ {c}]
        BY <2>2, TableStep
    <3>2. f[c] \in Int /\ h[T \ {c}] \in Int
        BY <1>1
    <3> QED
        BY <3>1, <3>2
  <2> QED
      BY <2>1, <2>2
<1>2. SUBSET S \subseteq G
  <2> HIDE DEF G
  <2> QED
    BY <1>1, AllSubsets
<1> QED
    BY <1>2

\* It does not matter which element is taken first.
LEMMA TableSplit ==
    ASSUME NEW S, IsFiniteSet(S), NEW f \in [S -> Int], NEW h, SumTable(f, h)
    PROVE  \A T \in SUBSET S : \A x \in T : h[T] = f[x] + h[T \ {x}]
<1> DEFINE G == {T \in SUBSET S : \A x \in T : h[T] = f[x] + h[T \ {x}]}
<1>1. ASSUME NEW T \in SUBSET S, \A x \in T : T \ {x} \in G
      PROVE  T \in G
  <2> SUFFICES ASSUME NEW x \in T
               PROVE  h[T] = f[x] + h[T \ {x}]
      OBVIOUS
  <2>1. PICK c \in T : h[T] = f[c] + h[T \ {c}]
      BY TableStep
  <2>2. CASE x = c
      BY <2>1, <2>2
  <2>3. CASE x # c
    <3> DEFINE U == (T \ {c}) \ {x}
    <3>1. U = (T \ {x}) \ {c}
        OBVIOUS
    <3>2. h[T \ {c}] = f[x] + h[U]
        BY <1>1, <2>3
    <3>3. h[T \ {x}] = f[c] + h[U]
        BY <1>1, <2>3, <3>1
    <3>4. f[x] \in Int /\ f[c] \in Int /\ h[U] \in Int
        BY TableType
    <3> HIDE DEF U
    <3> QED
        BY <2>1, <3>2, <3>3, <3>4
  <2> QED
      BY <2>2, <2>3
<1>2. SUBSET S \subseteq G
  <2> HIDE DEF G
  <2> QED
    BY <1>1, AllSubsets
<1> QED
    BY <1>2

\* The sum over a subset does not depend on what is outside of it.
LEMMA TableAgree ==
    ASSUME NEW S, IsFiniteSet(S), NEW f \in [S -> Int], NEW h, SumTable(f, h),
           NEW R \in SUBSET S, NEW g \in [R -> Int], NEW k, SumTable(g, k),
           \A x \in R : g[x] = f[x]
    PROVE  h[R] = k[R]
<1> DEFINE G == {T \in SUBSET R : h[T] = k[T]}
<1>1. IsFiniteSet(R)
    BY FS_Subset
<1>2. ASSUME NEW T \in SUBSET R, \A x \in T : T \ {x} \in G
      PROVE  T \in G
  <2>1. CASE T = {}
    <3>1. h[{}] = 0 /\ k[{}] = 0
        BY TableEmpty
    <3> QED
        BY <2>1, <3>1
  <2>2. CASE T # {}
    <3>1. PICK c \in T : k[T] = g[c] + k[T \ {c}]
        BY <2>2, TableStep
    <3>2. h[T] = f[c] + h[T \ {c}]
      <4>1. T \in SUBSET S
          OBVIOUS
      <4>2. \A x \in T : h[T] = f[x] + h[T \ {x}]
          BY <4>1, TableSplit
      <4> QED
          BY <4>2
    <3>3. h[T \ {c}] = k[T \ {c}]
        BY <1>2
    <3> QED
        BY <3>1, <3>2, <3>3
  <2> QED
      BY <2>1, <2>2
<1>3. SUBSET R \subseteq G
  <2> HIDE DEF G
  <2> QED
    BY <1>1, <1>2, AllSubsets
<1> QED
    BY <1>3

-----------------------------------------------------------------------------
(* Sums.                                                                   *)

LEMMA SumType ==
    ASSUME NEW S, IsFiniteSet(S), NEW f \in [S -> Int]
    PROVE  SumFunction(f) \in Int
<1>1. PICK h : SumTable(f, h) /\ SumFunction(f) = h[S]
    BY TotalInTable
<1> QED
    BY <1>1, TableType

LEMMA SumEmpty ==
    ASSUME NEW S, S = {}, NEW f \in [S -> Int]
    PROVE  SumFunction(f) = 0
<1>1. PICK h : SumTable(f, h) /\ SumFunction(f) = h[S]
    BY TotalInTable, FS_EmptySet
<1> QED
    BY <1>1, TableEmpty

\* One element more.
LEMMA SumSplit ==
    ASSUME NEW S, IsFiniteSet(S), NEW f \in [S -> Int], NEW x \in S,
           NEW g \in [S \ {x} -> Int], \A y \in S \ {x} : g[y] = f[y]
    PROVE  SumFunction(f) = f[x] + SumFunction(g)
<1>1. PICK h : SumTable(f, h) /\ SumFunction(f) = h[S]
    BY TotalInTable
<1>2. IsFiniteSet(S \ {x}) /\ S \ {x} \in SUBSET S
    BY FS_Subset
<1>3. PICK k : SumTable(g, k) /\ SumFunction(g) = k[S \ {x}]
    BY <1>2, TotalInTable
<1>4. h[S] = f[x] + h[S \ {x}]
    BY <1>1, TableSplit
<1>5. h[S \ {x}] = k[S \ {x}]
    BY <1>1, <1>2, <1>3, TableAgree
<1> QED
    BY <1>1, <1>3, <1>4, <1>5

\* A sum, and the rest of it when one value is taken away.
LEMMA SumOfTwo ==
    ASSUME NEW f, NEW g, NEW S, NEW T, NEW x, IsFiniteSet(S), x \in S,
           f \in [S -> Int], g \in [T -> Int], \A y \in T : g[y] = f[y], S \ {x} = T
    PROVE  SumFunction(f) = f[x] + SumFunction(g)
<1>1. g \in [S \ {x} -> Int] /\ \A y \in S \ {x} : g[y] = f[y]
    OBVIOUS
<1> QED
    BY <1>1, SumSplit

\* The same for the numbers up to n + 1, the last of which is taken away.
LEMMA SumOfRange ==
    ASSUME NEW n \in Nat, NEW S, S = 1 .. n + 1, NEW T, T = 1 .. n,
           NEW f, f \in [S -> Int], NEW g, g \in [T -> Int], \A y \in T : g[y] = f[y]
    PROVE  SumFunction(f) = f[n + 1] + SumFunction(g)
<1>1. n + 1 \in S /\ S \ {n + 1} = T /\ IsFiniteSet(S)
  <2>1. IsFiniteSet(1 .. n + 1)
      BY FS_Interval
  <2> QED
      BY <2>1
<1> QED
    BY <1>1, SumOfTwo

\* A sequence of numbers, and one more.
LEMMA SumExtended ==
    ASSUME NEW n \in Nat, NEW f, f \in [1 .. n + 1 -> Int], NEW g, g \in [1 .. n -> Int],
           \A i \in 1 .. n : g[i] = f[i]
    PROVE  SumFunction(f) = f[n + 1] + SumFunction(g)
    BY SumOfRange

\* Two functions that differ in one place.
LEMMA SumChanged ==
    ASSUME NEW S, IsFiniteSet(S), NEW f \in [S -> Int], NEW g \in [S -> Int], NEW x \in S,
           \A y \in S \ {x} : g[y] = f[y]
    PROVE  SumFunction(g) = SumFunction(f) + g[x] - f[x]
<1> DEFINE r == [y \in S \ {x} |-> f[y]]
<1>1. r \in [S \ {x} -> Int]
    OBVIOUS
<1>2. (\A y \in S \ {x} : r[y] = f[y]) /\ (\A y \in S \ {x} : r[y] = g[y])
    OBVIOUS
<1>3. IsFiniteSet(S \ {x})
    BY FS_Subset
<1> HIDE DEF r
<1>4. SumFunction(f) = f[x] + SumFunction(r) /\ SumFunction(g) = g[x] + SumFunction(r)
    BY <1>1, <1>2, SumSplit
<1>5. SumFunction(r) \in Int
    BY <1>1, <1>3, SumType
<1>6. f[x] \in Int /\ g[x] \in Int
    OBVIOUS
<1> QED
    BY <1>4, <1>5, <1>6

\* A sum grows with its terms.
LEMMA SumMonotone ==
    ASSUME NEW S, IsFiniteSet(S), NEW f \in [S -> Int], NEW g \in [S -> Int],
           \A x \in S : f[x] <= g[x]
    PROVE  SumFunction(f) <= SumFunction(g)
<1>1. PICK h : SumTable(f, h) /\ SumFunction(f) = h[S]
    BY TotalInTable
<1>2. PICK k : SumTable(g, k) /\ SumFunction(g) = k[S]
    BY TotalInTable
<1> DEFINE G == {T \in SUBSET S : h[T] <= k[T]}
<1>3. ASSUME NEW T \in SUBSET S, \A x \in T : T \ {x} \in G
      PROVE  T \in G
  <2>1. CASE T = {}
    <3>1. h[{}] = 0 /\ k[{}] = 0
        BY <1>1, <1>2, TableEmpty
    <3> QED
        BY <2>1, <3>1
  <2>2. CASE T # {}
    <3>1. PICK c \in T : h[T] = f[c] + h[T \ {c}]
        BY <1>1, <2>2, TableStep
    <3>2. k[T] = g[c] + k[T \ {c}]
      <4>1. \A x \in T : k[T] = g[x] + k[T \ {x}]
          BY <1>2, TableSplit
      <4> QED
          BY <4>1
    <3>3. h[T \ {c}] <= k[T \ {c}]
        BY <1>3
    <3>4. h[T \ {c}] \in Int /\ k[T \ {c}] \in Int /\ f[c] \in Int /\ g[c] \in Int
        BY <1>1, <1>2, TableType
    <3> QED
        BY <3>1, <3>2, <3>3, <3>4
  <2> QED
      BY <2>1, <2>2
<1>4. SUBSET S \subseteq G
  <2> HIDE DEF G
  <2> QED
    BY <1>3, AllSubsets
<1> QED
    BY <1>1, <1>2, <1>4

\* A sum of natural numbers is one, and no smaller than any of them.
LEMMA SumOfNats ==
    ASSUME NEW S, IsFiniteSet(S), NEW f \in [S -> Nat]
    PROVE  /\ SumFunction(f) \in Nat
           /\ \A x \in S : f[x] <= SumFunction(f)
<1>1. f \in [S -> Int]
    OBVIOUS
<1>2. PICK h : SumTable(f, h) /\ SumFunction(f) = h[S]
    BY TotalInTable
<1> DEFINE G == {T \in SUBSET S : h[T] >= 0}
<1>3. ASSUME NEW T \in SUBSET S, \A x \in T : T \ {x} \in G
      PROVE  T \in G
  <2>1. CASE T = {}
      BY <1>1, <1>2, <2>1, TableEmpty
  <2>2. CASE T # {}
    <3>1. PICK c \in T : h[T] = f[c] + h[T \ {c}]
        BY <1>1, <1>2, <2>2, TableStep
    <3>2. h[T \ {c}] \in Int /\ h[T \ {c}] >= 0
        BY <1>1, <1>2, <1>3, TableType
    <3> QED
        BY <3>1, <3>2
  <2> QED
      BY <2>1, <2>2
<1>4. SUBSET S \subseteq G
  <2> HIDE DEF G
  <2> QED
    BY <1>3, AllSubsets
<1>5. SumFunction(f) \in Nat
    BY <1>1, <1>2, <1>4, SumType
<1>6. ASSUME NEW x \in S
      PROVE  f[x] <= SumFunction(f)
  <2>1. h[S] = f[x] + h[S \ {x}]
      BY <1>1, <1>2, TableSplit
  <2>2. h[S \ {x}] >= 0 /\ h[S \ {x}] \in Int
      BY <1>1, <1>2, <1>4, TableType
  <2> QED
      BY <1>2, <2>1, <2>2
<1> QED
    BY <1>5, <1>6

\* A sum of n terms of at most c is at most n times c.
LEMMA SumBounded ==
    ASSUME NEW S, IsFiniteSet(S), NEW f \in [S -> Int], NEW c \in Nat, \A x \in S : f[x] <= c
    PROVE  SumFunction(f) <= Cardinality(S) * c
<1>1. PICK h : SumTable(f, h) /\ SumFunction(f) = h[S]
    BY TotalInTable
<1> DEFINE G == {T \in SUBSET S : h[T] <= Cardinality(T) * c}
<1>2. \A T \in SUBSET S : IsFiniteSet(T) /\ Cardinality(T) \in Nat
    BY FS_Subset, FS_CardinalityType
<1>3. ASSUME NEW T \in SUBSET S, \A x \in T : T \ {x} \in G
      PROVE  T \in G
  <2>1. CASE T = {}
    <3>1. h[{}] = 0 /\ Cardinality({}) = 0
        BY <1>1, TableEmpty, FS_EmptySet
    <3> QED
        BY <2>1, <3>1
  <2>2. CASE T # {}
    <3>1. PICK x \in T : h[T] = f[x] + h[T \ {x}]
        BY <1>1, <2>2, TableStep
    <3>2. Cardinality(T \ {x}) = Cardinality(T) - 1
        BY <1>2, FS_RemoveElement
    <3>3. h[T \ {x}] <= (Cardinality(T) - 1) * c
        BY <1>3, <3>2
    <3>4. f[x] \in Int /\ f[x] <= c /\ h[T \ {x}] \in Int
        BY <1>1, TableType
    <3>5. (Cardinality(T) - 1) * c + c = Cardinality(T) * c
      <4> DEFINE n == Cardinality(T)
      <4>1. n \in Nat
          BY <1>2
      <4> HIDE DEF n
      <4>2. (n - 1) * c + c = n * c
          BY <4>1
      <4> QED
          BY <4>2 DEF n
    <3>6. (Cardinality(T) - 1) * c \in Int /\ Cardinality(T) * c \in Int
        BY <1>2
    <3> QED
        BY <3>1, <3>3, <3>4, <3>5, <3>6
  <2> QED
      BY <2>1, <2>2
<1>4. SUBSET S \subseteq G
  <2> HIDE DEF G
  <2> QED
    BY <1>3, AllSubsets
<1> QED
    BY <1>1, <1>4
=============================================================================
