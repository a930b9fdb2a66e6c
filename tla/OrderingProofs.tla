--------------------------- MODULE OrderingProofs ---------------------------
(***************************************************************************)
(* Facts about sorts and filters, for any finite set and any order: each       *)
(* element is there once, the smaller before the greater.                       *)
(***************************************************************************)
EXTENDS Ordering, FiniteSetTheorems, WellFoundedInduction, TLAPS

\* A set of numbers has a least one.
LEMMA Least ==
    ASSUME NEW T, T \subseteq Nat, T # {}
    PROVE  \E x \in T : \A y \in T : ~(y < x)
<1>1. IsWellFoundedOn(OpToRel(<, Nat), Nat)
  BY NatLessThanWellFounded, Zenon
<1>2. PICK x \in T : \A y \in T : ~(<<y, x>> \in OpToRel(<, Nat))
  BY <1>1, WFMin, Zenon
<1>3. \A y \in T : ~(y < x)
  BY <1>2 DEF OpToRel
<1> QED BY <1>3

LEMMA UpTo == ASSUME NEW n \in Nat PROVE IsFiniteSet(1 .. n) /\ Cardinality(1 .. n) = n
BY FS_Interval

LEMMA PartOf ==
    ASSUME NEW n \in Nat, NEW S \in SUBSET (1 .. n)
    PROVE  IsFiniteSet(S) /\ S \subseteq Int /\ Cardinality(S) \in 0 .. n
<1>1. PICK D : D = 1 .. n
  OBVIOUS
<1>2. IsFiniteSet(D) /\ Cardinality(D) = n /\ S \in SUBSET D
  BY <1>1, UpTo
<1>3. IsFiniteSet(S) /\ Cardinality(S) \in Nat /\ Cardinality(S) <= n
  BY <1>2, FS_Subset, FS_CardinalityType
<1> QED BY <1>3

\* R is a strict total order of S.
Orders(R, S) ==
    /\ \A x \in S : <<x, x>> \notin R
    /\ \A x, y, z \in S : <<x, y>> \in R /\ <<y, z>> \in R => <<x, z>> \in R
    /\ \A x, y \in S : x # y => <<x, y>> \in R \/ <<y, x>> \in R

Below(x, S, R) == {y \in S : <<y, x>> \in R}

\* An element has fewer below it than one that it is below.
LEMMA BelowGrows ==
    ASSUME NEW S, IsFiniteSet(S), NEW R, Orders(R, S), NEW x \in S
    PROVE  /\ Cardinality(Below(x, S, R)) \in 0 .. Cardinality(S) - 1
           /\ \A y \in S : <<x, y>> \in R => Cardinality(Below(x, S, R)) < Cardinality(Below(y, S, R))
<1>1. \A y \in S : /\ Below(y, S, R) \in SUBSET S /\ IsFiniteSet(Below(y, S, R))
                   /\ Cardinality(Below(y, S, R)) \in Nat
  <2>1. \A y \in S : Below(y, S, R) \in SUBSET S
    BY DEF Below
  <2> QED BY <2>1, FS_Subset, FS_CardinalityType
<1>2. x \notin Below(x, S, R)
  BY DEF Below, Orders
<1>3. Cardinality(S) \in Nat /\ Cardinality(Below(x, S, R)) <= Cardinality(S)
      /\ Cardinality(Below(x, S, R)) # Cardinality(S)
  BY <1>1, <1>2, FS_Subset, FS_CardinalityType
<1>4. ASSUME NEW y \in S, <<x, y>> \in R
      PROVE  Cardinality(Below(x, S, R)) < Cardinality(Below(y, S, R))
  <2>1. Below(x, S, R) \in SUBSET Below(y, S, R) /\ x \in Below(y, S, R)
    BY <1>4 DEF Below, Orders
  <2> QED BY <1>1, <1>2, <2>1, FS_Subset
<1> QED BY <1>1, <1>3, <1>4

\* An order puts each element of a finite set in one place, those before it first.
LEMMA OrderedIs ==
    ASSUME NEW S, IsFiniteSet(S), NEW R, Orders(R, S)
    PROVE  /\ Ordered(S, R) \in [1 .. Cardinality(S) -> S] /\ Cardinality(S) \in Nat
           /\ \A i, j \in 1 .. Cardinality(S) : i < j => <<Ordered(S, R)[i], Ordered(S, R)[j]>> \in R
           /\ \A x \in S : \E i \in 1 .. Cardinality(S) : Ordered(S, R)[i] = x
<1>1. PICK n \in Nat : n = Cardinality(S)
  BY FS_CardinalityType
<1>2. PICK f : f = [x \in S |-> Cardinality(Below(x, S, R)) + 1]
  OBVIOUS
<1>3. f \in [S -> 1 .. n] /\ \A x, y \in S : <<x, y>> \in R => f[x] < f[y]
  <2>1. \A x \in S : Cardinality(Below(x, S, R)) \in 0 .. n - 1
    BY <1>1, BelowGrows
  <2>2. \A x, y \in S : <<x, y>> \in R => Cardinality(Below(x, S, R)) < Cardinality(Below(y, S, R))
    BY BelowGrows
  <2> QED BY <1>2, <2>1, <2>2
<1>4. \A x, y \in S : f[x] = f[y] => x = y
  <2> SUFFICES ASSUME NEW x \in S, NEW y \in S, f[x] = f[y], x # y PROVE FALSE
    OBVIOUS
  <2>1. f[x] < f[y] \/ f[y] < f[x]
    BY <1>3 DEF Orders
  <2> QED BY <1>3, <2>1
<1>5. \A k \in 1 .. n : \E x \in S : f[x] = k
  <2>1. f \in Injection(S, 1 .. n)
    BY <1>3, <1>4 DEF Injection, IsInjective
  <2>2. IsFiniteSet(1 .. n) /\ Cardinality(1 .. n) = n
    BY FS_Interval
  <2>3. f \in Surjection(S, 1 .. n)
    BY <1>1, <2>1, <2>2, FS_Injection
  <2> QED BY <2>3 DEF Surjection
<1>6. PICK o : o = Ordered(S, R)
  OBVIOUS
<1>7. \A k \in 1 .. n : o[k] \in S /\ f[o[k]] = k
  <2> TAKE k \in 1 .. n
  <2>1. o[k] = CHOOSE x \in S : Cardinality(Below(x, S, R)) = k - 1
    BY <1>1, <1>6 DEF Ordered, Below
  <2>2. PICK x \in S : f[x] = k
    BY <1>5
  <2>3. Cardinality(Below(x, S, R)) \in Nat
    BY <1>1, BelowGrows
  <2>4. Cardinality(Below(x, S, R)) = k - 1
    BY <1>2, <2>2, <2>3
  <2>5. o[k] \in S /\ Cardinality(Below(o[k], S, R)) = k - 1
    BY <2>1, <2>4
  <2> QED BY <1>2, <2>5
<1>8. o \in [1 .. n -> S]
  BY <1>1, <1>6, <1>7 DEF Ordered
<1>9. ASSUME NEW i \in 1 .. n, NEW j \in 1 .. n, i < j
      PROVE  <<o[i], o[j]>> \in R
  <2>1. o[i] # o[j]
    BY <1>7, <1>9
  <2>2. ~(<<o[j], o[i]>> \in R)
    BY <1>3, <1>7, <1>9
  <2> QED BY <1>7, <2>1, <2>2 DEF Orders
<1>10. ASSUME NEW x \in S PROVE \E i \in 1 .. n : o[i] = x
  <2>1. f[x] \in 1 .. n
    BY <1>3
  <2> QED BY <1>4, <1>7, <2>1
<1> QED BY <1>1, <1>6, <1>8, <1>9, <1>10

\* Numbers in ascending order.
LEMMA AscendingIs ==
    ASSUME NEW S, IsFiniteSet(S), S \subseteq Int
    PROVE  /\ Ascending(S) \in [1 .. Cardinality(S) -> S] /\ Cardinality(S) \in Nat
           /\ \A i, j \in 1 .. Cardinality(S) : i < j => Ascending(S)[i] < Ascending(S)[j]
           /\ \A x \in S : \E i \in 1 .. Cardinality(S) : Ascending(S)[i] = x
<1>1. PICK R : R = {p \in S \X S : p[1] < p[2]}
  OBVIOUS
<1>2. \A x, y \in S : <<x, y>> \in R <=> x < y
  BY <1>1
<1>3. Orders(R, S)
  BY <1>2 DEF Orders
<1>4. PICK o : o = Ascending(S) /\ o = Ordered(S, R)
  BY <1>1 DEF Ascending
<1>5. PICK n \in Nat : n = Cardinality(S)
  BY FS_CardinalityType
<1>6. /\ o \in [1 .. n -> S]
      /\ \A i, j \in 1 .. n : i < j => <<o[i], o[j]>> \in R
      /\ \A x \in S : \E i \in 1 .. n : o[i] = x
  BY <1>3, <1>4, <1>5, OrderedIs
<1>7. \A i, j \in 1 .. n : i < j => o[i] < o[j]
  BY <1>2, <1>6
<1> QED BY <1>4, <1>5, <1>6, <1>7

\* W is a strict order of D in which elements may be equal.
WeaklyOrders(W, D) ==
    /\ \A x, y \in D : <<x, y>> \in W => <<y, x>> \notin W
    /\ \A x, y, z \in D : <<x, y>> \in W => <<x, z>> \in W \/ <<z, y>> \in W

\* The places 1 to n in the order W, equals as they are.
Stably(W, n) == {p \in (1 .. n) \X (1 .. n) : p \in W \/ (<<p[2], p[1]>> \notin W /\ p[1] < p[2])}

\* P has each place once, none behind one that belongs after it, and equals in order.
IsSort(P, W, n) ==
    /\ P \in [1 .. n -> 1 .. n]
    /\ \A i \in 1 .. n : \E k \in 1 .. n : P[k] = i
    /\ \A k, l \in 1 .. n : k < l =>
          /\ P[k] # P[l] /\ <<P[l], P[k]>> \notin W
          /\ <<P[k], P[l]>> \notin W => P[k] < P[l]

\* That is what a stable sort gives.
LEMMA StableIs ==
    ASSUME NEW n \in Nat, NEW W, WeaklyOrders(W, 1 .. n), NEW P, P = Ordered(1 .. n, Stably(W, n))
    PROVE  IsSort(P, W, n)
<1>1. PICK R : R = Stably(W, n)
  OBVIOUS
<1>2. ASSUME NEW i \in 1 .. n, NEW j \in 1 .. n
      PROVE  <<i, j>> \in R <=> <<i, j>> \in W \/ (<<j, i>> \notin W /\ i < j)
  BY <1>1 DEF Stably
<1>3. Orders(R, 1 .. n)
  <2>1. \A x \in 1 .. n : <<x, x>> \notin R
    BY <1>2 DEF WeaklyOrders
  <2>2. \A x, y, z \in 1 .. n : <<x, y>> \in R /\ <<y, z>> \in R => <<x, z>> \in R
    <3> SUFFICES ASSUME NEW x \in 1 .. n, NEW y \in 1 .. n, NEW z \in 1 .. n, <<x, y>> \in R, <<y, z>> \in R
                 PROVE  <<x, z>> \in R
      OBVIOUS
    <3>1. <<x, y>> \in W \/ (<<y, x>> \notin W /\ x < y)
      BY <1>2
    <3>2. <<y, z>> \in W \/ (<<z, y>> \notin W /\ y < z)
      BY <1>2
    <3>3. CASE <<x, y>> \in W
      <4>1. <<z, y>> \notin W
        BY <3>2 DEF WeaklyOrders
      <4>2. <<x, z>> \in W
        BY <3>3, <4>1 DEF WeaklyOrders
      <4> QED BY <1>2, <4>2
    <3>4. CASE <<y, z>> \in W
      <4>1. <<y, x>> \notin W
        BY <3>1 DEF WeaklyOrders
      <4>2. <<x, z>> \in W
        BY <3>4, <4>1 DEF WeaklyOrders
      <4> QED BY <1>2, <4>2
    <3>5. CASE <<y, x>> \notin W /\ x < y /\ <<z, y>> \notin W /\ y < z
      <4>1. <<z, x>> \notin W
        BY <3>5 DEF WeaklyOrders
      <4>2. x < z
        BY <3>5
      <4> QED BY <1>2, <4>1, <4>2
    <3> QED BY <3>1, <3>2, <3>3, <3>4, <3>5
  <2>3. \A x, y \in 1 .. n : x # y => <<x, y>> \in R \/ <<y, x>> \in R
    <3> SUFFICES ASSUME NEW x \in 1 .. n, NEW y \in 1 .. n, x # y, <<x, y>> \notin R, <<y, x>> \notin R
                 PROVE  FALSE
      OBVIOUS
    <3>1. x < y \/ y < x
      OBVIOUS
    <3>2. <<x, y>> \notin W /\ <<y, x>> \notin W
      BY <1>2
    <3> QED BY <1>2, <3>1, <3>2
  <2> QED BY <2>1, <2>2, <2>3 DEF Orders
<1>4. IsFiniteSet(1 .. n) /\ Cardinality(1 .. n) = n
  BY FS_Interval
<1>5. P = Ordered(1 .. n, R)
  BY <1>1
<1>6. /\ P \in [1 .. n -> 1 .. n]
      /\ \A i, j \in 1 .. n : i < j => <<P[i], P[j]>> \in R
      /\ \A x \in 1 .. n : \E i \in 1 .. n : P[i] = x
  <2>1. PICK S : S = 1 .. n
    OBVIOUS
  <2>2. IsFiniteSet(S) /\ Cardinality(S) = n /\ Orders(R, S) /\ P = Ordered(S, R)
    BY <1>3, <1>4, <1>5, <2>1
  <2>3. /\ Ordered(S, R) \in [1 .. Cardinality(S) -> S]
        /\ \A i, j \in 1 .. Cardinality(S) : i < j => <<Ordered(S, R)[i], Ordered(S, R)[j]>> \in R
        /\ \A x \in S : \E i \in 1 .. Cardinality(S) : Ordered(S, R)[i] = x
    BY <2>2, OrderedIs
  <2>4. P \in [1 .. n -> S] /\ \A i, j \in 1 .. n : i < j => <<P[i], P[j]>> \in R
    BY <2>2, <2>3
  <2>5. \A x \in S : \E i \in 1 .. n : P[i] = x
    BY <2>2, <2>3
  <2> QED BY <2>1, <2>4, <2>5
<1>7. ASSUME NEW k \in 1 .. n, NEW l \in 1 .. n, k < l
      PROVE  /\ P[k] # P[l] /\ <<P[l], P[k]>> \notin W
             /\ <<P[k], P[l]>> \notin W => P[k] < P[l]
  <2>1. P[k] \in 1 .. n /\ P[l] \in 1 .. n /\ <<P[k], P[l]>> \in R
    BY <1>6, <1>7
  <2>2. <<P[k], P[l]>> \in W \/ (<<P[l], P[k]>> \notin W /\ P[k] < P[l])
    BY <1>2, <2>1
  <2>3. P[k] # P[l]
    BY <1>3, <2>1 DEF Orders
  <2> QED BY <2>1, <2>2, <2>3 DEF WeaklyOrders
<1> QED BY <1>6, <1>7 DEF IsSort

\* The places at which a list has r, and a list without one behind another that it belongs before.
Occurs(a, n, r) == {i \in 1 .. n : a[i] = r}
InOrder(a, n, R) == \A i, j \in 1 .. n : i < j => <<a[j], a[i]>> \notin R

\* The list a first differs from b at k, and has there what belongs before what b has.
Ahead(a, n, b, m, k, R) ==
    /\ k \in 1 .. n /\ \A i \in 1 .. k - 1 : i \in 1 .. m /\ a[i] = b[i]
    /\ k \in 1 .. m => <<a[k], b[k]>> \in R

\* Where two lists first differ, the one that is ahead has more of what it has there.
LEMMA FirstDifference ==
    ASSUME NEW S, NEW R, Orders(R, S), NEW n \in Nat, NEW m \in Nat,
           NEW a \in [1 .. n -> S], NEW b \in [1 .. m -> S], InOrder(b, m, R),
           NEW k, Ahead(a, n, b, m, k, R)
    PROVE  Cardinality(Occurs(a, n, a[k])) # Cardinality(Occurs(b, m, a[k]))
<1>0. /\ k \in 1 .. n /\ \A i \in 1 .. k - 1 : i \in 1 .. m /\ a[i] = b[i]
      /\ k \in 1 .. m => <<a[k], b[k]>> \in R
  BY DEF Ahead
<1>1. PICK r \in S : r = a[k]
  BY <1>0
<1>2. PICK A, B : A = Occurs(a, n, r) /\ B = Occurs(b, m, r)
  OBVIOUS
<1>3. A \in SUBSET (1 .. n) /\ k \in A
  BY <1>0, <1>1, <1>2 DEF Occurs
<1>4. ASSUME NEW i \in B PROVE i \in A /\ i # k
  <2>1. i \in 1 .. m /\ b[i] = r
    BY <1>2, <1>4 DEF Occurs
  <2>2. CASE i >= k
    <3>1. k \in 1 .. m /\ <<r, b[k]>> \in R
      BY <1>0, <1>1, <2>1, <2>2
    <3>2. i # k
      BY <1>1, <2>1, <3>1 DEF Orders
    <3> QED BY <2>1, <2>2, <3>1, <3>2 DEF InOrder
  <2>3. CASE i < k
    <3>1. i \in 1 .. k - 1 /\ i \in 1 .. n
      BY <1>0, <2>1, <2>3
    <3> QED BY <1>0, <1>2, <2>1, <2>3, <3>1 DEF Occurs
  <2> QED BY <1>0, <2>1, <2>2, <2>3
<1>5. B \in SUBSET A /\ B # A
  BY <1>3, <1>4
<1>6. IsFiniteSet(A)
  BY <1>3, PartOf
<1>7. Cardinality(A) # Cardinality(B)
  BY <1>5, <1>6, FS_Subset
<1> QED BY <1>1, <1>2, <1>7

\* Two lists in one order that have each element as often are the same.
LEMMA SameListing ==
    ASSUME NEW S, NEW R, Orders(R, S), NEW n \in Nat, NEW m \in Nat,
           NEW a \in [1 .. n -> S], NEW b \in [1 .. m -> S], InOrder(a, n, R), InOrder(b, m, R),
           \A r \in S : Cardinality(Occurs(a, n, r)) = Cardinality(Occurs(b, m, r))
    PROVE  n = m /\ a = b
<1> DEFINE D == {k \in Nat \ {0} : /\ k \in 1 .. n \/ k \in 1 .. m
                                   /\ k \in 1 .. n /\ k \in 1 .. m => a[k] # b[k]}
<1>1. CASE D = {}
  <2>1. \A k \in 1 .. n : k \in 1 .. m /\ a[k] = b[k]
    BY <1>1
  <2>2. \A k \in 1 .. m : k \in 1 .. n
    BY <1>1
  <2>3. n = m
    <3>1. n # 0 => n \in 1 .. m
      BY <2>1
    <3>2. m # 0 => m \in 1 .. n
      BY <2>2
    <3> QED BY <3>1, <3>2
  <2> QED BY <2>1, <2>3
<1>2. CASE D # {}
  <2>1. PICK k \in D : \A y \in D : ~(y < k)
    <3>1. D \subseteq Nat
      OBVIOUS
    <3> HIDE DEF D
    <3> QED BY <1>2, <3>1, Least
  <2>2. \A i \in 1 .. k - 1 : i \in 1 .. n /\ i \in 1 .. m /\ a[i] = b[i]
    <3> TAKE i \in 1 .. k - 1
    <3>1. i \in Nat \ {0} /\ i < k /\ i \notin D
      BY <2>1
    <3>2. i \in 1 .. n \/ i \in 1 .. m
      BY <2>1, <3>1
    <3> QED BY <3>1, <3>2
  <2>3. CASE k \in 1 .. n /\ (k \in 1 .. m => <<a[k], b[k]>> \in R)
    <3>1. a[k] \in S /\ Ahead(a, n, b, m, k, R)
      BY <2>2, <2>3 DEF Ahead
    <3> QED BY <3>1, FirstDifference
  <2>4. CASE k \in 1 .. m /\ (k \in 1 .. n => <<b[k], a[k]>> \in R)
    <3>1. b[k] \in S /\ Ahead(b, m, a, n, k, R)
      BY <2>2, <2>4 DEF Ahead
    <3> QED BY <3>1, FirstDifference
  <2>5. CASE k \in 1 .. n /\ k \in 1 .. m
    <3>1. a[k] \in S /\ b[k] \in S /\ a[k] # b[k]
      BY <2>1, <2>5
    <3> QED BY <2>3, <2>4, <2>5, <3>1 DEF Orders
  <2> QED BY <2>1, <2>3, <2>4, <2>5
<1> QED BY <1>1, <1>2

\* Sorting leaves each element as often.
LEMMA SortedOccurs ==
    ASSUME NEW n \in Nat, NEW W, NEW P, IsSort(P, W, n), NEW s, DOMAIN s = 1 .. n,
           NEW a, a = [i \in 1 .. n |-> s[P[i]]], NEW r
    PROVE  Cardinality(Occurs(a, n, r)) = Cardinality(Occurs(s, n, r))
<1>1. PICK A, B : A = Occurs(a, n, r) /\ B = Occurs(s, n, r)
  OBVIOUS
<1>2. PICK f : f = [i \in A |-> P[i]]
  OBVIOUS
<1>3. \A i \in 1 .. n : P[i] \in 1 .. n /\ (i \in A <=> P[i] \in B)
  BY <1>1 DEF IsSort, Occurs
<1>4. A \in SUBSET (1 .. n) /\ B \in SUBSET (1 .. n)
  BY <1>1 DEF Occurs
<1>5. f \in [A -> B]
  BY <1>2, <1>3, <1>4
<1>6. \A i, j \in A : f[i] = f[j] => i = j
  <2> SUFFICES ASSUME NEW i \in A, NEW j \in A, P[i] = P[j], i # j PROVE FALSE
    BY <1>2
  <2>1. i \in 1 .. n /\ j \in 1 .. n /\ (i < j \/ j < i)
    BY <1>4
  <2> QED BY <2>1 DEF IsSort
<1>7. \A t \in B : \E i \in A : f[i] = t
  <2> TAKE t \in B
  <2>1. PICK i \in 1 .. n : P[i] = t
    BY <1>4 DEF IsSort
  <2> QED BY <1>2, <1>3, <2>1
<1>8. f \in Bijection(A, B)
  BY <1>5, <1>6, <1>7 DEF Bijection, Injection, Surjection, IsInjective
<1>9. ExistsBijection(A, B)
  BY <1>8 DEF ExistsBijection
<1>10. IsFiniteSet(A)
  BY <1>4, PartOf
<1> QED BY <1>1, <1>9, <1>10, FS_Bijection
------------------------------------------------------------------------------
(* What a filter keeps of a growing list. *)

\* The list a has the numbers of S, the smaller first.
Increasing(a, n, S) ==
    /\ a \in [1 .. n -> S] /\ \A i, j \in 1 .. n : i < j => a[i] < a[j]
    /\ \A x \in S : \E i \in 1 .. n : a[i] = x

LEMMA IncreasingOnce ==
    ASSUME NEW S, S \subseteq Int, NEW n \in Nat, NEW a, Increasing(a, n, S), NEW r \in S
    PROVE  Cardinality(Occurs(a, n, r)) = 1
<1>0. /\ a \in [1 .. n -> S] /\ \A i, j \in 1 .. n : i < j => a[i] < a[j]
      /\ \A x \in S : \E i \in 1 .. n : a[i] = x
  BY DEF Increasing
<1>1. PICK i \in 1 .. n : a[i] = r
  BY <1>0
<1>2. \A j \in 1 .. n : a[j] = r => j = i
  <2> SUFFICES ASSUME NEW j \in 1 .. n, a[j] = r, j # i PROVE FALSE
    BY <1>0
  <2>1. r \in Int /\ (j < i \/ i < j)
    OBVIOUS
  <2> QED BY <1>0, <1>1, <2>1
<1>3. Occurs(a, n, r) = {i}
  BY <1>1, <1>2 DEF Occurs
<1> QED BY <1>3, FS_Singleton

\* A larger number comes last.
LEMMA AscendingGrows ==
    ASSUME NEW S, IsFiniteSet(S), S \subseteq Int, NEW m \in Int, \A x \in S : x < m
    PROVE  /\ Cardinality(S) \in Nat /\ Ascending(S) \in [1 .. Cardinality(S) -> S]
           /\ Ascending(S \cup {m}) = [k \in 1 .. Cardinality(S) + 1 |->
                                          IF k <= Cardinality(S) THEN Ascending(S)[k] ELSE m]
<1> DEFINE T == S \cup {m}
           R == {p \in T \X T : p[1] < p[2]}
           c == Cardinality(S)
           b == [k \in 1 .. c + 1 |-> IF k <= c THEN Ascending(S)[k] ELSE m]
<1>1. c \in Nat /\ IsFiniteSet(T) /\ Cardinality(T) = c + 1 /\ T \subseteq Int /\ c + 1 \in Nat
  <2>1. m \notin S
    OBVIOUS
  <2> QED BY <2>1, FS_CardinalityType, FS_AddElement
<1>2. /\ Ascending(S) \in [1 .. c -> S]
      /\ \A i, j \in 1 .. c : i < j => Ascending(S)[i] < Ascending(S)[j]
      /\ \A x \in S : \E i \in 1 .. c : Ascending(S)[i] = x
  BY AscendingIs
<1>3. /\ Ascending(T) \in [1 .. c + 1 -> T]
      /\ \A i, j \in 1 .. c + 1 : i < j => Ascending(T)[i] < Ascending(T)[j]
      /\ \A x \in T : \E i \in 1 .. c + 1 : Ascending(T)[i] = x
  <2> HIDE DEF T, c
  <2> QED BY <1>1, AscendingIs
<1>4. /\ b \in [1 .. c + 1 -> T]
      /\ \A k \in 1 .. c : b[k] = Ascending(S)[k] /\ b[k] \in S
      /\ b[c + 1] = m /\ c + 1 \in 1 .. c + 1
  BY <1>1, <1>2
<1>5. \A i, j \in 1 .. c + 1 : i < j => b[i] < b[j]
  <2> SUFFICES ASSUME NEW i \in 1 .. c + 1, NEW j \in 1 .. c + 1, i < j PROVE b[i] < b[j]
    OBVIOUS
  <2>1. i \in 1 .. c /\ (j \in 1 .. c \/ j = c + 1)
    BY <1>1
  <2> HIDE DEF b
  <2> QED BY <1>2, <1>4, <2>1
<1>6. \A x \in T : \E i \in 1 .. c + 1 : b[i] = x
  <2> SUFFICES ASSUME NEW x \in T PROVE \E i \in 1 .. c + 1 : b[i] = x
    OBVIOUS
  <2>1. CASE x = m BY <1>4, <2>1
  <2>2. CASE x \in S
    <3>1. PICK i \in 1 .. c : Ascending(S)[i] = x
      BY <1>2, <2>2
    <3>2. i \in 1 .. c + 1 /\ b[i] = x
      BY <1>1, <1>4, <3>1
    <3> QED BY <3>2
  <2> QED BY <2>1, <2>2
<1>7. Orders(R, T)
  BY <1>1 DEF Orders
<1> HIDE DEF T, b, c
<1>8. InOrder(Ascending(T), c + 1, R) /\ InOrder(b, c + 1, R)
  <2>1. \A x, y \in T : <<y, x>> \in R => y < x
    OBVIOUS
  <2>2. \A x, y \in T : x < y => ~(y < x)
    BY <1>1
  <2> HIDE DEF R
  <2>3. ASSUME NEW a \in [1 .. c + 1 -> T], \A i, j \in 1 .. c + 1 : i < j => a[i] < a[j]
        PROVE  InOrder(a, c + 1, R)
    BY <2>1, <2>2, <2>3 DEF InOrder
  <2> QED BY <1>3, <1>4, <1>5, <2>3
<1> HIDE DEF R
<1>9. \A r \in T : /\ Cardinality(Occurs(Ascending(T), c + 1, r)) = 1
                   /\ Cardinality(Occurs(b, c + 1, r)) = 1
  <2>1. PICK n \in Nat : n = c + 1
    BY <1>1
  <2>2. Increasing(Ascending(T), n, T) /\ Increasing(b, n, T)
    BY <1>3, <1>4, <1>5, <1>6, <2>1 DEF Increasing
  <2> QED BY <1>1, <2>1, <2>2, IncreasingOnce
<1>10. Ascending(T) = b
  <2>1. PICK n \in Nat : n = c + 1
    BY <1>1
  <2>2. PICK a : a = Ascending(T)
    OBVIOUS
  <2>3. a \in [1 .. n -> T] /\ b \in [1 .. n -> T] /\ InOrder(a, n, R) /\ InOrder(b, n, R)
        /\ \A r \in T : Cardinality(Occurs(a, n, r)) = Cardinality(Occurs(b, n, r))
    BY <1>3, <1>4, <1>8, <1>9, <2>1, <2>2
  <2>4. a = b
    BY <1>7, <2>3, SameListing
  <2> QED BY <2>2, <2>4
<1> QED BY <1>1, <1>2, <1>10 DEF T, b, c

\* One more element is kept behind the others, or not at all.
LEMMA OnlyGrows ==
    ASSUME NEW n \in Nat, NEW s, DOMAIN s = 1 .. n, NEW t, DOMAIN t = 1 .. n + 1,
           \A i \in 1 .. n : t[i] = s[i], NEW S
    PROVE  \E c \in Nat :
              /\ DOMAIN Only(s, S) = 1 .. c /\ Only(s, S) = [k \in 1 .. c |-> Only(s, S)[k]]
              /\ \A k \in 1 .. c : Only(s, S)[k] \in S
              /\ Only(t, S) = IF t[n + 1] \in S
                              THEN [k \in 1 .. c + 1 |-> IF k <= c THEN Only(s, S)[k] ELSE t[n + 1]]
                              ELSE Only(s, S)
<1> DEFINE A == {i \in DOMAIN s : s[i] \in S}
           B == {i \in DOMAIN t : t[i] \in S}
           c == Cardinality(A)
<1>1. A \in SUBSET (1 .. n)
  OBVIOUS
<1>2. IsFiniteSet(A) /\ A \subseteq Int /\ \A i \in A : i < n + 1
  BY <1>1, PartOf
<1>3. n + 1 \in Int /\ n + 1 \in 1 .. n + 1 /\ \A i \in 1 .. n + 1 : i \in 1 .. n \/ i = n + 1
  OBVIOUS
<1>4. B = IF t[n + 1] \in S THEN A \cup {n + 1} ELSE A
  <2>1. 1 .. n \subseteq 1 .. n + 1 /\ n + 1 \notin 1 .. n
    OBVIOUS
  <2> QED BY <1>3, <2>1
<1>5. \A i \in A : i \in 1 .. n /\ s[i] \in S
  OBVIOUS
<1>6. Only(s, S) = AtPlaces(s, Ascending(A)) /\ Only(t, S) = AtPlaces(t, Ascending(B))
  BY DEF Only
<1> HIDE DEF A, B
<1>7. /\ c \in Nat /\ Ascending(A) \in [1 .. c -> A]
      /\ Ascending(A \cup {n + 1}) = [k \in 1 .. c + 1 |-> IF k <= c THEN Ascending(A)[k] ELSE n + 1]
  BY <1>2, <1>3, AscendingGrows
<1> HIDE DEF c
<1>8. /\ DOMAIN Only(s, S) = 1 .. c
      /\ \A k \in 1 .. c : Only(s, S)[k] = s[Ascending(A)[k]] /\ Only(s, S)[k] \in S
      /\ Only(s, S) = [k \in 1 .. c |-> Only(s, S)[k]]
  BY <1>5, <1>6, <1>7 DEF AtPlaces
<1>9. \A k \in 1 .. c : t[Ascending(A)[k]] = Only(s, S)[k]
  BY <1>5, <1>7, <1>8
<1>10. CASE t[n + 1] \in S
  <2>1. Only(t, S) = AtPlaces(t, Ascending(A \cup {n + 1}))
    BY <1>4, <1>6, <1>10
  <2>2. Only(t, S) = [k \in 1 .. c + 1 |-> t[Ascending(A \cup {n + 1})[k]]]
    BY <1>7, <2>1 DEF AtPlaces
  <2>3. \A k \in 1 .. c + 1 :
            t[Ascending(A \cup {n + 1})[k]] = IF k <= c THEN Only(s, S)[k] ELSE t[n + 1]
    <3> SUFFICES ASSUME NEW k \in 1 .. c + 1
                 PROVE  t[Ascending(A \cup {n + 1})[k]] = IF k <= c THEN Only(s, S)[k] ELSE t[n + 1]
      OBVIOUS
    <3>1. Ascending(A \cup {n + 1})[k] = IF k <= c THEN Ascending(A)[k] ELSE n + 1
      BY <1>7
    <3>2. k <= c => k \in 1 .. c
      BY <1>7
    <3> QED BY <1>9, <3>1, <3>2
  <2>4. Only(t, S) = [k \in 1 .. c + 1 |-> IF k <= c THEN Only(s, S)[k] ELSE t[n + 1]]
    BY <2>2, <2>3
  <2> QED BY <1>7, <1>8, <1>10, <2>4
<1>11. CASE t[n + 1] \notin S
  <2>1. Only(t, S) = AtPlaces(t, Ascending(A))
    BY <1>4, <1>6, <1>11
  <2>2. Only(t, S) = [k \in 1 .. c |-> t[Ascending(A)[k]]]
    BY <1>7, <2>1 DEF AtPlaces
  <2>3. Only(t, S) = Only(s, S)
    BY <1>8, <1>9, <2>2
  <2> QED BY <1>7, <1>8, <1>11, <2>3
<1> QED BY <1>10, <1>11
=============================================================================
