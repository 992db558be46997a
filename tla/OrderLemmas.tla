------------------------------ MODULE OrderLemmas ------------------------------
(***************************************************************************)
(* Facts about products and quotients, about least and greatest elements   *)
(* and the ranks of the elements of a finite set, about the sums that the  *)
(* folds of the community modules compute over sets and sequences, and     *)
(* about functions defined by recursion along an interval.                 *)
(* Each existence proof takes a least counterexample.                      *)
(***************************************************************************)
EXTENDS Integers, FiniteSetsExt, TLAPS, WellFoundedInduction, FiniteSetTheorems, FunctionTheorems

\* Products of naturals, and what whole division leaves.
LEMMA Quotient ==
  ASSUME NEW a \in Nat, NEW b \in Nat \ {0}
  PROVE  a \div b \in Nat /\ b * (a \div b) <= a
  OBVIOUS

LEMMA ProductIsNatural ==
  ASSUME NEW a \in Nat, NEW b \in Nat
  PROVE  a * b \in Nat
  OBVIOUS

LEMMA ProductIsInteger ==
  ASSUME NEW a \in Int, NEW b \in Int
  PROVE  a * b \in Int
  OBVIOUS

\* The laws of multiplication.
LEMMA Commutes ==
  ASSUME NEW a \in Int, NEW b \in Int, NEW c \in Int
  PROVE  a * b = b * a /\ (a * b) * c = a * (b * c)
  OBVIOUS

LEMMA Distributes ==
  ASSUME NEW a \in Int, NEW b \in Int, NEW c \in Int
  PROVE  a * (b - c) = (a * b) - (a * c) /\ a * (b + c) = (a * b) + (a * c)
  OBVIOUS

LEMMA Monotone ==
  ASSUME NEW a \in Int, NEW b \in Int, NEW c \in Nat, a <= b
  PROVE  a * c <= b * c
  OBVIOUS

LEMMA Cancels ==
  ASSUME NEW a \in Int, NEW b \in Int, NEW c \in Nat \ {0}, a * c <= b * c
  PROVE  a <= b
  OBVIOUS

\* A set of naturals that is not empty has a least element.
LEMMA LeastNatural ==
  ASSUME NEW S \in SUBSET Nat, S # {}
  PROVE  \E x \in S : \A y \in S : x <= y
<1>1. \E x \in S : \A y \in S : ~ (<<y, x>> \in OpToRel(<, Nat))
  BY NatLessThanWellFounded, WFMin
<1>2. PICK x \in S : \A y \in S : ~ (<<y, x>> \in OpToRel(<, Nat))
  BY <1>1
<1>3. \A y \in S : ~ (y < x)
  <2> SUFFICES ASSUME NEW y \in S, y < x PROVE FALSE
    OBVIOUS
  <2>1. <<y, x>> \in OpToRel(<, Nat)
    BY DEF OpToRel
  <2> QED BY <1>2, <2>1
<1>4. \A y \in S : y \in Nat
  OBVIOUS
<1>5. \A y \in S : x <= y
  <2> TAKE y \in S
  <2> x \in Nat /\ y \in Nat
    BY <1>4
  <2> QED BY <1>3
<1> QED BY <1>5

\* Min of such a set is its least element.
LEMMA MinOfNaturals ==
  ASSUME NEW S \in SUBSET Nat, S # {}
  PROVE  Min(S) \in S /\ \A y \in S : Min(S) <= y
  BY LeastNatural DEF Min

\* A set of naturals with a bound has a greatest element.
LEMMA MaxOfNaturals ==
  ASSUME NEW S \in SUBSET Nat, S # {}, NEW b \in Nat, \A y \in S : y <= b
  PROVE  Max(S) \in S /\ \A y \in S : y <= Max(S)
<1> DEFINE T == {b - y : y \in S}
<1>1. \A y \in S : y \in Nat /\ b - y \in Nat
  OBVIOUS
<1>2. T \in SUBSET Nat
  BY <1>1
<1>3. T # {}
  OBVIOUS
<1>4. PICK x \in T : \A y \in T : x <= y
  <2> HIDE DEF T
  <2> QED BY <1>2, <1>3, LeastNatural
<1>5. PICK m \in S : x = b - m
  OBVIOUS
<1>6. \A y \in S : y <= m
  <2> TAKE y \in S
  <2>1. b - y \in T
    OBVIOUS
  <2>2. b - m <= b - y
    BY <1>4, <1>5, <2>1
  <2>3. m \in Nat /\ y \in Nat
    BY <1>1
  <2> QED BY <2>2, <2>3
<1> QED BY <1>6 DEF Max

\* A set of integers of an interval has a greatest element.
LEMMA MaxOfIntegers ==
  ASSUME NEW a \in Int, NEW b \in Int, NEW S \in SUBSET (a..b), S # {}
  PROVE  Max(S) \in S /\ \A y \in S : y <= Max(S)
<1> DEFINE T == {b - y : y \in S}
<1>1. \A y \in S : y \in Int /\ b - y \in Nat
  OBVIOUS
<1>2. T \in SUBSET Nat
  BY <1>1
<1>3. T # {}
  OBVIOUS
<1>4. PICK x \in T : \A y \in T : x <= y
  <2> HIDE DEF T
  <2> QED BY <1>2, <1>3, LeastNatural
<1>5. PICK m \in S : x = b - m
  OBVIOUS
<1>6. \A y \in S : y <= m
  <2> TAKE y \in S
  <2>1. b - y \in T
    OBVIOUS
  <2>2. b - m <= b - y
    BY <1>4, <1>5, <2>1
  <2>3. m \in Int /\ y \in Int
    BY <1>1
  <2> QED BY <2>2, <2>3
<1> QED BY <1>6 DEF Max

\* Min of two numbers.
LEMMA MinOfTwo ==
  ASSUME NEW a \in Int, NEW b \in Int
  PROVE  Min({a, b}) = IF a <= b THEN a ELSE b
<1>1. \E x \in {a, b} : \A y \in {a, b} : x <= y
  OBVIOUS
<1> QED BY <1>1 DEF Min

\* Max of two numbers.
LEMMA MaxOfTwo ==
  ASSUME NEW a \in Int, NEW b \in Int
  PROVE  Max({a, b}) = IF a >= b THEN a ELSE b
<1>1. \E x \in {a, b} : \A y \in {a, b} : x >= y
  OBVIOUS
<1> QED BY <1>1 DEF Max

-----------------------------------------------------------------------------
(* Ranks in a finite set of naturals.                                      *)

Below(D, d) == {x \in D : x <= d}

\* A larger element has more elements below it.
LEMMA RankGrows ==
  ASSUME NEW D \in SUBSET Nat, IsFiniteSet(D), NEW a \in D, NEW b \in D, a < b
  PROVE  Cardinality(Below(D, a)) < Cardinality(Below(D, b))
<1>0. \A x \in D : x \in Nat
  OBVIOUS
<1>1. Below(D, b) \in SUBSET D
  BY DEF Below
<1>2. IsFiniteSet(Below(D, b))
  BY <1>1, FS_Subset
<1>3. Below(D, a) \in SUBSET Below(D, b)
  <2> SUFFICES ASSUME NEW x \in Below(D, a) PROVE x \in Below(D, b)
    OBVIOUS
  <2>1. x \in D /\ x <= a
    BY DEF Below
  <2>2. x \in Nat /\ a \in Nat /\ b \in Nat
    BY <1>0, <2>1
  <2>3. x <= b
    BY <2>1, <2>2
  <2> QED BY <2>1, <2>3 DEF Below
<1>4. b \in Below(D, b) /\ b \notin Below(D, a)
  BY <1>0 DEF Below
<1>5. /\ IsFiniteSet(Below(D, a))
      /\ Cardinality(Below(D, a)) <= Cardinality(Below(D, b))
      /\ Cardinality(Below(D, b)) = Cardinality(Below(D, a)) => Below(D, b) = Below(D, a)
  BY <1>2, <1>3, FS_Subset
<1>6. Cardinality(Below(D, a)) \in Nat /\ Cardinality(Below(D, b)) \in Nat
  BY <1>2, <1>5, FS_CardinalityType
<1>7. Cardinality(Below(D, a)) # Cardinality(Below(D, b))
  BY <1>4, <1>5
<1> QED BY <1>5, <1>6, <1>7

\* The next element after d has the next rank.
LEMMA NextRank ==
  ASSUME NEW D \in SUBSET Nat, IsFiniteSet(D), NEW d \in D,
         Cardinality(Below(D, d)) < Cardinality(D)
  PROVE  \E e \in D : Cardinality(Below(D, e)) = Cardinality(Below(D, d)) + 1
<1>0. \A x \in D : x \in Nat
  OBVIOUS
<1>1. Below(D, d) \in SUBSET D /\ IsFiniteSet(Below(D, d))
  BY FS_Subset DEF Below
<1>2. Cardinality(Below(D, d)) \in Nat /\ Cardinality(D) \in Nat
  BY <1>1, FS_CardinalityType
<1>3. D \ Below(D, d) # {}
  <2> SUFFICES ASSUME D \ Below(D, d) = {} PROVE FALSE
    OBVIOUS
  <2>1. Below(D, d) = D
    BY <1>1
  <2> QED BY <1>2, <2>1
<1>4. PICK e \in D \ Below(D, d) : \A y \in D \ Below(D, d) : e <= y
  BY <1>3, LeastNatural
<1>5. Below(D, e) = Below(D, d) \cup {e}
  <2>1. \A x \in D : x <= e <=> x <= d \/ x = e
    <3> TAKE x \in D
    <3>1. x \in Nat /\ e \in Nat /\ d \in Nat
      BY <1>0
    <3>2. d < e
      BY <3>1 DEF Below
    <3>3. x <= d \/ e <= x
      BY <1>4 DEF Below
    <3> QED BY <3>1, <3>2, <3>3
  <2> QED BY <2>1 DEF Below
<1>6. e \notin Below(D, d)
  OBVIOUS
<1>7. Cardinality(Below(D, e)) = Cardinality(Below(D, d)) + 1
  BY <1>1, <1>5, <1>6, FS_AddElement
<1> QED BY <1>7

\* Every rank up to the size of the set is taken.
LEMMA EveryRank ==
  ASSUME NEW D \in SUBSET Nat, IsFiniteSet(D), NEW k \in 1..Cardinality(D)
  PROVE  \E d \in D : Cardinality(Below(D, d)) = k
<1> DEFINE Missing == {j \in 1..Cardinality(D) : \A d \in D : Cardinality(Below(D, d)) # j}
<1> SUFFICES ASSUME Missing # {} PROVE FALSE
  OBVIOUS
<1>1. Cardinality(D) \in Nat
  BY FS_CardinalityType
<1>2. Missing \in SUBSET Nat
  BY <1>1
<1>3. PICK j \in Missing : \A y \in Missing : j <= y
  <2> HIDE DEF Missing
  <2> QED BY <1>2, LeastNatural
<1>4. j \in 1..Cardinality(D) /\ \A d \in D : Cardinality(Below(D, d)) # j
  OBVIOUS
<1>5. CASE j = 1
  <2>1. D # {}
    BY <1>1, <1>4, FS_EmptySet
  <2>2. PICK m \in D : \A y \in D : m <= y
    BY <2>1, LeastNatural
  <2>3. Below(D, m) = {m}
    <3>1. \A x \in D : x <= m <=> x = m
      <4> TAKE x \in D
      <4>1. x \in Nat /\ m \in Nat /\ m <= x
        BY <2>2
      <4> QED BY <4>1
    <3> QED BY <3>1 DEF Below
  <2>4. Cardinality(Below(D, m)) = 1
    BY <2>3, FS_Singleton
  <2> QED BY <1>4, <1>5, <2>4
<1>6. CASE j # 1
  <2>1. j - 1 \in 1..Cardinality(D) /\ ~(j <= j - 1) /\ (j - 1) + 1 = j /\ j - 1 < Cardinality(D)
    BY <1>1, <1>4, <1>6
  <2>2. PICK d \in D : Cardinality(Below(D, d)) = j - 1
    BY <1>3, <2>1
  <2>3. \E e \in D : Cardinality(Below(D, e)) = Cardinality(Below(D, d)) + 1
    BY <2>1, <2>2, NextRank
  <2> QED BY <1>4, <2>1, <2>2, <2>3
<1> QED BY <1>5, <1>6

-----------------------------------------------------------------------------
(* Places in a strict order of 1..n, given as a set of pairs.              *)

AheadOf(R, n, i) == {j \in 1..n : <<j, i>> \in R}
ElementAt(R, n, k) == CHOOSE i \in 1..n : Cardinality(AheadOf(R, n, i)) = k - 1
OrdersAll(R, n) ==
    /\ \A i \in 1..n : <<i, i>> \notin R
    /\ \A i, j, k \in 1..n : <<i, j>> \in R /\ <<j, k>> \in R => <<i, k>> \in R
    /\ \A i, j \in 1..n : i # j => <<i, j>> \in R \/ <<j, i>> \in R

\* Every place is taken by one element, and the places are in order.
LEMMA EveryPlace ==
  ASSUME NEW n \in Nat, NEW R, OrdersAll(R, n)
  PROVE  /\ \A k \in 1..n : ElementAt(R, n, k) \in 1..n
         /\ \A i \in 1..n : \E k \in 1..n : ElementAt(R, n, k) = i
         /\ \A k \in 1..n, m \in 1..n : k < m => <<ElementAt(R, n, k), ElementAt(R, n, m)>> \in R
<1> DEFINE C(i) == Cardinality(AheadOf(R, n, i))
           Place == [i \in 1..n |-> C(i) + 1]
<1>1. IsFiniteSet(1..n) /\ Cardinality(1..n) = n
  BY FS_Interval
<1>2. ASSUME NEW i \in 1..n
      PROVE  IsFiniteSet(AheadOf(R, n, i)) /\ C(i) \in Nat /\ C(i) < n
  <2>1. AheadOf(R, n, i) \in SUBSET (1..n) /\ i \notin AheadOf(R, n, i)
    BY DEF AheadOf, OrdersAll
  <2>2. /\ IsFiniteSet(AheadOf(R, n, i)) /\ C(i) <= n
        /\ C(i) = n => AheadOf(R, n, i) = 1..n
    BY <1>1, <2>1, FS_Subset
  <2>3. C(i) \in Nat
    BY <2>2, FS_CardinalityType
  <2>4. C(i) # n
    BY <2>1, <2>2
  <2> HIDE DEF C
  <2> QED BY <2>2, <2>3, <2>4
<1>3. ASSUME NEW i \in 1..n, NEW j \in 1..n, <<i, j>> \in R
      PROVE  C(i) < C(j)
  <2>1. AheadOf(R, n, i) \in SUBSET AheadOf(R, n, j) /\ i \in AheadOf(R, n, j) /\ i \notin AheadOf(R, n, i)
    BY <1>3 DEF AheadOf, OrdersAll
  <2>2. C(i) <= C(j) /\ (C(j) = C(i) => AheadOf(R, n, j) = AheadOf(R, n, i))
    BY <1>2, <2>1, FS_Subset
  <2>3. C(i) \in Nat /\ C(j) \in Nat /\ C(i) # C(j)
    BY <1>2, <2>1, <2>2
  <2> HIDE DEF C
  <2> QED BY <2>2, <2>3
<1>4. \A i, j \in 1..n : Place[i] = Place[j] => i = j
  <2> SUFFICES ASSUME NEW i \in 1..n, NEW j \in 1..n, Place[i] = Place[j], i # j PROVE FALSE
    OBVIOUS
  <2>1. C(i) + 1 = C(j) + 1 /\ C(i) \in Nat /\ C(j) \in Nat
    BY <1>2
  <2>2. C(i) < C(j) \/ C(j) < C(i)
    <3>1. <<i, j>> \in R \/ <<j, i>> \in R
      BY DEF OrdersAll
    <3> QED BY <1>3, <3>1
  <2> HIDE DEF C
  <2> QED BY <2>1, <2>2
<1>5. Place \in [1..n -> 1..n]
  <2>1. \A i \in 1..n : C(i) + 1 \in 1..n
    <3> HIDE DEF C
    <3> QED BY <1>2
  <2> QED BY <2>1
<1>6. \A k \in 1..n : \E i \in 1..n : Place[i] = k
  <2>1. Place \in Injection(1..n, 1..n)
    BY <1>4, <1>5, Fun_IsInj
  <2> DEFINE S == 1..n
  <2>2. Place \in Injection(S, S) /\ IsFiniteSet(S)
    BY <1>1, <2>1
  <2> HIDE DEF Place, S
  <2>3. Place \in Surjection(S, S)
    BY <2>2, FS_Injection
  <2>4. \A k \in S : \E i \in S : Place[i] = k
    BY <2>3, Fun_SurjectionProperties
  <2> QED BY <2>4 DEF S
<1>7. \A k \in 1..n : ElementAt(R, n, k) \in 1..n /\ C(ElementAt(R, n, k)) = k - 1
  <2> TAKE k \in 1..n
  <2>1. PICK i \in 1..n : Place[i] = k
    BY <1>6
  <2>2. C(i) = k - 1
    <3>1. C(i) + 1 = k /\ C(i) \in Nat
      BY <1>2, <2>1
    <3> HIDE DEF C
    <3> QED BY <3>1
  <2> QED BY <2>2 DEF ElementAt
<1>8. ASSUME NEW i \in 1..n
      PROVE  \E k \in 1..n : ElementAt(R, n, k) = i
  <2>1. Place[i] \in 1..n /\ Place[i] = C(i) + 1 /\ C(i) \in Nat
    BY <1>2, <1>5
  <2>2. ElementAt(R, n, Place[i]) \in 1..n /\ C(ElementAt(R, n, Place[i])) = Place[i] - 1
    BY <1>7, <2>1
  <2>3. Place[ElementAt(R, n, Place[i])] = Place[i]
    <3> DEFINE a == ElementAt(R, n, Place[i])
    <3>1. Place[a] = C(a) + 1 /\ C(a) = Place[i] - 1
      BY <2>2
    <3> HIDE DEF a, C, Place
    <3>2. Place[a] = Place[i]
      BY <2>1, <3>1
    <3> QED BY <3>2 DEF a
  <2> HIDE DEF Place
  <2> QED BY <1>4, <2>1, <2>2, <2>3
<1>9. ASSUME NEW k \in 1..n, NEW m \in 1..n, k < m
      PROVE  <<ElementAt(R, n, k), ElementAt(R, n, m)>> \in R
  <2> DEFINE a == ElementAt(R, n, k)
             b == ElementAt(R, n, m)
  <2>1. a \in 1..n /\ C(a) = k - 1 /\ b \in 1..n /\ C(b) = m - 1
    BY <1>7
  <2> HIDE DEF a, b
  <2>2. ~(C(b) < C(a)) /\ C(a) # C(b)
    <3> HIDE DEF C
    <3> QED BY <1>9, <2>1
  <2>3. a # b /\ <<b, a>> \notin R
    BY <1>3, <2>1, <2>2
  <2>4. <<a, b>> \in R
    BY <2>1, <2>3 DEF OrdersAll
  <2> QED BY <2>4 DEF a, b
<1> QED BY <1>7, <1>8, <1>9

-----------------------------------------------------------------------------
(* Orders on finite sets.                                                  *)

\* A set in which R orders some of the elements has one that no other precedes.
LEMMA MinimalElement ==
  ASSUME NEW D, IsFiniteSet(D), NEW R,
         \A x \in D : <<x, x>> \notin R,
         \A x, y, z \in D : <<x, y>> \in R /\ <<y, z>> \in R => <<x, z>> \in R,
         NEW T \in SUBSET D, T # {}
  PROVE  \E m \in T : \A y \in T : <<y, m>> \notin R
<1> DEFINE Before(x) == {y \in D : <<y, x>> \in R}
           Counts == {Cardinality(Before(x)) : x \in T}
<1>1. \A x \in D : IsFiniteSet(Before(x)) /\ Cardinality(Before(x)) \in Nat
  <2> TAKE x \in D
  <2>1. Before(x) \in SUBSET D
    OBVIOUS
  <2>2. IsFiniteSet(Before(x))
    BY <2>1, FS_Subset
  <2> QED BY <2>2, FS_CardinalityType
<1>2. Counts \in SUBSET Nat /\ Counts # {}
  <2>1. \A x \in T : Cardinality(Before(x)) \in Nat
    BY <1>1
  <2> HIDE DEF Before
  <2> QED BY <2>1
<1>3. PICK n \in Counts : \A k \in Counts : n <= k
  <2> HIDE DEF Counts
  <2> QED BY <1>2, LeastNatural
<1>4. PICK m \in T : n = Cardinality(Before(m))
  OBVIOUS
<1>5. ASSUME NEW y \in T, <<y, m>> \in R PROVE FALSE
  <2>1. y \in D /\ m \in D
    OBVIOUS
  <2>2. Before(y) \in SUBSET Before(m)
    BY <1>5, <2>1
  <2>3. y \in Before(m) /\ y \notin Before(y)
    BY <1>5, <2>1
  <2>4. Cardinality(Before(y)) <= Cardinality(Before(m))
    BY <1>1, <2>1, <2>2, FS_Subset
  <2>5. Cardinality(Before(m)) # Cardinality(Before(y))
    BY <1>1, <2>1, <2>2, <2>3, FS_Subset
  <2>6. n <= Cardinality(Before(y))
    <3>1. Cardinality(Before(y)) \in Counts
      OBVIOUS
    <3> HIDE DEF Before, Counts
    <3> QED BY <1>3, <3>1
  <2>7. Cardinality(Before(y)) \in Nat /\ Cardinality(Before(m)) \in Nat /\ n = Cardinality(Before(m))
    BY <1>1, <1>4, <2>1
  <2> HIDE DEF Before, Counts
  <2> QED BY <2>4, <2>5, <2>6, <2>7
<1> QED BY <1>5

\* A finite set of naturals has a greatest element.
LEMMA MaxOfFinite ==
  ASSUME NEW S \in SUBSET Nat, IsFiniteSet(S), S # {}
  PROVE  Max(S) \in S /\ \A y \in S : y <= Max(S)
<1> DEFINE R == {x \in S \X S : x[1] > x[2]}
<1>1. \A x \in S : <<x, x>> \notin R
  OBVIOUS
<1>2. \A x, y, z \in S : <<x, y>> \in R /\ <<y, z>> \in R => <<x, z>> \in R
  <2> SUFFICES ASSUME NEW x \in S, NEW y \in S, NEW z \in S, x > y, y > z PROVE x > z
    OBVIOUS
  <2>1. x \in Nat /\ y \in Nat /\ z \in Nat
    OBVIOUS
  <2> QED BY <2>1
<1>3. \E m \in S : \A y \in S : <<y, m>> \notin R
  <2> DEFINE D == S
  <2>1. /\ D \in SUBSET D /\ D # {} /\ IsFiniteSet(D) /\ \A x \in D : <<x, x>> \notin R
        /\ \A x, y, z \in D : <<x, y>> \in R /\ <<y, z>> \in R => <<x, z>> \in R
    BY <1>1, <1>2
  <2> HIDE DEF R, D
  <2>2. \E m \in D : \A y \in D : <<y, m>> \notin R
    BY <2>1, MinimalElement
  <2> QED BY <2>2 DEF D
<1>4. PICK m \in S : \A y \in S : <<y, m>> \notin R
  BY <1>3
<1>5. \A y \in S : y <= m
  <2> TAKE y \in S
  <2>1. ~(y > m)
    BY <1>4
  <2> QED BY <2>1
<1> QED BY <1>5, MaxOfNaturals

-----------------------------------------------------------------------------
(* The sum a fold computes over a finite set.                              *)

\* The element a fold takes next, from any set that is not empty.
Picks(S) == {p \in [(SUBSET S) \ {{}} -> S] : \A s \in (SUBSET S) \ {{}} : p[s] \in s}

\* g adds up the values of F over the sets of D, one picked element at a time.
AddsUp(g, F, p, D) ==
    g = [s \in D |-> IF s = {} THEN 0 ELSE F[p[s]] + g[s \ {p[s]}]]

SmallSets(S, n) == {s \in SUBSET S : Cardinality(s) <= n}

\* What is left when an element is picked is smaller.
LEMMA PickShrinks ==
  ASSUME NEW S, IsFiniteSet(S), NEW p \in Picks(S), NEW s \in SUBSET S, s # {}
  PROVE  /\ p[s] \in S /\ s \ {p[s]} \in SUBSET S
         /\ Cardinality(s \ {p[s]}) = Cardinality(s) - 1
         /\ Cardinality(s) \in Nat /\ Cardinality(s) <= Cardinality(S)
<1>1. IsFiniteSet(s) /\ Cardinality(s) \in Nat /\ Cardinality(s) <= Cardinality(S)
  BY FS_Subset, FS_CardinalityType
<1>2. p[s] \in s
  BY DEF Picks
<1> QED BY <1>1, <1>2, FS_RemoveElement

\* The recursion behind a sum over a finite set has a solution.
LEMMA SumExists ==
  ASSUME NEW S, IsFiniteSet(S), NEW V \in {Nat, Int}, NEW F \in [S -> V], NEW p \in Picks(S)
  PROVE  \E g : AddsUp(g, F, p, SUBSET S)
<1> DEFINE Solved(n) == \E g \in [SmallSets(S, n) -> V] : AddsUp(g, F, p, SmallSets(S, n))
           Bad == {n \in Nat : ~Solved(n)}
<1>0. \A s \in SUBSET S : Cardinality(s) \in Nat
  BY FS_Subset, FS_CardinalityType
<1>1. Solved(0)
  <2>1. \A s \in SmallSets(S, 0) : s = {}
    <3> SUFFICES ASSUME NEW s \in SmallSets(S, 0), s # {} PROVE FALSE
      OBVIOUS
    <3>1. Cardinality(s \ {p[s]}) = Cardinality(s) - 1 /\ s \ {p[s]} \in SUBSET S
      BY PickShrinks DEF SmallSets
    <3>2. Cardinality(s) <= 0 /\ Cardinality(s) \in Nat
      BY <1>0 DEF SmallSets
    <3> QED BY <1>0, <3>1, <3>2
  <2> DEFINE g == [s \in SmallSets(S, 0) |-> 0]
  <2>2. g \in [SmallSets(S, 0) -> V]
    OBVIOUS
  <2>3. AddsUp(g, F, p, SmallSets(S, 0))
    BY <2>1 DEF AddsUp
  <2> QED BY <2>2, <2>3
<1>2. ASSUME NEW n \in Nat, Solved(n) PROVE Solved(n + 1)
  <2>1. PICK g \in [SmallSets(S, n) -> V] : AddsUp(g, F, p, SmallSets(S, n))
    BY <1>2
  <2> DEFINE D == SmallSets(S, n + 1)
             h == [s \in D |-> IF s \in SmallSets(S, n) THEN g[s]
                               ELSE F[p[s]] + g[s \ {p[s]}]]
  <2>2. SmallSets(S, n) \subseteq D
    BY <1>0 DEF SmallSets
  <2>3. ASSUME NEW s \in D, s # {}
        PROVE  s \ {p[s]} \in SmallSets(S, n) /\ p[s] \in S
    BY <1>0, <2>3, PickShrinks DEF SmallSets
  <2>4. {} \in SmallSets(S, n)
    BY FS_EmptySet DEF SmallSets
  <2>5. h \in [D -> V]
    <3> SUFFICES ASSUME NEW s \in D PROVE h[s] \in V
      OBVIOUS
    <3>1. CASE s \in SmallSets(S, n)
      <4>1. h[s] = g[s]
        BY <3>1
      <4> QED BY <3>1, <4>1
    <3>2. CASE s \notin SmallSets(S, n)
      <4>1. s \ {p[s]} \in SmallSets(S, n) /\ p[s] \in S
        BY <2>3, <2>4, <3>2
      <4>2. h[s] = F[p[s]] + g[s \ {p[s]}]
        BY <3>2
      <4>3. F[p[s]] \in V /\ g[s \ {p[s]}] \in V
        BY <4>1
      <4> QED BY <4>2, <4>3
    <3> QED BY <3>1, <3>2
  <2>6. ASSUME NEW s \in D
        PROVE  h[s] = IF s = {} THEN 0 ELSE F[p[s]] + h[s \ {p[s]}]
    <3>1. CASE s \in SmallSets(S, n)
      <4>1. h[s] = g[s]
        BY <3>1
      <4>2. g[s] = IF s = {} THEN 0 ELSE F[p[s]] + g[s \ {p[s]}]
        BY <2>1, <3>1 DEF AddsUp
      <4>3. s # {} => h[s \ {p[s]}] = g[s \ {p[s]}]
        BY <2>2, <2>3
      <4> QED BY <4>1, <4>2, <4>3
    <3>2. CASE s \notin SmallSets(S, n)
      <4>1. s # {} /\ h[s] = F[p[s]] + g[s \ {p[s]}]
        BY <2>4, <3>2
      <4>2. h[s \ {p[s]}] = g[s \ {p[s]}]
        BY <2>2, <2>3, <4>1
      <4> QED BY <4>1, <4>2
    <3> QED BY <3>1, <3>2
  <2>7. AddsUp(h, F, p, D)
    <3> DEFINE r == [s \in D |-> IF s = {} THEN 0 ELSE F[p[s]] + h[s \ {p[s]}]]
    <3>1. \A s \in D : h[s] = r[s]
      BY <2>6
    <3>2. DOMAIN h = D /\ DOMAIN r = D /\ h = [s \in D |-> h[s]] /\ r = [s \in D |-> r[s]]
      OBVIOUS
    <3>3. h = r
      <4> HIDE DEF h, r
      <4> QED BY <3>1, <3>2
    <3> QED BY <3>3 DEF AddsUp
  <2> HIDE DEF h
  <2> QED BY <2>5, <2>7
<1>3. Bad = {}
  <2> SUFFICES ASSUME Bad # {} PROVE FALSE
    OBVIOUS
  <2>1. PICK m \in Bad : \A k \in Bad : m <= k
    <3> HIDE DEF Solved
    <3> QED BY LeastNatural
  <2> HIDE DEF Solved
  <2>2. m \in Nat /\ m # 0
    BY <1>1
  <2>3. Solved(m - 1)
    BY <2>1, <2>2
  <2> QED BY <1>2, <2>1, <2>2, <2>3
<1>4. Cardinality(S) \in Nat
  BY FS_CardinalityType
<1>5. Solved(Cardinality(S))
  <2> HIDE DEF Solved
  <2> QED BY <1>3, <1>4
<1>6. SmallSets(S, Cardinality(S)) = SUBSET S
  BY FS_Subset DEF SmallSets
<1> QED BY <1>5, <1>6

\* A sum of naturals is a natural, one of integers an integer.
LEMMA SumIsIn ==
  ASSUME NEW S, IsFiniteSet(S), NEW V \in {Nat, Int}, NEW F \in [S -> V], NEW p \in Picks(S),
         NEW g, AddsUp(g, F, p, SUBSET S)
  PROVE  \A s \in SUBSET S : g[s] \in V
<1> DEFINE Bad == {n \in Nat : \E s \in SUBSET S : Cardinality(s) = n /\ g[s] \notin V}
<1>1. \A s \in SUBSET S : g[s] = IF s = {} THEN 0 ELSE F[p[s]] + g[s \ {p[s]}]
  BY DEF AddsUp
<1>2. Bad = {}
  <2> SUFFICES ASSUME Bad # {} PROVE FALSE
    OBVIOUS
  <2>1. PICK m \in Bad : \A k \in Bad : m <= k
    BY LeastNatural
  <2>2. PICK s \in SUBSET S : Cardinality(s) = m /\ g[s] \notin V
    OBVIOUS
  <2>3. s # {}
    <3>1. s = {} => g[s] = 0
      BY <1>1
    <3> QED BY <2>2, <3>1
  <2>4. /\ p[s] \in S /\ s \ {p[s]} \in SUBSET S
        /\ Cardinality(s \ {p[s]}) = m - 1 /\ m \in Nat
    BY <2>2, <2>3, PickShrinks
  <2>5. Cardinality(s \ {p[s]}) \in Nat
    BY <2>4, FS_Subset, FS_CardinalityType
  <2>6. g[s \ {p[s]}] \in V
    BY <2>1, <2>4, <2>5
  <2>7. g[s] = F[p[s]] + g[s \ {p[s]}]
    BY <1>1, <2>3
  <2> QED BY <2>2, <2>4, <2>6, <2>7
<1>3. \A s \in SUBSET S : Cardinality(s) \in Nat
  BY FS_Subset, FS_CardinalityType
<1> QED BY <1>2, <1>3

-----------------------------------------------------------------------------
(* Sums along a sequence, which a left fold takes from its last element.   *)

LastFirst(n) == [s \in (SUBSET (1..n)) \ {{}} |-> Max(s)]

\* g adds up the values of F at 1, 2, ..., n.
RunsUp(g, F, n) == AddsUp(g, F, LastFirst(n), SUBSET (1..n))

\* A fold along a sequence picks the largest index.
LEMMA LastFirstPicks ==
  ASSUME NEW n \in Nat
  PROVE  LastFirst(n) \in Picks(1..n)
<1>1. \A s \in (SUBSET (1..n)) \ {{}} : Max(s) \in s
  <2> TAKE s \in (SUBSET (1..n)) \ {{}}
  <2>1. s \in SUBSET Nat /\ s # {} /\ \A y \in s : y <= n
    OBVIOUS
  <2> QED BY <2>1, MaxOfNaturals
<1> QED BY <1>1 DEF LastFirst, Picks

\* The sum up to k is the value at k and the sum up to k - 1.
LEMMA SumSteps ==
  ASSUME NEW n \in Nat, NEW F, NEW g, RunsUp(g, F, n),
         NEW k \in 1..n
  PROVE  g[1..k] = F[k] + g[1..(k - 1)]
<1>1. 1..k \in SUBSET (1..n) /\ 1..k # {} /\ 1..k \in SUBSET Nat /\ \A y \in 1..k : y <= k
  OBVIOUS
<1>2. Max(1..k) = k
  <2>0. k \in Nat
    OBVIOUS
  <2>1. Max(1..k) \in 1..k /\ \A y \in 1..k : y <= Max(1..k)
    BY <1>1, <2>0, MaxOfNaturals
  <2>2. k \in 1..k
    OBVIOUS
  <2> QED BY <2>1, <2>2
<1>3. LastFirst(n)[1..k] = k
  BY <1>1, <1>2 DEF LastFirst
<1>4. (1..k) \ {k} = 1..(k - 1)
  OBVIOUS
<1>5. g[1..k] = F[LastFirst(n)[1..k]] + g[(1..k) \ {LastFirst(n)[1..k]}]
  BY <1>1 DEF RunsUp, AddsUp
<1> QED BY <1>3, <1>4, <1>5

\* Sums of values that agree up to k agree up to k.
LEMMA SumsAgree ==
  ASSUME NEW n \in Nat, NEW F, NEW g, RunsUp(g, F, n),
         NEW m \in Nat, NEW H, NEW h, RunsUp(h, H, m),
         n <= m, \A i \in 1..n : F[i] = H[i]
  PROVE  g[1..n] = h[1..n]
<1> DEFINE Bad == {k \in 0..n : g[1..k] # h[1..k]}
<1> SUFFICES ASSUME Bad # {} PROVE FALSE
  OBVIOUS
<1>1. PICK k \in Bad : \A j \in Bad : k <= j
  <2>1. Bad \in SUBSET Nat
    OBVIOUS
  <2> HIDE DEF Bad
  <2> QED BY <2>1, LeastNatural
<1>2. k # 0
  <2>1. 1..0 = {} /\ {} \in SUBSET (1..n) /\ {} \in SUBSET (1..m)
    OBVIOUS
  <2>2. g[{}] = 0 /\ h[{}] = 0
    BY <2>1 DEF RunsUp, AddsUp
  <2> QED BY <2>1, <2>2
<1>3. k \in 1..n /\ k \in 1..m /\ k - 1 \in 0..n /\ ~(k <= k - 1)
  BY <1>2
<1>4. g[1..(k - 1)] = h[1..(k - 1)]
  BY <1>1, <1>3
<1>5. \A j \in 1..n : g[1..j] = F[j] + g[1..(j - 1)]
  BY SumSteps
<1>6. \A j \in 1..m : h[1..j] = H[j] + h[1..(j - 1)]
  BY SumSteps
<1> QED BY <1>3, <1>4, <1>5, <1>6

-----------------------------------------------------------------------------
(* Sums over sets, whatever the order in which the elements are taken.     *)

Summed(F, S) == MapThenSumSet(LAMBDA x : F[x], S)

\* The values that are added up are integers.
Whole(F, S) == \A x \in S : F[x] \in Int

Chosen(S) == [s \in (SUBSET S) \ {{}} |-> CHOOSE x \in s : TRUE]

\* g adds up the values of F over the subsets of S.
Totals(g, F, S) == AddsUp(g, F, Chosen(S), SUBSET S)

\* What a sum over a set of the values of F is.
LEMMA SummedIsASum ==
  ASSUME NEW S, IsFiniteSet(S), NEW V \in {Nat, Int}, NEW F, \A x \in S : F[x] \in V
  PROVE  \E g : /\ Totals(g, F, S) /\ Summed(F, S) = g[S]
                /\ \A s \in SUBSET S : g[s] \in V
<1> DEFINE H == [x \in S |-> F[x]]
           Sums(g) == g = [s \in SUBSET S |->
                             IF s = {} THEN 0
                             ELSE F[CHOOSE x \in s : TRUE] + g[s \ {CHOOSE x \in s : TRUE}]]
<1>1. H \in [S -> V]
  OBVIOUS
<1>2. Chosen(S) \in Picks(S)
  BY DEF Chosen, Picks
<1>3. \A s \in SUBSET S : s # {} =>
         /\ Chosen(S)[s] = CHOOSE x \in s : TRUE
         /\ Chosen(S)[s] \in S /\ H[Chosen(S)[s]] = F[Chosen(S)[s]]
  BY <1>2 DEF Chosen, Picks
<1> HIDE DEF H
<1>4. ASSUME NEW g PROVE Sums(g) <=> AddsUp(g, H, Chosen(S), SUBSET S)
  <2>1. [s \in SUBSET S |->
            IF s = {} THEN 0
            ELSE F[CHOOSE x \in s : TRUE] + g[s \ {CHOOSE x \in s : TRUE}]]
        = [s \in SUBSET S |->
            IF s = {} THEN 0 ELSE H[Chosen(S)[s]] + g[s \ {Chosen(S)[s]}]]
    <3> SUFFICES ASSUME NEW s \in SUBSET S, s # {}
                 PROVE  F[CHOOSE x \in s : TRUE] + g[s \ {CHOOSE x \in s : TRUE}]
                        = H[Chosen(S)[s]] + g[s \ {Chosen(S)[s]}]
      OBVIOUS
    <3>1. Chosen(S)[s] = (CHOOSE x \in s : TRUE) /\ H[Chosen(S)[s]] = F[Chosen(S)[s]]
      BY <1>3
    <3> DEFINE c == CHOOSE x \in s : TRUE
    <3> HIDE DEF c
    <3> QED BY <3>1 DEF c
  <2> QED BY <2>1 DEF AddsUp
<1>5. ASSUME NEW g PROVE Totals(g, F, S) <=> AddsUp(g, H, Chosen(S), SUBSET S)
  <2>1. [s \in SUBSET S |->
            IF s = {} THEN 0 ELSE F[Chosen(S)[s]] + g[s \ {Chosen(S)[s]}]]
        = [s \in SUBSET S |->
            IF s = {} THEN 0 ELSE H[Chosen(S)[s]] + g[s \ {Chosen(S)[s]}]]
    <3>1. \A s \in SUBSET S :
             IF s = {} THEN TRUE ELSE F[Chosen(S)[s]] = H[Chosen(S)[s]]
      BY <1>3
    <3> QED BY <3>1
  <2> QED BY <2>1 DEF AddsUp, Totals
<1>6. Summed(F, S) = (CHOOSE g : Sums(g))[S]
  BY DEF Summed, MapThenSumSet, MapThenFoldSet
<1> HIDE DEF Sums
<1>7. \E g : Sums(g)
  BY <1>1, <1>2, <1>4, SumExists
<1>8. PICK g : Sums(g) /\ g = CHOOSE f : Sums(f)
  BY <1>7
<1>9. AddsUp(g, H, Chosen(S), SUBSET S)
  BY <1>4, <1>8
<1>10. ASSUME NEW s \in SUBSET S PROVE g[s] \in V
  BY <1>1, <1>2, <1>9, SumIsIn
<1> QED BY <1>5, <1>6, <1>8, <1>9, <1>10

\* Two sums of the same values agree on what they share.
LEMMA TotalsAgree ==
  ASSUME NEW S, IsFiniteSet(S), NEW F, NEW g, Totals(g, F, S),
         NEW T, IsFiniteSet(T), NEW H, NEW h, Totals(h, H, T),
         \A x \in S \cap T : F[x] = H[x]
  PROVE  \A s \in SUBSET (S \cap T) : g[s] = h[s]
<1> DEFINE U == S \cap T
           Bad == {n \in Nat : \E s \in SUBSET U : Cardinality(s) = n /\ g[s] # h[s]}
<1>1. IsFiniteSet(U) /\ \A s \in SUBSET U : Cardinality(s) \in Nat
  BY FS_Subset, FS_CardinalityType
<1>2. ASSUME Bad # {} PROVE FALSE
  <2>1. PICK m \in Bad : \A k \in Bad : m <= k
    BY <1>2, LeastNatural
  <2>2. PICK s \in SUBSET U : Cardinality(s) = m /\ g[s] # h[s]
    OBVIOUS
  <2>3. s \in SUBSET S /\ s \in SUBSET T
    OBVIOUS
  <2>4. s # {}
    <3>1. s = {} => g[s] = 0 /\ h[s] = 0
      BY <2>3 DEF Totals, AddsUp
    <3> QED BY <2>2, <3>1
  <2> DEFINE c == CHOOSE x \in s : TRUE
  <2>5. c \in s
    BY <2>4
  <2>6. Chosen(S)[s] = c /\ Chosen(T)[s] = c
    BY <2>3, <2>4 DEF Chosen
  <2>7. g[s] = F[c] + g[s \ {c}] /\ h[s] = H[c] + h[s \ {c}]
    BY <2>3, <2>4, <2>6 DEF Totals, AddsUp
  <2> HIDE DEF c
  <2>8. s \ {c} \in SUBSET U /\ Cardinality(s \ {c}) = m - 1 /\ Cardinality(s \ {c}) \in Nat /\ m \in Nat
    <3>1. IsFiniteSet(s)
      BY <1>1, FS_Subset
    <3> QED BY <1>1, <2>2, <2>5, <3>1, FS_RemoveElement
  <2>9. g[s \ {c}] = h[s \ {c}]
    <3>1. m - 1 \notin Bad
      BY <2>1, <2>8
    <3> QED BY <2>8, <3>1
  <2>10. F[c] = H[c]
    BY <2>5
  <2> QED BY <2>2, <2>7, <2>9, <2>10
<1> QED BY <1>1, <1>2

\* In a sum any element may be taken first.
TakesAny(g, F, S) == \A s \in SUBSET S : \A x \in s : g[s] = F[x] + g[s \ {x}]

LEMMA TotalsTake ==
  ASSUME NEW S, IsFiniteSet(S), NEW F, Whole(F, S),
         NEW g, Totals(g, F, S), Whole(g, SUBSET S)
  PROVE  TakesAny(g, F, S)
<1> DEFINE Bad == {n \in Nat : \E s \in SUBSET S : \E x \in s :
                      Cardinality(s) = n /\ g[s] # F[x] + g[s \ {x}]}
<1>1. \A s \in SUBSET S : IsFiniteSet(s) /\ Cardinality(s) \in Nat
  BY FS_Subset, FS_CardinalityType
<1>2. ASSUME Bad # {} PROVE FALSE
  <2>1. PICK m \in Bad : \A k \in Bad : m <= k
    BY <1>2, LeastNatural
  <2>0. PICK s \in SUBSET S : \E x \in s : Cardinality(s) = m /\ g[s] # F[x] + g[s \ {x}]
    OBVIOUS
  <2>2. PICK x \in s : Cardinality(s) = m /\ g[s] # F[x] + g[s \ {x}]
    BY <2>0
  <2> DEFINE c == CHOOSE y \in s : TRUE
  <2>3. c \in s /\ Chosen(S)[s] = c
    BY DEF Chosen
  <2>4. g[s] = F[c] + g[s \ {c}]
    BY <2>3 DEF Totals, AddsUp
  <2> HIDE DEF c
  <2>5. c # x
    BY <2>2, <2>4
  <2>6. m \in Nat /\ Cardinality(s \ {c}) = m - 1 /\ Cardinality(s \ {x}) = m - 1
        /\ m - 1 \in Nat
    <3>1. IsFiniteSet(s) /\ m \in Nat
      BY <1>1, <2>2
    <3>2. Cardinality(s \ {c}) = m - 1
      BY <2>2, <2>3, <3>1, FS_RemoveElement
    <3>3. Cardinality(s \ {x}) = m - 1
      BY <2>2, <3>1, FS_RemoveElement
    <3>4. Cardinality(s \ {c}) \in Nat
      BY <1>1
    <3> QED BY <3>1, <3>2, <3>3, <3>4
  <2>7. m - 1 \notin Bad
    <3> HIDE DEF Bad
    <3> QED BY <2>1, <2>6
  <2>8. g[s \ {c}] = F[x] + g[(s \ {c}) \ {x}]
    <3>1. s \ {c} \in SUBSET S /\ x \in s \ {c}
      BY <2>5
    <3> QED BY <2>6, <2>7, <3>1
  <2>9. g[s \ {x}] = F[c] + g[(s \ {x}) \ {c}]
    <3>1. s \ {x} \in SUBSET S /\ c \in s \ {x}
      BY <2>3, <2>5
    <3> QED BY <2>6, <2>7, <3>1
  <2>10. (s \ {c}) \ {x} = (s \ {x}) \ {c}
    OBVIOUS
  <2>11. F[c] \in Int /\ F[x] \in Int /\ g[(s \ {x}) \ {c}] \in Int
    BY <2>3 DEF Whole
  <2>12. g[s] = F[x] + g[s \ {x}]
    <3> HIDE DEF Bad
    <3> DEFINE r == g[(s \ {x}) \ {c}]
    <3>1. g[s \ {c}] = F[x] + r /\ g[s \ {x}] = F[c] + r /\ r \in Int
      BY <2>8, <2>9, <2>10, <2>11
    <3> HIDE DEF r
    <3> QED BY <2>4, <2>11, <3>1
  <2> QED BY <2>2, <2>12
<1> QED BY <1>1, <1>2 DEF TakesAny

\* A sum of naturals is a natural, one of integers an integer.
LEMMA SummedIn ==
  ASSUME NEW S, IsFiniteSet(S), NEW V \in {Nat, Int}, NEW F, \A x \in S : F[x] \in V
  PROVE  Summed(F, S) \in V
<1>1. S \in SUBSET S
  OBVIOUS
<1>2. PICK g : /\ Totals(g, F, S) /\ Summed(F, S) = g[S]
               /\ \A s \in SUBSET S : g[s] \in V
  BY SummedIsASum
<1> QED BY <1>1, <1>2

LEMMA SummedInteger ==
  ASSUME NEW S, IsFiniteSet(S), NEW F, Whole(F, S)
  PROVE  Summed(F, S) \in Int
<1>1. Int \in {Nat, Int} /\ \A x \in S : F[x] \in Int
  BY DEF Whole
<1> QED BY <1>1, SummedIn

LEMMA SummedEmpty ==
  ASSUME NEW F
  PROVE  Summed(F, {}) = 0
<1>1. IsFiniteSet({}) /\ {} \in SUBSET {} /\ Nat \in {Nat, Int} /\ \A x \in {} : F[x] \in Nat
  BY FS_EmptySet
<1>2. PICK g : Totals(g, F, {}) /\ Summed(F, {}) = g[{}]
  BY <1>1, SummedIsASum
<1>3. g[{}] = 0
  BY <1>1, <1>2 DEF Totals, AddsUp
<1> QED BY <1>2, <1>3

\* Any element of the set may be taken out of the sum.
LEMMA SummedTakes ==
  ASSUME NEW S, IsFiniteSet(S), NEW F, Whole(F, S), NEW x \in S
  PROVE  Summed(F, S) = F[x] + Summed(F, S \ {x})
<1> DEFINE T == S \ {x}
<1>1. IsFiniteSet(T) /\ Int \in {Nat, Int} /\ \A y \in T : F[y] \in Int
  BY FS_Subset DEF Whole
<1>2. PICK g : /\ Totals(g, F, S) /\ Summed(F, S) = g[S]
               /\ \A s \in SUBSET S : g[s] \in Int
  BY <1>1, SummedIsASum DEF Whole
<1>3. PICK h : Totals(h, F, T) /\ Summed(F, T) = h[T]
  <2> HIDE DEF T
  <2> QED BY <1>1, SummedIsASum
<1>4. g[S] = F[x] + g[T]
  <2>1. TakesAny(g, F, S)
    <3>1. Whole(g, SUBSET S)
      BY <1>2 DEF Whole
    <3> QED BY <1>2, <3>1, TotalsTake
  <2>2. S \in SUBSET S
    OBVIOUS
  <2> QED BY <2>1, <2>2 DEF TakesAny
<1>5. g[T] = h[T]
  <2>1. T \in SUBSET (S \cap T)
    OBVIOUS
  <2> HIDE DEF T
  <2> QED BY <1>1, <1>2, <1>3, <2>1, TotalsAgree
<1> QED BY <1>2, <1>3, <1>4, <1>5

\* The sum depends on the values at the elements only.
LEMMA SummedSame ==
  ASSUME NEW S, IsFiniteSet(S), NEW F, NEW H, Whole(F, S), \A x \in S : F[x] = H[x]
  PROVE  Summed(F, S) = Summed(H, S)
<1>1. Int \in {Nat, Int} /\ (\A x \in S : F[x] \in Int) /\ (\A x \in S : H[x] \in Int)
  BY DEF Whole
<1>2. PICK g : Totals(g, F, S) /\ Summed(F, S) = g[S]
  BY <1>1, SummedIsASum
<1>3. PICK h : Totals(h, H, S) /\ Summed(H, S) = h[S]
  BY <1>1, SummedIsASum
<1>4. S \in SUBSET (S \cap S)
  OBVIOUS
<1> QED BY <1>2, <1>3, <1>4, TotalsAgree

\* The sum of values that are none or one amount counts the others.
LEMMA SummedCount ==
  ASSUME NEW S, IsFiniteSet(S), NEW u \in Nat, NEW F, \A x \in S : F[x] \in {0, u}
  PROVE  LET Some == {x \in S : F[x] # 0}
         IN  /\ IsFiniteSet(Some) /\ Cardinality(Some) \in Nat
             /\ Summed(F, S) = u * Cardinality(Some)
<1> DEFINE Some(s) == {x \in s : F[x] # 0}
           Counts(s) == Summed(F, s) = u * Cardinality(Some(s))
           Bad == {Cardinality(s) : s \in {t \in SUBSET S : ~Counts(t)}}
<1>1. \A s \in SUBSET S : /\ IsFiniteSet(s) /\ Cardinality(s) \in Nat
                          /\ IsFiniteSet(Some(s)) /\ Cardinality(Some(s)) \in Nat
  <2> TAKE s \in SUBSET S
  <2>1. IsFiniteSet(s)
    BY FS_Subset
  <2>2. Some(s) \in SUBSET s
    OBVIOUS
  <2> HIDE DEF Some
  <2> QED BY <2>1, <2>2, FS_Subset, FS_CardinalityType
<1>2. ASSUME Bad # {} PROVE FALSE
  <2>1. Bad \in SUBSET Nat
    <3> HIDE DEF Counts
    <3> QED BY <1>1
  <2>2. PICK k \in Bad : \A j \in Bad : k <= j
    <3> HIDE DEF Bad
    <3> QED BY <1>2, <2>1, LeastNatural
  <2>3. PICK s \in SUBSET S : k = Cardinality(s) /\ ~Counts(s)
    <3> HIDE DEF Counts
    <3> QED OBVIOUS
  <2>4. s # {}
    <3>1. Summed(F, {}) = 0
      BY SummedEmpty
    <3>2. Cardinality(Some({})) = 0
      <4>1. Some({}) = {}
        OBVIOUS
      <4> HIDE DEF Some
      <4> QED BY <4>1, FS_EmptySet
    <3>3. Counts({})
      <4> HIDE DEF Some
      <4> QED BY <3>1, <3>2
    <3> HIDE DEF Counts
    <3> QED BY <2>3, <3>3
  <2>5. PICK x \in s : TRUE
    BY <2>4
  <2> DEFINE t == s \ {x}
  <2>6. t \in SUBSET S /\ Cardinality(t) = Cardinality(s) - 1
    BY <1>1, <2>5, FS_RemoveElement
  <2>7. Counts(t)
    <3>1. Cardinality(t) \notin Bad
      <4>1. ~(k <= Cardinality(t))
        <5> DEFINE c == Cardinality(t)
                   n == Cardinality(s)
        <5>1. c = n - 1 /\ n \in Nat /\ k = n
          BY <1>1, <2>3, <2>6
        <5> HIDE DEF c, n
        <5>2. ~(k <= c)
          BY <5>1
        <5> QED BY <5>2 DEF c
      <4> HIDE DEF Bad, t
      <4> QED BY <2>2, <4>1
    <3> HIDE DEF Counts, t
    <3> QED BY <2>6, <3>1
  <2>8. Summed(F, s) = F[x] + Summed(F, t)
    <3>1. IsFiniteSet(s) /\ Whole(F, s) /\ x \in s
      BY <1>1, <2>3, <2>5 DEF Whole
    <3> QED BY <3>1, SummedTakes
  <2>9. F[x] \in {0, u} /\ x \in s /\ x \notin t /\ s = t \cup {x}
    BY <2>5
  <2>10. CASE F[x] = 0
    <3>1. Some(s) = Some(t)
      BY <2>9, <2>10
    <3> DEFINE c == Cardinality(Some(t))
    <3>2. Summed(F, s) = Summed(F, t) /\ c \in Nat /\ Summed(F, t) = u * c
      <4>1. c \in Nat /\ Summed(F, t) = u * c
        BY <1>1, <2>6, <2>7
      <4>2. u * c \in Int
        <5> HIDE DEF c
        <5> QED BY <4>1
      <4> HIDE DEF c
      <4> QED BY <2>8, <2>10, <4>1, <4>2
    <3> HIDE DEF Some
    <3> QED BY <2>3, <3>1, <3>2
  <2>11. CASE F[x] # 0
    <3>1. Some(s) = Some(t) \cup {x} /\ x \notin Some(t) /\ F[x] = u
      BY <2>9, <2>11
    <3> DEFINE c == Cardinality(Some(t))
    <3>2. Cardinality(Some(s)) = c + 1
      <4>1. IsFiniteSet(Some(t))
        BY <1>1, <2>6
      <4> HIDE DEF Some, t
      <4> QED BY <3>1, <4>1, FS_AddElement
    <3>3. Summed(F, s) = u * (c + 1)
      <4>1. c \in Nat /\ Summed(F, t) = u * c
        BY <1>1, <2>6, <2>7
      <4> HIDE DEF c
      <4>2. u * (c + 1) = u + u * c
        BY <4>1
      <4> QED BY <2>8, <3>1, <4>1, <4>2
    <3> HIDE DEF Some, c
    <3> QED BY <2>3, <3>2, <3>3
  <2> QED BY <2>10, <2>11
<1>3. Counts(S)
  <2>1. S \in SUBSET S
    OBVIOUS
  <2> HIDE DEF Counts
  <2> QED BY <1>2, <2>1
<1> QED BY <1>1, <1>3

\* H holds over an interval what F holds o places lower.
Shifted(F, H, D, o) == \A j \in D : F[j] = H[j + o]

\* An interval may be shifted.
LEMMA SummedShift ==
  ASSUME NEW a \in Int, NEW z \in Int, z >= a, NEW o \in Int, NEW F, NEW H,
         Whole(F, a..z), Shifted(F, H, a..z, o)
  PROVE  Summed(F, a..z) = Summed(H, (a + o)..(z + o))
<1> DEFINE n == z - a + 1
<1>3. n \in Nat /\ a + n - 1 = z /\ a + o + n - 1 = z + o
  OBVIOUS
<1>4. Whole(F, a..(a + n - 1)) /\ Shifted(F, H, a..(a + n - 1), o)
  BY <1>3
<1> HIDE DEF n
<1> DEFINE Bad == {k \in 0..n : Summed(F, a..(a + k - 1)) # Summed(H, (a + o)..(a + o + k - 1))}
<1>1. ASSUME Bad # {} PROVE FALSE
  <2>1. PICK k \in Bad : \A i \in Bad : k <= i
    <3>1. Bad \in SUBSET Nat
      BY <1>3
    <3> HIDE DEF Bad
    <3> QED BY <1>1, <3>1, LeastNatural
  <2>2. k # 0
    <3>1. a..(a + 0 - 1) = {} /\ (a + o)..(a + o + 0 - 1) = {}
      OBVIOUS
    <3> QED BY <3>1, SummedEmpty
  <2> DEFINE S == a..(a + k - 1)
             T == (a + o)..(a + o + k - 1)
             x == a + k - 1
  <2>3. k \in 1..n /\ k - 1 \in 0..n
    BY <1>3, <2>2
  <2>4. k - 1 \notin Bad
    <3> HIDE DEF Bad
    <3> QED BY <2>1, <2>3
  <2>5. IsFiniteSet(S) /\ IsFiniteSet(T)
    BY <2>3, FS_Interval
  <2>6. x \in S /\ x + o \in T
    BY <2>3
  <2>7. /\ S \ {x} = a..(a + (k - 1) - 1) /\ T \ {x + o} = (a + o)..(a + o + (k - 1) - 1)
        /\ S \in SUBSET (a..(a + n - 1))
    <3>1. k \in Nat /\ k >= 1 /\ k <= n
      BY <2>3
    <3>2. S \ {x} = a..(a + (k - 1) - 1)
      <4>1. \A y \in Int : y >= a /\ y <= a + k - 1 /\ y # a + k - 1
               <=> y >= a /\ y <= a + (k - 1) - 1
        BY <3>1
      <4>2. \A y : y \in S \ {x} <=> y \in a..(a + (k - 1) - 1)
        <5> TAKE y
        <5>1. y \in S \ {x} <=> y \in Int /\ y >= a /\ y <= a + k - 1 /\ y # a + k - 1
          BY <3>1
        <5>2. y \in a..(a + (k - 1) - 1) <=> y \in Int /\ y >= a /\ y <= a + (k - 1) - 1
          BY <3>1
        <5> QED BY <4>1, <5>1, <5>2
      <4> QED BY <4>2
    <3>3. T \ {x + o} = (a + o)..(a + o + (k - 1) - 1)
      BY <3>1
    <3>4. S \in SUBSET (a..(a + n - 1))
      BY <1>3, <3>1
    <3> QED BY <3>2, <3>3, <3>4
  <2>8. Whole(F, S) /\ F[x] = H[x + o] /\ F[x] \in Int
    BY <1>4, <2>6, <2>7 DEF Whole, Shifted
  <2>9. Whole(H, T)
    <3> SUFFICES ASSUME NEW i \in T PROVE H[i] \in Int
      BY DEF Whole
    <3>1. i - o \in S /\ (i - o) + o = i
      BY <2>3
    <3>2. F[i - o] \in Int /\ F[i - o] = H[(i - o) + o]
      BY <1>4, <2>7, <3>1 DEF Whole, Shifted
    <3> QED BY <3>1, <3>2
  <2>10. Summed(F, S \ {x}) = Summed(H, T \ {x + o})
    BY <2>3, <2>4, <2>7
  <2>11. Summed(F, S) # Summed(H, T)
    OBVIOUS
  <2> HIDE DEF S, T, x, Bad
  <2>12. Summed(F, S) = F[x] + Summed(F, S \ {x})
    BY <2>5, <2>6, <2>8, SummedTakes
  <2>13. Summed(H, T) = H[x + o] + Summed(H, T \ {x + o})
    BY <2>5, <2>6, <2>9, SummedTakes
  <2> QED BY <2>8, <2>10, <2>11, <2>12, <2>13
<1>2. n \notin Bad /\ n \in 0..n
  <2> HIDE DEF Bad
  <2> QED BY <1>3, <1>1
<1> QED BY <1>3, <1>2

-----------------------------------------------------------------------------
(* Recursion along an interval.                                            *)

Runs(f, a, n, b, G) == f = [i \in a..n |-> IF i = a THEN b ELSE G[<<i, f[i - 1]>>]]

\* A recursion from each index to the next has a solution.
LEMMA RunExists ==
  ASSUME NEW a \in Int, NEW n \in Int, NEW V, NEW b \in V, NEW G \in [Int \X V -> V]
  PROVE  \E f \in [a..n -> V] : Runs(f, a, n, b, G)
<1> DEFINE Solved(k) == \E f \in [a..(a + k) -> V] : Runs(f, a, a + k, b, G)
           Bad == {k \in Nat : ~Solved(k)}
<1>1. Solved(0)
  <2> DEFINE f == [i \in a..(a + 0) |-> b]
  <2>1. \A i \in a..(a + 0) : i = a
    OBVIOUS
  <2>2. f = [i \in a..(a + 0) |-> IF i = a THEN b ELSE G[<<i, f[i - 1]>>]]
    BY <2>1
  <2> QED BY <2>2 DEF Runs
<1>2. ASSUME NEW k \in Nat, Solved(k) PROVE Solved(k + 1)
  <2>1. PICK f \in [a..(a + k) -> V] : Runs(f, a, a + k, b, G)
    BY <1>2
  <2> DEFINE m == a + k + 1
             h == [i \in a..m |-> IF i = m THEN G[<<m, f[m - 1]>>] ELSE f[i]]
  <2>2. m \in Int /\ m - 1 \in a..(a + k) /\ m # a /\ m = a + (k + 1)
        /\ \A i \in a..m : i = m \/ i \in a..(a + k)
    OBVIOUS
  <2>3. <<m, f[m - 1]>> \in Int \X V
    BY <2>2
  <2>4. h \in [a..m -> V]
    BY <2>2, <2>3
  <2>5. ASSUME NEW i \in a..m
        PROVE  h[i] = IF i = a THEN b ELSE G[<<i, h[i - 1]>>]
    <3>1. CASE i = m
      <4>1. m - 1 \in a..m /\ m - 1 # m
        BY <2>2
      <4>2. h[m - 1] = f[m - 1]
        BY <4>1
      <4> QED BY <2>2, <3>1, <4>2
    <3>2. CASE i # m
      <4>1. i \in a..(a + k)
        BY <2>2, <3>2
      <4>2. f[i] = IF i = a THEN b ELSE G[<<i, f[i - 1]>>]
        BY <2>1, <4>1 DEF Runs
      <4>3. i # a => i - 1 \in a..m /\ i - 1 # m
        BY <2>2, <4>1
      <4>4. i # a => h[i - 1] = f[i - 1]
        BY <4>3
      <4> QED BY <3>2, <4>2, <4>4
    <3> QED BY <3>1, <3>2
  <2>6. h = [i \in a..m |-> IF i = a THEN b ELSE G[<<i, h[i - 1]>>]]
    <3>1. DOMAIN h = a..m /\ h = [i \in a..m |-> h[i]]
      OBVIOUS
    <3> HIDE DEF h, m
    <3> QED BY <2>5, <3>1
  <2> HIDE DEF h
  <2> QED BY <2>2, <2>4, <2>6 DEF Runs
<1>3. Bad = {}
  <2> SUFFICES ASSUME Bad # {} PROVE FALSE
    OBVIOUS
  <2>1. PICK m \in Bad : \A k \in Bad : m <= k
    <3> HIDE DEF Solved
    <3> QED BY LeastNatural
  <2> HIDE DEF Solved
  <2>2. m \in Nat /\ m # 0
    BY <1>1
  <2>3. Solved(m - 1)
    BY <2>1, <2>2
  <2> QED BY <1>2, <2>1, <2>2, <2>3
<1>4. CASE n >= a
  <2>1. n - a \in Nat /\ a + (n - a) = n
    BY <1>4
  <2>2. Solved(n - a)
    <3> HIDE DEF Solved
    <3> QED BY <1>3, <2>1
  <2> QED BY <2>1, <2>2
<1>5. CASE n < a
  <2> DEFINE f == [i \in a..n |-> b]
  <2>1. a..n = {}
    BY <1>5
  <2>2. f = [i \in a..n |-> IF i = a THEN b ELSE G[<<i, f[i - 1]>>]]
    BY <2>1
  <2> QED BY <2>2 DEF Runs
<1> QED BY <1>4, <1>5

\* It has only one.
LEMMA RunIsUnique ==
  ASSUME NEW a \in Int, NEW n \in Int, NEW b, NEW G,
         NEW f, Runs(f, a, n, b, G), NEW h, Runs(h, a, n, b, G)
  PROVE  f = h
<1> DEFINE Bad == {k \in Nat : a + k \in a..n /\ f[a + k] # h[a + k]}
<1>1. ASSUME Bad # {} PROVE FALSE
  <2>1. PICK k \in Bad : \A j \in Bad : k <= j
    BY <1>1, LeastNatural
  <2>2. k # 0
    <3>1. k = 0 => a + k = a
      OBVIOUS
    <3> QED BY <3>1 DEF Runs
  <2>3. k - 1 \in Nat /\ (a + k) - 1 = a + (k - 1) /\ a + k # a /\ a + (k - 1) \in a..n
        /\ ~(k <= k - 1) /\ a + k \in a..n
    BY <2>2
  <2>4. f[a + (k - 1)] = h[a + (k - 1)]
    BY <2>1, <2>3
  <2>5. f[a + k] = G[<<a + k, f[(a + k) - 1]>>] /\ h[a + k] = G[<<a + k, h[(a + k) - 1]>>]
    BY <2>3 DEF Runs
  <2> QED BY <2>3, <2>4, <2>5
<1>2. \A i \in a..n : f[i] = h[i]
  <2> TAKE i \in a..n
  <2>1. i - a \in Nat /\ a + (i - a) = i
    OBVIOUS
  <2> QED BY <1>1, <2>1
<1>3. /\ DOMAIN f = a..n /\ f = [i \in a..n |-> f[i]]
      /\ DOMAIN h = a..n /\ h = [i \in a..n |-> h[i]]
  BY DEF Runs
<1> QED BY <1>2, <1>3

=============================================================================
