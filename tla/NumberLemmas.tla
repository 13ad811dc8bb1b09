---------------------------- MODULE NumberLemmas ----------------------------
(***************************************************************************)
(* Facts about numbers that the proofs of the other modules cite: the      *)
(* division of a slot by the length of an epoch, the greatest element of a *)
(* bounded set of naturals, and induction.  The induction theorems of the  *)
(* library take a predicate; those here take the set of what satisfies it. *)
(***************************************************************************)
EXTENDS Integers, FiniteSetsExt, FiniteSetTheorems, WellFoundedInduction, TLAPS

\* The defining bounds of the quotient.
LEMMA QuotientBounds ==
    ASSUME NEW n \in Nat, NEW k \in Nat \ {0}
    PROVE  /\ n \div k \in Nat
           /\ (n \div k) * k <= n
           /\ n < (n \div k) * k + k
  OBVIOUS

\* Division by a fixed number is monotonic.
LEMMA QuotientMonotonic ==
    ASSUME NEW m \in Nat, NEW n \in Nat, NEW k \in Nat \ {0}, m <= n
    PROVE  m \div k <= n \div k
  OBVIOUS

\* The quotient of a product is its first factor.
LEMMA QuotientOfProduct ==
    ASSUME NEW q \in Nat, NEW k \in Nat \ {0}
    PROVE  (q * k) \div k = q
  OBVIOUS

\* Multiplication by a natural number is monotonic.
LEMMA ProductMonotonic ==
    ASSUME NEW m \in Int, NEW n \in Int, NEW k \in Nat, m <= n
    PROVE  m * k <= n * k
  OBVIOUS

\* A finite set of integers that is not empty has a greatest element: one with
\* as few elements above it as possible.
LEMMA GreatestElement ==
    ASSUME NEW S, S \subseteq Int, S # {}, IsFiniteSet(S)
    PROVE  \E x \in S : \A y \in S : x >= y
  <1> DEFINE Above(x) == {y \in S : y > x}
             Sets == {Above(x) : x \in S}
  <1>1. Sets \subseteq FiniteSubsetsOf(S)
    <2>1. \A x \in S : Above(x) \subseteq S
      OBVIOUS
    <2>2. \A x \in S : IsFiniteSet(Above(x))
      BY <2>1, FS_Subset
    <2> QED
      BY <2>1, <2>2 DEF FiniteSubsetsOf
  <1>2. Sets # {}
    OBVIOUS
  <1>3. \E A \in Sets : \A B \in Sets : <<B, A>> \notin StrictSubsetOrdering(S)
    <2> HIDE DEF Sets
    <2> QED
      BY <1>1, <1>2, FS_StrictSubsetOrderingWellFounded, WFMin
  <1>4. PICK x \in S : \A y \in S : <<Above(y), Above(x)>> \notin StrictSubsetOrdering(S)
    BY <1>3
  <1>5. ASSUME NEW y \in S, ~ (x >= y) PROVE FALSE
    <2>1. \A z \in Above(y) : z \in Above(x)
      <3> TAKE z \in Above(y)
      <3>1. x \in Int /\ y \in Int /\ z \in Int /\ z \in S /\ z > y
        OBVIOUS
      <3>2. z > x
        BY <3>1, <1>5
      <3> QED
        BY <3>1, <3>2
    <2>2. y \in Above(x) /\ y \notin Above(y)
      BY <1>5
    <2>3. <<Above(y), Above(x)>> \in StrictSubsetOrdering(S)
      BY <2>1, <2>2 DEF StrictSubsetOrdering
    <2> QED
      BY <2>3, <1>4
  <1> QED
    BY <1>5

\* The operator Max of FiniteSetsExt on an interval of naturals.
LEMMA MaxOfInterval ==
    ASSUME NEW S, NEW n \in Nat, S \subseteq 0 .. n, S # {}
    PROVE  Max(S) \in S /\ \A y \in S : Max(S) >= y
  <1>1. IsFiniteSet(S)
    <2>1. IsFiniteSet(0 .. n)
      BY FS_Interval
    <2> QED
      BY <2>1, FS_Subset
  <1>2. S \subseteq Int
    OBVIOUS
  <1>3. \E x \in S : \A y \in S : x >= y
    BY <1>1, <1>2, GreatestElement
  <1> QED
    BY <1>3 DEF Max

\* The operator Min of FiniteSetsExt on an interval of naturals: the greatest
\* distance from the end of the interval.
LEMMA MinOfInterval ==
    ASSUME NEW S, NEW n \in Nat, S \subseteq 0 .. n, S # {}
    PROVE  Min(S) \in S /\ \A y \in S : Min(S) <= y
  <1> DEFINE T == {n - x : x \in S}
             t == Max(T)
  <1>1. T \subseteq 0 .. n /\ T # {}
    <2>1. \A x \in S : n - x \in 0 .. n
      OBVIOUS
    <2> QED
      BY <2>1
  <1>2. t \in T /\ \A y \in T : t >= y
    <2> HIDE DEF T
    <2> QED
      BY <1>1, MaxOfInterval
  <1> HIDE DEF t
  <1>3. \E x \in S : \A y \in S : x <= y
    <2>1. PICK x \in S : t = n - x
      BY <1>2
    <2>2. \A y \in S : n - y \in T
      OBVIOUS
    <2>3. \A y \in S : x <= y
      <3> TAKE y \in S
      <3>1. n - x >= n - y /\ x \in Int /\ y \in Int
        BY <1>2, <2>1, <2>2
      <3> QED
        BY <3>1
    <2> QED
      BY <2>3
  <1> QED
    BY <1>3 DEF Min

\* Induction over the subsets of a finite set, for a set of them instead of a
\* predicate: one that has the empty set, and any other subset if it has one that
\* lacks a single element of it, has the whole set.
LEMMA SubsetInduction ==
    ASSUME NEW S, IsFiniteSet(S), NEW G, {} \in G,
           \A T \in SUBSET S : T # {} => \E x \in T : T \ {x} \in G => T \in G
    PROVE  S \in G
  <1>1. SUFFICES ASSUME S \notin G PROVE FALSE
    OBVIOUS
  <1> DEFINE Bad == {T \in SUBSET S : T \notin G}
  <1>2. Bad \subseteq FiniteSubsetsOf(S) /\ Bad # {}
    BY <1>1, FS_Subset DEF FiniteSubsetsOf
  <1>3. \E A \in Bad : \A B \in Bad : <<B, A>> \notin StrictSubsetOrdering(S)
    <2> HIDE DEF Bad
    <2> QED
      BY <1>2, FS_StrictSubsetOrderingWellFounded, WFMin
  <1>4. PICK A \in Bad : \A B \in Bad : <<B, A>> \notin StrictSubsetOrdering(S)
    BY <1>3
  <1>5. PICK x \in A : A \ {x} \in G => A \in G
    BY <1>4
  <1>6. A \ {x} \in Bad
    BY <1>4, <1>5
  <1>7. <<A \ {x}, A>> \in StrictSubsetOrdering(S)
    BY <1>4, <1>5 DEF StrictSubsetOrdering
  <1> QED
    BY <1>4, <1>6, <1>7

\* Induction over the naturals, for a set of them instead of a predicate.
LEMMA NaturalInduction ==
    ASSUME NEW G, 0 \in G, \A n \in Nat : n \in G => n + 1 \in G
    PROVE  Nat \subseteq G
  <1>1. SUFFICES ASSUME NEW m \in Nat, m \notin G PROVE FALSE
    OBVIOUS
  <1> DEFINE Bad == {n \in 0 .. m : n \notin G}
  <1>2. Bad \subseteq 0 .. m /\ Bad # {}
    BY <1>1
  <1>3. PICK n \in Bad : \A k \in Bad : n <= k
    <2> HIDE DEF Bad
    <2> QED
      BY <1>2, MinOfInterval
  <1>4. n # 0 /\ n - 1 \in Nat /\ n - 1 \in 0 .. m
    BY <1>3
  <1>5. n - 1 \in G
    BY <1>3, <1>4
  <1> QED
    BY <1>3, <1>4, <1>5
=============================================================================
