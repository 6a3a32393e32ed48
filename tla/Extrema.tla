------------------------------ MODULE Extrema ------------------------------
(***************************************************************************)
(* Least and greatest members of sets of numbers, and induction over a set  *)
(* of numbers, for the proofs about lists, addresses and folds.             *)
(***************************************************************************)
EXTENDS Integers, TLAPS, WellFoundedInduction

(* A set of natural numbers has a least element.                            *)
LEMMA LeastElement ==
  ASSUME NEW S \in SUBSET Nat, S # {}
  PROVE  \E m \in S : \A k \in S : m <= k
<1> DEFINE R == {p \in Nat \X Nat : p[1] < p[2]}
<1>1. IsWellFoundedOn(R, Nat)
  BY NatLessThanWellFounded, Zenon DEF OpToRel
<1>0. \A k, m \in Nat : k < m => <<k, m>> \in R
  OBVIOUS
<1> HIDE DEF R
<1>2. \E m \in S : \A k \in S : <<k, m>> \notin R
  BY <1>1, WFMin, Zenon
<1>3. PICK m \in S : \A k \in S : <<k, m>> \notin R
  BY <1>2
<1>4. ASSUME NEW k \in S
      PROVE  m <= k
  <2>1. k \in Nat /\ m \in Nat /\ ~(k < m)
    BY <1>0, <1>3, Zenon
  <2>2. QED  BY <2>1
<1>5. QED  BY <1>4

(* A bounded set of integers has a greatest one.                            *)
LEMMA GreatestElement ==
  ASSUME NEW S \in SUBSET Int, S # {}, NEW n \in Int, \A k \in S : k <= n
  PROVE  \E m \in S : \A k \in S : k <= m
<1> DEFINE T == {n - k : k \in S}
<1>1. T \in SUBSET Nat /\ T # {}
  <2>1. \A k \in S : n - k \in Nat
    OBVIOUS
  <2>2. QED  BY <2>1
<1>2. PICK d \in T : \A e \in T : d <= e
  BY <1>1, LeastElement
<1>3. PICK m \in S : d = n - m
  OBVIOUS
<1>4. ASSUME NEW k \in S
      PROVE  k <= m
  <2>1. n - k \in T
    OBVIOUS
  <2>2. n - m <= n - k
    BY <1>2, <1>3, <2>1
  <2>3. QED  BY <2>2
<1>5. QED  BY <1>4

(* A set that contains 0 and the successors of its members up to n contains *)
(* all numbers up to n.                                                     *)
LEMMA Induction ==
  ASSUME NEW n \in Nat, NEW S \in SUBSET Nat, 0 \in S,
         \A k \in 0..n - 1 : k \in S => k + 1 \in S
  PROVE  0..n \subseteq S
<1> DEFINE T == {k \in 0..n : k \notin S}
<1> SUFFICES ASSUME T # {}
             PROVE  FALSE
  OBVIOUS
<1>1. PICK m \in T : \A k \in T : m <= k
  <2>1. T \in SUBSET Nat
    OBVIOUS
  <2> HIDE DEF T
  <2>2. QED  BY <2>1, LeastElement
<1>2. m \in 1..n
  BY <1>1
<1>3. m - 1 \in 0..n - 1 /\ m - 1 \notin T /\ m - 1 + 1 = m
  BY <1>1, <1>2
<1>4. m - 1 \in S
  BY <1>2, <1>3
<1>5. QED  BY <1>1, <1>3, <1>4

=============================================================================
