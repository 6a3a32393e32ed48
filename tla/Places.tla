------------------------------- MODULE Places -------------------------------
(***************************************************************************)
(* Members of sets of numbers in their order, and the members of a list at  *)
(* some of its places.                                                      *)
(***************************************************************************)
EXTENDS Integers, FiniteSets

\* The n-th smallest member of a set of numbers.
Nth(S, n) == CHOOSE i \in S : Cardinality({j \in S : j <= i}) = n

\* The members of a list at the given places.
Pick(list, places) == [n \in 1..Cardinality(places) |-> list[Nth(places, n)]]

=============================================================================
