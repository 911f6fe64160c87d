------------------------------- MODULE Ranks -------------------------------
(***************************************************************************)
(* Order without recursion: the k-th number of a set, and the elements of  *)
(* a list at a set of positions, which is what the filter loops of the Go  *)
(* code leave.                                                             *)
(***************************************************************************)
EXTENDS Naturals, Sequences, FiniteSets

\* The k-th of a set of numbers, from the smallest.
Nth(K, k) == CHOOSE i \in K : Cardinality({j \in K : j < i}) = k - 1

\* The elements of s at the positions K, in their order.
Select(s, K) == [k \in 1 .. Cardinality(K) |-> s[Nth(K, k)]]
=============================================================================
