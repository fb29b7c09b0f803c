------------------------------- MODULE Sublists -------------------------------
(***************************************************************************)
(* The list that is left of another one when only the elements in some     *)
(* places are kept: an iterator's `filter`.                                *)
(***************************************************************************)
EXTENDS Naturals, Sequences, FiniteSets

\* The k-th of some numbers, in their order.
Nth(numbers, k) == CHOOSE i \in numbers : Cardinality({j \in numbers : j < i}) = k - 1

Sublist(s, kept) == [k \in 1..Cardinality(kept) |-> s[Nth(kept, k)]]
=============================================================================
