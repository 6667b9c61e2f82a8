------------------------------- MODULE Lists --------------------------------
(***************************************************************************)
(* Dart's Iterable.where(...).toList() and SQL's ORDER BY id, as the       *)
(* components need them: the entries at chosen positions, in their order.  *)
(* The libraries' SelectSeq and SetToSortSeq come to the same lists, but   *)
(* are recursive, or rest on a sorted permutation: nothing could be proved *)
(* about a component that used them.                                       *)
(***************************************************************************)
EXTENDS Naturals, FiniteSets

\* The k-th smallest of a set of numbers.
Nth(I, k) == CHOOSE i \in I : Cardinality({j \in I : j <= i}) = k

\* The entries of s, a list or a table, at the places I, in the order of I.
Picked(s, I) == [k \in 1..Cardinality(I) |-> s[Nth(I, k)]]

\* The entries that pass a test.
Where(s, Test(_)) == Picked(s, {i \in DOMAIN s : Test(s[i])})

=============================================================================
