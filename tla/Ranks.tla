---------------------------------- MODULE Ranks ---------------------------------
(***************************************************************************)
(* Places in an ordered list: a finite set of numbers stands for the list  *)
(* of its elements from the smallest to the largest, counted from 0.       *)
(***************************************************************************)
EXTENDS Integers, Sequences, FiniteSets

Index(S, k) == Cardinality({l \in S : l < k})
AtIndex(S, i) == CHOOSE k \in S : Index(S, k) = i

\* The elements of the sequence s at the places of the set I, in their order.
Picked(s, I) == [n \in 1..Cardinality(I) |-> s[AtIndex(I, n - 1)]]

=============================================================================
