-------------------------------- MODULE Sublists --------------------------------
(***************************************************************************)
(* What list comprehensions with a condition return.                       *)
(***************************************************************************)
EXTENDS Naturals, Sequences, FiniteSets

\* The position that is the k-th of the positions at.
Nth(at, k) == CHOOSE i \in at : Cardinality({j \in at : j <= i}) = k

\* The elements of seq at the positions at, in order.
Sublist(seq, at) == [k \in 1..Cardinality(at) |-> seq[Nth(at, k)]]
=================================================================================
