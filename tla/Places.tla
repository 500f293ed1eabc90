-------------------------------- MODULE Places --------------------------------
(***************************************************************************)
(* The part of a sequence that stands at some of its places: what a loop   *)
(* or a query keeps of what it goes through, in the same order.  It is     *)
(* SelectSeq with the places named instead of a test, so that it can be    *)
(* reasoned about without recursion.                                       *)
(***************************************************************************)
EXTENDS Naturals, Sequences, FiniteSets

\* How many of the places there are up to i, and the k-th of them.
Rank(places, i) == Cardinality({j \in places : j <= i})
Nth(places, k) == CHOOSE i \in places : Rank(places, i) = k

At(seq, places) == [k \in 1..Cardinality(places) |-> seq[Nth(places, k)]]

=============================================================================
