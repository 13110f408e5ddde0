------------------------------- MODULE Slices -------------------------------
(***************************************************************************)
(* What loops that filter a slice and stable sorts leave: the elements at  *)
(* some places of a sequence, in a given order.                            *)
(***************************************************************************)
EXTENDS Integers, FiniteSets

\* The members of a finite set from the first to the last in a strict order
InOrder(S, before) ==
    [n \in 1..Cardinality(S) |->
        CHOOSE i \in S : Cardinality({j \in S : <<j, i>> \in before}) = n - 1]

\* The elements of a slice that a loop keeps, by their places
Kept(slice, places) ==
    LET order == InOrder(places, {pair \in places \X places : pair[1] < pair[2]})
    IN  [n \in DOMAIN order |-> slice[order[n]]]
=============================================================================
