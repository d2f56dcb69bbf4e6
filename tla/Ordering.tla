------------------------------ MODULE Ordering ------------------------------
(***************************************************************************)
(* Sorting, as Go's sort.Slice does it by an order that leaves no ties.    *)
(***************************************************************************)
EXTENDS Integers, FiniteSets

\* The members of S in turn, where before[c] holds those that precede c.
InOrder(S, before) ==
    [i \in 1..Cardinality(S) |-> CHOOSE c \in S : Cardinality(before[c]) = i - 1]

\* A set of integers from the least to the greatest.
Ascending(S) == InOrder(S, [c \in S |-> {d \in S : d < c}])

=============================================================================
