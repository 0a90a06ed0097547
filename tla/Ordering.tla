------------------------------- MODULE Ordering -------------------------------
(***************************************************************************)
(* What sort.Slice makes of a set on which the comparison of the code is a *)
(* strict total order: the element at place k has k - 1 before it.         *)
(***************************************************************************)
EXTENDS Naturals, FiniteSets

\* The pairs of before are those of which the first comes first.
SortedBy(S, before) ==
    [k \in 1..Cardinality(S) |->
        CHOOSE x \in S : Cardinality({y \in S : <<y, x>> \in before}) = k - 1]
=============================================================================
