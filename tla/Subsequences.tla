------------------------------ MODULE Subsequences ------------------------------
(***************************************************************************)
(* What a comprehension over a list keeps of it, what sorting puts first    *)
(* and what a sum comes to.  Unlike SelectSeq, SortSeq and FoldSeq these     *)
(* take no operator, so that what they return can be stated and proved.     *)
(***************************************************************************)
EXTENDS Integers, Sequences, FiniteSets

\* The place that position i comes to among the positions that are kept.
Place(positions, i) == Cardinality({j \in positions : j <= i})

Picked(s, positions) ==
    [n \in 1..Cardinality(positions) |-> s[CHOOSE i \in positions : Place(positions, i) = n]]

\* The members of a set, each after those ahead of it: ahead is a total order on them.
InOrder(members, ahead) ==
    [n \in 1..Cardinality(members) |->
        CHOOSE m \in members : Cardinality({l \in members : <<l, m>> \in ahead}) = n - 1]

Total(values) ==
    LET upTo[n \in 0..Len(values)] == IF n = 0 THEN 0 ELSE upTo[n - 1] + values[n]
    IN upTo[Len(values)]
===============================================================================
