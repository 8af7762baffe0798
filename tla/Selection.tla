----------------------------- MODULE Selection -----------------------------
(***************************************************************************)
(* What the parts that choose from a list have in common: the order          *)
(* Vec::sort_by_key leaves, and the running totals of a list of weights.     *)
(***************************************************************************)
EXTENDS Integers, FiniteSets, Sequences

\* The members of a finite set S by the strict total order R, a set of pairs: the k-th is
\* the one that k - 1 others come before.
Sorted(S, R) ==
    [k \in 1 .. Cardinality(S) |-> CHOOSE x \in S : Cardinality({y \in S : <<y, x>> \in R}) = k - 1]

\* The members of a finite set of numbers, least first.
Ascending(S) == Sorted(S, {xy \in S \X S : xy[1] < xy[2]})

\* The places of a list by rising key, equal keys in the order written.
ByKey(keys) ==
    {ij \in (DOMAIN keys) \X (DOMAIN keys) :
        \/ keys[ij[1]] < keys[ij[2]]
        \/ keys[ij[1]] = keys[ij[2]] /\ ij[1] < ij[2]}

\* sort_by_key is stable.
SortByKey(keys) == Sorted(DOMAIN keys, ByKey(keys))

\* The entries of a list at the places in S, in their order.
Kept(list, S) == LET places == Ascending(S) IN [k \in DOMAIN places |-> list[places[k]]]

\* The sums of the first 0, 1, ... numbers of a list.
RunningTotal(numbers) ==
    LET sum[i \in 0 .. Len(numbers)] == IF i = 0 THEN 0 ELSE sum[i - 1] + numbers[i]
    IN sum

Total(numbers) == RunningTotal(numbers)[Len(numbers)]
=============================================================================
