------------------------------- MODULE Lists -------------------------------
(***************************************************************************)
(* What the program does to its arrays of servers and keys: elements are   *)
(* spliced out, and numbers sorted.  Both are defined by how many elements *)
(* come before one, not by SelectSeq and SortSeq, which no prover expands. *)
(***************************************************************************)
EXTENDS Integers, Sequences, FiniteSets, FiniteSetsExt

\* The n-th of the numbers in S, in ascending order.
Nth(S, n) == Min({i \in S : n <= Cardinality({j \in S : j <= i})})

\* The elements of list that are not in X, in their order.
Without(list, X) ==
  LET kept == {i \in DOMAIN list : list[i] \notin X}
  IN  [n \in 1 .. Cardinality(kept) |-> list[Nth(kept, n)]]

\* The numbers of list in ascending order, each as often as it is there.
Sorted(list) ==
  [n \in DOMAIN list |->
     Min({k \in {list[i] : i \in DOMAIN list} :
            n <= Cardinality({i \in DOMAIN list : list[i] <= k})})]
=============================================================================
