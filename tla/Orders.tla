-------------------------------- MODULE Orders --------------------------------
(***************************************************************************)
(* Sequences and finite orders as recursive functions and sets, for the    *)
(* modules that are proved about: SelectSeq and SortSeq take an operator,  *)
(* which no prover can open.                                               *)
(***************************************************************************)
EXTENDS Integers, Sequences, FiniteSets

\* The elements of q that are in S, in the order of q.
Only(q, S) ==
  LET kept[i \in 0..Len(q)] ==
        IF i = 0 THEN << >>
        ELSE IF q[i] \in S THEN Append(kept[i - 1], q[i]) ELSE kept[i - 1]
  IN kept[Len(q)]

\* q without the elements of S.
Without(q, S) == Only(q, {q[i] : i \in DOMAIN q} \ S)

\* The elements of S in the strict total order R (a set of pairs).
InOrder(S, R) ==
  [n \in 1..Cardinality(S) |->
     CHOOSE x \in S : Cardinality({y \in S : <<y, x>> \in R}) = n - 1]
===============================================================================
