------------------------------- MODULE Positions -------------------------------
(***************************************************************************)
(* Lists are sorted and filtered by the positions of their members.        *)
(***************************************************************************)
EXTENDS Integers, FiniteSets

(* list.sort: the numbers S in the order of the pairs in before; those     *)
(* that are before neither way stay as they were, in ascending order.      *)
InOrder(S, before) ==
  CHOOSE t \in [1..Cardinality(S) -> S] :
    \A i, j \in 1..Cardinality(S) :
      i < j => \/ <<t[i], t[j]>> \in before
               \/ <<t[j], t[i]>> \notin before /\ t[i] < t[j]

(* The members of a list at the positions S.                               *)
Kept(seq, S) ==
  LET at == InOrder(S, {})
  IN  [k \in 1..Cardinality(S) |-> seq[at[k]]]
================================================================================
