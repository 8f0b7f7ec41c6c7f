------------------------------- MODULE Positions -------------------------------
(***************************************************************************)
(* The elements of a sequence at some of its positions, in their order:    *)
(* what a Go loop builds that appends each element it does not skip, and   *)
(* what sorting the keys of a map yields.  SelectSeq and SetToSortSeq say  *)
(* the same; these can be expanded in a proof.                             *)
(***************************************************************************)
EXTENDS Integers, SequencesExt

(* The members of a finite set of numbers in ascending order *)
InOrder(S) ==
  [k \in 1..Cardinality(S) |-> CHOOSE i \in S : Cardinality({j \in S : j <= i}) = k]

(* The elements at the positions of S *)
Pick(s, S) == LET order == InOrder(S) IN [k \in DOMAIN order |-> s[order[k]]]
=============================================================================
