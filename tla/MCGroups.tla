------------------------------ MODULE MCGroups ------------------------------
(***************************************************************************)
(* Instances of Groups for TLC: two members, which differ in name only, a  *)
(* table of two entries, which they can fill, and a ring of one or two     *)
(* slots that are reused.                                                  *)
(***************************************************************************)
EXTENDS Groups, TLC

Symmetry == Permutations(Members)
=============================================================================
