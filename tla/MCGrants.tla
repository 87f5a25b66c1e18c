------------------------------ MODULE MCGrants ------------------------------
(***************************************************************************)
(* Small instances of Grants for TLC.                                      *)
(***************************************************************************)
EXTENDS Grants, TLC

CONSTANTS o1, o2, o3, g1

Symmetry == Permutations(Op)
=============================================================================
