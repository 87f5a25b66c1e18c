----------------------------- MODULE MCResources ----------------------------
(***************************************************************************)
(* Small instances of Resources for TLC.                                   *)
(***************************************************************************)
EXTENDS Resources, TLC

CONSTANTS o1, o2, o3

Symmetry == Permutations(Op)
=============================================================================
