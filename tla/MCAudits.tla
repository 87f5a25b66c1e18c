------------------------------ MODULE MCAudits ------------------------------
(***************************************************************************)
(* Small instances of Audits for TLC.                                      *)
(***************************************************************************)
EXTENDS Audits, TLC

CONSTANTS r1, r2, r3, r4

Symmetry == Permutations(Request)
=============================================================================
