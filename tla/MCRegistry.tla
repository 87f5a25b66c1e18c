----------------------------- MODULE MCRegistry -----------------------------
(***************************************************************************)
(* A small instance of Registry for TLC.                                   *)
(***************************************************************************)
EXTENDS Registry, TLC

CONSTANTS c1, c2, a1, a2, k1, k2, r1

(* Two versions of one resource's configuration. *)
TwoVersions == (k1 :> r1) @@ (k2 :> r1)
=============================================================================
