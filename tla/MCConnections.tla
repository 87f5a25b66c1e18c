--------------------------- MODULE MCConnections ----------------------------
(***************************************************************************)
(* A small instance of Connections for TLC.                                *)
(***************************************************************************)
EXTENDS Connections

CONSTANTS o1, o2, o3

OneOfEach == [store |-> 1, target |-> 1]
=============================================================================
