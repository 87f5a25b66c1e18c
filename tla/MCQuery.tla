------------------------------ MODULE MCQuery -------------------------------
(***************************************************************************)
(* Small instances of Query for TLC.                                       *)
(***************************************************************************)
EXTENDS Query

CONSTANTS q1, q2

Plain == [requireReason |-> FALSE, rowLimit |-> Unset]
Strict == [requireReason |-> TRUE, rowLimit |-> Unset]

PlainOnly == {Plain}
StrictOnly == {Strict}
=============================================================================
