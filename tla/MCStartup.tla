------------------------------ MODULE MCStartup -----------------------------
(***************************************************************************)
(* Startup for TLC: its only parameter is a bound, given in startup.cfg.   *)
(***************************************************************************)
EXTENDS Startup, TLC
=============================================================================
