---------------------------- MODULE MCRunRegistry ---------------------------
(* RunRegistry for TLC: all constants are set in the configurations.       *)
EXTENDS RunRegistry
=============================================================================
