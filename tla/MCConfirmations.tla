--------------------------- MODULE MCConfirmations --------------------------
(* Confirmations for TLC: all constants are set in the configurations.     *)
EXTENDS Confirmations
=============================================================================
