---------------------------- MODULE MCTaskRunner ----------------------------
(* The module of TaskRunner's runs; the configurations give its constants. *)
EXTENDS TaskRunner
=============================================================================
