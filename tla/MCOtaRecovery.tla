---------------------------- MODULE MCOtaRecovery ----------------------------
(* OtaRecovery for TLC: see the configurations. *)
EXTENDS OtaRecovery
==============================================================================
