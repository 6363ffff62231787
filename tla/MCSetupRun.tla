------------------------------ MODULE MCSetupRun ------------------------------
(* Instances of SetupRun for TLC. *)
EXTENDS SetupRun

CONSTANTS cli, b1
=============================================================================
