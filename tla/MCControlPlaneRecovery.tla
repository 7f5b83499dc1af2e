------------------------ MODULE MCControlPlaneRecovery ------------------------
(* Model-checking instance of ControlPlaneRecovery. *)
EXTENDS ControlPlaneRecovery
===============================================================================
