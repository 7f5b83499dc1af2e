----------------------------- MODULE MCVerifyGate -----------------------------
(* The instance of VerifyGate for TLC: threads, certificates and the two absent *)
(* values are model values, given by VerifyGate.cfg. *)
EXTENDS VerifyGate, TLC
===============================================================================
