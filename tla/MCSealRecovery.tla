---------------------------- MODULE MCSealRecovery ----------------------------
(* SealRecovery for TLC: two processes of the recovery script, one run of the live one. *)
EXTENDS SealRecovery
===============================================================================
