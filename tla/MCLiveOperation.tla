---------------------------- MODULE MCLiveOperation ----------------------------
(***************************************************************************)
(* The instance for TLC: both operations, and a bound on the failures.     *)
(***************************************************************************)
EXTENDS LiveOperation
===============================================================================
