------------------------- MODULE MCCustodyRecovery --------------------------
(***************************************************************************)
(* CustodyRecovery for TLC: one process of the smoke, which may run twice, *)
(* two of the recovery, and manifests that may repeat.                     *)
(***************************************************************************)
EXTENDS CustodyRecovery
===============================================================================
