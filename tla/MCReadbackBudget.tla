--------------------------- MODULE MCReadbackBudget ---------------------------
(***************************************************************************)
(* The constants of b2_storage.py in quarters of a second; a read takes no *)
(* time, half a second, or 2, 5 or 9.75 seconds.                           *)
(***************************************************************************)
EXTENDS ReadbackBudget

MCBackoff == <<1, 2, 4, 8>>
MCReadTimes == {0, 2, 8, 20, 39}
===============================================================================
