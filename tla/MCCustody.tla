------------------------------ MODULE MCCustody -------------------------------
(***************************************************************************)
(* Two jobs for TLC, in seconds: the same source under the manifests of    *)
(* two runs, the second retained longer.  Two workers may also hold the    *)
(* same job, and then share every key.                                     *)
(***************************************************************************)
EXTENDS Custody, TLC

plain  == [source |-> "s", manifest |-> "m1", until |-> 0]
longer == [source |-> "s", manifest |-> "m2", until |-> 1]

MCJobs == {plain, longer}

OwnProcess == [w \in Workers |-> w]

WorkerSymmetry == Permutations(Workers)
===============================================================================
