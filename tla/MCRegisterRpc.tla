---------------------------- MODULE MCRegisterRpc -----------------------------
(***************************************************************************)
(* Bundles for TLC.  first, second: two attempts under one key (a retry    *)
(* draws new timestamps and versions).  twin: another key whose sealed     *)
(* bytes are those of first, as byte-preserving audio can have.  other:    *)
(* unrelated.                                                              *)
(***************************************************************************)
EXTENDS RegisterRpc

first  == [key |-> "k1", sealed |-> "s1", body |-> "a"]
second == [key |-> "k1", sealed |-> "s1", body |-> "b"]
twin   == [key |-> "k2", sealed |-> "s1", body |-> "c"]
other  == [key |-> "k3", sealed |-> "s2", body |-> "d"]

MCBundles == {first, second, twin, other}
===============================================================================
