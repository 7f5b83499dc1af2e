------------------------------- MODULE IssueOnce -------------------------------
(***************************************************************************)
(* What POST /v1/generate-and-seal promises of an idempotency key: it      *)
(* names one certificate for ever, the one issued for the first request    *)
(* that got through; an identical retry is answered with it, and only a    *)
(* different request is refused for conflict.  Calls that fail are not     *)
(* seen here.  GenerateSeal.tla is shown to implement this module.         *)
(***************************************************************************)

CONSTANTS Keys,         \* idempotency keys
          Requests,     \* requests; equal when their fingerprints are
          Results,      \* sealed digests
          Unissued      \* a key with no certificate

VARIABLES issued,       \* the certificate of each key
          answered,     \* successful answers
          refused       \* conflicts

Init ==
    /\ issued = [k \in Keys |-> Unissued]
    /\ answered = {}
    /\ refused = {}

Issue(k) ==
    /\ issued[k] = Unissued
    /\ issued'[k] \in [request : Requests, result : Results]
    /\ issued' = [issued EXCEPT ![k] = issued'[k]]
    /\ UNCHANGED <<answered, refused>>

Answer(k) ==
    /\ issued[k] # Unissued
    /\ answered' = answered \union
          {[key |-> k, request |-> issued[k].request, result |-> issued[k].result]}
    /\ UNCHANGED <<issued, refused>>

Refuse(k, r) ==
    /\ issued[k] # Unissued
    /\ issued[k].request # r
    /\ refused' = refused \union {[key |-> k, request |-> r]}
    /\ UNCHANGED <<issued, answered>>

Next == \E k \in Keys : Issue(k) \/ Answer(k) \/ \E r \in Requests : Refuse(k, r)

Spec == Init /\ [][Next]_<<issued, answered, refused>>
===============================================================================
