--------------------------- MODULE DeliveryContract ---------------------------
(***************************************************************************)
(* What the Verify Gate promises, with no threads, events or storage: a    *)
(* delivery request is decided once, at one instant between the moment it  *)
(* is asked and the moment it is answered, and it is answered with a URL   *)
(* only if the certificate was good at that instant.  VerifyGate.tla is    *)
(* shown to implement this module.                                         *)
(***************************************************************************)

CONSTANTS Threads,      \* the request threads of the API process
          Certs         \* certificate identifiers

VARIABLES standing,     \* what the registry says of each certificate
          asked,        \* the certificate a thread was asked for
          decision,     \* how far each thread is with its request
          served        \* the certificates for which a URL was returned

vars == <<standing, asked, decision, served>>

Standing == {"unissued", "good", "flawed", "revoked"}
Decision == {"none", "pending", "allowed", "denied"}

TypeOK ==
    /\ standing \in [Certs -> Standing]
    /\ asked \in [Threads -> Certs]
    /\ decision \in [Threads -> Decision]
    /\ served \subseteq Certs

Init ==
    /\ standing = [c \in Certs |-> "unissued"]
    /\ asked \in [Threads -> Certs]
    /\ decision = [t \in Threads |-> "none"]
    /\ served = {}

\* The registry moves on its own; only a revocation is final.
Change(c, s) ==
    /\ standing[c] # "revoked"
    /\ standing' = [standing EXCEPT ![c] = s]
    /\ UNCHANGED <<asked, decision, served>>

Ask(t, c) ==
    /\ decision[t] = "none"
    /\ asked' = [asked EXCEPT ![t] = c]
    /\ decision' = [decision EXCEPT ![t] = "pending"]
    /\ UNCHANGED <<standing, served>>

Allow(t) ==
    /\ decision[t] = "pending"
    /\ standing[asked[t]] = "good"
    /\ decision' = [decision EXCEPT ![t] = "allowed"]
    /\ UNCHANGED <<standing, asked, served>>

Deny(t) ==
    /\ decision[t] = "pending"
    /\ decision' = [decision EXCEPT ![t] = "denied"]
    /\ UNCHANGED <<standing, asked, served>>

\* Only an allowed request is answered with a URL.
Serve(t) ==
    /\ decision[t] = "allowed"
    /\ decision' = [decision EXCEPT ![t] = "none"]
    /\ served' = served \union {asked[t]}
    /\ UNCHANGED <<standing, asked>>

\* A request may end without a URL at any time, and a crash ends all of them.
Refuse(T) ==
    /\ decision' = [t \in Threads |-> IF t \in T THEN "none" ELSE decision[t]]
    /\ UNCHANGED <<standing, asked, served>>

Next ==
    \/ \E c \in Certs, s \in Standing : Change(c, s)
    \/ \E t \in Threads :
          \/ \E c \in Certs : Ask(t, c)
          \/ Allow(t)
          \/ Deny(t)
          \/ Serve(t)
    \/ \E T \in SUBSET Threads : Refuse(T)

Spec == Init /\ [][Next]_vars
===============================================================================
