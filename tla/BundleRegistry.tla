---------------------------- MODULE BundleRegistry ----------------------------
(***************************************************************************)
(* What the certificate registry promises: bundles (a run, its asset, its  *)
(* custody record and its certificate) are accepted whole, never change,   *)
(* never share an identity, and can only be revoked.  RegisterRpc.tla, the *)
(* four-table PostgreSQL function, is shown to implement this module.      *)
(***************************************************************************)

CONSTANT Bundles    \* records [key, sealed, body]

VARIABLES registered, revoked

\* Two bundles that cannot both be registered: they name the same run, asset and
\* certificate, or the same sealed digest.
Clash(b, d) == b # d /\ (b.key = d.key \/ b.sealed = d.sealed)

Init == registered = {} /\ revoked = {}

Accept(b) ==
    /\ \A d \in registered : ~Clash(b, d)
    /\ registered' = registered \union {b}
    /\ UNCHANGED revoked

RevokeBundle(b) ==
    /\ b \in registered
    /\ revoked' = revoked \union {b}
    /\ UNCHANGED registered

Next == \E b \in Bundles : Accept(b) \/ RevokeBundle(b)

Spec == Init /\ [][Next]_<<registered, revoked>>
===============================================================================
