------------------------- MODULE ControlPlaneRecovery -------------------------
(***************************************************************************)
(* The checkpoint of the Supabase control plane and its recovery:          *)
(* scripts/smoke_supabase_control_plane.py registers the bundle of a local *)
(* fixture, has it verified, records a blocked delivery and revokes its    *)
(* certificate; scripts/resume_supabase_control_plane_checkpoint.py finds  *)
(* the bundle of an interrupted smoke and does what is left.               *)
(*                                                                         *)
(* The scripts keep nothing between their runs: the registry is all the    *)
(* state there is, and the API serves the same one.  The registration is   *)
(* one step here (module RegisterRpc), and so is a verification (module    *)
(* VerifyGate).  A call that writes and is not answered may have been      *)
(* carried out, may be carried out after the script has ended, or never.   *)
(***************************************************************************)
EXTENDS Naturals, FiniteSets

CONSTANTS
    Smokes,         \* processes of the smoke script
    Recoveries,     \* processes of the recovery script
    MaxSmokes,      \* bound: runs of the smoke script
    MaxAsks,        \* bound: requests of the API's clients for the certificates
    MaxTroubles     \* bound: crashes, failing calls and lost answers, and scripts started
                    \* and revocations made while another script runs

ASSUME ControlPlaneAssumption ==
    /\ Smokes \intersect Recoveries = {}
    /\ {MaxSmokes, MaxAsks, MaxTroubles} \subseteq Nat

Scripts == Smokes \union Recoveries

\* Every run of the smoke draws new identifiers: the n-th run has the n-th bundle.
Bundle == 1..MaxSmokes

\* What the registry has of a bundle: the certificate (revoked with a reason, by the at-th
\* revocation), and how many events of either kind.
Row == [status : {"absent", "active", "revoked"}, reason : {"none", "smoke", "operator"},
        at : Nat]

Count == [verified : Nat, delivered : Nat]

VARIABLES
    rows,           \* the certificate of each bundle
    events,         \* its events
    revocations,    \* revocations made
    pc,             \* where each script is
    target,         \* the bundle it works on; 0 for none
    status,         \* the status it expects to be shown
    counts,         \* the row counts it started from
    late,           \* writes that ended scripts asked for, and that may still be made
    passed,         \* bundles whose smoke has passed its duplicate stages
    reports,        \* reports written: by whom, and of which bundle
    asked,          \* bundles that clients of the API asked for
    smokes,
    asks,
    failures,
    overlaps        \* scripts started and revocations made while another script ran

local == <<pc, target, status, counts>>
registry == <<rows, events, revocations, late>>
counters == <<smokes, asks, failures, overlaps>>
vars == <<registry, local, passed, reports, asked, counters>>

Location == {"idle", "register", "again", "conflict", "verify", "record", "discover", "validate",
             "project", "read", "revoke", "confirm", "report"}

\* The calls that write, named by the place they are made at; nr tells one from another.
Write == {"register", "verify", "record", "revoke"}
Request == [what : Write, bundle : Bundle, nr : Nat]

Nothing == [verified |-> 0, delivered |-> 0]

TypeOK ==
    /\ rows \in [Bundle -> Row]
    /\ events \in [Bundle -> Count]
    /\ revocations \in Nat
    /\ late \subseteq Request
    /\ pc \in [Scripts -> Location]
    /\ target \in [Scripts -> Bundle \union {0}]
    /\ status \in [Scripts -> {"absent", "active", "revoked"}]
    /\ counts \in [Scripts -> Count]
    /\ passed \subseteq Bundle
    /\ reports \subseteq [by : Scripts, bundle : Bundle]
    /\ asked \subseteq Bundle
    /\ smokes \in 0..MaxSmokes
    /\ asks \in Nat
    /\ failures \in Nat
    /\ overlaps \in Nat

Init ==
    /\ rows = [b \in Bundle |-> [status |-> "absent", reason |-> "none", at |-> 0]]
    /\ events = [b \in Bundle |-> Nothing]
    /\ revocations = 0
    /\ late = {}
    /\ pc = [x \in Scripts |-> "idle"]
    /\ target = [x \in Scripts |-> 0]
    /\ status = [x \in Scripts |-> "absent"]
    /\ counts = [x \in Scripts |-> Nothing]
    /\ passed = {}
    /\ reports = {}
    /\ asked = {}
    /\ smokes = 0
    /\ asks = 0
    /\ failures = 0
    /\ overlaps = 0

-------------------------------------------------------------------------------
(* How scripts start, go on and end. *)
TroubleLeft == failures + overlaps < MaxTroubles

Trouble == TroubleLeft /\ failures' = failures + 1

\* Something that happens while another script than x runs.
Overlaps(x) ==
    IF \A y \in Scripts \ {x} : pc[y] = "idle"
    THEN UNCHANGED overlaps
    ELSE TroubleLeft /\ overlaps' = overlaps + 1

Over(x) ==
    /\ pc' = [pc EXCEPT ![x] = "idle"]
    /\ target' = [target EXCEPT ![x] = 0]
    /\ status' = [status EXCEPT ![x] = "absent"]
    /\ counts' = [counts EXCEPT ![x] = Nothing]

Goto(x, l) == pc' = [pc EXCEPT ![x] = l] /\ UNCHANGED <<target, status, counts>>

\* A call that writes was carried out: the script goes on, or it does not learn of it.
Answered(x, l) ==
    \/ Goto(x, l) /\ UNCHANGED failures
    \/ Trouble /\ Over(x)

\* A step that only looks at the registry.
Looks == UNCHANGED <<registry, passed, reports, asked, counters>>

Crash(x) ==
    /\ pc[x] # "idle"
    /\ Trouble
    /\ Over(x)
    /\ UNCHANGED <<registry, passed, reports, asked, smokes, asks, overlaps>>

\* A call that writes is not answered, and not carried out before the script has ended.
Abandon(x) ==
    /\ pc[x] \in Write
    /\ Trouble
    /\ late' = late \union {[what |-> pc[x], bundle |-> target[x], nr |-> failures + 1]}
    /\ Over(x)
    /\ UNCHANGED <<rows, events, revocations, passed, reports, asked, smokes, asks, overlaps>>

Mine(x) == rows[target[x]]

-------------------------------------------------------------------------------
(* What a write does to the registry. *)

\* Every fixture has the same sealed digest, and the registry keeps it unique: there is no
\* second bundle.
Free == \A b \in Bundle : rows[b].status = "absent"

RegisterRow(b) ==
    /\ rows' = [rows EXCEPT ![b].status = "active"]
    /\ UNCHANGED <<events, revocations>>

\* repository.revoke_certificate: an update by the identifier, whatever the row says.
RevokeRow(b, reason) ==
    /\ rows' = [rows EXCEPT ![b] = [status |-> "revoked", reason |-> reason,
                                    at |-> revocations + 1]]
    /\ revocations' = revocations + 1
    /\ UNCHANGED events

AppendEvents(b, verified, delivered) ==
    /\ events' = [events EXCEPT ![b] = [verified |-> @.verified + verified,
                                        delivered |-> @.delivered + delivered]]
    /\ UNCHANGED <<rows, revocations>>

\* An abandoned write is made after all.
Land(r) ==
    /\ late' = late \ {r}
    /\ \/ r.what = "register" /\ Free /\ RegisterRow(r.bundle) /\ UNCHANGED overlaps
       \/ r.what = "verify" /\ AppendEvents(r.bundle, 1, 0) /\ UNCHANGED overlaps
       \/ r.what = "record" /\ AppendEvents(r.bundle, 0, 1) /\ UNCHANGED overlaps
       \/ /\ r.what = "revoke"
          /\ RevokeRow(r.bundle, "smoke")
          /\ overlaps' = IF \A y \in Scripts : pc[y] = "idle" THEN overlaps ELSE overlaps + 1
    /\ UNCHANGED <<local, passed, reports, asked, smokes, asks, failures>>

-------------------------------------------------------------------------------
(***************************************************************************)
(* The smoke: run_checkpoint.                                              *)
(***************************************************************************)
StartSmoke(x) ==
    /\ pc[x] = "idle"
    /\ smokes < MaxSmokes
    /\ smokes' = smokes + 1
    /\ pc' = [pc EXCEPT ![x] = "register"]
    /\ target' = [target EXCEPT ![x] = smokes + 1]
    /\ Overlaps(x)
    /\ UNCHANGED <<registry, status, counts, passed, reports, asked, asks, failures>>

Register(x) ==
    /\ pc[x] = "register"
    /\ IF Free
       THEN RegisterRow(target[x]) /\ Answered(x, "again")
       ELSE Over(x) /\ UNCHANGED <<rows, events, revocations, failures>>
    /\ UNCHANGED <<late, passed, reports, asked, smokes, asks, overlaps>>

\* The same bundle once more is accepted while its certificate is the one registered.
RegisterAgain(x) ==
    /\ pc[x] = "again"
    /\ IF Mine(x).status = "active" THEN Goto(x, "conflict") ELSE Over(x)
    /\ Looks

\* One with another model changes nothing: the registry refuses it, or the call fails.  The
\* script takes either error for the refusal.
RegisterConflict(x) ==
    /\ pc[x] = "conflict"
    /\ passed' = passed \union {target[x]}
    /\ status' = [status EXCEPT ![x] = "active"]
    /\ pc' = [pc EXCEPT ![x] = "project"]
    /\ Trouble \/ UNCHANGED failures
    /\ UNCHANGED <<registry, target, counts, reports, asked, smokes, asks, overlaps>>

\* The verification is recorded whatever it finds, and must have found a good certificate.
Verify(x) ==
    /\ pc[x] = "verify"
    /\ AppendEvents(target[x], 1, 0)
    /\ IF Mine(x).status = "active"
       THEN Answered(x, "record")
       ELSE Over(x) /\ UNCHANGED failures
    /\ UNCHANGED <<late, passed, reports, asked, smokes, asks, overlaps>>

Record(x) ==
    /\ pc[x] = "record"
    /\ AppendEvents(target[x], 0, 1)
    /\ Answered(x, "revoke")
    /\ UNCHANGED <<late, passed, reports, asked, smokes, asks, overlaps>>

-------------------------------------------------------------------------------
(***************************************************************************)
(* The recovery: run_resume_checkpoint.                                    *)
(***************************************************************************)
StartRecovery(x) ==
    /\ pc[x] = "idle"
    /\ pc' = [pc EXCEPT ![x] = "discover"]
    /\ Overlaps(x)
    /\ UNCHANGED <<registry, target, status, counts, passed, reports, asked, smokes, asks,
                   failures>>

\* Faulty: only an active certificate is taken for an unfinished one.
CandidatesActive == {b \in Bundle : rows[b].status = "active"}

\* A certificate that is active, or revoked for the reason the scripts give.
Candidates ==
    {b \in Bundle : \/ rows[b].status = "active"
                    \/ rows[b].status = "revoked" /\ rows[b].reason = "smoke"}

\* There must be exactly one.
Discover(x) ==
    /\ pc[x] = "discover"
    /\ IF Cardinality(Candidates) = 1
       THEN \E b \in Candidates :
              /\ target' = [target EXCEPT ![x] = b]
              /\ status' = [status EXCEPT ![x] = rows[b].status]
              /\ pc' = [pc EXCEPT ![x] = "validate"]
              /\ UNCHANGED counts
       ELSE Over(x)
    /\ Looks

\* Faulty: the rows of the registration are enough.
ValidateRegistration(x) ==
    /\ pc[x] = "validate"
    /\ pc' = [pc EXCEPT ![x] = "project"]
    /\ counts' = [counts EXCEPT ![x] = events[target[x]]]
    /\ UNCHANGED <<target, status>>
    /\ Looks

\* A bundle whose smoke got as far as its delivery event.
Events(b) == events[b].verified >= 1 /\ events[b].delivered >= 1

\* The bundle is whole, and has an event of either kind.
Validate(x) ==
    /\ pc[x] = "validate"
    /\ IF Events(target[x])
       THEN /\ pc' = [pc EXCEPT ![x] = "project"]
            /\ counts' = [counts EXCEPT ![x] = events[target[x]]]
            /\ UNCHANGED <<target, status>>
       ELSE Over(x)
    /\ Looks

\* Faulty: what is revoked is revoked again.
ReadRevocationBlindly(x) ==
    /\ pc[x] = "read"
    /\ Goto(x, "revoke")
    /\ Looks

\* revoke_existing_certificate reads the certificate again: it revokes an active one, takes
\* the scripts' own revocation for its own, and refuses any other.
ReadRevocation(x) ==
    /\ pc[x] = "read"
    /\ CASE Mine(x).status = "active" -> Goto(x, "revoke")
         [] Mine(x).status = "revoked" /\ Mine(x).reason = "smoke" -> Goto(x, "confirm")
         [] OTHER -> Over(x)
    /\ Looks

-------------------------------------------------------------------------------
(***************************************************************************)
(* What both scripts do.                                                   *)
(***************************************************************************)
\* The verified public projection of the certificate shows this status.
Shown(x, s) == Mine(x).status = s

\* To the smoke an active certificate, to the recovery the one of its discovery.
Project(x) ==
    /\ pc[x] = "project"
    /\ IF Shown(x, status[x])
       THEN Goto(x, IF x \in Recoveries THEN "read" ELSE "verify")
       ELSE Over(x)
    /\ Looks

Revoke(x) ==
    /\ pc[x] = "revoke"
    /\ RevokeRow(target[x], "smoke")
    /\ Answered(x, "confirm")
    /\ UNCHANGED <<late, passed, reports, asked, smokes, asks, overlaps>>

\* The tables have the rows the recovery started from; the smoke asks for its own only.
RowsKept(x) == x \in Recoveries => counts[x] = events[target[x]]

\* The projection says revoked, the gate refuses a delivery, and the rows are looked at for
\* secrets and counted.
Confirm(x) ==
    /\ pc[x] = "confirm"
    /\ IF Shown(x, "revoked") /\ RowsKept(x)
       THEN Goto(x, "report") ELSE Over(x)
    /\ Looks

Report(x) ==
    /\ pc[x] = "report"
    /\ reports' = reports \union {[by |-> x, bundle |-> target[x]]}
    /\ Over(x)
    /\ UNCHANGED <<registry, passed, asked, counters>>

-------------------------------------------------------------------------------
(***************************************************************************)
(* The rest: clients of the API ask for a certificate, and an operator     *)
(* revokes one for a reason of his own.                                    *)
(***************************************************************************)
Ask(b) ==
    /\ asks < MaxAsks
    /\ asks' = asks + 1
    /\ rows[b].status # "absent"
    /\ asked' = asked \union {b}
    /\ \E delivered \in {0, 1} : AppendEvents(b, 1, delivered)
    /\ UNCHANGED <<late, local, passed, reports, smokes, failures, overlaps>>

OperatorRevokes(b) ==
    /\ rows[b].status = "active"
    /\ RevokeRow(b, "operator")
    /\ IF \A y \in Scripts : pc[y] = "idle"
       THEN UNCHANGED overlaps
       ELSE TroubleLeft /\ overlaps' = overlaps + 1
    /\ UNCHANGED <<late, local, passed, reports, asked, smokes, asks, failures>>

Finish(x) == Project(x) \/ Revoke(x) \/ Confirm(x) \/ Report(x)

Smoke(x) ==
    \/ Register(x) \/ RegisterAgain(x) \/ RegisterConflict(x) \/ Verify(x) \/ Record(x)
    \/ Finish(x)

Recovery(x) ==
    \/ StartRecovery(x) \/ Discover(x) \/ Validate(x) \/ ReadRevocation(x) \/ Finish(x)

Next ==
    \/ \E x \in Smokes : StartSmoke(x) \/ Smoke(x)
    \/ \E x \in Recoveries : Recovery(x)
    \/ \E x \in Scripts : Crash(x) \/ Abandon(x)
    \/ \E r \in late : Land(r)
    \/ \E b \in Bundle : Ask(b) \/ OperatorRevokes(b)

Spec == Init /\ [][Next]_vars

\* A smoke that runs goes on; and the operator has a recovery going, and starts one again
\* when it has ended.
FairSpec ==
    /\ Spec
    /\ WF_vars(\E x \in Smokes : Smoke(x))
    /\ WF_vars(\E x \in Recoveries : Recovery(x))

-------------------------------------------------------------------------------
(* Properties. *)

\* A report is of a certificate that is revoked, and stays so; and what the recovery only
\* repeats of the smoke, that it went through its duplicate stages, did happen, unless the
\* events it went by were those of other clients.  (The stage of the conflicting duplicate
\* passes on any error of the call: that the registry refused it is not part of this.)
ReportIsEarned ==
    \A r \in reports :
        /\ rows[r.bundle].status = "revoked"
        /\ r.bundle \in passed \union asked

\* A certificate is revoked once: what the first revocation recorded is not overwritten by
\* an interrupted, repeated or later script, unless the two ran at the same time, or the
\* revocation of one that had ended was made late.
RevokedOnce ==
    [][\A b \in Bundle :
          rows[b].status = "revoked" /\ overlaps = 0
            /\ (\A r \in late : r.bundle = b => r.what # "revoke") =>
          /\ rows'[b].status = "revoked"
          /\ rows'[b].reason = rows[b].reason
          /\ rows'[b].at = rows[b].at]_vars

\* The registry never has two bundles of the smoke, so the recovery is never in doubt which
\* one to finish.
OneBundle == Cardinality({b \in Bundle : rows[b].status # "absent"}) <= 1

\* A smoke that got as far as its events is finished in the end, wherever it was interrupted,
\* and reported, unless somebody else revokes the certificate.
RecoveryFinishes ==
    \A b \in Bundle :
        Events(b) ~> \/ \E r \in reports : r.bundle = b
                     \/ rows[b].reason = "operator"
===============================================================================
