------------------------------ MODULE VerifyGate ------------------------------
(***************************************************************************)
(* The Verify Gate of the control plane: CertificateService.verify and     *)
(* CertificateService.authorize_delivery, run by the worker threads of one *)
(* API process against a certificate registry that other processes write   *)
(* (registration, revocation, and edits of a stored row that the gate is   *)
(* there to notice).  Each call to the repository or to the object store   *)
(* is a step of its own, since other threads and processes run between     *)
(* two of them.                                                            *)
(*                                                                         *)
(* A verification or delivery event is named <<t, n>> after the n-th       *)
(* request of thread t that wrote it (the database draws a random UUID).   *)
(***************************************************************************)
EXTENDS Naturals

CONSTANTS
    Threads,        \* worker threads of the API process
    Certs,          \* certificate identifiers
    Absent,         \* no row has the identifier
    NoThread,       \* nobody holds the lock of the lazy storage adapter
    MaxRequests,    \* bound: requests each thread serves
    MaxRestarts     \* bound: restarts of the API process

ASSUME GateAssumption ==
    /\ NoThread \notin Threads
    /\ MaxRequests \in Nat
    /\ MaxRestarts \in Nat

(***************************************************************************)
(* What verify() can tell apart in a stored certificate: the first of its  *)
(* checks that fails.  An envelope that does not parse and a custody       *)
(* record that does not match have one verdict, malformed_evidence; in a   *)
(* row with no_asset the custody check fails, and authorize_delivery would *)
(* find certificate.asset None.                                            *)
(***************************************************************************)
Evidence == {"sound", "malformed", "bad_signature", "no_asset"}
CertStatus == {"active", "revoked", "invalid"}
Row == [status : CertStatus, evidence : Evidence]

ASSUME AbsentIsNoRow == Absent \notin Row

Kind == {"verify", "deliver"}
Presented == {"sealed", "other"}    \* no digest counts as the sealed one
Verdict == {"certificate_not_found", "certificate_revoked", "malformed_evidence",
            "signature_invalid", "hash_mismatch", "verified"}
DeliveryStatus == {"issued", "blocked", "storage_failure"}
Outcome == {"verdict", "url", "blocked", "storage_failure", "error"}

VARIABLES
    certs,          \* the certificate registry
    sealed,         \* the exact sealed version of a certificate is stored
    verifications,  \* verification_events
    deliveries,     \* delivery_events
    pc,             \* where each thread is
    req,            \* the request a thread serves, with the locals of the call
    count,          \* requests each thread has begun
    replies,        \* answers that left the API
    adapter,        \* LazyDeliveryStorage._storage is not None
    lock,           \* holder of LazyDeliveryStorage._lock
    builds,         \* adapters built since the process started
    restarts

registryVars == <<certs, sealed>>
eventVars == <<verifications, deliveries>>
lazyVars == <<adapter, lock, builds>>
vars == <<certs, sealed, verifications, deliveries, pc, req, count, replies,
          adapter, lock, builds, restarts>>

(***************************************************************************)
(* revokedBefore is a history field: the certificate was already revoked   *)
(* when the request arrived.                                               *)
(***************************************************************************)
Request == [kind : Kind, cert : Certs, presented : Presented,
            revokedBefore : BOOLEAN, verdict : Verdict]

Location == {"idle", "read", "record_verification", "record_blocked", "reread",
             "storage", "storage_lock", "storage_build", "issue",
             "record_issued", "record_failure"}

Id(t) == <<t, count[t]>>
EventId == Threads \X Nat

TypeOK ==
    /\ certs \in [Certs -> Row \union {Absent}]
    /\ sealed \in [Certs -> BOOLEAN]
    /\ verifications \subseteq [id : EventId, cert : Certs \union {Absent}, status : Verdict]
    /\ deliveries \subseteq [id : EventId, cert : Certs, verification : EventId,
                             status : DeliveryStatus]
    /\ pc \in [Threads -> Location]
    /\ req \in [Threads -> Request]
    /\ count \in [Threads -> Nat]
    /\ replies \subseteq [id : EventId, cert : Certs, outcome : Outcome, revokedBefore : BOOLEAN]
    /\ adapter \in BOOLEAN
    /\ lock \in Threads \union {NoThread}
    /\ builds \in Nat
    /\ restarts \in Nat

Init ==
    /\ certs = [c \in Certs |-> Absent]
    /\ sealed = [c \in Certs |-> FALSE]
    /\ verifications = {}
    /\ deliveries = {}
    /\ pc = [t \in Threads |-> "idle"]
    /\ req \in [Threads -> {[kind |-> "verify", cert |-> c, presented |-> "sealed",
                             revokedBefore |-> FALSE, verdict |-> "certificate_not_found"]
                            : c \in Certs}]
    /\ count = [t \in Threads |-> 0]
    /\ replies = {}
    /\ adapter = FALSE
    /\ lock = NoThread
    /\ builds = 0
    /\ restarts = 0

-------------------------------------------------------------------------------
(***************************************************************************)
(* The registry, as other processes change it.                             *)
(***************************************************************************)

\* register_certificate stores only a bundle that passed all of its checks, with
\* the sealed object uploaded before it, and never touches an existing row.
Register(c) ==
    /\ certs[c] = Absent
    /\ certs' = [certs EXCEPT ![c] = [status |-> "active", evidence |-> "sound"]]
    /\ sealed' = [sealed EXCEPT ![c] = TRUE]
    /\ UNCHANGED <<eventVars, pc, req, count, replies, lazyVars, restarts>>

\* revoke_certificate: an update of whatever row has the identifier.
Revoke(c) ==
    /\ certs[c] # Absent
    /\ certs' = [certs EXCEPT ![c].status = "revoked"]
    /\ UNCHANGED <<sealed, eventVars, pc, req, count, replies, lazyVars, restarts>>

\* An edit of a stored row behind the service's back.
Tamper(c) ==
    /\ certs[c] # Absent
    /\ certs[c].status # "revoked"
    /\ \E r \in Row :
          /\ r.status # "revoked"
          /\ certs' = [certs EXCEPT ![c] = r]
    /\ UNCHANGED <<sealed, eventVars, pc, req, count, replies, lazyVars, restarts>>

\* The sealed version is not under Object Lock: it can be deleted.
LoseSealed(c) ==
    /\ sealed[c]
    /\ sealed' = [sealed EXCEPT ![c] = FALSE]
    /\ UNCHANGED <<certs, eventVars, pc, req, count, replies, lazyVars, restarts>>

-------------------------------------------------------------------------------
(***************************************************************************)
(* Steps of a request thread.                                              *)
(***************************************************************************)

Goto(t, l) == pc' = [pc EXCEPT ![t] = l]

Reply(t, outcome) ==
    /\ replies' = replies \union
          {[id |-> Id(t), cert |-> req[t].cert, outcome |-> outcome,
            revokedBefore |-> req[t].revokedBefore]}
    /\ Goto(t, "idle")

\* POST /v1/verify or POST /v1/delivery.
Receive(t) ==
    /\ pc[t] = "idle"
    /\ count[t] < MaxRequests
    /\ \E k \in Kind, c \in Certs, p \in Presented :
          req' = [req EXCEPT ![t] =
                [kind |-> k, cert |-> c, presented |-> p,
                 revokedBefore |-> certs[c] # Absent /\ certs[c].status = "revoked",
                 verdict |-> "certificate_not_found"]]
    /\ count' = [count EXCEPT ![t] = @ + 1]
    /\ Goto(t, "read")
    /\ UNCHANGED <<registryVars, eventVars, replies, lazyVars, restarts>>

\* Faulty variant: the status of the certificate is not looked at.
DecideIgnoringStatus(row, presented) ==
    CASE row = Absent                                          -> "certificate_not_found"
      [] row # Absent /\ row.evidence # "sound"                -> "malformed_evidence"
      [] row # Absent /\ row.evidence = "sound"                ->
            IF presented = "other" THEN "hash_mismatch" ELSE "verified"

\* The decision of verify() on the row it read; the order of the tests is the code's.
Decide(row, presented) ==
    CASE row = Absent                                     -> "certificate_not_found"
      [] row # Absent /\ row.status = "revoked"           -> "certificate_revoked"
      [] row # Absent /\ row.status = "invalid"           -> "malformed_evidence"
      [] row # Absent /\ row.status = "active"            ->
            CASE row.evidence = "malformed"                 -> "malformed_evidence"
              [] row.evidence = "bad_signature"             -> "signature_invalid"
              [] row.evidence = "no_asset"                  -> "malformed_evidence"
              [] row.evidence = "sound" /\ presented = "other" -> "hash_mismatch"
              [] row.evidence = "sound" /\ presented # "other" -> "verified"

\* repository.get_certificate and everything decided from the row it returns.
ReadCertificate(t) ==
    /\ pc[t] = "read"
    /\ req' = [req EXCEPT ![t].verdict = Decide(certs[req[t].cert], req[t].presented)]
    /\ Goto(t, "record_verification")
    /\ UNCHANGED <<registryVars, eventVars, count, replies, lazyVars, restarts>>

\* repository.record_verification.  An absent certificate is logged with no cert_id.
VerificationEvent(t) ==
    [id |-> Id(t),
     cert |-> IF req[t].verdict = "certificate_not_found" THEN Absent ELSE req[t].cert,
     status |-> req[t].verdict]

\* repository.record_delivery.
DeliveryEvent(t, status) ==
    [id |-> Id(t), cert |-> req[t].cert, verification |-> Id(t), status |-> status]

\* Faulty variant: the event of a missing certificate is treated as any other refusal.
RecordVerificationNoSpecialCase(t) ==
    /\ pc[t] = "record_verification"
    /\ verifications' = verifications \union {VerificationEvent(t)}
    /\ IF req[t].kind = "verify"
       THEN Reply(t, "verdict")
       ELSE /\ Goto(t, IF req[t].verdict = "verified" THEN "reread" ELSE "record_blocked")
            /\ UNCHANGED replies
    /\ UNCHANGED <<registryVars, deliveries, req, count, lazyVars, restarts>>

\* Faulty variant: any certificate that exists goes on to storage.
RecordVerificationNoGate(t) ==
    /\ pc[t] = "record_verification"
    /\ verifications' = verifications \union {VerificationEvent(t)}
    /\ IF req[t].kind = "verify"
       THEN Reply(t, "verdict")
       ELSE /\ Goto(t, "reread")
            /\ UNCHANGED replies
    /\ UNCHANGED <<registryVars, deliveries, req, count, lazyVars, restarts>>

RecordVerification(t) ==
    /\ pc[t] = "record_verification"
    /\ verifications' = verifications \union {VerificationEvent(t)}
    /\ \/ /\ req[t].kind = "verify"
          /\ Reply(t, "verdict")
       \/ /\ req[t].kind = "deliver"
          /\ req[t].verdict = "certificate_not_found"
          /\ Reply(t, "blocked")
       \/ /\ req[t].kind = "deliver"
          /\ req[t].verdict \notin {"certificate_not_found", "verified"}
          /\ Goto(t, "record_blocked")
          /\ UNCHANGED replies
       \/ /\ req[t].kind = "deliver"
          /\ req[t].verdict = "verified"
          /\ Goto(t, "reread")
          /\ UNCHANGED replies
    /\ UNCHANGED <<registryVars, deliveries, req, count, lazyVars, restarts>>

RecordBlocked(t) ==
    /\ pc[t] = "record_blocked"
    /\ deliveries' = deliveries \union {DeliveryEvent(t, "blocked")}
    /\ Reply(t, "blocked")
    /\ UNCHANGED <<registryVars, verifications, req, count, lazyVars, restarts>>

\* authorize_delivery reads the certificate a second time, for its asset only.  (A
\* deployment without B2 configuration has storage None and takes the same branch as
\* a row without its asset; the model is of a deployment that can deliver.)
Reread(t) ==
    /\ pc[t] = "reread"
    /\ LET row == certs[req[t].cert]
       IN  Goto(t, IF row = Absent \/ row.evidence = "no_asset"
                   THEN "record_failure" ELSE "storage")
    /\ UNCHANGED <<registryVars, eventVars, req, count, replies, lazyVars, restarts>>

\* LazyDeliveryStorage.issue_download: the test of _storage outside the lock.
CheckAdapter(t) ==
    /\ pc[t] = "storage"
    /\ Goto(t, IF adapter THEN "issue" ELSE "storage_lock")
    /\ UNCHANGED <<registryVars, eventVars, req, count, replies, lazyVars, restarts>>

AcquireLock(t) ==
    /\ pc[t] = "storage_lock"
    /\ lock = NoThread
    /\ lock' = t
    /\ Goto(t, "storage_build")
    /\ UNCHANGED <<registryVars, eventVars, req, count, replies, adapter, builds, restarts>>

\* Faulty variant: no second test under the lock.
BuildAdapterUnchecked(t) ==
    /\ pc[t] = "storage_build"
    /\ lock' = NoThread
    /\ adapter' = TRUE
    /\ builds' = builds + 1
    /\ Goto(t, "issue")
    /\ UNCHANGED <<registryVars, eventVars, req, count, replies, restarts>>

\* Faulty variant: the lock stays taken when the factory raises.
BuildAdapterKeepingLock(t) ==
    /\ pc[t] = "storage_build"
    /\ \/ /\ adapter
          /\ Goto(t, "issue")
          /\ lock' = NoThread
       \/ /\ ~adapter
          /\ Goto(t, "record_failure")
          /\ UNCHANGED lock
    /\ UNCHANGED <<registryVars, eventVars, req, count, replies, adapter, builds, restarts>>

\* The second test, the factory, and the release: the factory may raise, which
\* leaves no adapter and releases the lock.
BuildAdapter(t) ==
    /\ pc[t] = "storage_build"
    /\ lock' = NoThread
    /\ \/ /\ adapter
          /\ Goto(t, "issue")
          /\ UNCHANGED <<adapter, builds>>
       \/ /\ ~adapter
          /\ adapter' = TRUE
          /\ builds' = builds + 1
          /\ Goto(t, "issue")
       \/ /\ ~adapter
          /\ Goto(t, "record_failure")
          /\ UNCHANGED <<adapter, builds>>
    /\ UNCHANGED <<registryVars, eventVars, req, count, replies, restarts>>

\* B2DeliveryStorage.issue_download: a URL only if the head of the exact version
\* succeeds; it may fail for other reasons.
IssueDownload(t) ==
    /\ pc[t] = "issue"
    /\ \/ sealed[req[t].cert] /\ Goto(t, "record_issued")
       \/ Goto(t, "record_failure")
    /\ UNCHANGED <<registryVars, eventVars, req, count, replies, lazyVars, restarts>>

\* Faulty variant: the URL is returned although its event may not be stored.
RecordIssuedBestEffort(t) ==
    /\ pc[t] = "record_issued"
    /\ deliveries' \in {deliveries, deliveries \union {DeliveryEvent(t, "issued")}}
    /\ Reply(t, "url")
    /\ UNCHANGED <<registryVars, verifications, req, count, lazyVars, restarts>>

\* The URL leaves only after its event is stored.
RecordIssued(t) ==
    /\ pc[t] = "record_issued"
    /\ deliveries' = deliveries \union {DeliveryEvent(t, "issued")}
    /\ Reply(t, "url")
    /\ UNCHANGED <<registryVars, verifications, req, count, lazyVars, restarts>>

RecordStorageFailure(t) ==
    /\ pc[t] = "record_failure"
    /\ deliveries' = deliveries \union {DeliveryEvent(t, "storage_failure")}
    /\ Reply(t, "storage_failure")
    /\ UNCHANGED <<registryVars, verifications, req, count, lazyVars, restarts>>

\* A repository call raises.  An insert may have been stored before its answer was
\* lost; the exception ends the request either way.
RepositoryFailure(t) ==
    /\ \/ /\ pc[t] \in {"read", "reread"}
          /\ UNCHANGED eventVars
       \/ /\ pc[t] = "record_verification"
          /\ verifications' \in {verifications, verifications \union {VerificationEvent(t)}}
          /\ UNCHANGED deliveries
       \/ /\ pc[t] \in {"record_blocked", "record_issued", "record_failure"}
          /\ LET status == CASE pc[t] = "record_blocked" -> "blocked"
                             [] pc[t] = "record_issued"  -> "issued"
                             [] pc[t] = "record_failure" -> "storage_failure"
             IN  deliveries' \in {deliveries, deliveries \union {DeliveryEvent(t, status)}}
          /\ UNCHANGED verifications
    /\ Reply(t, "error")
    /\ UNCHANGED <<registryVars, req, count, lazyVars, restarts>>

\* The process is replaced: every request in flight ends without an answer, and the
\* adapter and its lock are gone with the memory they lived in.  (The restart of an
\* idle process without an adapter changes nothing, and is left out.)
Restart ==
    /\ restarts < MaxRestarts
    /\ adapter \/ \E t \in Threads : pc[t] # "idle"
    /\ restarts' = restarts + 1
    /\ pc' = [t \in Threads |-> "idle"]
    /\ adapter' = FALSE
    /\ lock' = NoThread
    /\ builds' = 0
    /\ UNCHANGED <<registryVars, eventVars, req, count, replies>>

-------------------------------------------------------------------------------
Step(t) ==
    \/ ReadCertificate(t)
    \/ RecordVerification(t)
    \/ RecordBlocked(t)
    \/ Reread(t)
    \/ CheckAdapter(t)
    \/ AcquireLock(t)
    \/ BuildAdapter(t)
    \/ IssueDownload(t)
    \/ RecordIssued(t)
    \/ RecordStorageFailure(t)
    \/ RepositoryFailure(t)

Registry(c) == Register(c) \/ Revoke(c) \/ Tamper(c) \/ LoseSealed(c)

Next ==
    \/ \E c \in Certs : Registry(c)
    \/ \E t \in Threads : Receive(t) \/ Step(t)
    \/ Restart

Spec == Init /\ [][Next]_vars

\* A thread that has begun a request keeps running: the calls it makes return or
\* raise (every client is built with timeouts), and a lock it waits for is held
\* only across one factory call.
FairSpec == Spec /\ \A t \in Threads : WF_vars(Step(t))

-------------------------------------------------------------------------------
(***************************************************************************)
(* Safety.                                                                 *)
(***************************************************************************)

\* A certificate revoked before a request arrived is never served by it: whatever
\* the threads interleave, no URL is returned and no issued event is written.
RevokedBeforeIsNeverServed ==
    /\ \A r \in replies : r.revokedBefore => r.outcome # "url"
    /\ \A t \in Threads :
          req[t].revokedBefore =>
             \A d \in deliveries : d.id = Id(t) => d.status = "blocked"

\* Every URL that left the API is in the audit trail: an issued event of the same
\* request and certificate, which names a verification event that says verified.
EveryUrlIsAudited ==
    \A r \in replies : r.outcome = "url" =>
        /\ \E d \in deliveries : d.id = r.id /\ d.cert = r.cert /\ d.status = "issued"
        /\ \E v \in verifications : v.id = r.id /\ v.cert = r.cert /\ v.status = "verified"

\* The audit trail never contradicts itself: a request has one delivery event at most,
\* its verification event exists and is of the same certificate, and it was issued or
\* failed in storage exactly when that verification passed.
AuditTrailConsistent ==
    \A d \in deliveries :
        /\ \A e \in deliveries : e.id = d.id => e = d
        /\ \E v \in verifications :
              /\ v.id = d.verification
              /\ v.cert = d.cert
              /\ (v.status = "verified") = (d.status # "blocked")

\* The lazily built adapter is built once in the life of a process, although the
\* first test of _storage is made without the lock.
OneAdapter ==
    /\ builds <= 1
    /\ adapter <=> builds = 1
    /\ \A t \in Threads : pc[t] = "storage_build" <=> lock = t

\* The gate records its verification before it takes any part of the delivery
\* decision: a step past the verification has the event behind it.
RecordsVerificationFirst ==
    \A t \in Threads :
        pc[t] \in Location \ {"idle", "read", "record_verification"} =>
            \E v \in verifications : v.id = Id(t) /\ v.status = req[t].verdict

(***************************************************************************)
(* Liveness: every request that was received is answered, or dies with its *)
(* process.                                                                *)
(***************************************************************************)
EveryRequestEnds == \A t \in Threads : (pc[t] # "idle") ~> (pc[t] = "idle")

(***************************************************************************)
(* The gate implements the contract: the instant of the decision is the    *)
(* first read of the certificate.                                          *)
(***************************************************************************)
StandingOf(row) ==
    CASE row = Absent                                   -> "unissued"
      [] row # Absent /\ row.status = "revoked"         -> "revoked"
      [] row # Absent /\ row.status # "revoked"         ->
            IF row.status = "active" /\ row.evidence = "sound" THEN "good" ELSE "flawed"

DecisionOf(t) ==
    CASE pc[t] = "idle" -> "none"
      [] pc[t] = "read" -> "pending"
      [] pc[t] \notin {"idle", "read"} ->
            IF req[t].verdict = "verified" THEN "allowed" ELSE "denied"

Contract == INSTANCE DeliveryContract WITH
    standing <- [c \in Certs |-> StandingOf(certs[c])],
    asked    <- [t \in Threads |-> req[t].cert],
    decision <- [t \in Threads |-> DecisionOf(t)],
    served   <- {r.cert : r \in {q \in replies : q.outcome = "url"}}

ImplementsContract == Contract!Spec
===============================================================================
