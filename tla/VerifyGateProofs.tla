--------------------------- MODULE VerifyGateProofs ----------------------------
(***************************************************************************)
(* Proofs about VerifyGate, for any threads, certificates, requests and    *)
(* restarts.                                                               *)
(***************************************************************************)
EXTENDS VerifyGate, TLAPS

(***************************************************************************)
(* The inductive invariant.  Decided ties what a thread does to the        *)
(* verdict it reached; Fresh says that the events of the request a thread  *)
(* is serving are not written twice; Started that it has a number; Revoked *)
(* carries a revocation that was there at arrival to the verdict.          *)
(***************************************************************************)
Serving == {"reread", "storage", "storage_lock", "storage_build", "issue",
            "record_issued", "record_failure"}

Decided ==
    \A t \in Threads :
        /\ pc[t] = "record_blocked" => req[t].verdict \notin {"certificate_not_found", "verified"}
        /\ pc[t] \in Serving => req[t].verdict = "verified"

Recorded ==
    \A t \in Threads : pc[t] \in Serving \union {"record_blocked"} =>
        VerificationEvent(t) \in verifications

Fresh ==
    /\ \A d \in deliveries : \E t \in Threads : \E n \in 1..count[t] : d.id = <<t, n>>
    /\ \A t \in Threads : pc[t] # "idle" => \A d \in deliveries : d.id # Id(t)

Started == \A t \in Threads : pc[t] # "idle" => count[t] \in 1..count[t]

Revoked ==
    \A t \in Threads : req[t].revokedBefore =>
        /\ pc[t] = "read" => /\ certs[req[t].cert] # Absent
                             /\ certs[req[t].cert].status = "revoked"
        /\ pc[t] \notin {"idle", "read"} => req[t].verdict = "certificate_revoked"

GateInv ==
    /\ TypeOK
    /\ Decided
    /\ Recorded
    /\ Fresh
    /\ Started
    /\ Revoked
    /\ RevokedBeforeIsNeverServed
    /\ EveryUrlIsAudited
    /\ AuditTrailConsistent

\* What the decision of verify() can be: a verdict, "verified" for a good row only, and
\* "certificate_revoked" for every revoked row.
LEMMA DecideSound ==
    ASSUME NEW row \in Row \union {Absent}, NEW p \in Presented
    PROVE  /\ Decide(row, p) \in Verdict
           /\ Decide(row, p) = "certificate_not_found" => row = Absent
           /\ Decide(row, p) = "verified" =>
                 row # Absent /\ row.status = "active" /\ row.evidence = "sound"
           /\ row # Absent /\ row.status = "revoked" => Decide(row, p) = "certificate_revoked"
<1>1. CASE row = Absent
  BY <1>1 DEF Decide, Verdict
<1>2. CASE row # Absent
  <2>1. row.status \in CertStatus /\ row.evidence \in Evidence
    BY <1>2 DEF Row
  <2>2. CASE row.status = "revoked"
    BY <1>2, <2>2 DEF Decide, Verdict
  <2>3. CASE row.status = "invalid"
    BY <1>2, <2>3 DEF Decide, Verdict
  <2>4. CASE row.status = "active"
    BY <1>2, <2>1, <2>4 DEF Decide, Verdict, Evidence, Presented
  <2> QED
    BY <2>1, <2>2, <2>3, <2>4 DEF CertStatus
<1> QED
  BY <1>1, <1>2

\* The empty audit trail satisfies the invariant.
LEMMA InitGate == Init => GateInv
<1> SUFFICES ASSUME Init
             PROVE  GateInv
  OBVIOUS
<1>1. TypeOK
  <2>1. \A c \in Certs : [kind |-> "verify", cert |-> c, presented |-> "sealed",
                         revokedBefore |-> FALSE, verdict |-> "certificate_not_found"] \in Request
    BY DEF Request, Kind, Presented, Verdict
  <2>2. req \in [Threads -> Request]
    BY <2>1 DEF Init
  <2> QED
    BY <2>2 DEF Init, TypeOK, Location
<1>2. Decided /\ Recorded /\ Fresh /\ Started
  BY DEF Init, Decided, Recorded, Fresh, Started, Serving
<1>3. Revoked
  BY DEF Init, Revoked
<1>4. RevokedBeforeIsNeverServed /\ EveryUrlIsAudited /\ AuditTrailConsistent
  BY DEF Init, RevokedBeforeIsNeverServed, EveryUrlIsAudited, AuditTrailConsistent
<1> QED
  BY <1>1, <1>2, <1>3, <1>4 DEF GateInv

\* The events a thread writes are of the declared types.
LEMMA EventTypes ==
    ASSUME TypeOK, NEW t \in Threads
    PROVE  /\ Id(t) \in EventId
           /\ VerificationEvent(t) \in [id : EventId, cert : Certs \union {Absent}, status : Verdict]
           /\ \A s \in DeliveryStatus :
                 DeliveryEvent(t, s) \in [id : EventId, cert : Certs, verification : EventId,
                                         status : DeliveryStatus]
           /\ \A o \in Outcome :
                 [id |-> Id(t), cert |-> req[t].cert, outcome |-> o,
                  revokedBefore |-> req[t].revokedBefore]
                 \in [id : EventId, cert : Certs, outcome : Outcome, revokedBefore : BOOLEAN]
<1>1. Id(t) \in EventId
  BY DEF TypeOK, Id, EventId
<1>2. req[t].cert \in Certs /\ req[t].verdict \in Verdict /\ req[t].revokedBefore \in BOOLEAN
  BY DEF TypeOK, Request
<1> QED
  BY <1>1, <1>2 DEF VerificationEvent, DeliveryEvent

\* An answer is of the declared type, and the thread is idle after it.
LEMMA ReplyTypes ==
    ASSUME TypeOK, NEW t \in Threads, NEW o \in Outcome, Reply(t, o)
    PROVE  /\ replies' \subseteq [id : EventId, cert : Certs, outcome : Outcome,
                                  revokedBefore : BOOLEAN]
           /\ pc' \in [Threads -> Location]
<1>1. replies' = replies \union {[id |-> Id(t), cert |-> req[t].cert, outcome |-> o,
                                 revokedBefore |-> req[t].revokedBefore]}
  BY DEF Reply
<1>2. pc' \in [Threads -> Location]
  BY DEF Reply, Goto, TypeOK, Location
<1> QED
  BY <1>1, <1>2, EventTypes DEF TypeOK

\* Every step keeps the types.
LEMMA StepTypes == TypeOK /\ [Next]_vars => TypeOK'
<1> SUFFICES ASSUME TypeOK, [Next]_vars
             PROVE  TypeOK'
  OBVIOUS
<1> USE DEF registryVars, eventVars, lazyVars
<1>1. ASSUME NEW c \in Certs, Register(c)
      PROVE  TypeOK'
  <2>1. [status |-> "active", evidence |-> "sound"] \in Row
    BY DEF Row, CertStatus, Evidence
  <2> QED
    BY <1>1, <2>1 DEF Register, TypeOK
<1>2. ASSUME NEW c \in Certs, Revoke(c)
      PROVE  TypeOK'
  <2>1. certs[c] \in Row
    BY <1>2 DEF Revoke, TypeOK
  <2>2. [certs[c] EXCEPT !.status = "revoked"] \in Row
    BY <2>1 DEF Row, CertStatus
  <2>3. certs' = [certs EXCEPT ![c] = [certs[c] EXCEPT !.status = "revoked"]]
    BY <1>2 DEF Revoke
  <2> QED
    BY <1>2, <2>2, <2>3 DEF Revoke, TypeOK
<1>3. ASSUME NEW c \in Certs, Tamper(c)
      PROVE  TypeOK'
  BY <1>3 DEF Tamper, TypeOK
<1>4. ASSUME NEW c \in Certs, LoseSealed(c)
      PROVE  TypeOK'
  BY <1>4 DEF LoseSealed, TypeOK
<1>5. ASSUME NEW t \in Threads, Receive(t)
      PROVE  TypeOK'
  <2>1. PICK k \in Kind, c \in Certs, p \in Presented :
           req' = [req EXCEPT ![t] =
                     [kind |-> k, cert |-> c, presented |-> p,
                      revokedBefore |-> certs[c] # Absent /\ certs[c].status = "revoked",
                      verdict |-> "certificate_not_found"]]
    BY <1>5 DEF Receive
  <2>2. [kind |-> k, cert |-> c, presented |-> p,
         revokedBefore |-> certs[c] # Absent /\ certs[c].status = "revoked",
         verdict |-> "certificate_not_found"] \in Request
    BY DEF Request, Verdict
  <2>3. req' \in [Threads -> Request]
    BY <2>1, <2>2 DEF TypeOK
  <2> QED
    BY <1>5, <2>3 DEF Receive, Goto, TypeOK, Location
<1>6. ASSUME NEW t \in Threads, ReadCertificate(t)
      PROVE  TypeOK'
  <2>1. req[t] \in Request /\ certs[req[t].cert] \in Row \union {Absent}
    BY DEF TypeOK, Request
  <2>2. Decide(certs[req[t].cert], req[t].presented) \in Verdict
    BY <2>1, DecideSound DEF Request
  <2>3. [req[t] EXCEPT !.verdict = Decide(certs[req[t].cert], req[t].presented)] \in Request
    BY <2>1, <2>2 DEF Request
  <2>4. req' = [req EXCEPT ![t] =
                  [req[t] EXCEPT !.verdict = Decide(certs[req[t].cert], req[t].presented)]]
    BY <1>6 DEF ReadCertificate
  <2>5. req' \in [Threads -> Request]
    BY <2>3, <2>4 DEF TypeOK
  <2> QED
    BY <1>6, <2>5 DEF ReadCertificate, Goto, TypeOK, Location
<1>7. ASSUME NEW t \in Threads, RecordVerification(t)
      PROVE  TypeOK'
  <2>1. verifications' \subseteq [id : EventId, cert : Certs \union {Absent}, status : Verdict]
    BY <1>7, EventTypes DEF RecordVerification, TypeOK
  <2>2. CASE Reply(t, "verdict") \/ Reply(t, "blocked")
    BY <1>7, <2>1, <2>2, ReplyTypes DEF RecordVerification, TypeOK, Outcome
  <2>3. CASE (Goto(t, "record_blocked") \/ Goto(t, "reread")) /\ UNCHANGED replies
    BY <1>7, <2>1, <2>3 DEF RecordVerification, Goto, TypeOK, Location
  <2> QED
    BY <1>7, <2>2, <2>3 DEF RecordVerification
<1>8. ASSUME NEW t \in Threads, NEW s \in DeliveryStatus, NEW o \in Outcome,
             deliveries' \in {deliveries, deliveries \union {DeliveryEvent(t, s)}},
             Reply(t, o),
             UNCHANGED <<registryVars, verifications, req, count, lazyVars, restarts>>
      PROVE  TypeOK'
  <2>1. deliveries' \subseteq [id : EventId, cert : Certs, verification : EventId,
                              status : DeliveryStatus]
    BY <1>8, EventTypes DEF TypeOK
  <2> QED
    BY <1>8, <2>1, ReplyTypes DEF TypeOK
<1>9. ASSUME NEW t \in Threads, RecordBlocked(t) \/ RecordIssued(t) \/ RecordStorageFailure(t)
      PROVE  TypeOK'
  BY <1>8, <1>9 DEF RecordBlocked, RecordIssued, RecordStorageFailure, DeliveryStatus, Outcome
<1>10. ASSUME NEW t \in Threads, RepositoryFailure(t)
       PROVE  TypeOK'
  <2>1. verifications' \subseteq [id : EventId, cert : Certs \union {Absent}, status : Verdict]
    BY <1>10, EventTypes DEF RepositoryFailure, TypeOK
  <2>2. deliveries' \subseteq [id : EventId, cert : Certs, verification : EventId,
                              status : DeliveryStatus]
    <3>1. \A s \in {"blocked", "issued", "storage_failure"} :
             DeliveryEvent(t, s) \in [id : EventId, cert : Certs, verification : EventId,
                                     status : DeliveryStatus]
      BY EventTypes DEF DeliveryStatus
    <3> QED
      BY <1>10, <3>1 DEF RepositoryFailure, TypeOK
  <2> QED
    BY <1>10, <2>1, <2>2, ReplyTypes DEF RepositoryFailure, TypeOK, Outcome
<1>11. ASSUME NEW t \in Threads,
              Reread(t) \/ CheckAdapter(t) \/ AcquireLock(t) \/ BuildAdapter(t) \/ IssueDownload(t)
       PROVE  TypeOK'
  <2>1. pc' \in [Threads -> Location]
    BY <1>11 DEF Reread, CheckAdapter, AcquireLock, BuildAdapter, IssueDownload, Goto, TypeOK,
       Location
  <2>2. lock' \in Threads \union {NoThread} /\ builds' \in Nat
    BY <1>11 DEF Reread, CheckAdapter, AcquireLock, BuildAdapter, IssueDownload, TypeOK
  <2>3. adapter' \in BOOLEAN
    BY <1>11 DEF Reread, CheckAdapter, AcquireLock, BuildAdapter, IssueDownload, TypeOK
  <2>4. UNCHANGED <<certs, sealed, verifications, deliveries, req, count, replies, restarts>>
    BY <1>11 DEF Reread, CheckAdapter, AcquireLock, BuildAdapter, IssueDownload
  <2> QED
    BY <2>1, <2>2, <2>3, <2>4 DEF TypeOK
<1>12. CASE Restart
  <2>1. pc' \in [Threads -> Location]
    BY <1>12 DEF Restart, Location
  <2>2. builds' \in Nat /\ restarts' \in Nat
    BY <1>12 DEF Restart, TypeOK
  <2>3. adapter' \in BOOLEAN /\ lock' \in Threads \union {NoThread}
    BY <1>12 DEF Restart
  <2>4. UNCHANGED <<certs, sealed, verifications, deliveries, req, count, replies>>
    BY <1>12 DEF Restart
  <2> QED
    BY <2>1, <2>2, <2>3, <2>4 DEF TypeOK
<1>13. CASE UNCHANGED vars
  BY <1>13 DEF vars, TypeOK
<1> QED
  BY <1>1, <1>2, <1>3, <1>4, <1>5, <1>6, <1>7, <1>9, <1>10, <1>11, <1>12, <1>13
     DEF Next, Step, Registry

\* A step between the verification and the audit of a delivery only moves its thread.
LEMMA MoveGate ==
    ASSUME GateInv, TypeOK', NEW t \in Threads, NEW l \in Serving,
           pc[t] \in Serving, pc' = [pc EXCEPT ![t] = l],
           UNCHANGED <<certs, verifications, deliveries, req, count, replies>>
    PROVE  GateInv'
<1> USE DEF GateInv, TypeOK
<1>1. Decided' /\ Recorded'
  BY DEF Decided, Recorded, VerificationEvent, Id, Serving
<1>2. Fresh' /\ Started' /\ Revoked'
  BY DEF Fresh, Started, Revoked, Id, Serving
<1>3. RevokedBeforeIsNeverServed' /\ EveryUrlIsAudited' /\ AuditTrailConsistent'
  BY DEF RevokedBeforeIsNeverServed, EveryUrlIsAudited, AuditTrailConsistent, Id
<1> QED
  BY <1>1, <1>2, <1>3

\* A request that ends without a URL, and threads that stop, leave the audit trail alone.
LEMMA EndGate ==
    ASSUME GateInv, TypeOK',
           \A x \in Threads : pc'[x] \in {pc[x], "idle"},
           \A r \in replies' \ replies : r.outcome # "url",
           UNCHANGED <<certs, verifications, deliveries, req, count>>
    PROVE  GateInv'
<1> USE DEF GateInv, TypeOK
<1>1. Decided' /\ Recorded'
  BY DEF Decided, Recorded, VerificationEvent, Id, Serving
<1>2. Fresh' /\ Started' /\ Revoked'
  BY DEF Fresh, Started, Revoked, Id, Serving
<1>3. RevokedBeforeIsNeverServed' /\ EveryUrlIsAudited' /\ AuditTrailConsistent'
  BY DEF RevokedBeforeIsNeverServed, EveryUrlIsAudited, AuditTrailConsistent, Id
<1> QED
  BY <1>1, <1>2, <1>3

\* A registry that never takes a revocation back keeps the invariant.
LEMMA RegistryGate ==
    ASSUME GateInv, TypeOK',
           \A c \in Certs : certs[c] # Absent /\ certs[c].status = "revoked" =>
               certs'[c] # Absent /\ certs'[c].status = "revoked",
           UNCHANGED <<verifications, deliveries, pc, req, count, replies>>
    PROVE  GateInv'
<1> USE DEF GateInv, TypeOK
<1>1. Decided' /\ Recorded' /\ Fresh' /\ Started'
  BY DEF Decided, Recorded, Fresh, Started, VerificationEvent, Id
<1>2. Revoked'
  BY DEF Revoked, Request
<1>3. RevokedBeforeIsNeverServed' /\ EveryUrlIsAudited' /\ AuditTrailConsistent'
  BY DEF RevokedBeforeIsNeverServed, EveryUrlIsAudited, AuditTrailConsistent, Id
<1> QED
  BY <1>1, <1>2, <1>3

\* The verification event is written, and the thread goes where its verdict sends it.
LEMMA VerificationGate ==
    ASSUME GateInv, TypeOK', NEW t \in Threads, NEW l \in {"idle", "record_blocked", "reread"},
           pc[t] = "record_verification", pc' = [pc EXCEPT ![t] = l],
           l = "record_blocked" => req[t].verdict \notin {"certificate_not_found", "verified"},
           l = "reread" => req[t].verdict = "verified",
           verifications \subseteq verifications',
           l # "idle" => VerificationEvent(t) \in verifications',
           \A r \in replies' \ replies : r.outcome # "url",
           UNCHANGED <<certs, deliveries, req, count>>
    PROVE  GateInv'
<1> USE DEF GateInv, TypeOK
<1>1. Decided' /\ Recorded'
  BY DEF Decided, Recorded, VerificationEvent, Id, Serving
<1>2. Fresh' /\ Started' /\ Revoked'
  BY DEF Fresh, Started, Revoked, Id
<1>3. RevokedBeforeIsNeverServed' /\ EveryUrlIsAudited'
  BY DEF RevokedBeforeIsNeverServed, EveryUrlIsAudited, Id
<1>4. AuditTrailConsistent'
  BY DEF AuditTrailConsistent
<1> QED
  BY <1>1, <1>2, <1>3, <1>4

\* The delivery event is written or its answer lost, and the request ends.
LEMMA DeliveryGate ==
    ASSUME GateInv, TypeOK', NEW t \in Threads, NEW s \in DeliveryStatus, NEW o \in Outcome,
           pc[t] \in Serving \union {"record_blocked"},
           (s = "blocked") = (pc[t] = "record_blocked"),
           deliveries' \in {deliveries, deliveries \union {DeliveryEvent(t, s)}},
           o = "url" => s = "issued" /\ DeliveryEvent(t, s) \in deliveries',
           Reply(t, o),
           UNCHANGED <<certs, verifications, req, count>>
    PROVE  GateInv'
<1> USE DEF GateInv, TypeOK
<1>0. /\ pc'[t] = "idle"
      /\ \A x \in Threads : x # t => pc'[x] = pc[x]
  BY DEF Reply, Goto
<1>1. VerificationEvent(t) \in verifications
  BY DEF Recorded
<1>2. VerificationEvent(t).id = Id(t) /\ VerificationEvent(t).status = req[t].verdict
  BY DEF VerificationEvent
<1>3. /\ req[t].verdict # "certificate_not_found"
      /\ (req[t].verdict = "verified") = (s # "blocked")
      /\ VerificationEvent(t).cert = req[t].cert
  BY DEF Decided, Serving, VerificationEvent
<1>4. Decided' /\ Recorded' /\ Started'
  BY <1>0 DEF Decided, Recorded, Started, VerificationEvent, Id, Serving
<1>5. \A d \in deliveries' \ deliveries :
         d.id = Id(t) /\ d.cert = req[t].cert /\ d.verification = Id(t) /\ d.status = s
  BY DEF DeliveryEvent
<1>6. \A d \in deliveries : d.id # Id(t)
  BY DEF Fresh, Serving
<1>7. Fresh'
  <2>1. \A d \in deliveries' : \E x \in Threads : \E n \in 1..count[x] : d.id = <<x, n>>
    <3>1. \A d \in deliveries : \E x \in Threads : \E n \in 1..count[x] : d.id = <<x, n>>
      BY DEF Fresh
    <3>2. pc[t] # "idle" => count[t] \in 1..count[t]
      BY DEF Started
    <3> QED
      BY <1>5, <3>1, <3>2 DEF Id, Serving
  <2>2. \A x \in Threads : pc'[x] # "idle" => \A d \in deliveries' : d.id # Id(x)
    BY <1>0, <1>5 DEF Fresh, Id
  <2> QED
    BY <2>1, <2>2 DEF Fresh, Id
<1>8. Revoked'
  BY <1>0 DEF Revoked
<1>9. req[t].revokedBefore => s = "blocked"
  BY <1>3 DEF Revoked, Serving
<1>10. \A r \in replies' \ replies :
          r.id = Id(t) /\ r.cert = req[t].cert /\ r.outcome = o
          /\ r.revokedBefore = req[t].revokedBefore
  BY DEF Reply
<1>11. RevokedBeforeIsNeverServed'
  <2>1. \A r \in replies' : r.revokedBefore => r.outcome # "url"
    BY <1>9, <1>10 DEF RevokedBeforeIsNeverServed
  <2>2. \A x \in Threads : req[x].revokedBefore =>
           \A d \in deliveries' : d.id = Id(x) => d.status = "blocked"
    BY <1>5, <1>9 DEF RevokedBeforeIsNeverServed, Id
  <2> QED
    BY <2>1, <2>2 DEF RevokedBeforeIsNeverServed, Id
<1>12. EveryUrlIsAudited'
  <2> SUFFICES ASSUME NEW r \in replies', r.outcome = "url"
               PROVE  /\ \E d \in deliveries' : d.id = r.id /\ d.cert = r.cert /\ d.status = "issued"
                      /\ \E v \in verifications : v.id = r.id /\ v.cert = r.cert
                                                 /\ v.status = "verified"
    BY DEF EveryUrlIsAudited
  <2>1. CASE r \in replies
    BY <2>1 DEF EveryUrlIsAudited
  <2>2. CASE r \notin replies
    <3>1. r.id = Id(t) /\ r.cert = req[t].cert /\ o = "url"
      BY <1>10, <2>2
    <3>2. DeliveryEvent(t, s) \in deliveries' /\ s = "issued"
      BY <3>1
    <3> QED
      BY <1>1, <1>2, <1>3, <3>1, <3>2 DEF DeliveryEvent
  <2> QED
    BY <2>1, <2>2
<1>13. AuditTrailConsistent'
  <2> SUFFICES ASSUME NEW d \in deliveries'
               PROVE  /\ \A e \in deliveries' : e.id = d.id => e = d
                      /\ \E v \in verifications :
                            /\ v.id = d.verification
                            /\ v.cert = d.cert
                            /\ (v.status = "verified") = (d.status # "blocked")
    BY DEF AuditTrailConsistent
  <2>1. \A e \in deliveries' : e.id = d.id => e = d
    BY <1>5, <1>6 DEF AuditTrailConsistent
  <2>2. CASE d \in deliveries
    BY <2>1, <2>2 DEF AuditTrailConsistent
  <2>3. CASE d \notin deliveries
    BY <1>1, <1>2, <1>3, <1>5, <2>1, <2>3
  <2> QED
    BY <2>2, <2>3
<1> QED
  BY <1>4, <1>7, <1>8, <1>11, <1>12, <1>13

\* Every step keeps the invariant.
LEMMA StepGate == GateInv /\ [Next]_vars => GateInv'
<1> SUFFICES ASSUME GateInv, [Next]_vars
             PROVE  GateInv'
  OBVIOUS
<1>0. TypeOK /\ TypeOK'
  BY StepTypes DEF GateInv
<1> USE DEF registryVars, eventVars, lazyVars
<1>1. ASSUME NEW c \in Certs, Registry(c)
      PROVE  GateInv'
  <2>1. UNCHANGED <<verifications, deliveries, pc, req, count, replies>>
    BY <1>1 DEF Registry, Register, Revoke, Tamper, LoseSealed
  <2>2. \A x \in Certs : certs[x] # Absent /\ certs[x].status = "revoked" =>
                         certs'[x] # Absent /\ certs'[x].status = "revoked"
    <3> SUFFICES ASSUME NEW x \in Certs, certs[x] # Absent, certs[x].status = "revoked"
                 PROVE  certs'[x] # Absent /\ certs'[x].status = "revoked"
      OBVIOUS
    <3>1. CASE Register(c) \/ Tamper(c) \/ LoseSealed(c)
      BY <1>0, <3>1 DEF Register, Tamper, LoseSealed, TypeOK
    <3>2. CASE Revoke(c)
      <4>1. certs' \in [Certs -> Row \union {Absent}] /\ certs[x] \in Row
        BY <1>0 DEF TypeOK
      <4>2. CASE x = c
        <5>1. certs'[x] = [certs[x] EXCEPT !.status = "revoked"]
          BY <1>0, <3>2, <4>2 DEF Revoke, TypeOK
        <5>2. certs'[x] \in Row /\ certs'[x].status = "revoked"
          BY <4>1, <5>1 DEF Row, CertStatus
        <5> QED
          BY <5>2, AbsentIsNoRow
      <4>3. CASE x # c
        BY <1>0, <3>2, <4>3 DEF Revoke, TypeOK
      <4> QED
        BY <4>2, <4>3
    <3> QED
      BY <1>1, <3>1, <3>2 DEF Registry
  <2> QED
    BY <1>0, <2>1, <2>2, RegistryGate
<1>2. ASSUME NEW t \in Threads, Receive(t)
      PROVE  GateInv'
  <2> USE DEF GateInv, TypeOK
  <2>1. PICK k \in Kind, c \in Certs, p \in Presented :
           req' = [req EXCEPT ![t] =
                     [kind |-> k, cert |-> c, presented |-> p,
                      revokedBefore |-> certs[c] # Absent /\ certs[c].status = "revoked",
                      verdict |-> "certificate_not_found"]]
    BY <1>2 DEF Receive
  <2>2. /\ pc[t] = "idle"
        /\ pc' = [pc EXCEPT ![t] = "read"]
        /\ count' = [count EXCEPT ![t] = @ + 1]
        /\ UNCHANGED <<certs, verifications, deliveries, replies>>
    BY <1>2 DEF Receive, Goto
  <2>3. /\ pc'[t] = "read" /\ count'[t] = count[t] + 1 /\ count[t] \in Nat
        /\ req'[t].cert = c
        /\ req'[t].revokedBefore = (certs[c] # Absent /\ certs[c].status = "revoked")
        /\ \A x \in Threads : x # t => pc'[x] = pc[x] /\ count'[x] = count[x] /\ req'[x] = req[x]
    BY <2>1, <2>2
  <2>4. Decided' /\ Recorded' /\ Started'
    BY <2>2, <2>3 DEF Decided, Recorded, Started, VerificationEvent, Id, Serving
  <2>5. \A d \in deliveries : d.id # <<t, count[t] + 1>>
    BY <2>3 DEF Fresh
  <2>6. Fresh'
    <3>1. \A d \in deliveries : \E x \in Threads : \E n \in 1..count'[x] : d.id = <<x, n>>
      BY <2>3 DEF Fresh
    <3>2. \A x \in Threads : pc'[x] # "idle" => \A d \in deliveries : d.id # <<x, count'[x]>>
      BY <2>3, <2>5 DEF Fresh, Id
    <3> QED
      BY <2>2, <3>1, <3>2 DEF Fresh, Id
  <2>7. Revoked'
    <3>1. ASSUME req'[t].revokedBefore
          PROVE  certs[c] # Absent /\ certs[c].status = "revoked"
      BY <2>3, <3>1
    <3>2. ASSUME NEW x \in Threads, req'[x].revokedBefore
          PROVE  /\ pc'[x] = "read" => /\ certs[req'[x].cert] # Absent
                                       /\ certs[req'[x].cert].status = "revoked"
                 /\ pc'[x] \notin {"idle", "read"} => req'[x].verdict = "certificate_revoked"
      <4>1. CASE x = t
        BY <2>3, <3>1, <3>2, <4>1
      <4>2. CASE x # t
        BY <2>3, <3>2, <4>2 DEF Revoked
      <4> QED
        BY <4>1, <4>2
    <3> QED
      BY <2>2, <3>2 DEF Revoked
  <2>8. RevokedBeforeIsNeverServed'
    BY <2>2, <2>3, <2>5 DEF RevokedBeforeIsNeverServed, Id
  <2>9. EveryUrlIsAudited' /\ AuditTrailConsistent'
    BY <2>2 DEF EveryUrlIsAudited, AuditTrailConsistent
  <2> QED
    BY <1>0, <2>4, <2>6, <2>7, <2>8, <2>9
<1>3. ASSUME NEW t \in Threads, ReadCertificate(t)
      PROVE  GateInv'
  <2> USE DEF GateInv, TypeOK
  <2> DEFINE verdict == Decide(certs[req[t].cert], req[t].presented)
  <2>1. /\ pc[t] = "read"
        /\ pc' = [pc EXCEPT ![t] = "record_verification"]
        /\ req' = [req EXCEPT ![t] = [req[t] EXCEPT !.verdict = verdict]]
        /\ UNCHANGED <<certs, verifications, deliveries, count, replies>>
    BY <1>3 DEF ReadCertificate, Goto
  <2>2. certs[req[t].cert] # Absent /\ certs[req[t].cert].status = "revoked" =>
           verdict = "certificate_revoked"
    <3>1. certs[req[t].cert] \in Row \union {Absent} /\ req[t].presented \in Presented
      BY DEF Request
    <3> QED
      BY <3>1, DecideSound
  <2> HIDE DEF verdict
  <2>3. /\ pc'[t] = "record_verification"
        /\ req'[t].verdict = verdict
        /\ req'[t].revokedBefore = req[t].revokedBefore
        /\ \A x \in Threads : x # t => pc'[x] = pc[x] /\ req'[x] = req[x]
    BY <2>1 DEF Request
  <2>4. Decided' /\ Recorded' /\ Started'
    BY <2>1, <2>3 DEF Decided, Recorded, Started, VerificationEvent, Id, Serving
  <2>5. Fresh'
    BY <2>1 DEF Fresh, Id
  <2>6. Revoked'
    BY <2>1, <2>2, <2>3 DEF Revoked
  <2>7. RevokedBeforeIsNeverServed'
    BY <2>1, <2>3 DEF RevokedBeforeIsNeverServed, Id
  <2>8. EveryUrlIsAudited' /\ AuditTrailConsistent'
    BY <2>1 DEF EveryUrlIsAudited, AuditTrailConsistent
  <2> QED
    BY <1>0, <2>4, <2>5, <2>6, <2>7, <2>8
<1>4. ASSUME NEW t \in Threads, RecordVerification(t)
      PROVE  GateInv'
  <2>1. /\ pc[t] = "record_verification"
        /\ verifications' = verifications \union {VerificationEvent(t)}
        /\ UNCHANGED <<certs, deliveries, req, count>>
    BY <1>4 DEF RecordVerification
  <2>2. CASE Reply(t, "verdict") \/ Reply(t, "blocked")
    <3>1. \A r \in replies' \ replies : r.outcome # "url"
      BY <2>2 DEF Reply
    <3>2. pc' = [pc EXCEPT ![t] = "idle"]
      BY <2>2 DEF Reply, Goto
    <3> QED
      BY <1>0, <2>1, <3>1, <3>2, VerificationGate
  <2>3. CASE /\ req[t].verdict \notin {"certificate_not_found", "verified"}
             /\ Goto(t, "record_blocked")
             /\ UNCHANGED replies
    BY <1>0, <2>1, <2>3, VerificationGate DEF Goto
  <2>4. CASE /\ req[t].verdict = "verified"
             /\ Goto(t, "reread")
             /\ UNCHANGED replies
    BY <1>0, <2>1, <2>4, VerificationGate DEF Goto
  <2> QED
    BY <1>4, <2>2, <2>3, <2>4 DEF RecordVerification
<1>5. ASSUME NEW t \in Threads, RecordBlocked(t)
      PROVE  GateInv'
  BY <1>0, <1>5, DeliveryGate DEF RecordBlocked, DeliveryStatus, Outcome
<1>6. ASSUME NEW t \in Threads, RecordIssued(t)
      PROVE  GateInv'
  BY <1>0, <1>6, DeliveryGate DEF RecordIssued, DeliveryStatus, Outcome, Serving
<1>7. ASSUME NEW t \in Threads, RecordStorageFailure(t)
      PROVE  GateInv'
  BY <1>0, <1>7, DeliveryGate DEF RecordStorageFailure, DeliveryStatus, Outcome, Serving
<1>8. ASSUME NEW t \in Threads, RepositoryFailure(t)
      PROVE  GateInv'
  <2>1. Reply(t, "error") /\ UNCHANGED <<certs, req, count>>
    BY <1>8 DEF RepositoryFailure
  <2>2. /\ \A r \in replies' \ replies : r.outcome # "url"
        /\ pc' = [pc EXCEPT ![t] = "idle"]
        /\ \A x \in Threads : pc'[x] \in {pc[x], "idle"}
    BY <1>0, <2>1 DEF Reply, Goto, TypeOK
  <2>3. CASE UNCHANGED eventVars
    BY <1>0, <2>1, <2>2, <2>3, EndGate
  <2>4. CASE /\ pc[t] = "record_verification"
             /\ verifications' \in {verifications, verifications \union {VerificationEvent(t)}}
             /\ UNCHANGED deliveries
    BY <1>0, <2>1, <2>2, <2>4, VerificationGate
  <2>5. ASSUME NEW s \in DeliveryStatus, pc[t] \in Serving \union {"record_blocked"},
               (s = "blocked") = (pc[t] = "record_blocked"),
               deliveries' \in {deliveries, deliveries \union {DeliveryEvent(t, s)}},
               UNCHANGED verifications
        PROVE  GateInv'
    BY <1>0, <2>1, <2>5, DeliveryGate DEF Outcome
  <2> QED
    <3>1. CASE pc[t] \in {"read", "reread"} /\ UNCHANGED eventVars
      BY <2>3, <3>1
    <3>2. CASE /\ pc[t] = "record_blocked"
               /\ deliveries' \in {deliveries, deliveries \union {DeliveryEvent(t, "blocked")}}
               /\ UNCHANGED verifications
      BY <2>5, <3>2 DEF DeliveryStatus
    <3>3. CASE /\ pc[t] = "record_issued"
               /\ deliveries' \in {deliveries, deliveries \union {DeliveryEvent(t, "issued")}}
               /\ UNCHANGED verifications
      BY <2>5, <3>3 DEF DeliveryStatus, Serving
    <3>4. CASE /\ pc[t] = "record_failure"
               /\ deliveries' \in {deliveries,
                                   deliveries \union {DeliveryEvent(t, "storage_failure")}}
               /\ UNCHANGED verifications
      BY <2>5, <3>4 DEF DeliveryStatus, Serving
    <3> QED
      BY <1>8, <2>4, <3>1, <3>2, <3>3, <3>4 DEF RepositoryFailure
<1>9. ASSUME NEW t \in Threads,
             Reread(t) \/ CheckAdapter(t) \/ AcquireLock(t) \/ BuildAdapter(t) \/ IssueDownload(t)
      PROVE  GateInv'
  <2>1. /\ pc[t] \in Serving
        /\ \E l \in Serving : pc' = [pc EXCEPT ![t] = l]
        /\ UNCHANGED <<certs, verifications, deliveries, req, count, replies>>
    BY <1>9 DEF Reread, CheckAdapter, AcquireLock, BuildAdapter, IssueDownload, Goto, Serving
  <2> QED
    BY <1>0, <2>1, MoveGate
<1>10. CASE Restart
  BY <1>0, <1>10, EndGate DEF Restart
<1>11. CASE UNCHANGED vars
  <2>1. UNCHANGED <<certs, verifications, deliveries, pc, req, count, replies>>
    BY <1>11 DEF vars
  <2> QED
    BY <1>0, <2>1, RegistryGate
<1> QED
  BY <1>1, <1>2, <1>3, <1>4, <1>5, <1>6, <1>7, <1>8, <1>9, <1>10, <1>11 DEF Next, Step

\* The invariant holds in every behaviour of the gate.
THEOREM GateInvariant == Spec => []GateInv
<1>1. Init => GateInv
  BY InitGate
<1>2. GateInv /\ [Next]_vars => GateInv'
  BY StepGate
<1> QED
  BY <1>1, <1>2, PTL DEF Spec

\* The variables keep their types.
THEOREM GateTypes == Spec => []TypeOK
<1>1. GateInv => TypeOK
  BY DEF GateInv
<1> QED
  BY <1>1, GateInvariant, PTL

\* A certificate revoked before a request arrived is never delivered by that request,
\* whatever other threads, registrations, edits and restarts come in between.
THEOREM RevokedIsNeverServed == Spec => []RevokedBeforeIsNeverServed
<1>1. GateInv => RevokedBeforeIsNeverServed
  BY DEF GateInv
<1> QED
  BY <1>1, GateInvariant, PTL

\* Every URL that left the API has its issued event and a passed verification behind it.
THEOREM UrlsAreAudited == Spec => []EveryUrlIsAudited
<1>1. GateInv => EveryUrlIsAudited
  BY DEF GateInv
<1> QED
  BY <1>1, GateInvariant, PTL

\* Delivery events agree with the verification they name, one to a request.
THEOREM AuditIsConsistent == Spec => []AuditTrailConsistent
<1>1. GateInv => AuditTrailConsistent
  BY DEF GateInv
<1> QED
  BY <1>1, GateInvariant, PTL

\* No part of the delivery decision is taken before its verification is recorded.
THEOREM VerificationComesFirst == Spec => []RecordsVerificationFirst
<1>1. GateInv => RecordsVerificationFirst
  BY DEF GateInv, Recorded, RecordsVerificationFirst, VerificationEvent, Location, Serving
<1> QED
  BY <1>1, GateInvariant, PTL

-------------------------------------------------------------------------------
AdapterInv == TypeOK /\ OneAdapter

LEMMA StepAdapter == AdapterInv /\ [Next]_vars => AdapterInv'
<1> SUFFICES ASSUME AdapterInv, [Next]_vars
             PROVE  OneAdapter'
  BY StepTypes DEF AdapterInv
<1>0. TypeOK /\ OneAdapter
  BY DEF AdapterInv
<1> USE DEF lazyVars
<1>1. ASSUME NEW c \in Certs, Registry(c)
      PROVE  OneAdapter'
  BY <1>0, <1>1 DEF OneAdapter, Registry, Register, Revoke, Tamper, LoseSealed
<1>2. ASSUME NEW t \in Threads,
             \/ Receive(t) \/ ReadCertificate(t) \/ RecordVerification(t) \/ RecordBlocked(t)
             \/ Reread(t) \/ CheckAdapter(t) \/ IssueDownload(t) \/ RecordIssued(t)
             \/ RecordStorageFailure(t) \/ RepositoryFailure(t)
      PROVE  OneAdapter'
  <2>1. /\ UNCHANGED <<adapter, lock, builds>>
        /\ pc[t] # "storage_build"
        /\ \E l \in Location \ {"storage_build"} : pc' = [pc EXCEPT ![t] = l]
    BY <1>2 DEF Receive, ReadCertificate, RecordVerification, RecordBlocked, Reread,
                CheckAdapter, IssueDownload, RecordIssued, RecordStorageFailure,
                RepositoryFailure, Reply, Goto, Location
  <2> QED
    BY <1>0, <2>1 DEF OneAdapter, TypeOK
<1>3. ASSUME NEW t \in Threads, AcquireLock(t)
      PROVE  OneAdapter'
  BY <1>0, <1>3, GateAssumption DEF AcquireLock, Goto, OneAdapter, TypeOK, Location
<1>4. ASSUME NEW t \in Threads, BuildAdapter(t)
      PROVE  OneAdapter'
  <2>1. \E l \in {"issue", "record_failure"} : pc' = [pc EXCEPT ![t] = l]
    BY <1>4 DEF BuildAdapter, Goto
  <2>2. pc[t] = "storage_build" /\ lock = t /\ lock' = NoThread
    BY <1>0, <1>4 DEF BuildAdapter, OneAdapter
  <2>3. \A x \in Threads : pc'[x] = "storage_build" <=> lock' = x
    BY <1>0, <2>1, <2>2, GateAssumption DEF OneAdapter, TypeOK
  <2>4. builds' <= 1 /\ (adapter' <=> builds' = 1)
    BY <1>0, <1>4 DEF BuildAdapter, OneAdapter, TypeOK
  <2> QED
    BY <2>3, <2>4, Zenon DEF OneAdapter
<1>5. CASE Restart
  <2>1. /\ \A t \in Threads : pc'[t] = "idle"
        /\ ~adapter'
        /\ lock' = NoThread
        /\ builds' = 0
    BY <1>5 DEF Restart
  <2>2. \A t \in Threads : pc'[t] = "storage_build" <=> lock' = t
    BY <2>1, GateAssumption
  <2>3. builds' <= 1 /\ builds' # 1
    BY <2>1
  <2> QED
    BY <2>1, <2>2, <2>3, Zenon DEF OneAdapter
<1>6. CASE UNCHANGED vars
  BY <1>0, <1>6 DEF OneAdapter, vars
<1> QED
  BY <1>0, <1>1, <1>2, <1>3, <1>4, <1>5, <1>6 DEF Next, Step

\* The adapter is built once in a process's life, and the one thread that may build it
\* is the holder of the lock.
THEOREM AdapterIsBuiltOnce == Spec => []OneAdapter
<1>1. Init => AdapterInv
  <2>1. Init => TypeOK
    BY InitGate DEF GateInv
  <2>2. Init => OneAdapter
    <3> SUFFICES ASSUME Init
                 PROVE  OneAdapter
      OBVIOUS
    <3>1. \A t \in Threads : pc[t] = "storage_build" <=> lock = t
      BY GateAssumption DEF Init
    <3>2. builds <= 1 /\ builds # 1
      BY DEF Init
    <3> QED
      BY <3>1, <3>2, Zenon DEF Init, OneAdapter
  <2> QED
    BY <2>1, <2>2 DEF AdapterInv
<1>2. AdapterInv /\ [Next]_vars => AdapterInv'
  BY StepAdapter
<1>3. AdapterInv => OneAdapter
  BY DEF AdapterInv
<1> QED
  BY <1>1, <1>2, <1>3, PTL DEF Spec

-------------------------------------------------------------------------------
(***************************************************************************)
(* The refinement.  Each kind of step is mapped on its own: what it does   *)
(* to the standing of the certificates, to the decision of its thread and  *)
(* to the URLs served.                                                     *)
(***************************************************************************)
served == {r.cert : r \in {q \in replies : q.outcome = "url"}}

\* A reply other than a URL leaves the served certificates alone; a URL adds its own.
LEMMA ServedByReply ==
    ASSUME NEW t \in Threads, NEW outcome \in Outcome, Reply(t, outcome)
    PROVE  served' = IF outcome = "url" THEN served \union {req[t].cert} ELSE served
<1> DEFINE new == [id |-> Id(t), cert |-> req[t].cert, outcome |-> outcome,
                   revokedBefore |-> req[t].revokedBefore]
<1>1. replies' = replies \union {new}
  BY DEF Reply
<1>2. new.outcome = outcome /\ new.cert = req[t].cert
  OBVIOUS
<1> HIDE DEF new
<1>3. CASE outcome = "url"
  BY <1>1, <1>2, <1>3 DEF served
<1>4. CASE outcome # "url"
  BY <1>1, <1>2, <1>4 DEF served
<1> QED
  BY <1>3, <1>4

\* A registry step moves the standing of one certificate, and never away from revoked.
LEMMA RegistryRefines ==
    ASSUME TypeOK, TypeOK', NEW c \in Certs, Registry(c)
    PROVE  Contract!Next \/ UNCHANGED Contract!vars
<1>1. UNCHANGED <<pc, req, replies>>
  BY DEF Registry, Register, Revoke, Tamper, LoseSealed, eventVars
<1>2. /\ [t \in Threads |-> req[t].cert]' = [t \in Threads |-> req[t].cert]
      /\ [t \in Threads |-> DecisionOf(t)]' = [t \in Threads |-> DecisionOf(t)]
      /\ served' = served
  BY <1>1 DEF DecisionOf, served
<1>3. CASE certs' = certs
  BY <1>2, <1>3 DEF Contract!vars, StandingOf, served
<1>4. CASE certs' # certs
  <2>1. StandingOf(certs[c]) # "revoked"
    <3>1. CASE certs[c] = Absent
      BY <3>1 DEF StandingOf
    <3>2. CASE certs[c] # Absent /\ certs[c].status # "revoked"
      BY <3>2 DEF StandingOf
    <3>3. CASE certs[c] # Absent /\ certs[c].status = "revoked"
      <4>1. certs[c] \in Row
        BY <3>3 DEF TypeOK
      <4>2. [certs[c] EXCEPT !.status = "revoked"] = certs[c]
        BY <3>3, <4>1 DEF Row
      <4>3. certs' = certs
        BY <3>3, <4>2 DEF Registry, Register, Revoke, Tamper, LoseSealed, TypeOK
      <4> QED
        BY <1>4, <4>3
    <3> QED
      BY <3>1, <3>2, <3>3
  <2>2. \A x \in Certs : x # c => certs'[x] = certs[x]
    BY DEF Registry, Register, Revoke, Tamper, LoseSealed, TypeOK
  <2>3. [x \in Certs |-> StandingOf(certs[x])]' =
        [[x \in Certs |-> StandingOf(certs[x])] EXCEPT ![c] = StandingOf(certs'[c])]
    BY <2>2
  <2>4. StandingOf(certs'[c]) \in Contract!Standing
    BY DEF StandingOf, Contract!Standing
  <2> QED
    BY <1>2, <2>1, <2>3, <2>4 DEF Contract!Next, Contract!Change, served
<1> QED
  BY <1>3, <1>4

\* A step that changes neither the registry nor the requests, and ends the request of
\* t without a URL or leaves its decision alone.
LEMMA EndRefines ==
    ASSUME TypeOK, NEW T \in SUBSET Threads,
           UNCHANGED <<certs, req>>, served' = served,
           pc' = [x \in Threads |-> IF x \in T THEN "idle" ELSE pc[x]]
    PROVE  Contract!Next
<1>1. [x \in Threads |-> DecisionOf(x)]' =
      [x \in Threads |-> IF x \in T THEN "none" ELSE [y \in Threads |-> DecisionOf(y)][x]]
  BY DEF DecisionOf
<1>2. Contract!Refuse(T)
  BY <1>1 DEF Contract!Refuse, StandingOf, served
<1> QED
  BY <1>2 DEF Contract!Next

LEMMA MoveRefines ==
    ASSUME TypeOK, NEW t \in Threads, NEW l \in Location \ {"idle", "read"},
           UNCHANGED <<certs, req, replies>>,
           pc[t] \notin {"idle", "read"}, pc' = [pc EXCEPT ![t] = l]
    PROVE  UNCHANGED Contract!vars
<1>1. \A x \in Threads : DecisionOf(x)' = DecisionOf(x)
  BY DEF DecisionOf, TypeOK
<1> QED
  BY <1>1 DEF Contract!vars, StandingOf, served

\* Every step of the gate is a step of the contract, or none.
LEMMA StepContract ==
    GateInv /\ [Next]_vars => Contract!Next \/ UNCHANGED Contract!vars
<1> SUFFICES ASSUME GateInv, [Next]_vars
             PROVE  Contract!Next \/ UNCHANGED Contract!vars
  OBVIOUS
<1>0. TypeOK /\ TypeOK' /\ Decided
  BY StepTypes DEF GateInv
<1> USE DEF registryVars, eventVars, lazyVars
<1>1. ASSUME NEW c \in Certs, Registry(c)
      PROVE  Contract!Next \/ UNCHANGED Contract!vars
  BY <1>0, <1>1, RegistryRefines
<1>2. ASSUME NEW t \in Threads, Receive(t)
      PROVE  Contract!Next
  <2>1. PICK k \in Kind, c \in Certs, p \in Presented :
           req' = [req EXCEPT ![t] =
                     [kind |-> k, cert |-> c, presented |-> p,
                      revokedBefore |-> certs[c] # Absent /\ certs[c].status = "revoked",
                      verdict |-> "certificate_not_found"]]
    BY <1>2 DEF Receive
  <2>2. /\ pc[t] = "idle"
        /\ pc' = [pc EXCEPT ![t] = "read"]
        /\ UNCHANGED <<certs, replies>>
    BY <1>2 DEF Receive, Goto
  <2>3. /\ [x \in Threads |-> DecisionOf(x)][t] = "none"
        /\ [x \in Threads |-> DecisionOf(x)]' =
           [[x \in Threads |-> DecisionOf(x)] EXCEPT ![t] = "pending"]
    BY <1>0, <2>1, <2>2 DEF DecisionOf, TypeOK
  <2>4. [x \in Threads |-> req[x].cert]' = [[x \in Threads |-> req[x].cert] EXCEPT ![t] = c]
    BY <1>0, <2>1 DEF TypeOK
  <2>5. Contract!Ask(t, c)
    BY <2>2, <2>3, <2>4 DEF Contract!Ask, StandingOf, served
  <2> QED
    BY <2>5 DEF Contract!Next
<1>3. ASSUME NEW t \in Threads, ReadCertificate(t)
      PROVE  Contract!Next
  <2> DEFINE v == Decide(certs[req[t].cert], req[t].presented)
  <2>1. /\ pc[t] = "read"
        /\ pc' = [pc EXCEPT ![t] = "record_verification"]
        /\ req' = [req EXCEPT ![t].verdict = v]
        /\ UNCHANGED <<certs, replies>>
    BY <1>3 DEF ReadCertificate, Goto
  <2>2. req[t] \in Request /\ req[t].cert \in Certs /\ req[t].presented \in Presented
    BY <1>0 DEF TypeOK, Request
  <2>3. /\ \A x \in Threads : req'[x].cert = req[x].cert
        /\ req'[t].verdict = v
        /\ \A x \in Threads \ {t} : req'[x] = req[x]
    BY <1>0, <2>1, <2>2 DEF TypeOK, Request
  <2>4. [x \in Threads |-> req[x].cert]' = [x \in Threads |-> req[x].cert]
    BY <2>3
  <2>5. /\ [x \in Threads |-> DecisionOf(x)][t] = "pending"
        /\ [x \in Threads |-> DecisionOf(x)]' =
           [[x \in Threads |-> DecisionOf(x)] EXCEPT
               ![t] = IF v = "verified" THEN "allowed" ELSE "denied"]
    BY <1>0, <2>1, <2>3 DEF DecisionOf, TypeOK
  <2>6. CASE v = "verified"
    <3>1. certs[req[t].cert] \in Row \union {Absent}
      BY <1>0, <2>2 DEF TypeOK
    <3>2. /\ certs[req[t].cert] # Absent
          /\ certs[req[t].cert].status = "active"
          /\ certs[req[t].cert].evidence = "sound"
      BY <2>2, <2>6, <3>1, DecideSound
    <3>3. StandingOf(certs[req[t].cert]) = "good"
      BY <3>2 DEF StandingOf
    <3>4. Contract!Allow(t)
      BY <2>1, <2>2, <2>4, <2>5, <2>6, <3>3 DEF Contract!Allow, StandingOf, served
    <3> QED
      BY <3>4 DEF Contract!Next
  <2>7. CASE v # "verified"
    <3>1. Contract!Deny(t)
      BY <2>1, <2>4, <2>5, <2>7 DEF Contract!Deny, StandingOf, served
    <3> QED
      BY <3>1 DEF Contract!Next
  <2> QED
    BY <2>6, <2>7
<1>4. ASSUME NEW t \in Threads, NEW outcome \in Outcome \ {"url"},
             Reply(t, outcome), UNCHANGED <<certs, req>>
      PROVE  Contract!Next
  <2>1. served' = served
    BY <1>4, ServedByReply
  <2>2. pc' = [x \in Threads |-> IF x \in {t} THEN "idle" ELSE pc[x]]
    BY <1>0, <1>4 DEF Reply, Goto, TypeOK
  <2> QED
    BY <1>0, <1>4, <2>1, <2>2, EndRefines
<1>5. ASSUME NEW t \in Threads, RecordVerification(t)
      PROVE  Contract!Next \/ UNCHANGED Contract!vars
  <2>1. CASE \E outcome \in {"verdict", "blocked"} : Reply(t, outcome)
    BY <1>4, <1>5, <2>1 DEF RecordVerification, Outcome
  <2>2. CASE /\ \E l \in {"record_blocked", "reread"} : pc' = [pc EXCEPT ![t] = l]
             /\ UNCHANGED replies
    BY <1>0, <1>5, <2>2, MoveRefines DEF RecordVerification, Location
  <2> QED
    BY <1>5, <2>1, <2>2 DEF RecordVerification, Goto
<1>6. ASSUME NEW t \in Threads,
             RecordBlocked(t) \/ RecordStorageFailure(t) \/ RepositoryFailure(t)
      PROVE  Contract!Next
  <2>1. /\ \E outcome \in {"blocked", "storage_failure", "error"} : Reply(t, outcome)
        /\ UNCHANGED <<certs, req>>
    BY <1>6 DEF RecordBlocked, RecordStorageFailure, RepositoryFailure
  <2> QED
    BY <1>4, <2>1 DEF Outcome
<1>7. ASSUME NEW t \in Threads,
             \/ Reread(t) \/ CheckAdapter(t) \/ AcquireLock(t)
             \/ BuildAdapter(t) \/ IssueDownload(t)
      PROVE  UNCHANGED Contract!vars
  <2>1. /\ UNCHANGED <<certs, req, replies>>
        /\ pc[t] \notin {"idle", "read"}
        /\ \E l \in Location \ {"idle", "read"} : pc' = [pc EXCEPT ![t] = l]
    BY <1>7 DEF Reread, CheckAdapter, AcquireLock, BuildAdapter, IssueDownload, Goto, Location
  <2> QED
    BY <1>0, <2>1, MoveRefines
<1>8. ASSUME NEW t \in Threads, RecordIssued(t)
      PROVE  Contract!Next
  <2>1. /\ pc[t] = "record_issued"
        /\ Reply(t, "url")
        /\ UNCHANGED <<certs, req>>
    BY <1>8 DEF RecordIssued
  <2>2. pc' = [pc EXCEPT ![t] = "idle"]
    BY <2>1 DEF Reply, Goto
  <2>3. req[t].verdict = "verified"
    BY <1>0, <2>1 DEF Decided, Serving
  <2>4. /\ [x \in Threads |-> DecisionOf(x)][t] = "allowed"
        /\ [x \in Threads |-> DecisionOf(x)]' =
           [[x \in Threads |-> DecisionOf(x)] EXCEPT ![t] = "none"]
    BY <1>0, <2>1, <2>2, <2>3 DEF DecisionOf, TypeOK
  <2>5. served' = served \union {req[t].cert}
    BY <2>1, ServedByReply DEF Outcome
  <2>6. Contract!Serve(t)
    BY <2>1, <2>4, <2>5 DEF Contract!Serve, StandingOf, served
  <2> QED
    BY <2>6 DEF Contract!Next
<1>9. CASE Restart
  <2>1. /\ UNCHANGED <<certs, req>>
        /\ served' = served
        /\ pc' = [x \in Threads |-> IF x \in Threads THEN "idle" ELSE pc[x]]
    BY <1>9 DEF Restart, served
  <2> QED
    BY <1>0, <2>1, EndRefines
<1>10. CASE UNCHANGED vars
  BY <1>10 DEF vars, Contract!vars, StandingOf, DecisionOf
<1> QED
  BY <1>1, <1>2, <1>3, <1>5, <1>6, <1>7, <1>8, <1>9, <1>10 DEF Next, Step

\* The threads, events, storage and failures of the gate implement the contract: each
\* delivery is decided at one instant, and served only if its certificate was good then.
THEOREM GateImplementsContract == Spec => ImplementsContract
<1>1. Init => Contract!Init
  BY DEF Init, Contract!Init, StandingOf, DecisionOf
<1>2. GateInv /\ [Next]_vars => [Contract!Next]_(Contract!vars)
  BY StepContract
<1> QED
  BY <1>1, <1>2, GateInvariant, PTL DEF Spec, ImplementsContract, Contract!Spec

===============================================================================
