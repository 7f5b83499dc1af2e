----------------------------- MODULE GenerateSeal ------------------------------
(***************************************************************************)
(* GenerateAndSealService.generate_and_seal: threads of several processes  *)
(* (API replicas, an operator's script) turn a request under an            *)
(* idempotency key into a registered certificate.  A process runs one call *)
(* at a time, under the lock of its service; nothing excludes the calls of *)
(* two processes but the registry, which BundleRegistry.tla specifies and  *)
(* RegisterRpc.tla implements.                                             *)
(*                                                                         *)
(* A call is named <<w, n>>, the n-th of thread w.  It draws its own       *)
(* timestamp, uploads its own sealed version and has its own custody       *)
(* receipt, so the call's name stands for all of these.  Custody.tla looks *)
(* inside the custody step.                                                *)
(*                                                                         *)
(* The client of the registry turns any exception into RepositoryError: a  *)
(* registration whose caller has given up, or died, may commit later.      *)
(***************************************************************************)
EXTENDS Naturals

CONSTANTS
    Workers,        \* threads that serve the endpoint
    Processes,
    ProcessOf,      \* the process of each thread
    Keys,           \* idempotency keys
    Requests,       \* records [media_type, text]; text stands for the private fields
    Media,          \* bytes a provider may return
    NoWorker,       \* nobody holds the lock
    Unissued,       \* no certificate
    MaxCalls,       \* bound: calls of one thread
    MaxFaults       \* bound: process crashes, and registrations given up

ASSUME SealAssumption ==
    /\ ProcessOf \in [Workers -> Processes]
    /\ Keys # {}
    /\ Requests # {}
    /\ Media # {}
    /\ \A r \in Requests : DOMAIN r = {"media_type", "text"}
    /\ NoWorker \notin Workers
    /\ MaxCalls \in Nat
    /\ MaxFaults \in Nat

VARIABLES
    registered, revoked,    \* the certificate registry
    custody,                \* calls whose four custody objects were verified
    stored,                 \* calls whose sealed version is in the assets bucket
    pc,                     \* where each thread is
    key, request, media,    \* locals of its call
    calls,                  \* calls each thread has begun
    holder,                 \* the thread in the service's lock, of each process
    replies,                \* answers that left the process
    pending,                \* registrations under way that nobody waits for
    blind,                  \* history: see LandsUnseen
    faults

registryVars == <<registered, revoked, blind>>
evidenceVars == <<custody, stored>>
callVars == <<key, request, calls>>
vars == <<registered, revoked, custody, stored, pc, key, request, media,
          calls, holder, replies, pending, blind, faults>>

Call(w) == <<w, calls[w]>>
CallId == Workers \X (1..MaxCalls)

(***************************************************************************)
(* sealed_sha256.  The capsule embedded in an image holds issued_at and    *)
(* cert_id, so each call seals other bytes; audio is sealed byte for byte. *)
(***************************************************************************)
SealedDigest(r, c, m) ==
    IF r.media_type = "image" THEN <<"capsule", c>> ELSE <<"bytes", m>>

Sealed == {<<"capsule", c>> : c \in CallId} \union {<<"bytes", m>> : m \in Media}

\* No certificate is not a certificate.
ASSUME UnissuedAssumption == Unissued \notin [request : Requests, result : Sealed]

(***************************************************************************)
(* The bundle a call registers: run, asset and certificate are named after *)
(* the key.                                                                *)
(***************************************************************************)
BundleOf(w) ==
    [key |-> key[w],
     sealed |-> SealedDigest(request[w], Call(w), media[w]),
     body |-> [call |-> Call(w), request |-> request[w]]]

Bundle == [key : Keys, sealed : Sealed, body : [call : CallId, request : Requests]]

Registry == INSTANCE BundleRegistry WITH Bundles <- Bundle

\* repository.get_certificate of a key: the rows with its cert_id, one at most.
Certificate(k) == {b \in registered : b.key = k}

Locked == {"lookup", "compare", "generate", "prepare", "custody", "upload", "register", "reread"}

Reply == [call : CallId, key : Keys, request : Requests,
          outcome : {"completed", "conflict", "error"}, bundles : SUBSET Bundle]

TypeOK ==
    /\ registered \subseteq Bundle
    /\ revoked \subseteq registered
    /\ custody \subseteq CallId
    /\ stored \subseteq CallId
    /\ pc \in [Workers -> {"idle", "waiting"} \union Locked]
    /\ key \in [Workers -> Keys]
    /\ request \in [Workers -> Requests]
    /\ media \in [Workers -> Media]
    /\ calls \in [Workers -> 0..MaxCalls]
    /\ holder \in [Processes -> Workers \union {NoWorker}]
    /\ replies \subseteq Reply
    /\ pending \subseteq Bundle
    /\ blind \subseteq CallId
    /\ faults \in Nat

Init ==
    /\ Registry!Init
    /\ custody = {}
    /\ stored = {}
    /\ pc = [w \in Workers |-> "idle"]
    /\ key = [w \in Workers |-> CHOOSE k \in Keys : TRUE]     \* any: no call has begun
    /\ request = [w \in Workers |-> CHOOSE r \in Requests : TRUE]
    /\ media = [w \in Workers |-> CHOOSE m \in Media : TRUE]
    /\ calls = [w \in Workers |-> 0]
    /\ holder = [p \in Processes |-> NoWorker]
    /\ replies = {}
    /\ pending = {}
    /\ blind = {}
    /\ faults = 0

-------------------------------------------------------------------------------
Goto(w, l) == pc' = [pc EXCEPT ![w] = l]

\* The call returns or raises, and leaves the lock.
Finish(w, outcome, bundles) ==
    /\ replies' = replies \union
          {[call |-> Call(w), key |-> key[w], request |-> request[w],
            outcome |-> outcome, bundles |-> bundles]}
    /\ Goto(w, "idle")
    /\ holder' = [holder EXCEPT ![ProcessOf[w]] = NoWorker]

Receive(w) ==
    /\ pc[w] = "idle"
    /\ calls[w] < MaxCalls
    /\ calls' = [calls EXCEPT ![w] = @ + 1]
    /\ \E k \in Keys : key' = [key EXCEPT ![w] = k]
    /\ \E r \in Requests : request' = [request EXCEPT ![w] = r]
    /\ Goto(w, "waiting")
    /\ UNCHANGED <<registryVars, evidenceVars, media, holder, replies, pending, faults>>

\* Faulty: the calls of a process do not exclude each other.
AcquireFree(w) ==
    /\ pc[w] = "waiting"
    /\ holder' = [holder EXCEPT ![ProcessOf[w]] = w]
    /\ Goto(w, "lookup")
    /\ UNCHANGED <<registryVars, evidenceVars, callVars, media, replies, pending, faults>>

\* with self._lock
Acquire(w) ==
    /\ pc[w] = "waiting"
    /\ holder[ProcessOf[w]] = NoWorker
    /\ holder' = [holder EXCEPT ![ProcessOf[w]] = w]
    /\ Goto(w, "lookup")
    /\ UNCHANGED <<registryVars, evidenceVars, callVars, media, replies, pending, faults>>

\* _completed: a certificate of this key, revoked or not.
Lookup(w) ==
    /\ pc[w] = "lookup"
    /\ Goto(w, IF Certificate(key[w]) = {} THEN "generate" ELSE "compare")
    /\ UNCHANGED <<registryVars, evidenceVars, callVars, media, holder, replies, pending, faults>>

\* Faulty: the stored fingerprint is not looked at.
CompareNothing(w) ==
    /\ pc[w] = "compare"
    /\ Finish(w, "completed", Certificate(key[w]))
    /\ UNCHANGED <<registryVars, evidenceVars, callVars, media, pending, faults>>

\* The fingerprint stored with the run is that of this request, or the key conflicts.
Compare(w) ==
    /\ pc[w] = "compare"
    /\ IF \A b \in Certificate(key[w]) : b.body.request = request[w]
       THEN Finish(w, "completed", Certificate(key[w]))
       ELSE Finish(w, "conflict", {})
    /\ UNCHANGED <<registryVars, evidenceVars, callVars, media, pending, faults>>

\* The provider is called: it returns bytes, or the call fails after it was submitted.
Generate(w) ==
    /\ pc[w] = "generate"
    /\ \/ /\ \E m \in Media : media' = [media EXCEPT ![w] = m]
          /\ Goto(w, "prepare")
          /\ UNCHANGED <<holder, replies>>
       \/ /\ Finish(w, "error", {})
          /\ UNCHANGED media
    /\ UNCHANGED <<registryVars, custody, stored, callVars, pending, faults>>

\* Validation, hashes, manifest, signer, capsule and the "prepared" checkpoint.
Prepare(w) ==
    /\ pc[w] = "prepare"
    /\ Goto(w, "custody")
    /\ UNCHANGED <<registryVars, evidenceVars, callVars, media, holder, replies, pending, faults>>

\* The custody executor returns a verified receipt.
TakeCustody(w) ==
    /\ pc[w] = "custody"
    /\ custody' = custody \union {Call(w)}
    /\ Goto(w, "upload")
    /\ UNCHANGED <<registryVars, stored, callVars, media, holder, replies, pending, faults>>

\* Faulty: a failed upload of the sealed bytes does not end the call.
UploadBestEffort(w) ==
    /\ pc[w] = "upload"
    /\ stored' \in {stored, stored \union {Call(w)}}
    /\ Goto(w, "register")
    /\ UNCHANGED <<registryVars, custody, callVars, media, holder, replies, pending, faults>>

\* The sealed bytes are uploaded as a new version and verified, or the upload fails
\* and may leave a version behind.
Upload(w) ==
    /\ pc[w] = "upload"
    /\ \/ /\ stored' = stored \union {Call(w)}
          /\ Goto(w, "register")
          /\ UNCHANGED <<holder, replies>>
       \/ /\ stored' \in {stored, stored \union {Call(w)}}
          /\ Finish(w, "error", {})
    /\ UNCHANGED <<registryVars, custody, callVars, media, pending, faults>>

\* A certificate of the key arrives: calls that have looked the key up, and are about to
\* call the provider, cannot know of it.
LandsUnseen(b, unseen) ==
    blind' = blind \union {Call(x) : x \in {y \in unseen : pc[y] = "generate" /\ key[y] = b.key}}

OtherProcess(w) == {x \in Workers : ProcessOf[x] # ProcessOf[w]}

\* Faulty: on conflict, the stored bundle is updated.
RegisterUpsert(w) ==
    /\ pc[w] = "register"
    /\ registered' = (registered \ Certificate(key[w])) \union {BundleOf(w)}
    /\ Goto(w, "reread")
    /\ UNCHANGED <<revoked, blind, evidenceVars, callVars, media, holder, replies, pending, faults>>

\* register_certificate and the "registered" checkpoint, in one try: an answer lost
\* after the commit, or a callback that raises, is an error of a registered bundle.
Register(w) ==
    /\ pc[w] = "register"
    /\ Registry!Accept(BundleOf(w))
    /\ LandsUnseen(BundleOf(w), OtherProcess(w))
    /\ \/ /\ Goto(w, "reread")
          /\ UNCHANGED <<holder, replies>>
       \/ Finish(w, "error", {})
    /\ UNCHANGED <<evidenceVars, callVars, media, pending, faults>>

\* The client gives up on a registration (a timeout, a lost connection) that the registry
\* has not committed yet.
GiveUp(w) ==
    /\ pc[w] = "register"
    /\ faults < MaxFaults
    /\ faults' = faults + 1
    /\ pending' = pending \union {BundleOf(w)}
    /\ Finish(w, "error", {})
    /\ UNCHANGED <<registryVars, evidenceVars, callVars, media>>

\* A registration that nobody waits for commits.
LateRegister(b) ==
    /\ b \in pending
    /\ pending' = pending \ {b}
    /\ Registry!Accept(b)
    /\ LandsUnseen(b, Workers)
    /\ UNCHANGED <<evidenceVars, callVars, pc, media, holder, replies, faults>>

\* _completed again: the answer is built from the registered certificate.
Reread(w) ==
    /\ pc[w] = "reread"
    /\ IF Certificate(key[w]) = {}
       THEN Finish(w, "error", {})
       ELSE Finish(w, "completed", Certificate(key[w]))
    /\ UNCHANGED <<registryVars, evidenceVars, callVars, media, pending, faults>>

\* Faulty: the lock is not left when the call raises.
FailLocked(w) ==
    /\ pc[w] \in Locked \ {"generate", "upload"}
    /\ replies' = replies \union
          {[call |-> Call(w), key |-> key[w], request |-> request[w],
            outcome |-> "error", bundles |-> {}]}
    /\ Goto(w, "idle")
    /\ UNCHANGED <<registryVars, evidenceVars, callVars, media, holder, pending, faults>>

\* An exception of any other step, a refused registration and a failed custody among
\* them (Custody.tla says what that one leaves in the buckets).
Fail(w) ==
    /\ pc[w] \in Locked \ {"generate", "upload"}
    /\ Finish(w, "error", {})
    /\ UNCHANGED <<registryVars, evidenceVars, callVars, media, pending, faults>>

\* A process dies with its calls and its lock; a registration it has sent may still commit.
Crash(p) ==
    /\ faults < MaxFaults
    /\ faults' = faults + 1
    /\ pending' = pending \union
           {BundleOf(w) : w \in {x \in Workers : ProcessOf[x] = p /\ pc[x] = "register"}}
    /\ pc' = [w \in Workers |-> IF ProcessOf[w] = p THEN "idle" ELSE pc[w]]
    /\ holder' = [holder EXCEPT ![p] = NoWorker]
    /\ UNCHANGED <<registryVars, evidenceVars, callVars, media, replies>>

\* An administrator revokes a certificate.
Revoke(k) ==
    /\ \E b \in Certificate(k) : Registry!RevokeBundle(b)
    /\ UNCHANGED <<blind, evidenceVars, callVars, pc, media, holder, replies, pending, faults>>

-------------------------------------------------------------------------------
Step(w) ==
    \/ Lookup(w)
    \/ Compare(w)
    \/ Generate(w)
    \/ Prepare(w)
    \/ TakeCustody(w)
    \/ Upload(w)
    \/ Register(w)
    \/ GiveUp(w)
    \/ Reread(w)
    \/ Fail(w)

Next ==
    \/ \E w \in Workers : Receive(w) \/ Acquire(w) \/ Step(w)
    \/ \E p \in Processes : Crash(p)
    \/ \E b \in pending : LateRegister(b)
    \/ \E k \in Keys : Revoke(k)

Spec == Init /\ [][Next]_vars

\* A call inside the lock keeps going: its clients have timeouts.  Nothing is assumed
\* of who gets the lock next.
FairSpec == Spec /\ \A w \in Workers : WF_vars(Step(w))

-------------------------------------------------------------------------------
\* No successful response precedes verified custody and registration: what it names is
\* the registered certificate of the key, for this very request, and the call that
\* registered it had its custody verified and its sealed version stored.
SuccessIsBacked ==
    \A r \in replies : r.outcome = "completed" =>
        \E b \in registered :
            /\ r.bundles = {b}
            /\ b.key = r.key
            /\ b.body.request = r.request
            /\ b.body.call \in custody \intersect stored

\* No certificate is registered ahead of its evidence, whether or not anyone was told.
CertificateIsBacked ==
    \A b \in registered : b.body.call \in custody \intersect stored

\* The price is not paid again for a certificate that a lookup could have found: a thread
\* about to call the provider has a certificate of its key only when that certificate
\* came after its own lookup, from another process or from a call that had given up.
\* In particular no call whose retry waited for the lock is paid for twice.
NoGenerationOnceRegistered ==
    \A w \in Workers : pc[w] = "generate" /\ Certificate(key[w]) # {} => Call(w) \in blind

\* Every way out of a call, the exceptional ones included, leaves the lock.
LockIsReleased == \A p \in Processes : (holder[p] # NoWorker) ~> (holder[p] = NoWorker)

\* The service implements the promise of the endpoint, among any number of processes.
IssuedOf(k) ==
    IF Certificate(k) = {} THEN Unissued
    ELSE LET b == CHOOSE b \in Certificate(k) : TRUE
         IN  [request |-> b.body.request, result |-> b.sealed]

Promise == INSTANCE IssueOnce WITH
    Results <- Sealed,
    issued <- [k \in Keys |-> IssuedOf(k)],
    answered <- UNION {{[key |-> r.key, request |-> r.request, result |-> b.sealed]
                        : b \in r.bundles} : r \in replies},
    refused <- {[key |-> r.key, request |-> r.request]
                : r \in {x \in replies : x.outcome = "conflict"}}

ImplementsPromise == Promise!Spec
===============================================================================
