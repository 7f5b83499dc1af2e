----------------------------- MODULE LiveOperation -----------------------------
(***************************************************************************)
(* The live script scripts/smoke_multimodal_generate_and_seal.py: one run  *)
(* takes the image operation (Gemini) and then the audio operation         *)
(* (ElevenLabs) through Generate & Seal, each with a durable checkpoint,   *)
(* and writes one report.  A run may end anywhere, by an exception or with *)
(* its process, and an operator runs the script again.  Each write of a    *)
(* checkpoint, each call that leaves the process, is a step of its own.    *)
(*                                                                         *)
(* The clients repeat a request whose answer does not come, and give up in *)
(* the end: the sealed asset may be stored more often than a run is told,  *)
(* and an upload or a registration may take effect when its run is over.   *)
(*                                                                         *)
(* The checkpoint is replaced atomically.  What the script only prints     *)
(* (current_stage) and what it never reads back (partial_objects) are left *)
(* out; custody is one step here, Custody looks into it.                   *)
(***************************************************************************)
EXTENDS Naturals, Sequences

CONSTANT MaxFailures    \* bound: runs that end by an exception, or lose an answer

ASSUME LiveAssumption == MaxFailures \in Nat

Ops == {"image", "audio"}

-------------------------------------------------------------------------------
(***************************************************************************)
(* Stages of an operation, in the order GEMINI_STAGES and                  *)
(* ELEVENLABS_STAGES declare them.  response_validation and local_check    *)
(* stand for the names each operation has for the two.                     *)
(***************************************************************************)
SealStages == [o \in Ops |->
    <<"response_validation", "source_hash", "private_manifest", "canonical_hash">>
    \o (IF o = "image" THEN <<"public_capsule">> ELSE <<>>)
    \o <<"sealed_hash">>]

VerifyStages ==
    <<"public_certificate", "verify_gate", "delivery", "delivered_integrity", "local_check">>

Declared == [o \in Ops |->
    <<"configuration_validation", "request_construction", "generation">>
    \o SealStages[o]
    \o <<"b2_custody", "envelope_signature", "supabase_registration">>
    \o VerifyStages]

Stage == {"configuration_validation", "request_construction", "generation",
          "response_validation", "source_hash", "private_manifest", "canonical_hash",
          "public_capsule", "sealed_hash", "b2_custody", "envelope_signature",
          "supabase_registration", "public_certificate", "verify_gate", "delivery",
          "delivered_integrity", "local_check"}

Elements(q) == {q[i] : i \in 1..Len(q)}

-------------------------------------------------------------------------------
VARIABLES
    ckpt,           \* the checkpoint file of each operation
    outcomes,       \* history: what came of each submission to a provider
    vault,          \* the locked objects of the operation are stored
    bucket,         \* what is stored under the key of the sealed asset
    certs,          \* the registered certificate of each operation
    pending,        \* registrations under way that nobody waits for: their sealed version
    report,         \* the report is on disk
    pc, op,         \* where the run is, and the operation it is in
    at,             \* the stage it begins next, within SealStages or VerifyStages
    cur,            \* StageTracker.current
    service,        \* inside GenerateAndSealService, not in the recovery code
    held,           \* sealed version of the receipt in hand
    failures

run == <<pc, op, at, cur, service, held>>
world == <<outcomes, vault, bucket, certs, pending, report>>
vars == <<ckpt, outcomes, vault, bucket, certs, pending, report,
          pc, op, at, cur, service, held, failures>>

State == {"none", "request_ready", "provider_call_started", "provider_rejected",
          "generated", "prepared", "custody_persisted", "sealed_persisted",
          "registered", "complete"}

\* calls and rejected are new_provider_calls and prior_rejected_calls; retry is
\* provider_retry_allowed; bytes says that the captured source is recorded; custody that
\* the four exact references are; sealed is the recorded version (0: none).
Checkpoint == [state : State, calls : 0..1, rejected : Nat, retry : BOOLEAN,
               bytes : BOOLEAN, custody : BOOLEAN, sealed : Nat, rows : Seq(Stage)]

NoCheckpoint == [state |-> "none", calls |-> 0, rejected |-> 0, retry |-> FALSE,
                 bytes |-> FALSE, custody |-> FALSE, sealed |-> 0, rows |-> <<>>]

\* The versions of the sealed asset; history: those a run was told of; puts that were made
\* so far, and puts under way that nobody waits for.
Bucket == [versions : SUBSET Nat, told : SUBSET Nat, puts : Nat, late : Nat]

\* A put takes effect as a new version.
WithVersion(b) == [b EXCEPT !.puts = @ + 1, !.versions = @ \union {b.puts + 1}]

\* A submission brings valid media, a definitive refusal, or anything else: a timeout, a
\* lost answer, an answer that does not validate.
Answer == {"valid", "refused", "unclear"}

Location == {"idle", "configure", "admit", "request", "submit", "call", "answer", "stages",
             "prepare", "custody", "store", "stored", "upload", "put", "uploaded", "sign",
             "announce", "register", "registered", "confirm", "verify", "complete",
             "finalize"}

TypeOK ==
    /\ ckpt \in [Ops -> Checkpoint]
    /\ outcomes \in [Ops -> Seq(Answer)]
    /\ vault \in [Ops -> BOOLEAN]
    /\ bucket \in [Ops -> Bucket]
    /\ certs \in [Ops -> [status : {"absent", "active", "revoked"}, sealed : Nat]]
    /\ pending \in [Ops -> SUBSET Nat]
    /\ report \in BOOLEAN
    /\ pc \in Location
    /\ op \in Ops
    /\ at \in Nat
    /\ cur \in Stage \union {"none"}
    /\ service \in BOOLEAN
    /\ held \in Nat
    /\ failures \in Nat

Init ==
    /\ ckpt = [o \in Ops |-> NoCheckpoint]
    /\ outcomes = [o \in Ops |-> <<>>]
    /\ vault = [o \in Ops |-> FALSE]
    /\ bucket = [o \in Ops |-> [versions |-> {}, told |-> {}, puts |-> 0, late |-> 0]]
    /\ certs = [o \in Ops |-> [status |-> "absent", sealed |-> 0]]
    /\ pending = [o \in Ops |-> {}]
    /\ report = FALSE
    /\ pc = "idle"
    /\ op = "image"
    /\ at = 1
    /\ cur = "none"
    /\ service = FALSE
    /\ held = 0
    /\ failures = 0

-------------------------------------------------------------------------------
Goto(l) == pc' = l /\ UNCHANGED <<op, at, service, held>>

\* The run is over; what it had in memory is gone.
Over == /\ pc' = "idle" /\ op' = "image" /\ at' = 1
        /\ cur' = "none" /\ service' = FALSE /\ held' = 0

\* It is over because of an exception, or of an answer that did not come.
Broken == failures < MaxFailures /\ failures' = failures + 1 /\ Over

Update(k) == ckpt' = [ckpt EXCEPT ![op] = k]

\* The rows after StageTracker.begin(s): the stage under way is completed first.  A stage
\* that is under way, or has its row, is not begun again.
Tracked(k, s) ==
    IF s = cur \/ s \in Elements(k.rows) \/ cur = "none" THEN k
    ELSE [k EXCEPT !.rows = Append(@, cur)]

Begin(s) ==
    /\ Update(Tracked(ckpt[op], s))
    /\ cur' = IF s \in Elements(ckpt[op].rows) THEN cur ELSE s

-------------------------------------------------------------------------------
(***************************************************************************)
(* _run_operation up to the service: the checkpoint is read or begun, and  *)
(* its state decides what this run may do.                                 *)
(***************************************************************************)
Start ==
    /\ pc = "idle"
    /\ Goto("configure")
    /\ UNCHANGED <<ckpt, world, cur, failures>>

\* Without a file the tracker has nowhere to write; then the first checkpoint is written.
Initialize ==
    /\ pc = "configure"
    /\ ckpt[op].state = "none"
    /\ Update([NoCheckpoint EXCEPT !.state = "request_ready"])
    /\ cur' = "configuration_validation"
    /\ Goto("admit")
    /\ UNCHANGED <<world, failures>>

Configure ==
    /\ pc = "configure"
    /\ ckpt[op].state # "none"
    /\ Begin("configuration_validation")
    /\ Goto("admit")
    /\ UNCHANGED <<world, failures>>

\* Faulty: any rejection may be retried, and as often as the operator likes.
RetryAllowedAlways(k) == k.state = "provider_rejected"

\* _checkpoint_retry_allowed: one retry, after a definitive refusal and with no media.
RetryAllowed(k) ==
    /\ k.state = "provider_rejected"
    /\ k.retry
    /\ k.rejected = 1
    /\ ~k.bytes

\* What came of the submission is unknown, or it may not be repeated.
Refused(k) ==
    \/ k.state = "provider_call_started"
    \/ k.state = "provider_rejected" /\ ~RetryAllowed(k)

Refuse ==
    /\ pc = "admit"
    /\ Refused(ckpt[op])
    /\ Over
    /\ UNCHANGED <<ckpt, world, failures>>

Retry ==
    /\ pc = "admit"
    /\ RetryAllowed(ckpt[op])
    /\ Update([ckpt[op] EXCEPT !.state = "request_ready", !.calls = 0, !.retry = FALSE])
    /\ Goto("request")
    /\ UNCHANGED <<world, cur, failures>>

\* Faulty: only an operation that has not been submitted enters the service.
ProceedToSubmit ==
    /\ pc = "admit"
    /\ ckpt[op].state \notin {"provider_call_started", "provider_rejected"}
    /\ IF ckpt[op].state = "generated"
       THEN Over
       ELSE /\ Goto(IF ckpt[op].state = "request_ready" THEN "request" ELSE "custody")
            /\ UNCHANGED cur
    /\ UNCHANGED <<ckpt, world, failures>>

\* request_ready and generated go through the service, the later states to recovery.
Proceed ==
    /\ pc = "admit"
    /\ ckpt[op].state \notin {"provider_call_started", "provider_rejected"}
    /\ Goto(IF ckpt[op].state \in {"request_ready", "generated"} THEN "request" ELSE "custody")
    /\ UNCHANGED <<ckpt, world, cur, failures>>

-------------------------------------------------------------------------------
(***************************************************************************)
(* The service, with the provider the script hands it: one that records    *)
(* the submission before it makes it, or one that returns captured media.  *)
(***************************************************************************)
\* The media an earlier run captured are read back, and handed out instead of a call.
Captured(k) == k.state = "generated" /\ k.bytes

Request ==
    /\ pc = "request"
    /\ Begin("request_construction")
    /\ service' = TRUE
    /\ at' = 1
    /\ pc' = IF Captured(ckpt[op]) THEN "stages" ELSE "submit"
    /\ UNCHANGED <<world, op, held, failures>>

\* The first half of generate_image / generate_audio: the durable mark.
Submit ==
    /\ pc = "submit"
    /\ ckpt[op].calls = 0
    /\ Update([ckpt[op] EXCEPT !.state = "provider_call_started", !.calls = 1])
    /\ Goto("call")
    /\ UNCHANGED <<world, cur, failures>>

\* The call itself.
Call ==
    /\ pc = "call"
    /\ Begin("generation")
    /\ \E a \in Answer : outcomes' = [outcomes EXCEPT ![op] = Append(@, a)]
    /\ Goto("answer")
    /\ UNCHANGED <<vault, bucket, certs, pending, report, failures>>

LastAnswer == outcomes[op][Len(outcomes[op])]

\* persist_generated: the bytes are in their file, and the checkpoint says so.
Capture ==
    /\ pc = "answer"
    /\ LastAnswer = "valid"
    /\ Update([ckpt[op] EXCEPT !.state = "generated", !.bytes = TRUE, !.retry = FALSE])
    /\ Goto("stages")
    /\ UNCHANGED <<world, cur, failures>>

\* persist_provider_failure, and the exception goes on.
Reject ==
    /\ pc = "answer"
    /\ LastAnswer # "valid"
    /\ Update([ckpt[op] EXCEPT !.state = "provider_rejected",
                               !.rejected = @ + 1,
                               !.retry = LastAnswer = "refused"])
    /\ Over
    /\ UNCHANGED <<world, failures>>

\* The stages that turn media into a manifest and sealed bytes.
SealStage ==
    /\ pc = "stages"
    /\ Begin(SealStages[op][at])
    /\ IF at < Len(SealStages[op])
       THEN at' = at + 1 /\ UNCHANGED pc
       ELSE at' = 1 /\ pc' = "prepare"
    /\ UNCHANGED <<world, op, service, held, failures>>

Prepare ==
    /\ pc = "prepare"
    /\ Update([ckpt[op] EXCEPT !.state = "prepared"])
    /\ Goto("custody")
    /\ UNCHANGED <<world, cur, failures>>

-------------------------------------------------------------------------------
(***************************************************************************)
(* Custody, the sealed upload and the registration, done by the service    *)
(* and, from a later state or after the service, by the recovery code.     *)
(***************************************************************************)
\* The private evidence on disk, from which the recovery code makes the sealed bytes again:
\* the source, and the manifest of the prepared event.
Evidence(k) ==
    k.bytes /\ k.state \in {"prepared", "custody_persisted", "sealed_persisted",
                            "registered", "complete"}

BeginCustody ==
    /\ pc = "custody"
    /\ service \/ Evidence(ckpt[op])
    /\ Begin("b2_custody")
    /\ Goto("store")
    /\ UNCHANGED <<world, failures>>

\* execute_b2_custody; it finds what an earlier attempt left.  It may fail, whatever it
\* has stored by then.
Store ==
    /\ pc = "store"
    /\ ~ckpt[op].custody
    /\ \/ vault' = [vault EXCEPT ![op] = TRUE] /\ Goto("stored") /\ UNCHANGED <<cur, failures>>
       \/ vault' = [vault EXCEPT ![op] = TRUE] /\ Broken
    /\ UNCHANGED <<ckpt, outcomes, bucket, certs, pending, report>>

\* With all four references recorded, exactly those versions are verified.
Recheck ==
    /\ pc = "store"
    /\ ckpt[op].custody
    /\ vault[op]
    /\ Goto("upload")
    /\ UNCHANGED <<ckpt, world, cur, failures>>

Stored ==
    /\ pc = "stored"
    /\ Update([ckpt[op] EXCEPT
           !.custody = TRUE,
           !.state = IF @ \in {"sealed_persisted", "registered", "complete"}
                     THEN @ ELSE "custody_persisted"])
    /\ Goto("upload")
    /\ UNCHANGED <<world, cur, failures>>

\* Faulty: the recovery code uploads without looking.
NeedsUploadAlways == service \/ ckpt[op].sealed = 0

\* The service uploads; the recovery code does so only if it finds no version.
NeedsUpload == service \/ (ckpt[op].sealed = 0 /\ bucket[op].versions = {})

Upload ==
    /\ pc = "upload"
    /\ NeedsUpload
    /\ Goto("put")
    /\ UNCHANGED <<ckpt, world, cur, failures>>

\* Of the recorded version, or of the newest one.
Reuse ==
    /\ pc = "upload"
    /\ ~NeedsUpload
    /\ \E v \in bucket[op].versions :
          /\ IF ckpt[op].sealed # 0 THEN v = ckpt[op].sealed
                                   ELSE \A w \in bucket[op].versions : w <= v
          /\ held' = v
    /\ pc' = "uploaded"
    /\ UNCHANGED <<ckpt, world, op, at, cur, service, failures>>

\* The put is answered, and the version it names is read back; if that fails, the version
\* is deleted again, if that succeeds.
Put ==
    /\ pc = "put"
    /\ LET n == bucket[op].puts + 1
           b == [WithVersion(bucket[op]) EXCEPT !.told = @ \union {n}]
       IN  \/ /\ bucket' = [bucket EXCEPT ![op] = b]
              /\ held' = n
              /\ pc' = "uploaded"
              /\ UNCHANGED <<op, at, cur, service, failures>>
           \/ /\ \/ bucket' = [bucket EXCEPT ![op] = b]
                 \/ bucket' = [bucket EXCEPT ![op] = [b EXCEPT !.versions = @ \ {n}]]
              /\ Broken
    /\ UNCHANGED <<ckpt, outcomes, vault, certs, pending, report>>

\* The answer does not come, and the client makes the same put again.
PutAgain ==
    /\ pc = "put"
    /\ failures < MaxFailures
    /\ failures' = failures + 1
    /\ bucket' = [bucket EXCEPT ![op].late = @ + 1]
    /\ UNCHANGED <<ckpt, outcomes, vault, certs, pending, report, run>>

\* Faulty: the state is set whatever it was.
UploadedAnyState ==
    /\ pc = "uploaded"
    /\ Update([ckpt[op] EXCEPT !.sealed = held, !.state = "sealed_persisted"])
    /\ Goto(IF ckpt[op].state \in {"registered", "complete"} THEN "verify" ELSE "sign")
    /\ UNCHANGED <<world, cur, failures>>

Uploaded ==
    /\ pc = "uploaded"
    /\ Update([ckpt[op] EXCEPT
           !.sealed = held,
           !.state = IF @ \in {"registered", "complete"} THEN @ ELSE "sealed_persisted"])
    /\ Goto(IF ckpt[op].state \in {"registered", "complete"} THEN "verify" ELSE "sign")
    /\ UNCHANGED <<world, cur, failures>>

Sign ==
    /\ pc = "sign"
    /\ Begin("envelope_signature")
    /\ Goto("announce")
    /\ UNCHANGED <<world, failures>>

\* Faulty: the checkpoint says registered ahead of the registration.
AnnounceAsDone ==
    /\ pc = "announce"
    /\ Update([Tracked(ckpt[op], "supabase_registration") EXCEPT !.state = "registered"])
    /\ cur' = "supabase_registration"
    /\ Goto("register")
    /\ UNCHANGED <<world, failures>>

\* The recovery code has looked for the certificate of an earlier attempt; it matches.
Announce ==
    /\ pc = "announce"
    /\ Begin("supabase_registration")
    /\ Goto(IF ~service /\ certs[op].status # "absent" THEN "registered" ELSE "register")
    /\ UNCHANGED <<world, failures>>

\* The certificate that a bundle with this sealed version leaves in the registry: none is
\* ever replaced.
Admitted(o, v) ==
    IF certs[o].status = "absent" THEN [status |-> "active", sealed |-> v] ELSE certs[o]

\* The bundle is registered, or is the one that has been registered since.
Register ==
    /\ pc = "register"
    /\ certs' = [certs EXCEPT ![op] = Admitted(op, ckpt[op].sealed)]
    /\ Goto("registered")
    /\ UNCHANGED <<ckpt, outcomes, vault, bucket, pending, report, cur, failures>>

\* The bundle registered since is not the same: that of the service and that of the recovery
\* code differ in the parameters of the generation run.
RegisterRefused ==
    /\ pc = "register"
    /\ certs[op].status # "absent"
    /\ Over
    /\ UNCHANGED <<ckpt, world, failures>>

Registered ==
    /\ pc = "registered"
    /\ Update([ckpt[op] EXCEPT !.state = "registered"])
    /\ Goto(IF service THEN "confirm" ELSE "verify")
    /\ UNCHANGED <<world, cur, failures>>

\* The service reads its certificate back and returns; the recovery code goes over the
\* recorded evidence.
Confirm ==
    /\ pc = "confirm"
    /\ service' = FALSE
    /\ pc' = "custody"
    /\ UNCHANGED <<ckpt, world, op, at, cur, held, failures>>

-------------------------------------------------------------------------------
(***************************************************************************)
(* _verify_and_deliver and the report.                                     *)
(***************************************************************************)
\* The gate and the delivery refuse a certificate that has been revoked.
VerifyStage ==
    /\ pc = "verify"
    /\ Begin(VerifyStages[at])
    /\ VerifyStages[at] \in {"verify_gate", "delivery"} => certs[op].status = "active"
    /\ IF at < Len(VerifyStages)
       THEN at' = at + 1 /\ UNCHANGED pc
       ELSE at' = 1 /\ pc' = "complete"
    /\ UNCHANGED <<world, op, service, held, failures>>

VerifyFails ==
    /\ pc = "verify"
    /\ VerifyStages[at] \in {"verify_gate", "delivery"}
    /\ certs[op].status = "revoked"
    /\ Update(Tracked(ckpt[op], VerifyStages[at]))
    /\ Over
    /\ UNCHANGED <<world, failures>>

LastRow ==
    /\ pc = "complete"
    /\ cur # "none"
    /\ Update([ckpt[op] EXCEPT !.rows = Append(@, cur)])
    /\ cur' = "none"
    /\ Goto("complete")
    /\ UNCHANGED <<world, failures>>

\* The next operation has its turn.
Complete ==
    /\ pc = "complete"
    /\ cur = "none"
    /\ Update([ckpt[op] EXCEPT !.state = "complete"])
    /\ UNCHANGED cur
    /\ IF op = "image" THEN op' = "audio" /\ pc' = "configure"
                       ELSE UNCHANGED op /\ pc' = "finalize"
    /\ UNCHANGED <<world, at, service, held, failures>>

\* Faulty: finalization does not look at the rows.
CompleteEnough(k, o) == k.state = "complete" /\ k.calls = 1

\* What finalization asks of an operation: every declared stage once and in order, and one
\* provider call.
Reportable(k, o) == k.state = "complete" /\ k.calls = 1 /\ k.rows = Declared[o]

Finalize ==
    /\ pc = "finalize"
    /\ \A o \in Ops : Reportable(ckpt[o], o)
    /\ report' = TRUE
    /\ Over
    /\ UNCHANGED <<ckpt, outcomes, vault, bucket, certs, pending, failures>>

FinalizeFails ==
    /\ pc = "finalize"
    /\ \E o \in Ops : ~Reportable(ckpt[o], o)
    /\ Over
    /\ UNCHANGED <<ckpt, world, failures>>

\* --resume-existing: the report from two complete checkpoints, and nothing else.
ResumeExisting ==
    /\ pc = "idle"
    /\ \A o \in Ops : Reportable(ckpt[o], o)
    /\ report' = TRUE
    /\ UNCHANGED <<ckpt, outcomes, vault, bucket, certs, pending, run, failures>>

\* An exception anywhere else, or the end of the process.  The request it was waiting for
\* may still take effect.
Interrupt ==
    /\ pc # "idle"
    /\ Broken
    /\ bucket' = IF pc = "put" THEN [bucket EXCEPT ![op].late = @ + 1] ELSE bucket
    /\ pending' = IF pc = "register"
                  THEN [pending EXCEPT ![op] = @ \union {ckpt[op].sealed}] ELSE pending
    /\ UNCHANGED <<ckpt, outcomes, vault, certs, report>>

LatePut(o) ==
    /\ bucket[o].late > 0
    /\ bucket' = [bucket EXCEPT ![o] = [WithVersion(bucket[o]) EXCEPT !.late = @ - 1]]
    /\ UNCHANGED <<ckpt, outcomes, vault, certs, pending, report, run, failures>>

LateRegister(o) ==
    /\ \E v \in pending[o] :
          /\ pending' = [pending EXCEPT ![o] = @ \ {v}]
          /\ certs' = [certs EXCEPT ![o] = Admitted(o, v)]
    /\ UNCHANGED <<ckpt, outcomes, vault, bucket, report, run, failures>>

\* An administrator revokes a certificate.
Revoke(o) ==
    /\ certs[o].status = "active"
    /\ certs' = [certs EXCEPT ![o].status = "revoked"]
    /\ UNCHANGED <<ckpt, outcomes, vault, bucket, pending, report, run, failures>>

-------------------------------------------------------------------------------
Step ==
    \/ Initialize \/ Configure \/ Refuse \/ Retry \/ Proceed
    \/ Request \/ Submit \/ Call \/ Capture \/ Reject \/ SealStage \/ Prepare
    \/ BeginCustody \/ Store \/ Recheck \/ Stored \/ Upload \/ Reuse
    \/ Put \/ PutAgain \/ Uploaded
    \/ Sign \/ Announce \/ Register \/ RegisterRefused \/ Registered \/ Confirm
    \/ VerifyStage \/ VerifyFails \/ LastRow \/ Complete \/ Finalize \/ FinalizeFails

Next ==
    \/ Start \/ Step \/ ResumeExisting \/ Interrupt
    \/ \E o \in Ops : LatePut(o) \/ LateRegister(o) \/ Revoke(o)

Spec == Init /\ [][Next]_vars

\* A run that has begun goes on, and the operator runs the script again.
FairSpec == Spec /\ WF_vars(Step) /\ WF_vars(Start)

-------------------------------------------------------------------------------
\* "One provider call, ever": whatever is interrupted, a second submission follows only a
\* definitive refusal, and there is never a third.
OneBillableCall ==
    \A o \in Ops :
        /\ Len(outcomes[o]) <= 2
        /\ Len(outcomes[o]) = 2 => outcomes[o][1] = "refused"

\* Nothing that was paid for is lost or undone: captured bytes stay captured, a recorded
\* version stays the one recorded, and the state goes back only for the permitted retry.
Rank(k) ==
    CASE k.state = "none" -> 0
      [] k.state \in {"request_ready", "provider_call_started", "provider_rejected"} -> 1
      [] k.state = "generated" -> 2
      [] k.state = "prepared" -> 3
      [] k.state = "custody_persisted" -> 4
      [] k.state = "sealed_persisted" -> 5
      [] k.state = "registered" -> 6
      [] k.state = "complete" -> 7

ProgressIsKept ==
    [][\A o \in Ops :
          /\ Rank(ckpt[o]) <= Rank(ckpt'[o])
          /\ ckpt[o].bytes => ckpt'[o].bytes
          /\ ckpt[o].sealed # 0 => ckpt'[o].sealed = ckpt[o].sealed]_vars

\* The checkpoint and the registry never contradict each other: a registered operation has
\* its certificate, and a certificate names the sealed version and the custody that the
\* checkpoint records.
CheckpointAgreesWithRegistry ==
    \A o \in Ops :
        /\ ckpt[o].state \in {"registered", "complete"} => certs[o].status # "absent"
        /\ certs[o].status # "absent" =>
              /\ ckpt[o].sealed = certs[o].sealed
              /\ ckpt[o].sealed \in bucket[o].versions
              /\ ckpt[o].custody /\ vault[o] /\ ckpt[o].bytes

\* However often it is resumed, an operation uploads its sealed bytes once: of the stored
\* versions, one at most was uploaded by a put that was answered.  Every other is of a put
\* that the client repeated, or that came after its run.
SealedOnce ==
    \A o \in Ops : \A v, w \in bucket[o].versions \intersect bucket[o].told : v = w

\* A report stands for two complete operations, with every stage and one valid answer each.
ReportIsEarned ==
    report => \A o \in Ops :
        /\ ckpt[o].state = "complete"
        /\ Elements(ckpt[o].rows) = Elements(Declared[o])
        /\ outcomes[o][Len(outcomes[o])] = "valid"
        /\ certs[o].status # "absent"

\* Recovery has no dead end but the documented ones: run again and again, with finitely
\* many failures, the operations are completed for good, unless an outcome stays ambiguous
\* or a certificate has been revoked.
Stuck(o) == Refused(ckpt[o]) \/ certs[o].status = "revoked"

RecoveryCompletes ==
    <>[](\/ \E o \in Ops : Stuck(o)
         \/ \A o \in Ops : ckpt[o].state = "complete")

\* "Finalize a completed live run": two complete operations can be reported.
CompleteIsReportable ==
    \A o \in Ops : ckpt[o].state = "complete" => Reportable(ckpt[o], o)

===============================================================================
