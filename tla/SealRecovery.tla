----------------------------- MODULE SealRecovery -----------------------------
(***************************************************************************)
(* The recovery of one interrupted Generate & Seal operation:              *)
(* scripts/resume_generate_and_seal_checkpoint.py over the checkpoint of   *)
(* scripts/smoke_generate_and_seal.py.  A run of the recovery script may   *)
(* end anywhere, and requests it had under way may take effect after it is *)
(* gone; the operator starts it again, and nothing keeps him from starting *)
(* it twice at a time.  Each remote call and each write of the checkpoint  *)
(* is a step of its own.                                                   *)
(*                                                                         *)
(* The live script appears with what it does today: it pays for a          *)
(* generation, keeps the private evidence, and fails to write a            *)
(* checkpoint.  The checkpoints to recover are therefore those of its      *)
(* earlier runs (the tests' make_checkpoint), in every state in which      *)
(* Capture.checkpoint_event leaves them.                                   *)
(*                                                                         *)
(* The locked vault versions are not stored by the recovery, only checked; *)
(* their retention, of years, is taken not to lapse during a recovery.     *)
(***************************************************************************)
EXTENDS Naturals, FiniteSets

CONSTANTS
    Runs,           \* processes of the recovery script
    MaxPaid,        \* bound: runs of the live script
    MaxTroubles     \* bound: recoveries that end by an exception or lose an answer, and
                    \* recoveries started while another one runs

ASSUME SealRecoveryAssumption == MaxPaid \in Nat /\ MaxTroubles \in Nat

\* The unlocked objects of the operation: the sealed asset, and the copies of the source and
\* of the manifest, which are found, stored and recorded one after the other alike.
Kinds == {"copies", "sealed"}
Locked == {"source", "manifest"}            \* the objects of the vault

VARIABLES
    ckpt,       \* the checkpoint file
    evidence,   \* operations whose private files are on disk (0: the earlier one)
    paid,       \* generations the live script has submitted
    stored,     \* versions in the assets bucket, by kind
    puts,       \* versions ever put there
    cert,       \* the certificate of the earlier operation
    pending,    \* requests without an answer that may still take effect
    pc, mem,    \* where a run is, and its copy of the checkpoint
    existing,   \* the certificate it read at its start
    hand,       \* the versions its receipts name
    failures,
    overlaps    \* how often a recovery was started while another one ran

script == <<paid, evidence>>
remote == <<stored, puts, cert, pending>>
local == <<pc, mem, existing, hand>>
vars == <<ckpt, script, remote, local, failures, overlaps>>

State == {"none", "prepared", "custody_persisted", "sealed_persisted", "registered",
          "complete"}

\* vault: the locked objects whose exact version is known, from a reference or from one
\* partial object; sealed: the recorded version of the sealed asset (0: none).
Checkpoint == [operation : Nat, state : State, vault : SUBSET Locked, sealed : Nat]

NoCheckpoint == [operation |-> 0, state |-> "none", vault |-> {}, sealed |-> 0]

\* The rows of the two scripts differ (request fingerprint, width and height).
Bundle == [by : {"live", "recovery"}, copies : Nat, sealed : Nat]

Absent == [status |-> "absent"]
Certificate == {Absent} \union [status : {"active", "revoked"}, bundle : Bundle]

Request == [put : Kinds] \union [register : Bundle]

Location == {"idle", "lookup", "vault", "copies", "copies_put", "copies_readback", "custody",
             "sealed", "sealed_put", "sealed_readback", "record", "register", "announce", "confirm", "complete", "report"}

TypeOK ==
    /\ ckpt \in Checkpoint
    /\ evidence \subseteq Nat
    /\ paid \in Nat
    /\ stored \in [Kinds -> SUBSET Nat]
    /\ puts \in [Kinds -> Nat]
    /\ cert \in Certificate
    /\ pending \subseteq Request
    /\ pc \in [Runs -> Location]
    /\ mem \in [Runs -> Checkpoint]
    /\ existing \in [Runs -> Certificate]
    /\ hand \in [Runs -> [Kinds -> Nat]]
    /\ failures \in Nat
    /\ overlaps \in Nat

-------------------------------------------------------------------------------
(***************************************************************************)
(* What an interrupted live run leaves: Capture writes the checkpoint when *)
(* the bytes are prepared, after each object of custody, after the sealed  *)
(* upload and after the registration, and once more at its end.  A put of  *)
(* the sealed asset whose answer did not come may take effect after it.    *)
(***************************************************************************)
LiveBundle == [by |-> "live", copies |-> 1, sealed |-> 1]
Registered == [status |-> "active", bundle |-> LiveBundle]

Left(state, vault, sealed, copies, seals, c, late) ==
    [ckpt |-> [operation |-> 0, state |-> state, vault |-> vault, sealed |-> sealed],
     copies |-> copies, seals |-> seals, cert |-> c, pending |-> late]

\* A put of the sealed asset that may yet take effect, or none.
Unanswered == {{}, {[put |-> "sealed"]}}

Interrupted ==
    {[ckpt |-> NoCheckpoint, copies |-> {}, seals |-> {}, cert |-> Absent, pending |-> {}]}
    \* in custody: a rollback removes the copies in the assets bucket, never the vault's
    \union {Left("prepared", v, 0, copies, {}, Absent, {}) :
              v \in {{}, {"source"}, Locked}, copies \in {{}, {1}}}
    \* the sealed upload did not take effect, did, or will
    \union {Left("custody_persisted", Locked, 0, {1}, seals, Absent, late) :
              seals \in {{}, {1}}, late \in Unanswered}
    \* and so the registration
    \union {Left("sealed_persisted", Locked, 1, {1}, {1}, c, late) :
              c \in {Absent, Registered}, late \in Unanswered}
    \union {Left("sealed_persisted", Locked, 1, {1}, {1}, Absent, {[register |-> LiveBundle]})}
    \union {Left(s, Locked, 1, {1}, {1}, Registered, late) :
              s \in {"registered", "complete"}, late \in Unanswered}

Init ==
    /\ \E left \in Interrupted :
         /\ ckpt = left.ckpt
         /\ stored = [k \in Kinds |-> IF k = "sealed" THEN left.seals ELSE left.copies]
         /\ puts = [k \in Kinds |-> 1]
         /\ cert = left.cert
         /\ pending = left.pending
    /\ evidence = {0}
    /\ paid = 0
    /\ pc = [r \in Runs |-> "idle"]
    /\ mem = [r \in Runs |-> NoCheckpoint]
    /\ existing = [r \in Runs |-> Absent]
    /\ hand = [r \in Runs |-> [k \in Kinds |-> 0]]
    /\ failures = 0
    /\ overlaps = 0

-------------------------------------------------------------------------------
Goto(r, l) == pc' = [pc EXCEPT ![r] = l] /\ UNCHANGED <<mem, existing, hand>>

\* The run is over; what it had in memory is gone.
Over(r) ==
    /\ pc' = [pc EXCEPT ![r] = "idle"]
    /\ mem' = [mem EXCEPT ![r] = NoCheckpoint]
    /\ existing' = [existing EXCEPT ![r] = Absent]
    /\ hand' = [hand EXCEPT ![r] = [k \in Kinds |-> 0]]

TroubleLeft == failures + overlaps < MaxTroubles

\* It is over because of an exception, or of an answer that did not come.
Broken(r) == TroubleLeft /\ failures' = failures + 1 /\ Over(r)

Interrupt(r) ==
    /\ pc[r] # "idle"
    /\ Broken(r)
    /\ UNCHANGED <<ckpt, script, remote, overlaps>>

\* write_checkpoint_atomic: the copy of the run replaces the file, whoever wrote that.
Write(r, k, l) ==
    /\ ckpt' = k
    /\ mem' = [mem EXCEPT ![r] = k]
    /\ pc' = [pc EXCEPT ![r] = l]
    /\ UNCHANGED <<existing, hand, failures, overlaps>>

\* Faulty: the state of the step that was just taken, whatever was reached before.
AtLeastThisStep(k, s) == [k EXCEPT !.state = s]

\* A complete checkpoint stays complete; any other state is replaced, also a later one.
AtLeast(k, s) == [k EXCEPT !.state = IF @ = "complete" THEN @ ELSE s]

-------------------------------------------------------------------------------
(***************************************************************************)
(* run_live of the recovery script.  Without a checkpoint it looks for a   *)
(* bundle in the vault, and fails whatever it finds: no action.  The same  *)
(* for a checkpoint whose private files are gone.                          *)
(***************************************************************************)
\* The private files are on disk and give the bytes the checkpoint has the digests of.
HasEvidence(k) == k.operation \in evidence

Start(r) ==
    /\ pc[r] = "idle"
    /\ ckpt.state # "none"
    /\ HasEvidence(ckpt)
    /\ pc' = [pc EXCEPT ![r] = "lookup"]
    /\ mem' = [mem EXCEPT ![r] = ckpt]
    /\ IF \A q \in Runs : pc[q] = "idle"
       THEN UNCHANGED overlaps
       ELSE TroubleLeft /\ overlaps' = overlaps + 1
    /\ UNCHANGED <<ckpt, script, remote, existing, hand, failures>>

\* Faulty: a certificate that the live script registered is taken for a conflict.
LookupOwn(r) ==
    /\ pc[r] = "lookup"
    /\ IF cert # Absent /\ cert.bundle.by = "live" THEN Over(r)
       ELSE /\ existing' = [existing EXCEPT ![r] = cert]
            /\ pc' = [pc EXCEPT ![r] = "vault"]
            /\ UNCHANGED <<mem, hand>>
    /\ UNCHANGED <<ckpt, script, remote, failures, overlaps>>

\* get_certificate.  The row always matches: the comparison leaves out the versions.
Lookup(r) ==
    /\ pc[r] = "lookup"
    /\ existing' = [existing EXCEPT ![r] = cert]
    /\ pc' = [pc EXCEPT ![r] = "vault"]
    /\ UNCHANGED <<ckpt, script, remote, mem, hand, failures, overlaps>>

\* Faulty: one of the two vault versions is enough.
VaultVersionsKnownInPart(k) == k.vault # {}

VaultVersionsKnown(k) == k.vault = Locked

\* Both exact locked versions are read back, and recorded as references.
CheckVault(r) ==
    /\ pc[r] = "vault"
    /\ VaultVersionsKnown(mem[r])
    /\ Write(r, mem[r], "copies")
    /\ UNCHANGED <<script, remote>>

\* VERSION_ID_MISSING: this checkpoint can never be recovered.
NoVaultVersion(r) ==
    /\ pc[r] = "vault"
    /\ ~VaultVersionsKnown(mem[r])
    /\ Over(r)
    /\ UNCHANGED <<ckpt, script, remote, failures, overlaps>>

-------------------------------------------------------------------------------
(***************************************************************************)
(* _ensure_unlocked for the copies and for the sealed asset.               *)
(***************************************************************************)
Latest(k) == IF stored[k] = {} THEN 0
             ELSE CHOOSE v \in stored[k] : \A w \in stored[k] : w <= v

\* Faulty: the sealed asset is looked for by its key, like the copies.
ExactVersionNone(r, k) == 0

\* Only the sealed asset has a version it must be found in: the one the checkpoint
\* records, or the one the certificate names.
ExactVersion(r, k) ==
    IF k # "sealed" THEN 0
    ELSE IF mem[r].sealed # 0 THEN mem[r].sealed
    ELSE IF existing[r] # Absent THEN existing[r].bundle.sealed
    ELSE 0

Found(r, k) == IF ExactVersion(r, k) = 0 THEN Latest(k) ELSE ExactVersion(r, k)

After == [copies |-> "custody", sealed |-> "record"]
Upload == [copies |-> "copies_put", sealed |-> "sealed_put"]
Readback == [copies |-> "copies_readback", sealed |-> "sealed_readback"]

Reuse(r, k) ==
    /\ pc[r] = k
    /\ Found(r, k) \in stored[k]
    /\ hand' = [hand EXCEPT ![r][k] = Found(r, k)]
    /\ pc' = [pc EXCEPT ![r] = After[k]]
    /\ UNCHANGED <<ckpt, script, remote, mem, existing, failures, overlaps>>

\* The exact version is gone: VERSION_ID_MISSING, and nothing is uploaded.
ExactMissing(r, k) ==
    /\ pc[r] = k
    /\ ExactVersion(r, k) # 0
    /\ ExactVersion(r, k) \notin stored[k]
    /\ Over(r)
    /\ UNCHANGED <<ckpt, script, remote, failures, overlaps>>

Missing(r, k) ==
    /\ pc[r] = k
    /\ ExactVersion(r, k) = 0
    /\ stored[k] = {}
    /\ Goto(r, Upload[k])
    /\ UNCHANGED <<ckpt, script, remote, failures, overlaps>>

Store(k) ==
    /\ stored' = [stored EXCEPT ![k] = @ \union {puts[k] + 1}]
    /\ puts' = [puts EXCEPT ![k] = @ + 1]

\* put_object: it answers; its answer is lost; or the run dies and it is stored later.
Put(r, k) ==
    /\ pc[r] = Upload[k]
    /\ \/ /\ Store(k)
          /\ hand' = [hand EXCEPT ![r][k] = puts[k] + 1]
          /\ pc' = [pc EXCEPT ![r] = Readback[k]]
          /\ UNCHANGED <<pending, mem, existing, failures>>
       \/ Store(k) /\ Broken(r) /\ UNCHANGED pending
       \/ Broken(r) /\ pending' = pending \union {[put |-> k]} /\ UNCHANGED <<stored, puts>>
    /\ UNCHANGED <<ckpt, script, cert, overlaps>>

\* The answer does not come, and the client makes the same put again.
PutAgain(r, k) ==
    /\ pc[r] = Upload[k]
    /\ TroubleLeft
    /\ failures' = failures + 1
    /\ pending' = pending \union {[put |-> k]}
    /\ UNCHANGED <<ckpt, script, stored, puts, cert, local, overlaps>>

\* The version just put is read back.
Verified(r, k) ==
    /\ pc[r] = Readback[k]
    /\ Goto(r, After[k])
    /\ UNCHANGED <<ckpt, script, remote, failures, overlaps>>

\* It does not read back, and is deleted again: this version and no other.
NotVerified(r, k) ==
    /\ pc[r] = Readback[k]
    /\ stored' = [stored EXCEPT ![k] = @ \ {hand[r][k]}]
    /\ Broken(r)
    /\ UNCHANGED <<ckpt, script, puts, cert, pending, overlaps>>

RecordCustody(r) ==
    /\ pc[r] = "custody"
    /\ Write(r, AtLeast(mem[r], "custody_persisted"), "sealed")
    /\ UNCHANGED <<script, remote>>

RecordSealed(r) ==
    /\ pc[r] = "record"
    /\ Write(r, [AtLeast(mem[r], "sealed_persisted") EXCEPT !.sealed = hand[r]["sealed"]],
             "register")
    /\ UNCHANGED <<script, remote>>

-------------------------------------------------------------------------------
(***************************************************************************)
(* _complete_registration and what follows it.                             *)
(***************************************************************************)
BundleOf(r) == [by |-> "recovery", copies |-> hand[r]["copies"],
                sealed |-> hand[r]["sealed"]]

\* register_certificate_bundle lets a new bundle in, and accepts the identical one.
Accepts(b) == cert = Absent \/ cert = [status |-> "active", bundle |-> b]
Admit(b) == cert' = IF cert = Absent THEN [status |-> "active", bundle |-> b] ELSE cert

\* The certificate was there at the start of the run: nothing is registered.
AlreadyRegistered(r) ==
    /\ pc[r] = "register"
    /\ existing[r] # Absent
    /\ Goto(r, "announce")
    /\ UNCHANGED <<ckpt, script, remote, failures, overlaps>>

\* Faulty: an answer that does not come is taken for success.
RegisterBestEffort(r) ==
    /\ pc[r] = "register"
    /\ existing[r] = Absent
    /\ Goto(r, "announce")
    /\ \/ Accepts(BundleOf(r)) /\ Admit(BundleOf(r)) /\ UNCHANGED pending
       \/ pending' = pending \union {[register |-> BundleOf(r)]} /\ UNCHANGED cert
    /\ UNCHANGED <<ckpt, script, stored, puts, failures, overlaps>>

\* Answered; answered, and the answer lost; or not yet there when the run dies.
Register(r) ==
    /\ pc[r] = "register"
    /\ existing[r] = Absent
    /\ \/ /\ Accepts(BundleOf(r))
          /\ Admit(BundleOf(r))
          /\ Goto(r, "announce")
          /\ UNCHANGED <<pending, failures>>
       \/ Admit(BundleOf(r)) /\ Broken(r) /\ UNCHANGED pending
       \/ /\ Broken(r)
          /\ pending' = pending \union {[register |-> BundleOf(r)]}
          /\ UNCHANGED cert
    /\ UNCHANGED <<ckpt, script, stored, puts, overlaps>>

\* Another bundle got there since the run looked: REGISTRATION_FAILURE.
Conflict(r) ==
    /\ pc[r] = "register"
    /\ existing[r] = Absent
    /\ ~Accepts(BundleOf(r))
    /\ Over(r)
    /\ UNCHANGED <<ckpt, script, remote, failures, overlaps>>

Announce(r) ==
    /\ pc[r] = "announce"
    /\ Write(r, AtLeast(mem[r], "registered"), "confirm")
    /\ UNCHANGED <<script, remote>>

\* Projection, verification, delivery of the version the certificate names, and the
\* secret scan, all against the registry as it is now.
Confirmed ==
    /\ cert # Absent
    /\ cert.status = "active"
    /\ cert.bundle.sealed \in stored["sealed"]

Confirm(r) ==
    /\ pc[r] = "confirm"
    /\ IF Confirmed THEN Goto(r, "complete") ELSE Over(r)
    /\ UNCHANGED <<ckpt, script, remote, failures, overlaps>>

Complete(r) ==
    /\ pc[r] = "complete"
    /\ Write(r, [mem[r] EXCEPT !.state = "complete"], "report")
    /\ UNCHANGED <<script, remote>>

\* The last write of the checkpoint, and the report: refused when there is one and no
\* --force, and either way the run is over.
Report(r) ==
    /\ pc[r] = "report"
    /\ ckpt' = mem[r]
    /\ Over(r)
    /\ UNCHANGED <<script, remote, failures, overlaps>>

-------------------------------------------------------------------------------
(***************************************************************************)
(* The live script: each run draws a new idempotency key, so it generates, *)
(* and pays, whatever is on disk.                                          *)
(***************************************************************************)
\* What generate_and_seal reports as prepared, without the two payloads, and with what
\* checkpoint_event adds; and the fields of the checkpoint, which allows no others.
PreparedFields ==
    {"run_id", "asset_id", "cert_id", "source_sha256", "sealed_sha256", "canonical_hash",
     "issued_at", "requested_retention_until", "signer_key_id", "provider", "model",
     "media_type", "mime_type", "file_extension", "source_mime_type", "source_extension",
     "size", "voice_id",
     "operation_state", "generated_byte_count", "source_path", "manifest_path"}

CheckpointFields ==
    {"schema_version", "operation_state", "run_id", "asset_id", "cert_id", "source_sha256",
     "sealed_sha256", "canonical_hash", "issued_at", "requested_retention_until",
     "signer_key_id", "provider", "model", "size", "generated_byte_count", "source_path",
     "manifest_path", "ai_generated", "local_fixture", "new_provider_calls",
     "stage_results", "assets_source", "assets_manifest", "vault_source", "vault_manifest",
     "sealed_asset", "partial_objects"}

\* A run up to checkpoint_event("prepared"): the generation is paid for, the private files
\* are written, then the checkpoint is built.  A field it does not have raises, and the
\* exception ends the run.
Live ==
    /\ paid < MaxPaid
    /\ paid' = paid + 1
    /\ evidence' = evidence \union {paid'}
    /\ ckpt' = IF PreparedFields \subseteq CheckpointFields
               THEN [NoCheckpoint EXCEPT !.operation = paid', !.state = "prepared"]
               ELSE ckpt
    /\ UNCHANGED <<remote, local, failures, overlaps>>

-------------------------------------------------------------------------------
(* The services: a late request takes effect, and an administrator revokes. *)
LatePut(k) ==
    /\ [put |-> k] \in pending
    /\ Store(k)
    /\ pending' = pending \ {[put |-> k]}
    /\ UNCHANGED <<ckpt, script, cert, local, failures, overlaps>>

LateRegister(b) ==
    /\ [register |-> b] \in pending
    /\ Admit(b)
    /\ pending' = pending \ {[register |-> b]}
    /\ UNCHANGED <<ckpt, script, stored, puts, local, failures, overlaps>>

Revoke ==
    /\ cert # Absent
    /\ cert.status = "active"
    /\ cert' = [cert EXCEPT !.status = "revoked"]
    /\ UNCHANGED <<ckpt, script, stored, puts, pending, local, failures, overlaps>>

Ensure(r) ==
    \E k \in Kinds : \/ Reuse(r, k) \/ ExactMissing(r, k)
                     \/ Missing(r, k) \/ Put(r, k) \/ Verified(r, k)

Advance(r) ==
    \/ Lookup(r) \/ CheckVault(r) \/ NoVaultVersion(r)
    \/ Ensure(r) \/ RecordCustody(r) \/ RecordSealed(r)
    \/ AlreadyRegistered(r) \/ Register(r) \/ Conflict(r)
    \/ Announce(r) \/ Confirm(r) \/ Complete(r) \/ Report(r)

Fail(r) == Interrupt(r) \/ \E k \in Kinds : NotVerified(r, k)

Next ==
    \/ \E r \in Runs : Start(r) \/ Advance(r) \/ Fail(r) \/ \E k \in Kinds : PutAgain(r, k)
    \/ Live
    \/ \E k \in Kinds : LatePut(k)
    \/ \E q \in {q \in pending : "register" \in DOMAIN q} : LateRegister(q.register)
    \/ Revoke

Spec == Init /\ [][Next]_vars

\* A run goes on by itself, and the operator starts the script again until it is done.
FairSpec == Spec /\ \A r \in Runs : WF_vars(Start(r)) /\ WF_vars(Advance(r))

-------------------------------------------------------------------------------
(* Properties. *)

\* A checkpoint that says registered or complete has a certificate behind it, however
\* many recoveries overlap.
CompleteIsRegistered ==
    ckpt.state \in {"registered", "complete"} => cert # Absent

\* Recoveries that run one at a time record the version of the sealed asset that the
\* certificate names, whatever was interrupted, lost or late: what recovery reports is
\* what delivery serves.
RecordsTheRegisteredVersion ==
    overlaps = 0 /\ cert # Absent /\ ckpt.sealed # 0 => ckpt.sealed = cert.bundle.sealed

\* A certificate names versions that are stored, and its locked evidence is known, unless
\* two recoveries overlapped.
CertificateIsBacked ==
    overlaps = 0 /\ cert # Absent =>
        /\ \A k \in Kinds : cert.bundle[k] \in stored[k]
        /\ ckpt.vault = Locked

\* Recoveries that run one at a time never move a complete checkpoint back.
CompleteIsFinal ==
    [][ckpt.state = "complete" /\ overlaps' = 0 => ckpt'.state = "complete"]_vars

\* A checkpoint with both locked versions and its private evidence is recovered in the
\* end, unless the certificate is revoked meanwhile or two recoveries got in each other's
\* way.
Recoverable == ckpt.state # "none" /\ ckpt.vault = Locked /\ HasEvidence(ckpt)

RecoveryCompletes ==
    Recoverable ~> \/ ckpt.state = "complete"
                   \/ cert # Absent /\ cert.status = "revoked"
                   \/ overlaps > 0

\* README.md: "Live commands persist atomic state before submission and immediately after
\* valid bytes, so an interrupted run resumes from persisted evidence instead of
\* re-billing a provider."  Once a live run is over, the latest generation it paid for can
\* be resumed from the checkpoint.
PaidBytesAreRecoverable ==
    paid > 0 => ckpt.operation = paid
===============================================================================
