# FIREMARK: models and proofs

FIREMARK generates media, takes cryptographic and Object Lock custody of it, issues a signed
*Birth Certificate* for it, and delivers the sealed bytes only through a *Verify Gate*. The modules here
model the parts of the system where an order of events nobody tested could break a promise of the product:
the gate, the registration of a certificate, custody in two buckets, the idempotent endpoint that ties them
together, the retry loop beneath custody, the live script that must survive its own interruption, and the
three pairs of smoke and recovery scripts by which an operator finishes what a crash left undone. TLC checks
them on small instances; TLAPS proves for every instance all the safety properties the passing runs check
(invariants, action properties and the refinements). Liveness is model-checked only.

Paths below are relative to the repository; `api/firemark/` is shortened to `…/`.

## 1. Inventory

| Part | State it keeps | Operations | Talks to |
| --- | --- | --- | --- |
| Verify Gate, `…/control_plane/service.py` | none of its own; the row it read, in locals | `verify`, `authorize_delivery`, `register_certificate`, `get_public_certificate` | repository, delivery storage |
| Lazy delivery storage, `…/runtime.py` | `_storage`, `_lock` | `issue_download` | B2 assets bucket |
| Repository, `…/control_plane/supabase_repository.py` | a lazily built client | register, read, append events, revoke | PostgreSQL over HTTP |
| Registration function, `supabase/migrations/*.sql` | `generation_runs`, `assets`, `custody_records`, `certificates`, event tables | `register_firemark_certificate_bundle` | – |
| Custody, `…/custody.py` | `created_assets`, `partial_objects` of a run | `execute_b2_custody` | both buckets |
| B2 adapter, `…/b2_storage.py` | none | verified uploads, heads, cleanups, bounded readback | B2 |
| Generate & Seal, `…/generate_and_seal.py` | `_lock` | `generate_and_seal` | provider, custody, repository |
| Generate & Seal smoke and recovery, `scripts/smoke_generate_and_seal.py`, `scripts/resume_generate_and_seal_checkpoint.py`, `…/generate_checkpoint.py` | one checkpoint file, private files of the paid bytes | pay for a generation; finish one from its checkpoint | buckets, repository |
| Custody smoke, inspection and recovery, `scripts/smoke_b2_custody.py`, `scripts/inspect_b2_smoke_state.py`, `scripts/resume_b2_custody_checkpoint.py` | none on disk; the buckets | store, challenge and clean up a fixture; judge what is there; finish the cleanup | both buckets |
| Control-plane smoke and recovery, `scripts/smoke_supabase_control_plane.py`, `scripts/resume_supabase_control_plane_checkpoint.py` | none on disk; the registry | register, verify, block, revoke a fixture; finish that | repository, gate |
| Multimodal live script, `scripts/smoke_multimodal_generate_and_seal.py` | a checkpoint and private files per operation, a stage tracker | one image and one audio operation, recovery, `--resume-existing` | everything |
| Provider smokes, `scripts/smoke_gemini_image_provider.py`, `scripts/smoke_openai_image_provider.py` | a checkpoint of their own | one provider call each | providers |
| Providers, `…/generation/` | none | one call | remote APIs |
| Envelope, signer, capsule | none | sign, verify, embed | – |
| Web, `web/src/` | browser and proxy state | proxy delivery, verify a file locally | the API |

**Processes and threads.** The API is one process with one uvicorn worker (`Dockerfile:30`); its synchronous
routes run on the threads of a pool. `railway.toml` replaces the process on failure and on deployment. The
scripts are processes of their own that call the same services against the same buckets and database. So
inside the API, threads share memory and the two locks; between processes only the buckets and the database
are shared.

**What is hard.** A certificate can be revoked between two steps of a request. The buckets have no
transactions: an upload may succeed and its answer be lost, the client then repeats it within the same call
(`b2_storage.py:423-430`), a rollback may fail or remove what somebody else has just found under the same
content-addressed key, and a locked vault version can never be removed.
Registration is one database transaction, but concurrent ones wait on each other, and their answers may be
lost after the commit. A script may end anywhere, be started twice, and leave calls that take effect after
it; the next one has only a file, or only the buckets and the registry, to tell what happened. Each of these
is listed in `PROJECT.json` under `hazards`, at its line, with the properties that would catch it.

**What makes each part correct.**
*Gate*: nothing revoked before a request is served by it, the decision is that of one instant, and the audit
trail is complete and consistent. *Registration*: all rows or none, immutable, no duplicates, no caller
misled, no deadlock. *Custody*: a receipt proves retained vault versions, no cleanup touches the vault, a
rollback removes only its own uploads, and what stays locked is reported. *Generate & Seal*: success only
after custody and registration, one certificate per key, conflicts only when real, no second generation
after registration, the lock always released.
*Readback*: bounded attempts and sleep over both phases, giving up only when spent. *Live script*: one
billable call unless a provider definitively refused, nothing paid for is lost or uploaded again, and a report
only for two complete operations. *Recovery scripts*: they come to an end from every state an interruption
leaves, never undo or overwrite what is done, delete nothing whose bytes are not stored in the vault, and
report only what is true.

## 2. Modules

| Module | Models | Role |
| --- | --- | --- |
| `VerifyGate` | `verify`, `authorize_delivery`, `LazyDeliveryStorage`, the event tables, registry changes, restart | detailed |
| `DeliveryContract` | the decision at one instant | abstract; `VerifyGate` implements it |
| `RegisterRpc` | the PL/pgSQL function as concurrent transactions over four tables | detailed |
| `BundleRegistry` | an immutable set of bundles that can be revoked | abstract; `RegisterRpc` implements it, `GenerateSeal` uses its `Accept` and `RevokeBundle` |
| `Custody` | `execute_b2_custody` over shared buckets, in one and several processes | detailed |
| `GenerateSeal` | `generate_and_seal` with lock, idempotency, failures and crashes | composes the endpoint with `BundleRegistry` |
| `IssueOnce` | what an idempotency key means to a caller | abstract; `GenerateSeal` implements it |
| `ReadbackBudget` | `_bounded_exact_readback` over its two phases | detailed |
| `LiveOperation` | the live script: both operations, their checkpoints, interruptions and reruns | detailed |
| `SealRecovery` | an interrupted Generate & Seal operation and the recovery of it, from its checkpoint | detailed |
| `Inspection` | the inspector's verdict and the recovery's own, over one observation of the buckets | operators, used by `CustodyRecovery` |
| `CustodyRecovery` | the custody smoke, the recovery and an operation of the service over both buckets | detailed |
| `ControlPlaneRecovery` | the control-plane smoke and its recovery over the registry, with clients and an operator | detailed |
| `MC*` | the instances TLC checks | – |
| `*Proofs` | theorems about the module of the same name; `CustodyProofs` also has those of `ReadbackBudget`, `CustodyRecoveryProofs` those of `Inspection` | – |

### VerifyGate
`certs[c]` is a row of `certificates` reduced to what `verify` can tell apart: its status and the first
check of its evidence that fails (`Evidence`). An envelope that fails to match or to parse and a custody
record that does not match have the same verdict, so they are one value; a row without its asset is another,
because `authorize_delivery` tests for it again. A request thread makes one step per call that leaves the
process (`ReadCertificate`, `RecordVerification`, `Reread`, `IssueDownload`, …), because others run in
between; `Decide` is the chain of tests of `service.py:387-405`. `CheckAdapter`, `AcquireLock` and
`BuildAdapter` are the double-checked construction in `runtime.py:23-28`, whose factory may raise.
`RepositoryFailure` lets any repository call raise, after its insert was stored or not. `Register`,
`Revoke`, `Tamper` and `LoseSealed` are what other processes do to the registry and the bucket. `Restart`
loses the threads and the adapter. Event identifiers, random UUIDs in the database, are `<<thread, n>>`. The
field `revokedBefore` of a request is history: the code does not have it.

`ImplementsContract` maps the instant of the decision to the first read. It says that whatever happens
later, an allowed request was good at one instant between its arrival and its answer. That no URL leaves
once the certificate is revoked is stronger, and false (section 4).

### RegisterRpc
A bundle is `[key, sealed, body]`: the three identifiers are derived from one idempotency key
(`generate_and_seal.py:194-202`), `sealed` is `sealed_sha256` (unique in two tables), `body` stands for all
other columns. Each caller runs one READ COMMITTED transaction: `Insert` is `ON CONFLICT (identifier) DO
NOTHING`, `Check` the test that follows it. An insert whose unique values are held by an uncommitted row
waits (`Blocked`, the behaviour of PostgreSQL); a clash on `sealed_sha256` alone is an exception, because it
is not the conflict target. `Commit` may lose its answer, `Fail` may strike anywhere before it. Every
exception is a rollback.

### Custody
Slots 1 to 4 are the objects in the order they are stored: source and manifest in the assets bucket, then in
the vault. Keys are content-addressed (`KeyOf`), so runs share them. Each slot is `HeadObject`, then `Reuse` or
`Put` and `Verified` or `NotVerified`. `Holds` is what the read-back can establish: the exact version exists
and, in the vault, its retention covers the request (`Covers`, with its tolerance of a second; the service
may round, `Rounded`). A read-back may also fail for any other reason. `NotVerified` is `_put_verified`'s
own cleanup for assets, and `B2PersistedObjectError` for the vault. `Fail` is every other exception, then
`Delete` and `Raise` are the rollback and what the error reports. `Begin` carries the exclusion of the
service's lock, per process. Retention is in half seconds or seconds.

The client of the buckets makes up to three attempts of a call. A put without an answer (`Unanswered`) is
repeated, or the call fails; either way the put is in `late`, from where it may take effect at any time
(`LatePut`) or never. So a run can leave versions it never learns of, locked ones in the vault among them,
and a run that completes can too: nothing in the code prevents that. What the head before each upload
achieves is `NothingIsStoredAgain`: bytes that are stored are not uploaded again by a run that begins later.
`seen`, the runs begun when a version was stored, is history.

### GenerateSeal
One action per stage of `generate_and_seal`. The fingerprint is the request itself; the sealed digest of an
image differs in every call, that of audio is the digest of the provider's bytes (`SealedDigest`). Custody
and registration are single steps here, each looked into by its own module. `Register` covers the
registration and the `registered` checkpoint in their one `try`: the answer may be lost after the commit.
The repository turns any exception of its client into `RepositoryError` (`supabase_repository.py:63-69`), so
the call may also end, and leave the lock, while its registration is still on its way (`GiveUp`); it is then
`pending` and commits later or never (`LateRegister`). Crashes drop a process's calls and its lock, and leave
such a registration too. A call that has looked its key up, and is about to pay the provider, cannot know of
a certificate that lands then from another process or from a pending registration. `blind` (history) names
these calls, and `NoGenerationOnceRegistered` excepts them and no others.

### ReadbackBudget
Time is in quarters of a second, a read takes any of `ReadTimes`. `Spent` is the test of
`b2_storage.py:1032`, made after a failed read only; `NoAttemptLeft` is the retention phase that finds the
attempts used up.

### LiveOperation
`ckpt[o]` is the checkpoint file of an operation, reduced to what the script's decisions read: the state,
the two call counters, whether a retry is allowed, which results are recorded, and the stage rows. A row is
written when the *next* stage begins (`Tracked`), a result when it arrives, and the stage under way (`cur`)
is memory. Every write of the file and every call that leaves the process is a step, and `Interrupt` may end
the run between any two. `Submit` is the durable mark before the call, `Call` the submission, `Capture` and
`Reject` what is made of its answer. From `custody` on, the same steps are taken by the service and by
recovery (`service` tells which); after the service has returned, the run walks over what it recorded once
more, as `_run_operation` does. `Store` may fail whatever it has stored. The custody workflow is one step
here and the certificate one row; `Custody` and `VerifyGate` look into them.

`bucket[o]` has the versions of the sealed asset. `Put` is one that was answered, its read-back and the
cleanup of a failed one included; `PutAgain` is the client's repetition of one that was not, which leaves
that put to take effect by itself (`LatePut`), as does an interruption while the put is under way. The same
holds of a registration (`LateRegister`). A certificate that came between the script's look and its
registration is the same bundle or is refused (`RegisterRefused`): the service and the recovery code write
different parameters into the generation run. `SealedOnce` is therefore about the versions a run was told of:
a second one in the bucket comes from a repeated or late put only. In `VerifyStage` the download, its
comparison and the final secret scan are data.

### SealRecovery
`ckpt` is the checkpoint file: the operation, its state, which vault versions are known, the recorded
version of the sealed asset. `Init` is every checkpoint an earlier live run can have left (`Interrupted`:
each state `checkpoint_event` writes, with what may already be in the bucket or the registry, or still on
its way). A recovery reads the registry (`Lookup`), checks the locked versions (`CheckVault`), then for the
copies and the sealed asset alike reuses a version (`Reuse`: the exact one, or the newest under the key), or
uploads and reads back one (`Put`, `Verified`, `NotVerified`); it records, registers, confirms, completes
and reports. Every remote call and every write of the file is a step, `Interrupt` may come between any two,
the client repeats a put whose answer is lost (`PutAgain`), and that put, or the upload or registration of a
dead run, may take effect later (`LatePut`, `LateRegister`). `Write`
keeps a complete checkpoint complete (`AtLeast`), as the script does. `Live` is today's live script: it
pays, keeps the private files, and fails to build the checkpoint (`PreparedFields` against
`CheckpointFields`, finding 3).

### Inspection and CustodyRecovery
`Verdict` is the inspector's exit code, the lowest that applies; `Accepts` what the recovery asks before it
deletes: two decisions written apart in the code. They are not the same. The recovery refuses a record
without VersionId, date or content type (`exact`) and any failure, also that of a listing entry without a
key, and the inspector's code looks at neither (`Evident`). The inspector asks for Object Lock and for no
public object (`Private`), and the recovery does not. `VerdictsAgree` says that these are all the
differences: the verdict is 0 and the observation is evident exactly when the recovery accepts and the
observation is private. `CustodyRecovery` has the smoke (`Reuse`, `Put`,
`Rollback`), the recovery (`InspectAssets`, `InspectVault`, `FindVersions`, `Download`) and what both end
with: `CheckRetained`, `Challenge` (a delete of a locked version, which is a real delete when its retention
has lapsed), the two deletes of the unlocked copies, `VerifyAbsent`, `Report`. The inspection lists the two
buckets at two moments. `ServiceCustody` and `ServiceSealed` are an operation of the service in the same
buckets, which the scripts cannot tell from their fixture; as the inspector knows no `sealed/` prefix, the
recovery refuses from the sealed upload on. `Tick` lets retention lapse.

### ControlPlaneRecovery
`rows` and `events` are what the registry has of the bundle of each smoke run. The constant `sealed_sha256`
of the fixture is unique in the table, so the registry takes one bundle for ever (`Free`). The recovery
discovers and validates a bundle (`Discover`, `Validate`), reads the certificate and revokes it unless it
was revoked by a smoke (`ReadRevocation`, `Revoke`), confirms that the row counts are those it started from
(`RowsKept`) and reports. `Ask` is a request of an API client, which adds the same events; `OperatorRevokes`
a revocation from outside. A call that writes may be carried out without its answer (`Answered`), or be
abandoned and carried out when the script has ended (`Abandon`, `Land`).

The smoke registers its bundle again (`RegisterAgain`), and once more with another model
(`RegisterConflict`). It takes any `RepositoryError` of that second call for the refusal
(`smoke_supabase_control_plane.py:793-796`), a timeout as well, so `passed` means that the smoke went through
both stages, not that the registry refused the conflicting bundle.

## 3. Runs

Deadlock checking is on in `live`, `live_report`, `custody_recovery` and `control_plane_recovery` (the
operator can always start a script again) and off elsewhere: the requests, calls and runs are bounded, and
the system is meant to be quiet when all of them are done; a checkpoint that cannot be recovered stays.

| Run | Instance | States | What it shows |
| --- | --- | --- | --- |
| `gate` | 2 threads, 1 certificate, 1 request each, 1 restart, fair | 479,377 | the safety of the gate, `ImplementsContract`, and that every request ends |
| `rpc` | 3 sessions, 4 bundles (retry, twin digest, unrelated), fair | 217,096 | atomicity, truth of answers, `ImplementsRegistry`, every call returns |
| `custody` | 2 processes, 2 jobs with a common source, 1 fault (a crash, a put without an answer, or a delete of a rollback that fails), 1 failing call | 1,858,420 | what holds without a common lock: retention, an untouched vault, rollbacks of own uploads only, complete reports, nothing uploaded again |
| `custody_receipts` | the same, no fault | – | **violated**: finding 1 |
| `seal` | 2 threads of one process and 1 of another, 2 keys, 1 crash or registration given up, fair | 394,862 | answers backed by evidence, no second generation, the lock always left, `ImplementsPromise` |
| `readback_budget` | the constants of the code, reads of 0 to 9.75 s | 1,671 | the budget |
| `live` | 2 failures (interruptions, puts repeated) over both operations, late puts and registrations, revocations, fair | 330,927 | what is paid, stored, registered and reported; recovery ends |
| `live_report` | 1 failure | – | **violated**: finding 2 |
| `seal_recovery` | 2 recoveries, 1 live run, 2 troubles (interruptions, puts repeated), every checkpoint, fair | 851,060 | agreement of checkpoint and certificate, no way back, recovery ends |
| `smoke_seal` | 2 live runs, no trouble | – | **violated**: finding 3 |
| `custody_recovery` | 1 smoke process (2 runs), 2 recoveries, 2 manifests, 1 trouble, retention of one day, fair | 461,871 | what may be deleted, what a report is worth, equal verdicts, the cleanup ends |
| `control_plane_recovery` | 2 smokes, 2 recoveries, 2 bundles, 2 asks, 2 troubles, late writes, fair | 432,400 | reports are earned, a revocation stands, the recovery finishes |

**Bounds, and why they are enough.** `MaxRequests`, `MaxCalls`, `MaxRuns`, `MaxSmokes`, `MaxPaid` and
`MaxAsks` bound how often an actor starts; `MaxRestarts` how often the API restarts; `MaxFaults` how often a
process dies, the answer of a put does not come, or a delete of a rollback fails; `MaxFailures` and `MaxTroubles` how often a call fails, an answer is
lost, a script ends, or is started beside another; `MaxTime` and `Days` the clock. Two requests of two threads reach every pair of steps of the
gate, whose requests share only the adapter, its lock and the registry. In `RegisterRpc` three callers can
hold, wait and retry at once; the bundles are the ways two can clash (same key, same digest, neither). In
`Custody` two runs suffice for one to find what another left or is about to delete; two runs of one job
share every key, and two of different jobs the source, whose first retention may not cover the second. One
put without an answer leaves, by its repetition, both a version the run knows and one it does not. In
`GenerateSeal` the one process lets a thread wait for another's call and retry it, the other has no lock in
common with it, and two keys include a clash of audio bytes. In `LiveOperation` two failures reach every
pair of interruptions, so also one of the recovery from another; the definitive refusal, its retry and the
revocations are not counted among them. In `SealRecovery` two troubles are two interruptions, or one and an
overlap; the start is every checkpoint, so no run has to be reached first. In `CustodyRecovery` the second
run of the smoke meets what the first left, under the same manifest or another. Symmetry (of workers, whose
identity is never compared) is used only in `custody`, which checks no liveness.

**Fairness.** `VerifyGate!FairSpec` and `GenerateSeal!FairSpec` are weak fairness of the steps of a thread
that has begun: its calls return or raise, since all clients have timeouts. Nobody is assumed to send a
request, and nothing is assumed of who gets the service's lock next. `EveryRequestEnds` needs no fairness
for the lock itself, because at most one construction is under way and its holder moves.
`RegisterRpc!FairSpec` is weak fairness of a transaction's own statements, not of its failures. The fairness
of the scripts is that a run goes on and that the operator starts the script again until it is done;
failures are finite in number. In `LiveOperation` it is `WF(Step)` and `WF(Start)`, in `SealRecovery` the
same of each process, in `CustodyRecovery` a single `WF(Proceed)` (some script goes on, whichever), in
`ControlPlaneRecovery` one of the smokes and one of the recoveries. The liveness properties except what the
scripts refuse on purpose: an ambiguous provider outcome, a second rejection, a certificate revoked by
somebody else, and for `SealRecovery` an overlap of two recoveries.

**Overlaps.** Nothing keeps an operator from starting a script twice. The recovery models do, and count it in
`overlaps`. Two recoveries of one checkpoint can break the agreement of checkpoint and certificate: the
second reuses a version that the failed read-back of the first then deletes, and registers it. No document
promises otherwise, so the properties of the recoveries that fail under overlap are stated for `overlaps =
0`. `RevokedOnce` also leaves out a revocation that an ended script asked for and that is still on its way:
the update is unconditional, and nobody can see it coming. `CompleteIsRegistered`, `ReportIsTrue` and `ReportIsEarned` hold whatever overlaps.

**Mutants.** Definitions whose comment begins with *Faulty* are plausible mistakes in the definition that
follows them. They are not part of any specification: `PROJECT.json` pairs each with the property that
notices it.

## 4. Findings

1. `custody.py:513`: the rollback of a run in one process may delete an assets version that a run in another
   process found and put in its receipt. The vault versions are never affected.
2. `smoke_multimodal_generate_and_seal.py:1622`: interrupted just after `generated`, `prepared` or
   `registered` was written, a run loses the row of the stage that produced it, because rows are written
   late and a recorded result is not produced again. The rerun completes the operation; finalization and
   `--resume-existing`, which ask for every declared row, refuse it for ever. Nothing paid for is lost.
3. `smoke_generate_and_seal.py:286`: the `prepared` event carries six fields that
   `GenerateAndSealCheckpoint`, which forbids extra ones, does not have. The live script raises after it has
   paid; the checkpoint is not written, and every rerun draws a new key and pays again. `README.md:474`
   promises to resume from persisted evidence.

Observed and accepted, or too small for a run:

* `service.py:470`: a certificate revoked between the first and the second read of a delivery request is
  still served, although the row then in hand says revoked. The window is one request;
  `RevokedBeforeIsNeverServed` is what holds, and is proved.
* `custody.py:534` reports as retained (`custody.py:228`) the assets versions that the rollback has just
  deleted.
* "Ten seconds total" (`docs/architecture.md:246`) is not a limit on the readback, as `b2_storage.py:1031`
  looks at the time only after a read that failed; `EndsSoonAfterDeadline` is the limit.
* `resume_generate_and_seal_checkpoint.py:762` computes the request fingerprint from three fields, the
  endpoint from six: an identical retry through the endpoint of an operation finished by recovery is a
  conflict. A checkpoint without the VersionId of a locked version cannot be recovered.
* A custody recovery that ends between its two deletes leaves a set that every later one refuses. It does
  not ask whose copies it deletes: those of a production operation qualify between its custody and its
  sealed upload. The same bytes are stored in the vault then (`CleanupKeepsTwin`), retained when the script
  began; that retention may lapse between the challenge and the deletes.
* The inspector says that the cleanup is what is missing (exit code 0) of sets the recovery refuses: a record
  whose head names no VersionId or no date, a listing with an entry that has no key
  (`resume_b2_custody_checkpoint.py:228-237`, 244; `inspect_b2_smoke_state.py:390-402`).
* A put whose answer is lost is repeated by the client, and leaves a version nobody reports; in the vault it
  stays locked. `FailureReportsVault` is about the versions whose VersionId a run was told.
* The control-plane smoke reports the conflicting duplicate as rejected whichever way its call failed. The
  row counts and the model it reads afterwards do show that nothing was changed until then.
* A control-plane smoke that ends before its delivery event cannot be recovered, and its sealed digest keeps
  every later smoke from registering. The report of a recovery says `original_checkpoint_passed` from rows
  that clients may have written.

## 5. Proofs

Eight modules hold theorems; none of their modules declares a RECURSIVE operator. Each theorem is `Spec =>
[]Inv` from `Init => IInv`, `IInv /\ [Next]_vars => IInv'` and `IInv => Inv`, with one step per action;
those about what a step may never do, or that one module implements another, use the same invariants. The
assumptions are those named in the modules (`GateAssumption`, `AbsentIsNoRow`, `RpcAssumption`,
`CustodyAssumption`, `SealAssumption`, `UnissuedAssumption`, `BudgetAssumption`, `LiveAssumption`,
`SealRecoveryAssumption`, `CustodyRecoveryAssumption`, `ControlPlaneAssumption`), which TLC also evaluates.
They ask for natural bounds, for marker values (`Absent`, `Unissued`) that are no rows, and for the sets a
state must draw from (`Keys`, `Requests`, `Media`) not to be empty.

* `VerifyGateProofs`. `GateInv` says, per thread, what each location implies about its events and its
  verdict, that no event carries an identifier not drawn yet, and that a request that arrived after a
  revocation never holds the verdict *verified* (a revoked row stays revoked). `AdapterInv` is a second
  invariant: a thread that builds the adapter holds the lock, and has seen no adapter since.
  `GateImplementsContract` maps each step to a step of `DeliveryContract` or a stutter, with `GateInv` and
  the decision of `DecideSound`.
* `RegisterRpcProofs`. `RpcInv` adds to the properties that the tables in which a transaction has inserted
  are all the tables it has passed, or none because its bundle is registered already (`Held`), and that an
  uncommitted row clashes with no committed one (`NoClash`). That is why the commit keeps the tables equal:
  no other transaction can make an identifier taken half-way. `RpcImplementsRegistry` maps the commit to
  `Accept` and everything else but a revocation to a stutter.
* `CustodyProofs`. Runs interfere through content-addressed keys, so the invariant says what a run may rely
  on whatever the others do. `StoreInv`: a version number is given out once, and its owner is a run that has
  begun. `RunInv`: the versions in `created_assets`, and the one being verified, are the run's own (`Mine`);
  what it uploaded is behind it, in hand and, in the vault, among `partial_objects`; the vault versions
  behind it are retained as asked (`Proved`); no receipt is its own yet. `Reported` and `ReceiptInv` keep
  what a failure and a receipt said. `SeenInv`, for `NothingIsStoredAgain`: of two versions of a key, and of a
  version and a put on its way or about to be made, the newer is of a run that was there before the older
  was stored, since a run puts only what its own head did not find. `Change` is what a step of one run may do to the rest, and `Others`
  that it leaves their `RunInv`; `GivesUp` is common to the four ways of failing. No lock between processes
  is assumed: `ReceiptsProveCustody` and `RollbackIsOwn` hold where finding 1 is possible.
* The last section of `CustodyProofs` is about `ReadbackBudget`. `BudgetInv` relates reads to attempts, sleep
  to time, and keeps `now` within `MaxWait` plus one read before the last phase. It holds for any backoff
  sequence and any set of read times.
* `GenerateSealProofs`. `SealInv` says that whoever is past the lock of its process holds it (`LockInv`), so
  one call of a process runs at a time; that the registry has one bundle of a key (`OneBundle`); and what a
  call has established at each place (`Progress`): custody before the upload, both before the registration,
  its own bundle registered before the second read. `SuccessIsBacked` and `CertificateIsBacked` then follow
  from the order of the stages. `NoGenerationOnceRegistered` needs the lock: between the lookup that found
  nothing and the call of the provider no other thread of the process can have registered the key. Another
  process can, and so can a registration given up earlier (`PendingInv`: its evidence is stored all the
  same); the registration of the call that pays then is refused. `SealImplementsPromise` maps the
  registrations, late ones too, and the answers to the steps of `IssueOnce`, and everything else to a
  stutter.
* `LiveOperationProofs`. `LiveInv` ties a checkpoint to the world: `Submissions` counts what was submitted
  by what the file says, up to one unrecorded answer; `Recorded` says which objects and which certificate
  each state implies; `Reached` what a run has established at each place, by the service or by recovery;
  `Place` where its stage is; `OneTold` that one stored version at most was told to a run, and that no run puts
  another while it is there. `OneCallIsBilled` follows from `Submissions`, the agreement with the registry
  from `Recorded`. `ReportInv` adds that the last answer behind a paid checkpoint is a valid one (`Paid`),
  that no stage is under way between runs, and that once there is a report both checkpoints are complete
  and have exactly the declared rows, which no later step changes; `ReportsAreEarned` follows.
* `SealRecoveryProofs`. `SeenInv`: whoever claims a registered state, in the file, in memory or by its
  place, has a certificate behind it, which no step removes; it needs nothing of overlaps. `AloneInv` holds
  while no two recoveries overlapped: a run's copy of the checkpoint is the file, the version in hand, on
  its way or recorded is the one the certificate names or will name. `BackInv` adds what keeps a certificate
  backed then: versions are numbered in the order they are put, so the version a run has just put, and alone
  may delete again, is none that a certificate or a registration on its way names (`Held`); and what the run
  has in hand behind its read-backs is stored (`Receipts`).
* `CustodyRecoveryProofs`. Versions are numbered once (`Fresh`), so what is gone stays gone, and a vault
  version stays while it is retained; `ScriptInv` carries what a script has seen locked from its check to
  its report. `TwinInv`, for `CleanupKeepsTwin`: a smoke has locked the source before it holds the manifest
  of the vault (`Stocked`), what a recovery accepts is paired (`AcceptedIsPaired`, from `Accepts`), and from
  the check of the versions on every copy in hand has a twin stored in the vault whose retention reached
  beyond the start of the script (`Locks`). A script that is alone is the only one to delete, and a challenge
  that removes a version ends it. `VerdictMatchesRecovery` is about `Inspection` alone: of every observation,
  also those no bucket gives, the verdict is zero and the observation `Evident` exactly when the recovery
  accepts and the observation is `Private`. `VerdictsAlwaysAgree` is that theorem for the observations of the
  run.
* `ControlPlaneRecoveryProofs`. The registry has one bundle (`OnlyOne`); events imply a passed smoke or a
  client (`EventsBehind`); `ScriptInv` says what a script may rely on at each place, `Alone` that
  without overlaps nobody revokes behind its back, and `LateInv` what an abandoned write may still do: a late
  event belongs to a bundle whose smoke passed, and a late registration meets the uniqueness of the digest.

Only model-checked: liveness under fairness, which is outside the prover's reach (`EveryRequestEnds`,
`EveryCallReturns`, `LockIsReleased`, `CleanupCompletes`, `RecoveryFinishes`, and `RecoveryCompletes` of
`LiveOperation` and of `SealRecovery`). The three findings are counterexamples and stay with TLC as well.

## 6. Not modelled, and why

* **In-memory repository**: stands in for the database in tests and local runs; what callers may assume of a
  repository is in `RegisterRpc` and `VerifyGate`.
* **Providers and their smokes**: one request and one answer each. `smoke_gemini_image_provider.py` keeps a
  checkpoint of its own with the protocol of `LiveOperation` (a durable mark before the submission, no
  second one without a definitive refusal), except that the operator may archive it.
* **Cryptography and formats** (envelope, signer, capsule, hashing, normalisation): their verdicts are data
  (`Evidence`).
* **Settings, composition, HTTP details, readiness and diagnosis scripts, key generation**: no state that
  changes, or straight-line I/O.
* **Web application**: a proxy without state, which may give up while the API goes on (an issued delivery
  nobody received is allowed), and a verifier in the browser.
* **Database**: row-level security, grants and the column migration.
* **Parts of modelled scripts**: `smoke_generate_and_seal.py` from line 490 on, which its run does not reach
  (finding 3); `--preflight`; the row-level-security probe and the secret scans, which only read and refuse;
  the contents of reports; the refusal to replace an existing report file without `--force`
  (`smoke_multimodal_generate_and_seal.py:1278`, `smoke_supabase_control_plane.py:953`,
  `resume_supabase_control_plane_checkpoint.py:473` and 630, `resume_b2_custody_checkpoint.py:495`): the
  operator names a new file. `SealRecovery` has the copies of the source and of the manifest as one kind,
  which the script finds, stores and records in the same way one after the other.
* **Requests that take effect late**: puts in `Custody`, `LiveOperation` and `SealRecovery`, registrations in
  `GenerateSeal`, `LiveOperation` and `SealRecovery`, every write of the control-plane scripts. Left out are
  the late put of a copy by the live run that `SealRecovery` starts from (its own late puts of copies are
  there), the client's own repetition of a put in `CustodyRecovery` (a put there is made once in a call), the
  late calls of a dead custody script, and deletes that take effect late.
* **Two live runs at once**: nothing locks the checkpoint of the multimodal script; `LiveOperation` has one
  run under way at a time.
* **The first upload race**: two uploads under one key between head and put are in `Custody`;
  `CustodyRecovery` takes head and put as one step.
