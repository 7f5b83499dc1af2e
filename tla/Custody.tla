-------------------------------- MODULE Custody -------------------------------
(***************************************************************************)
(* execute_b2_custody: four objects (source and manifest, in the assets    *)
(* bucket and in the Object Lock vault) are stored in order, each found by *)
(* a head of its content-addressed key and reused, or uploaded and         *)
(* verified.  A failure deletes the assets versions this run uploaded.     *)
(*                                                                         *)
(* Several runs share the two buckets.  Runs of one process exclude each   *)
(* other (GenerateAndSealService holds its lock across the call); runs of  *)
(* different processes (the API, an operator's script) do not.             *)
(*                                                                         *)
(* A put whose answer is lost may take effect at any later time, or never, *)
(* and the client repeats it within the call (retries of _client_config):  *)
(* the bytes may then be there under versions that no run knows of.        *)
(***************************************************************************)
EXTENDS Naturals, FiniteSets

CONSTANTS
    Workers,        \* threads that run custody
    Processes,
    ProcessOf,      \* the process of each worker
    Jobs,           \* arguments: records [source, manifest, until]
    Second,         \* one second in the unit of retention timestamps
    MaxRuns,        \* bound: runs of one worker
    MaxFaults,      \* bound: crashes, puts without an answer, deletes of a rollback that fail
    MaxFailures     \* bound: calls that fail in any other way

ASSUME CustodyAssumption ==
    /\ ProcessOf \in [Workers -> Processes]
    /\ \A j \in Jobs : DOMAIN j = {"source", "manifest", "until"} /\ j.until \in Nat
    /\ Second \in Nat \ {0}
    /\ MaxRuns \in Nat
    /\ MaxFaults \in Nat
    /\ MaxFailures \in Nat

(***************************************************************************)
(* The four objects in the order they are stored.                          *)
(***************************************************************************)
Slots == 1..4
AssetsSlots == {1, 2}
VaultSlots == {3, 4}
LastSlot == 4
SourceSlots == {1, 3}

\* The key of a slot names its bytes: the digest of the source, or the run and the
\* canonical hash of the manifest.
KeyOf(j, s) == IF s \in SourceSlots THEN j.source ELSE j.manifest

VARIABLES
    store,          \* object versions in both buckets
    versions,       \* VersionIds given out so far for each key
    late,           \* puts under way that nobody waits for
    pc, slot,       \* where each run is
    job,            \* its arguments
    have,           \* the version of each slot it holds; 0 is none
    created,        \* created_assets: assets versions it uploaded and verified
    partial,        \* partial_objects: the versions its error would report
    runs,           \* runs each worker began
    receipts,       \* custody receipts returned
    faults,         \* crashes, lost answers and failed deletes so far
    failures        \* other failures so far

runVars == <<slot, job, have, created, partial>>
vars == <<store, versions, late, pc, slot, job, have, created, partial, runs, receipts, faults,
          failures>>

(***************************************************************************)
(* An object version; until is meaningful in the vault only.  owner and    *)
(* seen are history fields: the run that uploaded it, and the runs each    *)
(* worker had begun when it was stored.                                    *)
(***************************************************************************)
Objects(s, k) == {o \in store : o.slot = s /\ o.key = k}

\* What a head without VersionId answers with: the newest version there is.
Newest(s, k) == {o \in Objects(s, k) : \A p \in Objects(s, k) : p.version <= o.version}

Exists(s, k, v) == \E o \in Objects(s, k) : o.version = v

\* _retention_covers: equal, later, or less than one second earlier.
Covers(returned, requested) == requested < returned + Second

Run(w) == <<w, runs[w]>>
Active(w) == pc[w] \notin {"idle", "failed"}

Keys == {j.source : j \in Jobs} \union {j.manifest : j \in Jobs}
RunId == Workers \X Nat
Version == [slot : Slots, key : Keys, version : Nat, until : Nat, owner : RunId,
            seen : [Workers -> Nat]]
Upload == [slot : Slots, key : Keys, until : Nat, owner : RunId, n : Nat]
Receipt == [job : Jobs, have : [Slots -> Nat], run : RunId]

TypeOK ==
    /\ store \subseteq Version
    /\ versions \in [Slots -> [Keys -> Nat]]
    /\ late \subseteq Upload
    /\ pc \in [Workers -> {"idle", "head", "reuse", "put", "verify", "return",
                          "rollback", "failed"}]
    /\ slot \in [Workers -> Slots]
    /\ job \in [Workers -> Jobs]
    /\ have \in [Workers -> [Slots -> Nat]]
    /\ created \in [Workers -> SUBSET AssetsSlots]
    /\ partial \in [Workers -> SUBSET (Slots \X Nat)]
    /\ runs \in [Workers -> Nat]
    /\ receipts \subseteq Receipt
    /\ faults \in Nat
    /\ failures \in Nat

Init ==
    /\ store = {}
    /\ versions = [s \in Slots |-> [k \in Keys |-> 0]]
    /\ late = {}
    /\ pc = [w \in Workers |-> "idle"]
    /\ slot = [w \in Workers |-> 1]
    /\ job \in [Workers -> Jobs]
    /\ have = [w \in Workers |-> [s \in Slots |-> 0]]
    /\ created = [w \in Workers |-> {}]
    /\ partial = [w \in Workers |-> {}]
    /\ runs = [w \in Workers |-> 0]
    /\ receipts = {}
    /\ faults = 0
    /\ failures = 0

-------------------------------------------------------------------------------
Goto(w, l) == pc' = [pc EXCEPT ![w] = l]

\* A run begins; the lock of its process is free.
Begin(w, j) ==
    /\ \A x \in Workers : ProcessOf[x] = ProcessOf[w] => ~Active(x)
    /\ runs[w] < MaxRuns
    /\ runs' = [runs EXCEPT ![w] = @ + 1]
    /\ job' = [job EXCEPT ![w] = j]
    /\ slot' = [slot EXCEPT ![w] = 1]
    /\ have' = [have EXCEPT ![w] = [s \in Slots |-> 0]]
    /\ created' = [created EXCEPT ![w] = {}]
    /\ partial' = [partial EXCEPT ![w] = {}]
    /\ Goto(w, "head")
    /\ UNCHANGED <<store, versions, late, receipts, faults, failures>>

\* Faulty: a vault version whose retention falls short of the request is not found.
HeadAsksRetention(w) ==
    LET s == slot[w]
        k == KeyOf(job[w], s)
        fit == {o \in Newest(s, k) : s \in VaultSlots => Covers(o.until, job[w].until)}
    IN  /\ pc[w] = "head"
        /\ \/ /\ fit = {}
              /\ have' = [have EXCEPT ![w][s] = 0]
              /\ Goto(w, "put")
           \/ /\ \E o \in fit : have' = [have EXCEPT ![w][s] = o.version]
              /\ Goto(w, "reuse")
        /\ UNCHANGED <<store, versions, late, slot, job, created, partial, runs,
                       receipts, faults, failures>>

\* head_object_receipt of the key: absent, or the newest version.
HeadObject(w) ==
    LET s == slot[w]
        k == KeyOf(job[w], s)
    IN  /\ pc[w] = "head"
        /\ \/ /\ Objects(s, k) = {}
              /\ have' = [have EXCEPT ![w][s] = 0]
              /\ Goto(w, "put")
           \/ /\ \E o \in Newest(s, k) : have' = [have EXCEPT ![w][s] = o.version]
              /\ Goto(w, "reuse")
        /\ UNCHANGED <<store, versions, late, slot, job, created, partial, runs,
                       receipts, faults, failures>>

\* The object is held: it joins partial_objects, and the run goes on to the next slot.
Hold(w) ==
    /\ partial' = [partial EXCEPT ![w] = @ \union {<<slot[w], have[w][slot[w]]>>}]
    /\ IF slot[w] = LastSlot
       THEN Goto(w, "return") /\ UNCHANGED slot
       ELSE Goto(w, "head") /\ slot' = [slot EXCEPT ![w] = @ + 1]

\* Faulty: the retention of a vault version is not compared with the request.
HoldsIgnoringRetention(w) == Exists(slot[w], KeyOf(job[w], slot[w]), have[w][slot[w]])

\* The exact version is there and, in the vault, its retention covers the request.
Holds(w) ==
    \E o \in Objects(slot[w], KeyOf(job[w], slot[w])) :
        /\ o.version = have[w][slot[w]]
        /\ slot[w] \in VaultSlots => Covers(o.until, job[w].until)

\* Faulty: a version the head found joins created_assets.
ReuseAsCreated(w) ==
    /\ pc[w] = "reuse"
    /\ Holds(w)
    /\ created' = [created EXCEPT ![w] = @ \union ({slot[w]} \intersect AssetsSlots)]
    /\ Hold(w)
    /\ UNCHANGED <<store, versions, late, job, have, runs, receipts, faults, failures>>

\* The version the head named is downloaded and, in the vault, its retention read.
Reuse(w) ==
    /\ pc[w] = "reuse"
    /\ Holds(w)
    /\ Hold(w)
    /\ UNCHANGED <<store, versions, late, job, have, created, runs, receipts, faults,
                   failures>>

\* The service may keep the retention asked for or round it down, by up to a second.
Rounded(t) == {u \in 0..t : t <= u + Second}

\* A put takes effect: the bytes are stored under a new VersionId.
Stores(s, k, until, r) ==
    LET v == versions[s][k] + 1
    IN  /\ versions' = [versions EXCEPT ![s][k] = v]
        /\ \E u \in IF s \in VaultSlots THEN Rounded(until) ELSE {0} :
              store' = store \union {[slot |-> s, key |-> k, version |-> v, until |-> u,
                                      owner |-> r, seen |-> runs]}

\* put_object is answered with the new VersionId.
Put(w) ==
    LET s == slot[w]
        k == KeyOf(job[w], s)
    IN  /\ pc[w] = "put"
        /\ Stores(s, k, job[w].until, Run(w))
        /\ have' = [have EXCEPT ![w][s] = versions[s][k] + 1]
        /\ Goto(w, "verify")
        /\ UNCHANGED <<late, slot, job, created, partial, runs, receipts, faults, failures>>

\* The put a run has under way.
Sent(w, n) ==
    [slot |-> slot[w], key |-> KeyOf(job[w], slot[w]), until |-> job[w].until,
     owner |-> Run(w), n |-> n]

\* The answer of a put is lost, or carries no VersionId.  The client repeats the put
\* within the same call, or has done so often enough and the call fails.
Unanswered(w) ==
    /\ pc[w] = "put"
    /\ faults < MaxFaults
    /\ faults' = faults + 1
    /\ late' = late \union {Sent(w, faults + 1)}
    /\ Goto(w, "put") \/ Goto(w, "rollback")
    /\ UNCHANGED <<store, versions, runVars, runs, receipts, failures>>

\* A put that nobody waits for takes effect.
LatePut(q) ==
    /\ q \in late
    /\ late' = late \ {q}
    /\ Stores(q.slot, q.key, q.until, q.owner)
    /\ UNCHANGED <<pc, runVars, runs, receipts, faults, failures>>

\* Faulty: every uploaded version joins created_assets, those of the vault too.
VerifiedAllCreated(w) ==
    /\ pc[w] = "verify"
    /\ Holds(w)
    /\ created' = [created EXCEPT ![w] = @ \union {slot[w]}]
    /\ Hold(w)
    /\ UNCHANGED <<store, versions, late, job, have, runs, receipts, faults, failures>>

\* The uploaded version is read back by its VersionId, with its retention in the vault.
Verified(w) ==
    /\ pc[w] = "verify"
    /\ Holds(w)
    /\ created' = [created EXCEPT ![w] = @ \union ({slot[w]} \intersect AssetsSlots)]
    /\ Hold(w)
    /\ UNCHANGED <<store, versions, late, job, have, runs, receipts, faults, failures>>

\* A call fails.
Fails == failures < MaxFailures /\ failures' = failures + 1

Without(s, k, v) == store \ {o \in Objects(s, k) : o.version = v}

\* Faulty: the cleanup of a failed read-back does not ask for known_unlocked.
NotVerifiedDeletesAny(w) ==
    /\ pc[w] = "verify"
    /\ Fails
    /\ store' = Without(slot[w], KeyOf(job[w], slot[w]), have[w][slot[w]])
    /\ Goto(w, "rollback")
    /\ UNCHANGED <<versions, late, runVars, runs, receipts, faults>>

\* Faulty: a vault version that failed its read-back is not reported.
NotVerifiedUnreported(w) ==
    /\ pc[w] = "verify"
    /\ Fails
    /\ \/ slot[w] \in VaultSlots /\ UNCHANGED store
       \/ /\ slot[w] \in AssetsSlots
          /\ store' \in {store, Without(slot[w], KeyOf(job[w], slot[w]), have[w][slot[w]])}
    /\ Goto(w, "rollback")
    /\ UNCHANGED <<versions, late, runVars, runs, receipts, faults>>

\* The read-back fails.  _put_verified deletes the assets version it could not verify,
\* and may fail to; a vault version stays and is reported (B2PersistedObjectError).
NotVerified(w) ==
    /\ pc[w] = "verify"
    /\ Fails
    /\ \/ /\ slot[w] \in AssetsSlots
          /\ store' \in {store, Without(slot[w], KeyOf(job[w], slot[w]), have[w][slot[w]])}
          /\ UNCHANGED partial
       \/ /\ slot[w] \in VaultSlots
          /\ partial' = [partial EXCEPT ![w] = @ \union {<<slot[w], have[w][slot[w]]>>}]
          /\ UNCHANGED store
    /\ Goto(w, "rollback")
    /\ UNCHANGED <<versions, late, slot, job, have, created, runs, receipts, faults>>

\* The four objects are held: the receipt is returned.
Return(w) ==
    /\ pc[w] = "return"
    /\ receipts' = receipts \union {[job |-> job[w], have |-> have[w], run |-> Run(w)]}
    /\ Goto(w, "idle")
    /\ UNCHANGED <<store, versions, late, runVars, runs, faults, failures>>

\* Any other exception: a head or download that fails, a content type or a retention
\* that conflicts, an upload refused, a callback of the caller that raises.
Fail(w) ==
    /\ pc[w] \in {"head", "reuse", "put", "return"}
    /\ Fails
    /\ Goto(w, "rollback")
    /\ UNCHANGED <<store, versions, late, runVars, runs, receipts, faults>>

\* delete_unlocked_version_verified of one created version, which may fail: the error is
\* swallowed.
Delete(w, s) ==
    /\ pc[w] = "rollback"
    /\ s \in created[w]
    /\ s = 2 => 1 \notin created[w]
    /\ \/ store' = Without(s, KeyOf(job[w], s), have[w][s]) /\ UNCHANGED faults
       \/ faults < MaxFaults /\ faults' = faults + 1 /\ UNCHANGED store
    /\ created' = [created EXCEPT ![w] = @ \ {s}]
    /\ UNCHANGED <<versions, late, pc, slot, job, have, partial, runs, receipts, failures>>

\* B2CustodyWorkflowError is raised, with partial_objects.
Raise(w) ==
    /\ pc[w] = "rollback"
    /\ created[w] = {}
    /\ Goto(w, "failed")
    /\ UNCHANGED <<store, versions, late, runVars, runs, receipts, faults, failures>>

\* The process dies: its runs stop where they are, without any rollback.  A put under
\* way may still take effect.
Crash(p) ==
    /\ faults < MaxFaults
    /\ faults' = faults + 1
    /\ late' = late \union
           {Sent(w, 0) : w \in {x \in Workers : ProcessOf[x] = p /\ pc[x] = "put"}}
    /\ pc' = [w \in Workers |-> IF ProcessOf[w] = p THEN "idle" ELSE pc[w]]
    /\ UNCHANGED <<store, versions, runVars, runs, receipts, failures>>

-------------------------------------------------------------------------------
Step(w) ==
    \/ HeadObject(w)
    \/ Reuse(w)
    \/ Put(w)
    \/ Unanswered(w)
    \/ Verified(w)
    \/ NotVerified(w)
    \/ Return(w)
    \/ Fail(w)
    \/ \E s \in AssetsSlots : Delete(w, s)
    \/ Raise(w)

Next ==
    \/ \E w \in Workers : (\E j \in Jobs : Begin(w, j)) \/ Step(w)
    \/ \E q \in late : LatePut(q)
    \/ \E p \in Processes : Crash(p)

Spec == Init /\ [][Next]_vars

-------------------------------------------------------------------------------
\* A receipt proves custody: both vault versions it names exist, hold the bytes of this
\* job, and are retained until the time requested, less than a second short of it.
ReceiptProvesCustody ==
    \A r \in receipts : \A s \in VaultSlots :
        \E o \in store :
            /\ o.slot = s
            /\ o.key = KeyOf(r.job, s)
            /\ o.version = r.have[s]
            /\ Covers(o.until, r.job.until)

\* No cleanup path ever removes a vault version, whoever takes the step.
VaultOnlyGrows ==
    [][\A o \in store : o.slot \in VaultSlots => o \in store']_store

\* A rollback removes only what its own run uploaded, never a version it found and
\* reused, and never a version its receipt already names.
RollbackRemovesOwn ==
    [][\A o \in store \ store' :
          /\ \E w \in Workers : o.owner = Run(w) /\ pc[w] \in {"verify", "rollback"}
          /\ \A r \in receipts : r.run # o.owner]_store

\* The four objects of a receipt are there as long as it is.  This holds among runs
\* of one process; a rollback in another process breaks it.
ReceiptObjectsExist ==
    \A r \in receipts : \A s \in Slots : Exists(s, KeyOf(r.job, s), r.have[s])

\* A failed run reports every vault version whose VersionId it was told, the one that
\* failed its read-back included: an operator can find what stays locked.
FailureReportsVault ==
    \A w \in Workers : pc[w] = "failed" =>
        \A o \in store :
            /\ o.slot \in VaultSlots
            /\ o.owner = Run(w)
            /\ o.version = have[w][o.slot]
            => <<o.slot, o.version>> \in partial[w]

\* Bytes that are stored are not uploaded again by a run that begins later, whatever
\* calls were repeated, lost or late: of two versions of a key, the newer one belongs to
\* a run that was there before the older one.  In the vault they would stay locked.
NothingIsStoredAgain ==
    \A o, p \in store :
        /\ o.slot = p.slot
        /\ o.key = p.key
        /\ o.version < p.version
        => p.owner[2] <= o.seen[p.owner[1]]

===============================================================================
