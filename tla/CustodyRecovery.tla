--------------------------- MODULE CustodyRecovery ----------------------------
(***************************************************************************)
(* The custody smoke of the two B2 buckets and its recovery:               *)
(* scripts/smoke_b2_custody.py stores the four objects of a local fixture, *)
(* proves that the vault refuses a delete and removes the unlocked copies  *)
(* again; scripts/resume_b2_custody_checkpoint.py does what an interrupted *)
(* smoke left undone, on what scripts/inspect_b2_smoke_state.py finds.     *)
(*                                                                         *)
(* The scripts keep nothing on disk between their runs: the buckets are    *)
(* all the state there is, and they are shared with the operations of the  *)
(* service.  A script may end anywhere, at the call under way or after it; *)
(* calls of an ended script that take effect later are left out.           *)
(***************************************************************************)
EXTENDS Naturals, FiniteSets, Inspection

CONSTANTS
    Smokes,         \* processes of the smoke script
    Recoveries,     \* processes of the recovery script
    Manifests,      \* canonical manifests the fixture may be given
    Days,           \* retention of a new vault version
    MaxTime,        \* bound: the clock
    MaxSmokes,      \* bound: runs of the smoke script
    MaxTroubles     \* bound: crashes and failing calls, and scripts started while another
                    \* one runs

ASSUME CustodyRecoveryAssumption ==
    /\ Smokes \intersect Recoveries = {}
    /\ Days \in Nat \ {0}
    /\ {MaxTime, MaxSmokes, MaxTroubles} \subseteq Nat

Scripts == Smokes \union Recoveries

\* The source of the fixture is deterministic; its manifest names a temporary path.
\* paid, sealed: bytes of an operation of the service.
Bytes == Manifests \union {"fixture", "paid", "sealed"}

\* An object version; until is meaningful in the vault only.  A key is a kind and the
\* digest of the bytes; the inspector knows no kind for the key of a sealed asset.
Object == [role : Role, kind : Kind \union {"unknown"}, bytes : Bytes, version : Nat,
           until : Nat]

VARIABLES
    stored,     \* object versions in the two buckets
    puts,       \* versions ever stored
    now,        \* the clock
    pc,         \* where each script is
    started,    \* the time of its start
    slot,       \* the object a smoke is at, in the order of Slots
    manifest,   \* the manifest of its fixture
    hand,       \* the versions it works on
    created,    \* those it uploaded itself
    reports,    \* the versions named by the reports written
    service,    \* how far the operation of the service is
    smokes,
    failures,
    overlaps    \* how often a script was started while another one ran

local == <<pc, started, slot, manifest, hand, created>>
counters == <<smokes, failures, overlaps>>
vars == <<stored, puts, now, local, reports, service, counters>>

Location == {"idle", "store", "rollback", "list_assets", "list_vault", "versions",
             "download", "retained", "challenge", "delete_source", "delete_manifest", "absent", "report"}

TypeOK ==
    /\ stored \subseteq Object
    /\ puts \in Nat
    /\ now \in Nat
    /\ pc \in [Scripts -> Location]
    /\ started \in [Scripts -> Nat]
    /\ slot \in [Scripts -> 1..4]
    /\ manifest \in [Scripts -> Bytes]
    /\ hand \in [Scripts -> SUBSET Object]
    /\ created \in [Scripts -> SUBSET Object]
    /\ reports \subseteq SUBSET Object
    /\ service \in {"none", "custody", "sealed"}
    /\ smokes \in Nat
    /\ failures \in Nat
    /\ overlaps \in Nat

Init ==
    /\ stored = {}
    /\ puts = 0
    /\ now = 0
    /\ pc = [x \in Scripts |-> "idle"]
    /\ started = [x \in Scripts |-> 0]
    /\ slot = [x \in Scripts |-> 1]
    /\ manifest = [x \in Scripts |-> "fixture"]
    /\ hand = [x \in Scripts |-> {}]
    /\ created = [x \in Scripts |-> {}]
    /\ reports = {}
    /\ service = "none"
    /\ smokes = 0
    /\ failures = 0
    /\ overlaps = 0

-------------------------------------------------------------------------------
(* The buckets. *)
SameKey(o, p) == o.role = p.role /\ o.kind = p.kind /\ o.bytes = p.bytes

\* The versions a head or a listing shows: the newest of each key.
Current == {o \in stored : \A p \in stored : SameKey(o, p) => p.version <= o.version}

\* put_object; into the vault with the retention of a run that started at a time.
New(role, kind, bytes, time) ==
    [role |-> role, kind |-> kind, bytes |-> bytes, version |-> puts + 1,
     until |-> IF role = "vault" THEN time + Days ELSE 0]

-------------------------------------------------------------------------------
(* How a script ends: what it had in memory is gone. *)
Over(x) ==
    /\ pc' = [pc EXCEPT ![x] = "idle"]
    /\ started' = [started EXCEPT ![x] = 0]
    /\ slot' = [slot EXCEPT ![x] = 1]
    /\ manifest' = [manifest EXCEPT ![x] = "fixture"]
    /\ hand' = [hand EXCEPT ![x] = {}]
    /\ created' = [created EXCEPT ![x] = {}]

TroubleLeft == failures + overlaps < MaxTroubles

Trouble == TroubleLeft /\ failures' = failures + 1

Goto(x, l) == pc' = [pc EXCEPT ![x] = l] /\ UNCHANGED <<started, slot, manifest, hand, created>>

\* A crash, or an exception outside custody: nothing is cleaned up.
Crash(x) ==
    /\ pc[x] # "idle"
    /\ Trouble
    /\ Over(x)
    /\ UNCHANGED <<stored, puts, now, reports, service, smokes, overlaps>>

Begin(x) ==
    /\ pc[x] = "idle"
    /\ started' = [started EXCEPT ![x] = now]
    /\ IF \A y \in Scripts : pc[y] = "idle"
       THEN UNCHANGED overlaps
       ELSE TroubleLeft /\ overlaps' = overlaps + 1
    /\ UNCHANGED <<stored, puts, now, hand, created, reports, service, failures>>

-------------------------------------------------------------------------------
(***************************************************************************)
(* The smoke: execute_b2_custody for the fixture.                          *)
(***************************************************************************)
Slots == <<[role |-> "assets", kind |-> "source"], [role |-> "assets", kind |-> "manifest"],
           [role |-> "vault", kind |-> "source"], [role |-> "vault", kind |-> "manifest"]>>

BytesAt(x, s) == IF s.kind = "source" THEN "fixture" ELSE manifest[x]

StartSmoke(x) ==
    /\ smokes < MaxSmokes
    /\ Begin(x)
    /\ smokes' = smokes + 1
    /\ pc' = [pc EXCEPT ![x] = "store"]
    /\ slot' = [slot EXCEPT ![x] = 1]
    /\ \E m \in Manifests : manifest' = [manifest EXCEPT ![x] = m]

\* The object is held; the next one, or the end of custody.
Hold(x, o) ==
    /\ hand' = [hand EXCEPT ![x] = @ \union {o}]
    /\ slot' = [slot EXCEPT ![x] = IF @ = 4 THEN 4 ELSE @ + 1]
    /\ pc' = [pc EXCEPT ![x] = IF slot[x] = 4 THEN "download" ELSE "store"]
    /\ UNCHANGED <<started, manifest>>

\* The newest version of the key it is at, if there is one.
Found(x) ==
    {o \in Current : /\ o.role = Slots[slot[x]].role
                     /\ o.kind = Slots[slot[x]].kind
                     /\ o.bytes = BytesAt(x, Slots[slot[x]])}

\* It is reused, in the vault only if it is retained for long enough.
Reuse(x) ==
    /\ pc[x] = "store"
    /\ \E o \in Found(x) :
         IF o.role = "assets" \/ o.until >= started[x] + Days
         THEN Hold(x, o) /\ UNCHANGED created
         ELSE Goto(x, "rollback")
    /\ UNCHANGED <<stored, puts, now, reports, service, counters>>

\* There is none: it is stored and verified; or stored, and the run does not learn its
\* version.  (Module Custody separates the head from the upload.)
Put(x) ==
    /\ pc[x] = "store"
    /\ Found(x) = {}
    /\ LET o == New(Slots[slot[x]].role, Slots[slot[x]].kind, BytesAt(x, Slots[slot[x]]),
                    started[x])
       IN  /\ stored' = stored \union {o}
           /\ puts' = puts + 1
           /\ \/ /\ Hold(x, o)
                 /\ created' = [created EXCEPT ![x] = IF o.role = "assets"
                                                     THEN @ \union {o} ELSE @]
                 /\ UNCHANGED failures
              \/ Trouble /\ Goto(x, "rollback")
    /\ UNCHANGED <<now, reports, service, smokes, overlaps>>

\* A call of custody fails.
CustodyFails(x) ==
    /\ pc[x] = "store"
    /\ Trouble
    /\ Goto(x, "rollback")
    /\ UNCHANGED <<stored, puts, now, reports, service, smokes, overlaps>>

\* What custody uploaded to the assets bucket is deleted again, or is not: a failure of the
\* rollback is passed over.
Rollback(x) ==
    /\ pc[x] = "rollback"
    /\ \E gone \in SUBSET created[x] : stored' = stored \ gone
    /\ Over(x)
    /\ UNCHANGED <<puts, now, reports, service, counters>>

-------------------------------------------------------------------------------
(***************************************************************************)
(* The recovery: resume_values up to its first delete.                     *)
(***************************************************************************)
StartRecovery(x) ==
    /\ Begin(x)
    /\ pc' = [pc EXCEPT ![x] = "list_assets"]
    /\ UNCHANGED <<slot, manifest, smokes>>

\* What _inspect_object records of a version: its bytes are read and match its key, and the
\* retention of a vault version is compared with one time.
Recorded(o, time) ==
    [bytes |-> o.bytes, sound |-> TRUE, exact |-> TRUE,
     retention |-> IF o.role = "assets" THEN "UNKNOWN"
                   ELSE IF o.until <= time THEN "EXPIRED" ELSE "COMPLIANCE"]

\* What inspect_values makes of the versions it saw.  Object Lock is enabled, and no code
\* writes a public object.
Observation(seen, time) ==
    [found |-> [p \in Role \X Kind |->
                  {Recorded(o, time) : o \in {o \in seen : o.role = p[1] /\ o.kind = p[2]}}],
     failures |-> {}, public |-> FALSE, lock |-> TRUE,
     unknown |-> \E o \in seen : o.kind = "unknown"]

\* The assets bucket is listed and read, then the vault.
InspectAssets(x) ==
    /\ pc[x] = "list_assets"
    /\ hand' = [hand EXCEPT ![x] = {o \in Current : o.role = "assets"}]
    /\ pc' = [pc EXCEPT ![x] = "list_vault"]
    /\ UNCHANGED <<stored, puts, now, started, slot, manifest, created, reports, service,
                   counters>>

Seen(x) == hand[x] \union {o \in Current : o.role = "vault"}

InspectVault(x) ==
    /\ pc[x] = "list_vault"
    /\ IF Accepts(Observation(Seen(x), started[x]))
       THEN /\ hand' = [hand EXCEPT ![x] = Seen(x)]
            /\ pc' = [pc EXCEPT ![x] = "versions"]
            /\ UNCHANGED <<started, slot, manifest, created>>
       ELSE Over(x)
    /\ UNCHANGED <<stored, puts, now, reports, service, counters>>

\* All four are among the versions of their keys.
FindVersions(x) ==
    /\ pc[x] = "versions"
    /\ IF hand[x] \subseteq stored THEN Goto(x, "download") ELSE Over(x)
    /\ UNCHANGED <<stored, puts, now, reports, service, counters>>

-------------------------------------------------------------------------------
(***************************************************************************)
(* What both scripts do then.                                              *)
(***************************************************************************)
Held(x, role, kind) == {o \in hand[x] : o.role = role /\ o.kind = kind}

\* The presigned download of the assets source.
Download(x) ==
    /\ pc[x] = "download"
    /\ IF Held(x, "assets", "source") \subseteq stored THEN Goto(x, "retained") ELSE Over(x)
    /\ UNCHANGED <<stored, puts, now, reports, service, counters>>

\* The time retention is compared with: that of the start, or that of the comparison.
TimeOf(x) == IF x \in Recoveries THEN started[x] ELSE now

\* Faulty: the retention must be one of full length.
CheckRetainedInFull(x) ==
    /\ pc[x] = "retained"
    /\ IF \A o \in Held(x, "vault", "manifest") : o \in stored /\ o.until > TimeOf(x) + Days
       THEN Goto(x, "challenge") ELSE Over(x)
    /\ UNCHANGED <<stored, puts, now, reports, service, counters>>

\* prove_locked_delete_denial: the locked manifest is there, and retained ...
CheckRetained(x) ==
    /\ pc[x] = "retained"
    /\ IF \A o \in Held(x, "vault", "manifest") : o \in stored /\ o.until > TimeOf(x)
       THEN Goto(x, "challenge") ELSE Over(x)
    /\ UNCHANGED <<stored, puts, now, reports, service, counters>>

\* Faulty: a delete that is not refused is taken for a proof.
ChallengeUnchecked(x) ==
    /\ pc[x] = "challenge"
    /\ stored' = stored \ {o \in Held(x, "vault", "manifest") : o.until <= now}
    /\ Goto(x, "delete_source")
    /\ UNCHANGED <<puts, now, reports, service, counters>>

\* ... and its delete is refused.  A retention that is over refuses nothing: the version is
\* gone, and the script ends.
Challenge(x) ==
    /\ pc[x] = "challenge"
    /\ LET open == {o \in Held(x, "vault", "manifest") : o.until <= now \/ o \notin stored}
       IN  /\ stored' = stored \ open
           /\ IF open = {} THEN Goto(x, "delete_source") ELSE Over(x)
    /\ UNCHANGED <<puts, now, reports, service, counters>>

\* delete_unlocked_version_verified: this version is gone afterwards, or was before.
DeleteSource(x) ==
    /\ pc[x] = "delete_source"
    /\ stored' = stored \ Held(x, "assets", "source")
    /\ Goto(x, "delete_manifest")
    /\ UNCHANGED <<puts, now, reports, service, counters>>

\* Faulty: a delete that fails is passed over, as in the rollback.
DeleteManifestBestEffort(x) ==
    /\ pc[x] = "delete_manifest"
    /\ \E gone \in SUBSET Held(x, "assets", "manifest") : stored' = stored \ gone
    /\ Goto(x, IF x \in Recoveries THEN "absent" ELSE "report")
    /\ UNCHANGED <<puts, now, reports, service, counters>>

DeleteManifest(x) ==
    /\ pc[x] = "delete_manifest"
    /\ stored' = stored \ Held(x, "assets", "manifest")
    /\ Goto(x, IF x \in Recoveries THEN "absent" ELSE "report")
    /\ UNCHANGED <<puts, now, reports, service, counters>>

\* The recovery looks once more for the two.
VerifyAbsent(x) ==
    /\ pc[x] = "absent"
    /\ IF \A o \in hand[x] : o.role = "assets" => o \notin stored
       THEN Goto(x, "report") ELSE Over(x)
    /\ UNCHANGED <<stored, puts, now, reports, service, counters>>

Report(x) ==
    /\ pc[x] = "report"
    /\ reports' = reports \union {hand[x]}
    /\ Over(x)
    /\ UNCHANGED <<stored, puts, now, service, counters>>

-------------------------------------------------------------------------------
(***************************************************************************)
(* The rest: time passes, and the service stores an operation of its own,  *)
(* custody first and the sealed asset later.                               *)
(***************************************************************************)
Tick ==
    /\ now < MaxTime
    /\ now' = now + 1
    /\ UNCHANGED <<stored, puts, local, reports, service, counters>>

ServiceCustody ==
    /\ service = "none"
    /\ service' = "custody"
    /\ stored' = stored \union {New(role, kind, "paid", now) : role \in Role, kind \in Kind}
    /\ puts' = puts + 1
    /\ UNCHANGED <<now, local, reports, counters>>

ServiceSealed ==
    /\ service = "custody"
    /\ service' = "sealed"
    /\ stored' = stored \union {New("assets", "unknown", "sealed", now)}
    /\ puts' = puts + 1
    /\ UNCHANGED <<now, local, reports, counters>>

Finish(x) ==
    \/ Download(x) \/ CheckRetained(x) \/ Challenge(x)
    \/ DeleteSource(x) \/ DeleteManifest(x) \/ VerifyAbsent(x) \/ Report(x)

Smoke(x) == Reuse(x) \/ Put(x) \/ Rollback(x) \/ Finish(x)

Recovery(x) ==
    \/ StartRecovery(x) \/ InspectAssets(x) \/ InspectVault(x) \/ FindVersions(x)
    \/ Finish(x)

Next ==
    \/ \E x \in Smokes : StartSmoke(x) \/ CustodyFails(x) \/ Smoke(x)
    \/ \E x \in Recoveries : Recovery(x)
    \/ \E x \in Scripts : Crash(x)
    \/ Tick \/ ServiceCustody \/ ServiceSealed

Spec == Init /\ [][Next]_vars

\* Scripts do not stand still: a smoke that runs goes on, or the operator has a recovery
\* going, and starts one again when it has ended.
Proceed == (\E x \in Smokes : Smoke(x)) \/ (\E x \in Recoveries : Recovery(x))

FairSpec == Spec /\ WF_vars(Proceed)

-------------------------------------------------------------------------------
(* Properties. *)

\* What a script cleans up is in the vault: a copy is deleted from the assets bucket, by a
\* smoke or by a recovery, and whoever stored it, only if the same bytes are stored in the
\* vault as a version that was to be retained for longer than the start of that script, as
\* long as scripts do not overlap.  (The retention may be over when the copy goes: the
\* manifest's is compared once more before the challenge, the source's is not.)
CleanupKeepsTwin ==
    [][\A x \in Scripts : \A o \in hand[x] \intersect (stored \ stored') :
          /\ pc[x] \in {"delete_source", "delete_manifest"}
          /\ pc'[x] # pc[x]
          /\ o.role = "assets"
          /\ overlaps = 0
          => \E twin \in stored' : /\ twin.role = "vault"
                                   /\ twin.kind = o.kind /\ twin.bytes = o.bytes
                                   /\ twin.until > started[x]]_vars

\* A report stays true: the copies it names are gone for good, and the locked versions are
\* there for as long as they are retained, whatever later runs do.
ReportIsTrue ==
    \A h \in reports : \A o \in h :
        IF o.role = "assets" THEN o \notin stored ELSE o \in stored \/ o.until <= now

\* The buckets as an inspection finds them, and one thing that may be wrong besides: a call
\* that fails, bytes that do not match, a version that is not named, another retention, a
\* bucket without Object Lock.
WithFlaw(o, flaw) ==
    [o EXCEPT
       !.failures = {flaw} \intersect Failure,
       !.public = flaw = "public",
       !.lock = flaw # "unlocked",
       !.found = [at \in Role \X Kind |->
                    {[r EXCEPT !.sound = ~(flaw = "damaged" /\ at = <<"assets", "manifest">>),
                               !.exact = ~(flaw = "inexact" /\ at = <<"assets", "source">>),
                               !.retention = IF flaw \in Retention /\ at = <<"vault", "source">>
                                             THEN flaw ELSE @] : r \in o.found[at]}]]

Flaws == Failure \union {"none", "public", "unlocked", "damaged", "inexact", "GOVERNANCE",
                          "MISSING"}

\* The inspector sends the operator to the cleanup exactly when the recovery would do it, but
\* for what only one of them looks at: the recovery for versions, dates and entries without a
\* key, the inspector for public objects and the lock configuration.
VerdictsAgree ==
    (\A x \in Scripts : pc[x] = "idle") =>
        \A flaw \in Flaws :
            LET o == WithFlaw(Observation(Current, now), flaw)
            IN  Verdict(o) = 0 /\ Evident(o) <=> Accepts(o) /\ Private(o)

\* What the inspector calls a complete set with its cleanup pending does not stay so: the
\* recovery ends it, or the service or a retention does.
Pending == Verdict(Observation(Current, now)) = 0

CleanupCompletes == <>[]~Pending
===============================================================================
