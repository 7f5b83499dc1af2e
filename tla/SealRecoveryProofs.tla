-------------------------- MODULE SealRecoveryProofs --------------------------
(***************************************************************************)
(* Proofs about SealRecovery, for any number of recoveries, failures,      *)
(* overlaps and runs of the live script.                                   *)
(***************************************************************************)
EXTENDS SealRecovery, TLAPS

LEMMA PutVersion ==
    ASSUME TypeOK, NEW k \in Kinds, Store(k)
    PROVE  stored' \in [Kinds -> SUBSET Nat] /\ puts' \in [Kinds -> Nat]
BY DEF TypeOK, Store

LEMMA OverTypes ==
    ASSUME TypeOK, NEW r \in Runs, Over(r)
    PROVE  /\ pc' \in [Runs -> Location]
           /\ mem' \in [Runs -> Checkpoint]
           /\ existing' \in [Runs -> Certificate]
           /\ hand' \in [Runs -> [Kinds -> Nat]]
<1>1. NoCheckpoint \in Checkpoint
  BY DEF NoCheckpoint, Checkpoint, State
<1>2. Absent \in Certificate
  BY DEF Certificate
<1>3. "idle" \in Location
  BY DEF Location
<1>4. [k \in Kinds |-> 0] \in [Kinds -> Nat]
  OBVIOUS
<1> QED
  BY <1>1, <1>2, <1>3, <1>4 DEF TypeOK, Over

LEMMA BundleTypes ==
    ASSUME TypeOK, NEW r \in Runs
    PROVE  BundleOf(r) \in Bundle
BY DEF TypeOK, BundleOf, Bundle, Kinds

LEMMA AdmitTypes ==
    ASSUME TypeOK, NEW b \in Bundle, Admit(b)
    PROVE  cert' \in Certificate /\ cert' # Absent
<1>1. [status |-> "active", bundle |-> b] \in Certificate
  BY DEF Certificate
<1>2. [status |-> "active", bundle |-> b] # Absent
  <2>1. [status |-> "active", bundle |-> b].status # Absent.status
    BY DEF Absent
  <2> QED
    BY <2>1
<1> QED
  BY <1>1, <1>2 DEF Admit, TypeOK

\* Another attempt of a put changes nothing yet: one more put may take effect, and no
\* registration.
LEMMA AgainPends ==
    ASSUME NEW r \in Runs, NEW k \in Kinds, PutAgain(r, k)
    PROVE  /\ UNCHANGED <<ckpt, script, stored, puts, cert, local, overlaps>>
           /\ \A b \in Bundle : [register |-> b] \in pending' => [register |-> b] \in pending
<1>1. \A b \in Bundle : [register |-> b] # [put |-> k]
  <2>1. \A b \in Bundle : DOMAIN [register |-> b] # DOMAIN [put |-> k]
    OBVIOUS
  <2> QED
    BY <2>1
<1> QED
  BY <1>1 DEF PutAgain

LEMMA InitTypes == Init => TypeOK
<1> SUFFICES ASSUME Init PROVE TypeOK
  OBVIOUS
<1>1. PICK left \in Interrupted :
        /\ ckpt = left.ckpt
        /\ stored = [k \in Kinds |-> IF k = "sealed" THEN left.seals ELSE left.copies]
        /\ puts = [k \in Kinds |-> 1]
        /\ cert = left.cert
        /\ pending = left.pending
  BY DEF Init
<1>2. LiveBundle \in Bundle
  BY DEF LiveBundle, Bundle
<1>3. Registered \in Certificate /\ Absent \in Certificate
  BY <1>2 DEF Registered, Certificate
<1>4. [register |-> LiveBundle] \in Request /\ [put |-> "sealed"] \in Request
  BY <1>2 DEF Request, Kinds
<1>5. /\ left.ckpt \in Checkpoint
      /\ left.seals \subseteq Nat
      /\ left.copies \subseteq Nat
      /\ left.cert \in Certificate
      /\ left.pending \subseteq Request
  BY <1>3, <1>4 DEF Interrupted, Unanswered, Left, Checkpoint, NoCheckpoint, State, Locked
<1>6. NoCheckpoint \in Checkpoint
  BY DEF NoCheckpoint, Checkpoint, State
<1> QED
  BY <1>1, <1>3, <1>5, <1>6 DEF Init, TypeOK, Location

\* A write of the checkpoint keeps the types, if what is written is a checkpoint.
LEMMA WriteTypes ==
    ASSUME TypeOK, NEW r \in Runs, NEW k \in Checkpoint, NEW l \in Location,
           Write(r, k, l), UNCHANGED <<script, remote>>
    PROVE  TypeOK'
BY DEF TypeOK, Write, script, remote

LEMMA AtLeastTypes ==
    ASSUME NEW k \in Checkpoint, NEW s \in State
    PROVE  AtLeast(k, s) \in Checkpoint
BY DEF AtLeast, Checkpoint

LEMMA AdvanceTypes ==
    ASSUME TypeOK, NEW r \in Runs, Advance(r)
    PROVE  TypeOK'
<1>0. mem[r] \in Checkpoint /\ Absent \in Certificate
  BY DEF TypeOK, Certificate
<1>1. CASE Lookup(r)
  BY <1>1 DEF Lookup, TypeOK, script, remote, Location
<1>2. CASE CheckVault(r)
  BY <1>0, <1>2, WriteTypes DEF CheckVault, Location
<1>3. CASE NoVaultVersion(r) \/ Conflict(r)
  BY <1>3, OverTypes DEF NoVaultVersion, Conflict, TypeOK, script, remote
<1>4. CASE Ensure(r)
  <2>1. PICK k \in Kinds : \/ Reuse(r, k) \/ ExactMissing(r, k)
                           \/ Missing(r, k) \/ Put(r, k) \/ Verified(r, k)
    BY <1>4 DEF Ensure
  <2>2. CASE Reuse(r, k)
    <3>1. Found(r, k) \in Nat
      BY <2>2 DEF Reuse, TypeOK
    <3> QED
      BY <2>2, <3>1 DEF Reuse, TypeOK, script, remote, After, Location, Kinds
  <2>3. CASE ExactMissing(r, k)
    BY <2>3, OverTypes DEF ExactMissing, TypeOK, script, remote
  <2>4. CASE Missing(r, k)
    BY <2>4 DEF Missing, Goto, TypeOK, script, remote, Upload, Location, Kinds
  <2>5. CASE Put(r, k)
    <3>1. CASE /\ Store(k)
               /\ hand' = [hand EXCEPT ![r][k] = puts[k] + 1]
               /\ pc' = [pc EXCEPT ![r] = Readback[k]]
               /\ UNCHANGED <<pending, mem, existing, failures>>
      BY <2>5, <3>1, PutVersion DEF Put, TypeOK, script, Readback, Location, Kinds
    <3>2. CASE Store(k) /\ Broken(r) /\ UNCHANGED pending
      BY <2>5, <3>2, PutVersion, OverTypes DEF Put, Broken, TypeOK, script
    <3>3. CASE Broken(r) /\ pending' = pending \union {[put |-> k]} /\ UNCHANGED <<stored, puts>>
      BY <2>5, <3>3, OverTypes DEF Put, Broken, TypeOK, script, Request
    <3> QED
      BY <2>5, <3>1, <3>2, <3>3 DEF Put
  <2>6. CASE Verified(r, k)
    BY <2>6 DEF Verified, Goto, TypeOK, script, remote, After, Location, Kinds
  <2> QED
    BY <2>1, <2>2, <2>3, <2>4, <2>5, <2>6
<1>5. CASE RecordCustody(r)
  BY <1>0, <1>5, AtLeastTypes, WriteTypes DEF RecordCustody, Location, State
<1>6. CASE RecordSealed(r)
  <2>1. hand[r]["sealed"] \in Nat
    BY DEF TypeOK, Kinds
  <2>2. AtLeast(mem[r], "sealed_persisted") \in Checkpoint
    BY <1>0, AtLeastTypes DEF State
  <2>3. [AtLeast(mem[r], "sealed_persisted") EXCEPT !.sealed = hand[r]["sealed"]] \in Checkpoint
    BY <2>1, <2>2 DEF Checkpoint
  <2> QED
    BY <1>6, <2>3, WriteTypes DEF RecordSealed, Location
<1>7. CASE AlreadyRegistered(r)
  BY <1>7 DEF AlreadyRegistered, Goto, TypeOK, script, remote, Location
<1>8. CASE Register(r)
  <2>1. CASE /\ Admit(BundleOf(r))
             /\ Goto(r, "announce")
             /\ UNCHANGED <<pending, failures>>
    BY <1>8, <2>1, BundleTypes, AdmitTypes DEF Register, Goto, TypeOK, script, Location
  <2>2. CASE Admit(BundleOf(r)) /\ Broken(r) /\ UNCHANGED pending
    BY <1>8, <2>2, BundleTypes, AdmitTypes, OverTypes DEF Register, Broken, TypeOK, script
  <2>3. CASE /\ Broken(r)
             /\ pending' = pending \union {[register |-> BundleOf(r)]}
             /\ UNCHANGED cert
    BY <1>8, <2>3, BundleTypes, OverTypes DEF Register, Broken, TypeOK, script, Request
  <2> QED
    BY <1>8, <2>1, <2>2, <2>3 DEF Register
<1>9. CASE Announce(r)
  BY <1>0, <1>9, AtLeastTypes, WriteTypes DEF Announce, Location, State
<1>10. CASE Confirm(r)
  BY <1>10, OverTypes DEF Confirm, Goto, TypeOK, script, remote, Location
<1>11. CASE Complete(r)
  <2>1. [mem[r] EXCEPT !.state = "complete"] \in Checkpoint
    BY <1>0 DEF Checkpoint, State
  <2> QED
    BY <1>11, <2>1, WriteTypes DEF Complete, Location
<1>12. CASE Report(r)
  BY <1>0, <1>12, OverTypes DEF Report, TypeOK, script, remote
<1> QED
  BY <1>1, <1>2, <1>3, <1>4, <1>5, <1>6, <1>7, <1>8, <1>9, <1>10, <1>11, <1>12 DEF Advance

LEMMA StepTypes == TypeOK /\ [Next]_vars => TypeOK'
<1> SUFFICES ASSUME TypeOK, [Next]_vars PROVE TypeOK'
  OBVIOUS
<1>1. CASE \E r \in Runs : Start(r)
  BY <1>1 DEF Start, TypeOK, script, remote, Location
<1>2. CASE \E r \in Runs : Advance(r)
  BY <1>2, AdvanceTypes
<1>3. CASE \E r \in Runs : Fail(r)
  <2>1. PICK r \in Runs : Fail(r)
    BY <1>3
  <2>2. CASE Interrupt(r)
    BY <2>2, OverTypes DEF Interrupt, Broken, TypeOK, script, remote
  <2>3. CASE \E k \in Kinds : NotVerified(r, k)
    BY <2>3, OverTypes DEF NotVerified, Broken, TypeOK, script
  <2> QED
    BY <2>1, <2>2, <2>3 DEF Fail
<1>4. CASE Live
  <2>1. NoCheckpoint \in Checkpoint /\ paid' \in Nat
    BY <1>4 DEF Live, TypeOK, NoCheckpoint, Checkpoint, State
  <2>2. [NoCheckpoint EXCEPT !.operation = paid', !.state = "prepared"] \in Checkpoint
    BY <2>1 DEF Checkpoint, State
  <2>3. ckpt' \in Checkpoint
    BY <1>4, <2>2 DEF Live, TypeOK
  <2> QED
    BY <1>4, <2>1, <2>3 DEF Live, TypeOK, remote, local
<1>5. CASE \E k \in Kinds : LatePut(k)
  BY <1>5, PutVersion DEF LatePut, TypeOK, script, local
<1>6. CASE \E q \in {q \in pending : "register" \in DOMAIN q} : LateRegister(q.register)
  <2>1. PICK q \in pending : "register" \in DOMAIN q /\ LateRegister(q.register)
    BY <1>6
  <2>2. q.register \in Bundle
    BY <2>1 DEF TypeOK, Request
  <2> QED
    BY <2>1, <2>2, AdmitTypes DEF LateRegister, TypeOK, script, local
<1>7. CASE Revoke
  BY <1>7 DEF Revoke, TypeOK, script, local, Certificate
<1>8. CASE UNCHANGED vars
  BY <1>8 DEF TypeOK, vars, script, remote, local
<1>9. ASSUME NEW r \in Runs, NEW k \in Kinds, PutAgain(r, k)
      PROVE  TypeOK'
  BY <1>9 DEF PutAgain, TypeOK, Request, script, local
<1> QED
  BY <1>1, <1>2, <1>3, <1>4, <1>5, <1>6, <1>7, <1>8, <1>9 DEF Next

\* The recovery's variables keep their types.
THEOREM RecoveryTypes == Spec => []TypeOK
BY InitTypes, StepTypes, PTL DEF Spec

-------------------------------------------------------------------------------
(***************************************************************************)
(* A certificate, once there, stays: it is enough that whoever writes      *)
(* registered or complete has seen it.                                     *)
(***************************************************************************)
Late == {"announce", "confirm", "complete", "report"}

Claims(k) == k.state \in {"registered", "complete"}

SeenInv ==
    /\ Claims(ckpt) => cert # Absent
    /\ \A r \in Runs :
         /\ Claims(mem[r]) => cert # Absent
         /\ existing[r] # Absent => cert # Absent
         /\ pc[r] \in Late => cert # Absent

\* No step makes a certificate disappear.
LEMMA CertificateStays ==
    ASSUME TypeOK, [Next]_vars, cert # Absent
    PROVE  cert' # Absent
<1>1. CASE UNCHANGED cert
  BY <1>1
<1>2. CASE \E b \in Bundle : Admit(b)
  BY <1>2 DEF Admit
<1>3. CASE Revoke
  <2>1. cert \in [status : {"active", "revoked"}, bundle : Bundle]
    BY DEF TypeOK, Certificate
  <2>2. cert'.status = "revoked"
    BY <1>3, <2>1 DEF Revoke
  <2> QED
    BY <2>2 DEF Absent
<1>4. ASSUME NEW r \in Runs, Advance(r)
      PROVE  UNCHANGED cert \/ \E b \in Bundle : Admit(b)
  BY <1>4, BundleTypes DEF Advance, Lookup, CheckVault, NoVaultVersion, Ensure, Reuse,
     ExactMissing, Missing, Put, Verified, RecordCustody, RecordSealed, AlreadyRegistered,
     Register, Conflict, Announce, Confirm, Complete, Report, remote
<1>5. ASSUME NEW q \in pending, "register" \in DOMAIN q, LateRegister(q.register)
      PROVE  \E b \in Bundle : Admit(b)
  <2>1. q.register \in Bundle
    BY <1>5 DEF TypeOK, Request
  <2> QED
    BY <1>5, <2>1 DEF LateRegister
<1> QED
  BY <1>1, <1>2, <1>3, <1>4, <1>5 DEF Next, Start, Fail, Interrupt, NotVerified, PutAgain,
     Live, LatePut, remote, vars

LEMMA InitSeen == Init => SeenInv
<1> SUFFICES ASSUME Init PROVE SeenInv
  OBVIOUS
<1>1. PICK left \in Interrupted : ckpt = left.ckpt /\ cert = left.cert
  BY DEF Init
<1>2. Registered # Absent
  <2>1. Registered.status # Absent.status
    BY DEF Registered, Absent
  <2> QED
    BY <2>1
<1>3. Claims(left.ckpt) => left.cert # Absent
  BY <1>2 DEF Interrupted, Unanswered, Left, NoCheckpoint, Claims
<1> QED
  BY <1>1, <1>3 DEF Init, SeenInv, Claims, NoCheckpoint, Late

\* A run that is over claims nothing.
LEMMA OverSeen ==
    ASSUME TypeOK, SeenInv, [Next]_vars, NEW r \in Runs, Over(r), Claims(ckpt') => cert' # Absent
    PROVE  SeenInv'
<1>1. ~Claims(NoCheckpoint) /\ "idle" \notin Late
  BY DEF Claims, NoCheckpoint, Late
<1>2. cert # Absent => cert' # Absent
  BY CertificateStays
<1> QED
  BY <1>1, <1>2 DEF SeenInv, Over, TypeOK

\* A checkpoint may be written that claims no more than what is known.
LEMMA WriteSeen ==
    ASSUME TypeOK, SeenInv, NEW r \in Runs, NEW k, NEW l, Write(r, k, l),
           UNCHANGED <<script, remote>>,
           Claims(k) => cert # Absent, l \in Late => cert # Absent
    PROVE  SeenInv'
BY DEF SeenInv, Write, TypeOK, script, remote

LEMMA StepSeen == TypeOK /\ SeenInv /\ [Next]_vars => SeenInv'
<1> SUFFICES ASSUME TypeOK, SeenInv, [Next]_vars PROVE SeenInv'
  OBVIOUS
<1>0. cert # Absent => cert' # Absent
  BY CertificateStays
<1>1. ASSUME NEW r \in Runs, Start(r)
      PROVE  SeenInv'
  BY <1>1 DEF Start, SeenInv, TypeOK, remote, Late
<1>2. ASSUME NEW r \in Runs, Advance(r)
      PROVE  SeenInv'
  <2>0. mem[r] \in Checkpoint /\ (Claims(mem[r]) => cert # Absent)
    BY DEF TypeOK, SeenInv
  <2>1. CASE Lookup(r)
    BY <2>1 DEF Lookup, SeenInv, TypeOK, remote, Late
  <2>2. CASE CheckVault(r)
    BY <2>0, <2>2, WriteSeen DEF CheckVault, Late
  <2>3. CASE NoVaultVersion(r) \/ Conflict(r)
    BY <2>3, OverSeen DEF NoVaultVersion, Conflict, remote, SeenInv
  <2>4. CASE Ensure(r)
    <3>1. PICK k \in Kinds : \/ Reuse(r, k) \/ ExactMissing(r, k)
                             \/ Missing(r, k) \/ Put(r, k) \/ Verified(r, k)
      BY <2>4 DEF Ensure
    <3>2. CASE ExactMissing(r, k)
      BY <3>2, OverSeen DEF ExactMissing, remote, SeenInv
    <3>3. CASE Reuse(r, k) \/ Missing(r, k) \/ Verified(r, k)
      BY <3>3 DEF Reuse, Missing, Verified, Goto, After, Upload, Kinds, SeenInv, TypeOK, remote,
         Late
    <3>4. CASE Put(r, k)
      <4>1. CASE Over(r)
        BY <3>4, <4>1, OverSeen DEF Put, SeenInv
      <4>2. CASE pc' = [pc EXCEPT ![r] = Readback[k]] /\ UNCHANGED <<mem, existing>>
        BY <3>4, <4>2 DEF Put, Readback, Kinds, SeenInv, TypeOK, Late
      <4> QED
        BY <3>4, <4>1, <4>2 DEF Put, Broken
    <3> QED
      BY <3>1, <3>2, <3>3, <3>4
  <2>5. CASE RecordCustody(r)
    <3>1. Claims(AtLeast(mem[r], "custody_persisted")) => cert # Absent
      BY <2>0 DEF AtLeast, Claims, Checkpoint
    <3> QED
      BY <2>5, <3>1, WriteSeen DEF RecordCustody, Late
  <2>6. CASE RecordSealed(r)
    <3>1. Claims([AtLeast(mem[r], "sealed_persisted") EXCEPT !.sealed = hand[r]["sealed"]])
            => cert # Absent
      BY <2>0 DEF AtLeast, Claims, Checkpoint
    <3> QED
      BY <2>6, <3>1, WriteSeen DEF RecordSealed, Late
  <2>7. CASE AlreadyRegistered(r)
    BY <2>7 DEF AlreadyRegistered, Goto, SeenInv, TypeOK, remote
  <2>8. CASE Register(r)
    <3>1. CASE Over(r)
      BY <1>0, <2>8, <3>1, OverSeen DEF Register, SeenInv
    <3>2. CASE Admit(BundleOf(r)) /\ Goto(r, "announce")
      BY <1>0, <2>8, <3>2, BundleTypes, AdmitTypes DEF Register, Goto, SeenInv, TypeOK
    <3> QED
      BY <2>8, <3>1, <3>2 DEF Register, Broken
  <2>9. CASE Announce(r) \/ Complete(r)
    <3>1. cert # Absent
      BY <2>9 DEF Announce, Complete, SeenInv, Late
    <3> QED
      BY <2>9, <3>1, WriteSeen DEF Announce, Complete
  <2>10. CASE Confirm(r)
    <3>1. CASE Over(r)
      BY <2>10, <3>1, OverSeen DEF Confirm, remote, SeenInv
    <3>2. CASE Goto(r, "complete") /\ Confirmed
      BY <2>10, <3>2 DEF Confirm, Confirmed, Goto, SeenInv, TypeOK, remote
    <3> QED
      BY <2>10, <3>1, <3>2 DEF Confirm
  <2>11. CASE Report(r)
    BY <2>0, <2>11, OverSeen DEF Report, remote
  <2> QED
    BY <1>2, <2>1, <2>2, <2>3, <2>4, <2>5, <2>6, <2>7, <2>8, <2>9, <2>10, <2>11 DEF Advance
<1>3. ASSUME NEW r \in Runs, Fail(r)
      PROVE  SeenInv'
  BY <1>3, OverSeen DEF Fail, Interrupt, NotVerified, Broken, remote, SeenInv
<1>4. CASE Live
  <2>1. PreparedFields \subseteq CheckpointFields => ~Claims(ckpt')
    BY <1>4 DEF Live, Claims, NoCheckpoint
  <2> QED
    BY <1>4, <2>1 DEF Live, SeenInv, remote, local
<1>5. CASE \E k \in Kinds : LatePut(k)
  BY <1>5 DEF LatePut, SeenInv, local
<1>6. CASE Revoke \/ \E q \in {q \in pending : "register" \in DOMAIN q} : LateRegister(q.register)
  BY <1>0, <1>6 DEF Revoke, LateRegister, SeenInv, local
<1>7. CASE UNCHANGED vars
  BY <1>7 DEF vars, remote, local, SeenInv
<1>8. ASSUME NEW r \in Runs, NEW k \in Kinds, PutAgain(r, k)
      PROVE  SeenInv'
  BY <1>8, AgainPends DEF SeenInv, local
<1> QED
  BY <1>1, <1>2, <1>3, <1>4, <1>5, <1>6, <1>7, <1>8 DEF Next

\* A checkpoint that says registered or complete has a certificate behind it, however many
\* recoveries overlap.
THEOREM RegisteredIsRegistered == Spec => []CompleteIsRegistered
<1>1. SeenInv => CompleteIsRegistered
  BY DEF SeenInv, Claims, CompleteIsRegistered
<1> QED
  BY <1>1, InitTypes, StepTypes, InitSeen, StepSeen, PTL DEF Spec

-------------------------------------------------------------------------------
(***************************************************************************)
(* Recoveries that run one at a time: the one under way has the checkpoint *)
(* in memory, and whatever names a version of the sealed asset (the        *)
(* certificate, a registration that may still take effect, the receipt in  *)
(* hand) names the version the checkpoint records.                         *)
(***************************************************************************)
Alone ==
    /\ \A r, q \in Runs : pc[r] # "idle" /\ pc[q] # "idle" => r = q
    /\ \A r \in Runs : pc[r] # "idle" => mem[r] = ckpt

Names(v) == v = ckpt.sealed /\ v # 0

Agreement ==
    /\ cert # Absent => Names(cert.bundle.sealed)
    /\ \A b \in Bundle : [register |-> b] \in pending => Names(b.sealed)
    /\ \A r \in Runs :
         /\ pc[r] \in {"register"} \union Late => Names(hand[r]["sealed"])
         /\ pc[r] = "record" => /\ hand[r]["sealed"] # 0
                                /\ ckpt.sealed \in {0, hand[r]["sealed"]}
         /\ pc[r] = "sealed_put" => ckpt.sealed = 0
         /\ pc[r] = "sealed_readback" => ckpt.sealed = 0 /\ hand[r]["sealed"] # 0

AloneInv ==
    /\ 0 \notin stored["sealed"]
    /\ overlaps = 0 => Alone /\ Agreement

\* The live script leaves the checkpoint alone: it fails to build one.
LEMMA LiveWritesNothing == Live => UNCHANGED ckpt
<1>1. "media_type" \in PreparedFields /\ "media_type" \notin CheckpointFields
  BY DEF PreparedFields, CheckpointFields
<1> QED
  BY <1>1 DEF Live

LEMMA InitAlone == Init => AloneInv
<1> SUFFICES ASSUME Init PROVE AloneInv
  OBVIOUS
<1>1. PICK left \in Interrupted :
        /\ ckpt = left.ckpt
        /\ stored = [k \in Kinds |-> IF k = "sealed" THEN left.seals ELSE left.copies]
        /\ cert = left.cert
        /\ pending = left.pending
  BY DEF Init
<1>2. Registered # Absent /\ Registered.bundle.sealed = 1
  <2>1. Registered.status # Absent.status
    BY DEF Registered, Absent
  <2> QED
    BY <2>1 DEF Registered, LiveBundle
<1>3. \A b \in Bundle : [register |-> b] = [register |-> LiveBundle] => b.sealed = 1
  <2> SUFFICES ASSUME NEW b \in Bundle, [register |-> b] = [register |-> LiveBundle]
               PROVE  b.sealed = 1
    OBVIOUS
  <2>1. [register |-> b].register = [register |-> LiveBundle].register
    OBVIOUS
  <2> QED
    BY <2>1 DEF LiveBundle
<1>4. \A b \in Bundle : [register |-> b] # [put |-> "sealed"]
  <2>1. \A b \in Bundle : DOMAIN [register |-> b] # DOMAIN [put |-> "sealed"]
    OBVIOUS
  <2> QED
    BY <2>1
<1>5. /\ 0 \notin left.seals
      /\ left.cert # Absent => left.ckpt.sealed = 1 /\ left.cert = Registered
      /\ \A b \in Bundle : [register |-> b] \in left.pending =>
                            left.ckpt.sealed = 1 /\ b.sealed = 1
  BY <1>3, <1>4 DEF Interrupted, Unanswered, Left, NoCheckpoint
<1>6. stored["sealed"] = left.seals
  BY <1>1 DEF Kinds
<1> QED
  BY <1>1, <1>2, <1>5, <1>6 DEF Init, AloneInv, Alone, Agreement, Names, Late

\* The number of overlaps never decreases.
LEMMA OverlapsGrow ==
    ASSUME TypeOK, [Next]_vars, overlaps' = 0
    PROVE  overlaps = 0
<1>1. ASSUME NEW r \in Runs, Advance(r)
      PROVE  UNCHANGED overlaps
  BY <1>1 DEF Advance, Lookup, CheckVault, NoVaultVersion, Ensure, Reuse, ExactMissing, Missing,
     Put, Verified, RecordCustody, RecordSealed, AlreadyRegistered, Register, Conflict, Announce,
     Confirm, Complete, Report, Write
<1>2. ASSUME NEW r \in Runs, Start(r)
      PROVE  overlaps = 0
  BY <1>2 DEF Start, TypeOK
<1>3. ASSUME NEW r \in Runs, Fail(r)
      PROVE  UNCHANGED overlaps
  BY <1>3 DEF Fail, Interrupt, NotVerified
<1>4. CASE Live \/ Revoke \/ (\E k \in Kinds : LatePut(k)) \/ UNCHANGED vars
  BY <1>4 DEF Live, Revoke, LatePut, vars
<1>5. ASSUME NEW q, LateRegister(q.register)
      PROVE  UNCHANGED overlaps
  BY <1>5 DEF LateRegister
<1>6. ASSUME NEW r \in Runs, NEW k \in Kinds, PutAgain(r, k)
      PROVE  UNCHANGED overlaps
  BY <1>6, AgainPends
<1> QED
  BY <1>1, <1>2, <1>3, <1>4, <1>5, <1>6 DEF Next

\* A run that ends without touching the checkpoint or the registry.
LEMMA OverAlone ==
    ASSUME TypeOK, Alone, Agreement, NEW r \in Runs, Over(r),
           UNCHANGED <<ckpt, cert>>,
           \A b \in Bundle : [register |-> b] \in pending' =>
               [register |-> b] \in pending \/ Names(b.sealed)
    PROVE  Alone' /\ Agreement'
BY DEF TypeOK, Alone, Agreement, Names, Over, Late

\* A run that writes its copy of the checkpoint and goes on, when the receipts in hand allow.
LEMMA WriteAlone ==
    ASSUME TypeOK, Alone, Agreement, NEW r \in Runs, NEW k, NEW l, pc[r] # "idle",
           Write(r, k, l), UNCHANGED <<script, remote>>,
           k.sealed = ckpt.sealed, l \notin {"record", "sealed_put", "sealed_readback"},
           l \in {"register"} \union Late => Names(hand[r]["sealed"])
    PROVE  Alone' /\ Agreement'
BY DEF TypeOK, Alone, Agreement, Names, Write, script, remote, Late

\* A run that goes on without touching the checkpoint.
LEMMA GoAlone ==
    ASSUME TypeOK, Alone, Agreement, NEW r \in Runs, NEW l, pc[r] # "idle",
           pc' = [pc EXCEPT ![r] = l], UNCHANGED <<ckpt, mem, cert, pending>>,
           \A q \in Runs \ {r} : hand'[q] = hand[q],
           l \in {"register"} \union Late => Names(hand'[r]["sealed"]),
           l = "record" => /\ hand'[r]["sealed"] # 0
                           /\ ckpt.sealed \in {0, hand'[r]["sealed"]},
           l = "sealed_put" => ckpt.sealed = 0,
           l = "sealed_readback" => ckpt.sealed = 0 /\ hand'[r]["sealed"] # 0
    PROVE  Alone' /\ Agreement'
BY DEF TypeOK, Alone, Agreement, Names, Late

LEMMA EnsureAlone ==
    ASSUME TypeOK, Alone, Agreement, 0 \notin stored["sealed"], NEW r \in Runs, Ensure(r)
    PROVE  Alone' /\ Agreement'
<1>1. PICK k \in Kinds : \/ Reuse(r, k) \/ ExactMissing(r, k)
                         \/ Missing(r, k) \/ Put(r, k) \/ Verified(r, k)
  BY DEF Ensure
<1>2. pc[r] # "idle"
  BY <1>1 DEF Reuse, ExactMissing, Missing, Put, Verified, Kinds, Upload, Readback
<1>3. mem[r] = ckpt /\ ckpt.sealed \in Nat
  BY <1>2 DEF Alone, TypeOK, Checkpoint
<1>4. k = "copies" \/ k = "sealed"
  BY DEF Kinds
<1>5. CASE Reuse(r, k)
  <2>1. Found(r, k) \in stored[k] /\ hand'[r][k] = Found(r, k)
        /\ \A q \in Runs \ {r} : hand'[q] = hand[q]
    BY <1>5 DEF Reuse, TypeOK
  <2>2. k = "sealed" => Found(r, k) # 0 /\ ckpt.sealed \in {0, Found(r, k)}
    BY <1>3, <2>1 DEF Found, ExactVersion
  <2>3. CASE k = "copies"
    <3>1. pc' = [pc EXCEPT ![r] = "custody"]
      BY <1>5, <2>3 DEF Reuse, After
    <3> QED
      BY <1>2, <1>5, <2>1, <3>1, GoAlone DEF Reuse, remote, Late
  <2>4. CASE k = "sealed"
    <3>1. pc' = [pc EXCEPT ![r] = "record"]
      BY <1>5, <2>4 DEF Reuse, After
    <3> QED
      BY <1>2, <1>5, <2>1, <2>2, <2>4, <3>1, GoAlone DEF Reuse, remote, Late
  <2> QED
    BY <1>4, <2>3, <2>4
<1>6. CASE ExactMissing(r, k)
  BY <1>6, OverAlone DEF ExactMissing, remote
<1>7. CASE Missing(r, k)
  <2>1. k = "sealed" => ckpt.sealed = 0
    BY <1>3, <1>7 DEF Missing, ExactVersion
  <2>2. CASE k = "copies"
    <3>1. pc' = [pc EXCEPT ![r] = "copies_put"]
      BY <1>7, <2>2 DEF Missing, Goto, Upload
    <3> QED
      BY <1>2, <1>7, <3>1, GoAlone DEF Missing, Goto, remote, Late
  <2>3. CASE k = "sealed"
    <3>1. pc' = [pc EXCEPT ![r] = "sealed_put"]
      BY <1>7, <2>3 DEF Missing, Goto, Upload
    <3> QED
      BY <1>2, <1>7, <2>1, <2>3, <3>1, GoAlone DEF Missing, Goto, remote, Late
  <2> QED
    BY <1>4, <2>2, <2>3
<1>8. CASE Put(r, k)
  <2>1. CASE Over(r)
    <3>1. \A b \in Bundle : [register |-> b] # [put |-> k]
      <4>1. \A b \in Bundle : DOMAIN [register |-> b] # DOMAIN [put |-> k]
        OBVIOUS
      <4> QED
        BY <4>1
    <3> QED
      BY <1>8, <2>1, <3>1, OverAlone DEF Put
  <2>2. CASE /\ hand' = [hand EXCEPT ![r][k] = puts[k] + 1]
             /\ pc' = [pc EXCEPT ![r] = Readback[k]]
             /\ UNCHANGED <<pending, mem>>
    <3>1. hand'[r][k] # 0 /\ \A q \in Runs \ {r} : hand'[q] = hand[q]
      BY <2>2 DEF TypeOK
    <3>2. k = "sealed" => ckpt.sealed = 0
      BY <1>8 DEF Put, Upload, Agreement, Kinds
    <3>0. UNCHANGED <<ckpt, mem, cert, pending>>
      BY <1>8, <2>2 DEF Put
    <3>3. CASE k = "copies"
      <4>1. pc' = [pc EXCEPT ![r] = "copies_readback"]
        BY <2>2, <3>3 DEF Readback
      <4> QED
        BY <1>2, <3>0, <3>1, <4>1, GoAlone DEF Late
    <3>4. CASE k = "sealed"
      <4>1. pc' = [pc EXCEPT ![r] = "sealed_readback"]
        BY <2>2, <3>4 DEF Readback
      <4> QED
        BY <1>2, <3>0, <3>1, <3>2, <3>4, <4>1, GoAlone DEF Late
    <3> QED
      BY <1>4, <3>3, <3>4
  <2> QED
    BY <1>8, <2>1, <2>2 DEF Put, Broken
<1>9. CASE Verified(r, k)
  <2>1. k = "sealed" => ckpt.sealed = 0 /\ hand[r]["sealed"] # 0
    BY <1>9 DEF Verified, Readback, Agreement, Kinds
  <2>2. CASE k = "copies"
    <3>1. pc' = [pc EXCEPT ![r] = "custody"]
      BY <1>9, <2>2 DEF Verified, Goto, After
    <3> QED
      BY <1>2, <1>9, <3>1, GoAlone DEF Verified, Goto, remote, Late
  <2>3. CASE k = "sealed"
    <3>1. pc' = [pc EXCEPT ![r] = "record"]
      BY <1>9, <2>3 DEF Verified, Goto, After
    <3> QED
      BY <1>2, <1>9, <2>1, <2>3, <3>1, GoAlone DEF Verified, Goto, remote, Late
  <2> QED
    BY <1>4, <2>2, <2>3
<1> QED
  BY <1>1, <1>5, <1>6, <1>7, <1>8, <1>9

LEMMA RegisterAlone ==
    ASSUME TypeOK, Alone, Agreement, NEW r \in Runs, Register(r)
    PROVE  Alone' /\ Agreement'
<1>1. Names(hand[r]["sealed"]) /\ BundleOf(r).sealed = hand[r]["sealed"]
  BY DEF Register, Agreement, BundleOf
<1>2. \A b, c \in Bundle : [register |-> b] = [register |-> c] => b = c
  <2> SUFFICES ASSUME NEW b \in Bundle, NEW c \in Bundle, [register |-> b] = [register |-> c]
               PROVE  b = c
    OBVIOUS
  <2>1. [register |-> b].register = [register |-> c].register
    OBVIOUS
  <2> QED
    BY <2>1
<1>3. CASE /\ Broken(r)
           /\ pending' = pending \union {[register |-> BundleOf(r)]}
           /\ UNCHANGED cert
  <2>1. \A b \in Bundle : [register |-> b] \in pending' =>
            [register |-> b] \in pending \/ Names(b.sealed)
    BY <1>1, <1>2, <1>3, BundleTypes
  <2> QED
    BY <1>3, <2>1, OverAlone DEF Register, Broken
<1>4. ASSUME Admit(BundleOf(r)), UNCHANGED <<ckpt, pending>>
      PROVE  cert' # Absent => Names(cert'.bundle.sealed)
  BY <1>1, <1>4 DEF Admit, Agreement
<1>5. CASE Admit(BundleOf(r)) /\ Broken(r) /\ UNCHANGED pending
  BY <1>4, <1>5 DEF Register, Broken, Over, TypeOK, Alone, Agreement, Names, Late
<1>6. CASE Admit(BundleOf(r)) /\ Goto(r, "announce") /\ UNCHANGED pending
  BY <1>1, <1>4, <1>6 DEF Register, Goto, TypeOK, Alone, Agreement, Names, Late
<1> QED
  BY <1>3, <1>5, <1>6 DEF Register

LEMMA AdvanceAlone ==
    ASSUME TypeOK, Alone, Agreement, 0 \notin stored["sealed"], NEW r \in Runs, Advance(r)
    PROVE  Alone' /\ Agreement'
<1>0. pc[r] # "idle" => mem[r] = ckpt /\ ckpt \in Checkpoint
  BY DEF Alone, TypeOK
<1>1. CASE Lookup(r)
  BY <1>1, GoAlone DEF Lookup, remote, Late
<1>2. CASE CheckVault(r)
  BY <1>0, <1>2, WriteAlone DEF CheckVault, Late
<1>3. CASE NoVaultVersion(r) \/ Conflict(r)
  BY <1>3, OverAlone DEF NoVaultVersion, Conflict, remote
<1>4. CASE Ensure(r)
  BY <1>4, EnsureAlone
<1>5. CASE RecordCustody(r)
  <2>1. AtLeast(mem[r], "custody_persisted").sealed = ckpt.sealed
    BY <1>0, <1>5 DEF RecordCustody, AtLeast, Checkpoint
  <2> QED
    BY <1>5, <2>1, WriteAlone DEF RecordCustody, Late
<1>6. CASE RecordSealed(r)
  <2> DEFINE k == [AtLeast(mem[r], "sealed_persisted") EXCEPT !.sealed = hand[r]["sealed"]]
  <2>1. k.sealed = hand[r]["sealed"]
    BY <1>0, <1>6 DEF RecordSealed, AtLeast, Checkpoint
  <2>2. ckpt' = k /\ Write(r, k, "register")
    BY <1>6 DEF RecordSealed, Write
  <2>3. hand[r]["sealed"] # 0 /\ ckpt.sealed \in {0, hand[r]["sealed"]}
    BY <1>6 DEF RecordSealed, Agreement
  <2>4. \A q \in Runs : q # r => pc[q] = "idle"
    BY <1>6 DEF RecordSealed, Alone
  <2> HIDE DEF k
  <2> QED
    BY <1>6, <2>1, <2>2, <2>3, <2>4 DEF RecordSealed, Write, TypeOK, Alone, Agreement, Names,
       remote, Late
<1>7. CASE AlreadyRegistered(r)
  BY <1>7, GoAlone DEF AlreadyRegistered, Goto, remote, Agreement
<1>8. CASE Register(r)
  BY <1>8, RegisterAlone
<1>9. CASE Announce(r)
  <2>1. AtLeast(mem[r], "registered").sealed = ckpt.sealed
    BY <1>0, <1>9 DEF Announce, AtLeast, Checkpoint
  <2> QED
    BY <1>9, <2>1, WriteAlone DEF Announce, Agreement, Late
<1>10. CASE Confirm(r)
  <2>1. CASE Over(r)
    BY <1>10, <2>1, OverAlone DEF Confirm, remote
  <2>2. CASE Goto(r, "complete")
    BY <1>10, <2>2, GoAlone DEF Confirm, Goto, remote, Agreement, Late
  <2> QED
    BY <1>10, <2>1, <2>2 DEF Confirm
<1>11. CASE Complete(r)
  <2> DEFINE k == [mem[r] EXCEPT !.state = "complete"]
  <2>1. k.sealed = ckpt.sealed
    BY <1>0, <1>11 DEF Complete, Checkpoint
  <2>2. Write(r, k, "report")
    BY <1>11 DEF Complete
  <2>3. Names(hand[r]["sealed"])
    BY <1>11 DEF Complete, Agreement, Late
  <2> HIDE DEF k
  <2> QED
    BY <1>11, <2>1, <2>2, <2>3, WriteAlone DEF Complete
<1>12. CASE Report(r)
  BY <1>0, <1>12, OverAlone DEF Report, remote
<1> QED
  BY <1>1, <1>2, <1>3, <1>4, <1>5, <1>6, <1>7, <1>8, <1>9, <1>10, <1>11, <1>12 DEF Advance

\* No version is numbered zero, which stands for none.
LEMMA VersionsAreNumbered ==
    ASSUME TypeOK, 0 \notin stored["sealed"], [Next]_vars
    PROVE  0 \notin stored["sealed"]'
<1>1. ASSUME NEW k \in Kinds, Store(k)
      PROVE  0 \notin stored["sealed"]'
  <2>1. stored'["sealed"] \subseteq stored["sealed"] \union {puts[k] + 1}
    BY <1>1 DEF Store, TypeOK, Kinds
  <2>2. puts[k] + 1 # 0
    BY DEF TypeOK
  <2> QED
    BY <2>1, <2>2
<1>2. ASSUME NEW r \in Runs, Advance(r)
      PROVE  0 \notin stored["sealed"]'
  <2>1. UNCHANGED stored \/ \E k \in Kinds : Store(k)
    BY <1>2 DEF Advance, Lookup, CheckVault, NoVaultVersion, Ensure, Reuse, ExactMissing, Missing,
       Put, Verified, RecordCustody, RecordSealed, AlreadyRegistered, Register, Conflict,
       Announce, Confirm, Complete, Report, remote
  <2> QED
    BY <1>1, <2>1
<1>3. ASSUME NEW r \in Runs, Fail(r)
      PROVE  0 \notin stored["sealed"]'
  <2>1. ASSUME NEW k \in Kinds, NotVerified(r, k)
        PROVE  stored'["sealed"] \subseteq stored["sealed"]
    BY <2>1 DEF NotVerified, TypeOK, Kinds
  <2> QED
    BY <1>3, <2>1 DEF Fail, Interrupt, remote
<1>4. CASE \E k \in Kinds : LatePut(k)
  BY <1>1, <1>4 DEF LatePut
<1> QED
  BY <1>2, <1>3, <1>4 DEF Next, Start, PutAgain, Live, LateRegister, Revoke, remote, vars

LEMMA StepAlone == TypeOK /\ AloneInv /\ [Next]_vars => AloneInv'
<1> SUFFICES ASSUME TypeOK, AloneInv, [Next]_vars, overlaps' = 0
             PROVE  Alone' /\ Agreement'
  BY VersionsAreNumbered DEF AloneInv
<1>0. overlaps = 0 /\ Alone /\ Agreement /\ 0 \notin stored["sealed"]
  BY OverlapsGrow DEF AloneInv
<1>1. ASSUME NEW r \in Runs, Start(r)
      PROVE  Alone' /\ Agreement'
  <2>1. \A q \in Runs : pc[q] = "idle"
    BY <1>0, <1>1 DEF Start, TypeOK
  <2> QED
    BY <1>0, <1>1, <2>1 DEF Start, Alone, Agreement, Names, TypeOK, remote, Late
<1>2. ASSUME NEW r \in Runs, Advance(r)
      PROVE  Alone' /\ Agreement'
  BY <1>0, <1>2, AdvanceAlone
<1>3. ASSUME NEW r \in Runs, Fail(r)
      PROVE  Alone' /\ Agreement'
  BY <1>0, <1>3, OverAlone DEF Fail, Interrupt, NotVerified, Broken, remote
<1>4. CASE Live
  BY <1>0, <1>4, LiveWritesNothing DEF Live, Alone, Agreement, Names, remote, local
<1>5. CASE \E k \in Kinds : LatePut(k)
  BY <1>0, <1>5 DEF LatePut, Alone, Agreement, Names, local
<1>6. ASSUME NEW q \in pending, "register" \in DOMAIN q, LateRegister(q.register)
      PROVE  Alone' /\ Agreement'
  <2>1. q.register \in Bundle /\ q = [register |-> q.register]
    BY <1>6 DEF TypeOK, Request
  <2>2. Names(q.register.sealed)
    BY <1>0, <2>1 DEF Agreement
  <2>3. cert' # Absent => Names(cert'.bundle.sealed)
    BY <1>0, <1>6, <2>2 DEF LateRegister, Admit, Agreement
  <2> QED
    BY <1>0, <1>6, <2>3 DEF LateRegister, Alone, Agreement, Names, local
<1>7. CASE Revoke
  <2>1. cert'.bundle = cert.bundle
    BY <1>7 DEF Revoke, TypeOK, Certificate
  <2> QED
    BY <1>0, <1>7, <2>1 DEF Revoke, Alone, Agreement, Names, local
<1>8. CASE UNCHANGED vars
  BY <1>0, <1>8 DEF vars, remote, local, Alone, Agreement, Names
<1>9. ASSUME NEW r \in Runs, NEW k \in Kinds, PutAgain(r, k)
      PROVE  Alone' /\ Agreement'
  BY <1>0, <1>9, AgainPends DEF Alone, Agreement, Names, local
<1> QED
  BY <1>1, <1>2, <1>3, <1>4, <1>5, <1>6, <1>7, <1>8, <1>9 DEF Next

\* Recoveries that run one at a time record the version of the sealed asset that the
\* certificate names, whatever was interrupted, lost or late.
THEOREM RegisteredVersionIsRecorded == Spec => []RecordsTheRegisteredVersion
<1>1. AloneInv => RecordsTheRegisteredVersion
  BY DEF AloneInv, Agreement, Names, RecordsTheRegisteredVersion
<1> QED
  BY <1>1, InitTypes, StepTypes, InitAlone, StepAlone, PTL DEF Spec

\* A run that has the complete checkpoint in memory writes it back complete.
LEMMA CompleteStays ==
    ASSUME TypeOK, AloneInv, [Next]_vars, ckpt.state = "complete", overlaps' = 0
    PROVE  ckpt'.state = "complete"
<1>1. ASSUME NEW r \in Runs, Advance(r)
      PROVE  ckpt'.state = "complete"
  <2>1. pc[r] # "idle" => mem[r] = ckpt /\ mem[r] \in Checkpoint
    BY OverlapsGrow DEF AloneInv, Alone, TypeOK
  <2>2. CASE RecordCustody(r) \/ Announce(r) \/ Complete(r) \/ Report(r) \/ CheckVault(r)
    BY <2>1, <2>2 DEF RecordCustody, Announce, Complete, Report, CheckVault, Write, AtLeast,
       Checkpoint
  <2>3. CASE RecordSealed(r)
    BY <2>1, <2>3 DEF RecordSealed, Write, AtLeast, Checkpoint
  <2> QED
    BY <1>1, <2>2, <2>3 DEF Advance, Lookup, NoVaultVersion, Ensure, Reuse, ExactMissing, Missing,
       Put, Verified, AlreadyRegistered, Register, Conflict, Confirm
<1>2. CASE Live
  BY <1>2, LiveWritesNothing
<1> QED
  BY <1>1, <1>2 DEF Next, Start, Fail, Interrupt, NotVerified, PutAgain, LatePut, LateRegister,
     Revoke, vars

\* Recoveries that run one at a time never move a complete checkpoint back.
THEOREM CompleteStaysComplete == Spec => CompleteIsFinal
<1>1. TypeOK /\ AloneInv /\ [Next]_vars
        => [ckpt.state = "complete" /\ overlaps' = 0 => ckpt'.state = "complete"]_vars
  BY CompleteStays
<1> QED
  BY <1>1, InitTypes, StepTypes, InitAlone, StepAlone, PTL DEF Spec, CompleteIsFinal

-------------------------------------------------------------------------------
(***************************************************************************)
(* A certificate is backed.  A version is only deleted by the run that put *)
(* it, before anything names it: it was numbered after everything stored,  *)
(* and so after everything a bundle names.                                 *)
(***************************************************************************)
HasCopies == {"copies_readback", "custody", "sealed", "sealed_put", "sealed_readback", "record",
              "register"}
HasSealed == {"sealed_readback", "record", "register"}

\* The bundles of the certificate and of registrations that may still take effect.
Named(b) == (cert # Absent /\ cert.bundle = b) \/ [register |-> b] \in pending

Held(b) ==
    /\ ckpt.vault = Locked
    /\ \A k \in Kinds : /\ b[k] \in stored[k]
                        /\ \A r \in Runs : pc[r] = Readback[k] => hand[r][k] # b[k]

\* What the run in progress has checked, and what its receipts name.
Receipts(r) ==
    /\ pc[r] \notin {"idle", "lookup", "vault"} => ckpt.vault = Locked
    /\ pc[r] \in HasCopies => hand[r]["copies"] \in stored["copies"]
    /\ pc[r] \in HasSealed => hand[r]["sealed"] \in stored["sealed"]

Backing ==
    /\ \A b \in Bundle : Named(b) => Held(b)
    /\ \A r \in Runs : Receipts(r)

BackInv ==
    /\ \A k \in Kinds : stored[k] \subseteq 1..puts[k]
    /\ overlaps = 0 => Backing

LEMMA InitBack == Init => BackInv
<1> SUFFICES ASSUME Init PROVE BackInv
  OBVIOUS
<1>1. PICK left \in Interrupted :
        /\ ckpt = left.ckpt
        /\ stored = [k \in Kinds |-> IF k = "sealed" THEN left.seals ELSE left.copies]
        /\ puts = [k \in Kinds |-> 1]
        /\ cert = left.cert
        /\ pending = left.pending
  BY DEF Init
<1>2. Registered # Absent /\ Registered.bundle = LiveBundle
  <2>1. Registered.status # Absent.status
    BY DEF Registered, Absent
  <2> QED
    BY <2>1 DEF Registered
<1>3. \A b \in Bundle : [register |-> b] = [register |-> LiveBundle] => b = LiveBundle
  <2> SUFFICES ASSUME NEW b \in Bundle, [register |-> b] = [register |-> LiveBundle]
               PROVE  b = LiveBundle
    OBVIOUS
  <2>1. [register |-> b].register = [register |-> LiveBundle].register
    OBVIOUS
  <2> QED
    BY <2>1
<1>4. \A b \in Bundle : [register |-> b] # [put |-> "sealed"]
  <2>1. \A b \in Bundle : DOMAIN [register |-> b] # DOMAIN [put |-> "sealed"]
    OBVIOUS
  <2> QED
    BY <2>1
<1>5. left.seals \subseteq {1} /\ left.copies \subseteq {1}
  BY DEF Interrupted, Unanswered, Left
<1>6. left.cert # Absent =>
        /\ left.cert = Registered /\ left.ckpt.vault = Locked
        /\ left.seals = {1} /\ left.copies = {1}
  BY DEF Interrupted, Unanswered, Left
<1>7. \A b \in Bundle : [register |-> b] \in left.pending =>
        /\ b = LiveBundle /\ left.ckpt.vault = Locked
        /\ left.seals = {1} /\ left.copies = {1}
  BY <1>3, <1>4 DEF Interrupted, Unanswered, Left
<1>8. \A r \in Runs : pc[r] = "idle"
  BY DEF Init
<1>9. \A k \in Kinds : stored[k] \subseteq 1..puts[k]
  BY <1>1, <1>5
<1>10. \A b \in Bundle : Named(b) => Held(b)
  <2> SUFFICES ASSUME NEW b \in Bundle, Named(b)
               PROVE  Held(b)
    OBVIOUS
  <2>1. b = LiveBundle /\ ckpt.vault = Locked /\ left.seals = {1} /\ left.copies = {1}
    BY <1>1, <1>2, <1>6, <1>7 DEF Named
  <2>2. \A k \in Kinds : b[k] = 1
    BY <2>1 DEF LiveBundle, Kinds
  <2>3. \A k \in Kinds : b[k] \in stored[k]
    BY <1>1, <2>1, <2>2
  <2>4. \A k \in Kinds : Readback[k] # "idle"
    BY DEF Readback, Kinds
  <2> QED
    BY <1>8, <2>1, <2>3, <2>4 DEF Held
<1>11. \A r \in Runs : Receipts(r)
  BY <1>8 DEF Receipts, HasCopies, HasSealed
<1> QED
  BY <1>9, <1>10, <1>11 DEF BackInv, Backing

\* The only run in progress goes on, or is over; it may store, and registers nothing.
LEMMA MoveBack ==
    ASSUME TypeOK, Backing, NEW r \in Runs, NEW l,
           \A q \in Runs : q # r => pc[q] = "idle",
           pc' = [pc EXCEPT ![r] = l],
           ckpt'.vault = ckpt.vault,
           \A k \in Kinds : stored[k] \subseteq stored'[k],
           \A b \in Bundle : Named(b)' => Named(b),
           l \notin {"idle", "lookup", "vault"} => ckpt.vault = Locked,
           l \in HasCopies => hand'[r]["copies"] \in stored'["copies"],
           l \in HasSealed => hand'[r]["sealed"] \in stored'["sealed"],
           \A k \in Kinds : l = Readback[k] =>
               \A b \in Bundle : Named(b) => hand'[r][k] # b[k]
    PROVE  Backing'
<1>1. pc'[r] = l /\ \A q \in Runs : q # r => pc'[q] = "idle"
  BY DEF TypeOK
<1>2. \A q \in Runs : Receipts(q)'
  BY <1>1 DEF Receipts, HasCopies, HasSealed
<1>3. \A k \in Kinds : Readback[k] # "idle"
  BY DEF Readback, Kinds
<1>4. ASSUME NEW b \in Bundle, Named(b)'
      PROVE  Held(b)'
  <2>1. ckpt'.vault = Locked /\ \A k \in Kinds : b[k] \in stored'[k]
    BY <1>4 DEF Backing, Held
  <2>2. ASSUME NEW k \in Kinds, NEW q \in Runs, pc'[q] = Readback[k]
        PROVE  hand'[q][k] # b[k]
    <3>1. q = r /\ l = Readback[k]
      BY <1>1, <1>3, <2>2
    <3>2. Named(b)
      BY <1>4, <3>1
    <3> QED
      BY <3>1, <3>2
  <2> QED
    BY <2>1, <2>2 DEF Held
<1> QED
  BY <1>2, <1>4 DEF Backing

\* A write of the run's copy keeps what is known of the vault.
LEMMA VaultKept ==
    ASSUME TypeOK, Alone, [Next]_vars
    PROVE  ckpt'.vault = ckpt.vault
<1>1. ASSUME NEW r \in Runs, Advance(r)
      PROVE  ckpt'.vault = ckpt.vault
  <2>1. pc[r] # "idle" => mem[r] = ckpt /\ mem[r] \in Checkpoint
    BY DEF Alone, TypeOK
  <2>2. CASE RecordCustody(r) \/ Announce(r) \/ Complete(r) \/ Report(r) \/ CheckVault(r)
    BY <2>1, <2>2 DEF RecordCustody, Announce, Complete, Report, CheckVault, Write, AtLeast,
       Checkpoint
  <2>3. CASE RecordSealed(r)
    BY <2>1, <2>3 DEF RecordSealed, Write, AtLeast, Checkpoint
  <2> QED
    BY <1>1, <2>2, <2>3 DEF Advance, Lookup, NoVaultVersion, Ensure, Reuse, ExactMissing, Missing,
       Put, Verified, AlreadyRegistered, Register, Conflict, Confirm
<1>2. CASE Live
  BY <1>2, LiveWritesNothing
<1> QED
  BY <1>1, <1>2 DEF Next, Start, Fail, Interrupt, NotVerified, PutAgain, LatePut, LateRegister,
     Revoke, vars

\* Versions are numbered in the order they are put.
LEMMA VersionsAreOld ==
    ASSUME TypeOK, \A k \in Kinds : stored[k] \subseteq 1..puts[k], [Next]_vars
    PROVE  \A k \in Kinds : stored'[k] \subseteq 1..puts'[k]
<1>1. ASSUME NEW k \in Kinds, Store(k)
      PROVE  \A j \in Kinds : stored'[j] \subseteq 1..puts'[j]
  <2>1. puts[k] \in Nat /\ stored \in [Kinds -> SUBSET Nat] /\ puts \in [Kinds -> Nat]
    BY DEF TypeOK
  <2>2. stored'[k] = stored[k] \union {puts[k] + 1} /\ puts'[k] = puts[k] + 1
    BY <1>1, <2>1 DEF Store
  <2>3. \A j \in Kinds : j # k => stored'[j] = stored[j] /\ puts'[j] = puts[j]
    BY <1>1, <2>1 DEF Store
  <2>4. stored'[k] \subseteq 1..puts'[k]
    BY <2>1, <2>2
  <2> QED
    BY <2>3, <2>4
<1>2. ASSUME NEW r \in Runs, Advance(r)
      PROVE  UNCHANGED <<stored, puts>> \/ \E k \in Kinds : Store(k)
  BY <1>2 DEF Advance, Lookup, CheckVault, NoVaultVersion, Ensure, Reuse, ExactMissing, Missing,
     Put, Verified, RecordCustody, RecordSealed, AlreadyRegistered, Register, Conflict,
     Announce, Confirm, Complete, Report, remote
<1>3. ASSUME NEW r \in Runs, Fail(r)
      PROVE  \A j \in Kinds : stored'[j] \subseteq stored[j] /\ puts'[j] = puts[j]
  BY <1>3 DEF Fail, Interrupt, NotVerified, TypeOK, remote
<1>4. CASE \E k \in Kinds : LatePut(k)
  BY <1>1, <1>4 DEF LatePut
<1> QED
  BY <1>1, <1>2, <1>3, <1>4 DEF Next, Start, PutAgain, Live, LateRegister, Revoke, remote, vars

\* What an upload or its absence does to the receipts.
LEMMA EnsureBack ==
    ASSUME TypeOK, Alone, Backing, NEW r \in Runs, Ensure(r),
           \A k \in Kinds : stored[k] \subseteq 1..puts[k]
    PROVE  Backing'
<1>1. PICK k \in Kinds : \/ Reuse(r, k) \/ ExactMissing(r, k)
                         \/ Missing(r, k) \/ Put(r, k) \/ Verified(r, k)
  BY DEF Ensure
<1>2. pc[r] # "idle" /\ ckpt.vault = Locked
  <2>1. pc[r] \notin {"idle", "lookup", "vault"}
    BY <1>1 DEF Reuse, ExactMissing, Missing, Put, Verified, Kinds, Upload, Readback
  <2> QED
    BY <2>1 DEF Backing, Receipts
<1>3. (\A q \in Runs : q # r => pc[q] = "idle") /\ ckpt' = ckpt /\ Receipts(r)
  BY <1>1, <1>2 DEF Alone, Backing, Reuse, ExactMissing, Missing, Put, Verified
<1>4. k = "copies" \/ k = "sealed"
  BY DEF Kinds
<1>r. Readback["copies"] = "copies_readback" /\ Readback["sealed"] = "sealed_readback"
  BY DEF Readback
<1>5. ASSUME UNCHANGED <<cert, pending>>
      PROVE  \A b \in Bundle : Named(b)' => Named(b)
  BY <1>5 DEF Named
<1>6. CASE Reuse(r, k)
  <2>1. /\ hand'[r][k] \in stored[k]
        /\ \A j \in Kinds : j # k => hand'[r][j] = hand[r][j]
    BY <1>6 DEF Reuse, TypeOK
  <2>2. UNCHANGED <<stored, cert, pending>>
    BY <1>6 DEF Reuse, remote
  <2>3. CASE k = "copies"
    <3>1. pc' = [pc EXCEPT ![r] = "custody"]
      BY <1>6, <2>3 DEF Reuse, After
    <3> QED
      BY <1>2, <1>3, <1>5, <1>r, <2>1, <2>2, <2>3, <3>1, MoveBack DEF HasCopies, HasSealed, Kinds
  <2>4. CASE k = "sealed"
    <3>1. pc' = [pc EXCEPT ![r] = "record"] /\ pc[r] = "sealed"
      BY <1>6, <2>4 DEF Reuse, After
    <3>2. hand'[r]["copies"] \in stored'["copies"] /\ hand'[r]["sealed"] \in stored'["sealed"]
      BY <1>3, <2>1, <2>2, <2>4, <3>1 DEF Receipts, HasCopies, Kinds
    <3> QED
      BY <1>2, <1>3, <1>5, <1>r, <2>2, <3>1, <3>2, MoveBack DEF Kinds
  <2> QED
    BY <1>4, <2>3, <2>4
<1>7. CASE ExactMissing(r, k)
  BY <1>2, <1>3, <1>5, <1>7, <1>r, MoveBack DEF ExactMissing, Over, remote, HasCopies, HasSealed, Kinds
<1>8. CASE Missing(r, k)
  <2>1. UNCHANGED <<stored, cert, pending, hand>>
    BY <1>8 DEF Missing, Goto, remote
  <2>2. CASE k = "copies"
    <3>1. pc' = [pc EXCEPT ![r] = "copies_put"]
      BY <1>8, <2>2 DEF Missing, Goto, Upload
    <3> QED
      BY <1>2, <1>3, <1>5, <1>r, <2>1, <3>1, MoveBack DEF HasCopies, HasSealed, Kinds
  <2>3. CASE k = "sealed"
    <3>1. pc' = [pc EXCEPT ![r] = "sealed_put"] /\ pc[r] = "sealed"
      BY <1>8, <2>3 DEF Missing, Goto, Upload
    <3>2. hand'[r]["copies"] \in stored'["copies"]
      BY <1>3, <2>1, <3>1 DEF Receipts, HasCopies
    <3> QED
      BY <1>2, <1>3, <1>5, <1>r, <2>1, <3>1, <3>2, MoveBack DEF HasSealed, Kinds
  <2> QED
    BY <1>4, <2>2, <2>3
<1>9. CASE Verified(r, k)
  <2>1. UNCHANGED <<stored, cert, pending, hand>>
    BY <1>9 DEF Verified, Goto, remote
  <2>2. CASE k = "copies"
    <3>1. pc' = [pc EXCEPT ![r] = "custody"] /\ pc[r] = "copies_readback"
      BY <1>9, <1>r, <2>2 DEF Verified, Goto, After
    <3>2. hand'[r]["copies"] \in stored'["copies"]
      BY <1>3, <2>1, <3>1 DEF Receipts, HasCopies
    <3> QED
      BY <1>2, <1>3, <1>5, <1>r, <2>1, <3>1, <3>2, MoveBack DEF HasSealed, Kinds
  <2>3. CASE k = "sealed"
    <3>1. pc' = [pc EXCEPT ![r] = "record"] /\ pc[r] = "sealed_readback"
      BY <1>9, <1>r, <2>3 DEF Verified, Goto, After
    <3>2. hand'[r]["copies"] \in stored'["copies"] /\ hand'[r]["sealed"] \in stored'["sealed"]
      BY <1>3, <2>1, <3>1 DEF Receipts, HasCopies, HasSealed
    <3> QED
      BY <1>2, <1>3, <1>5, <1>r, <2>1, <3>1, <3>2, MoveBack DEF Kinds
  <2> QED
    BY <1>4, <2>2, <2>3
<1>10. CASE Put(r, k)
  <2>1. Store(k) => /\ \A j \in Kinds : stored[j] \subseteq stored'[j]
                    /\ puts[k] + 1 \in stored'[k]
    BY DEF Store, TypeOK
  <2>2. CASE Over(r)
    <3>1. \A j \in Kinds : stored[j] \subseteq stored'[j]
      BY <1>10, <2>1 DEF Put
    <3>2. \A b \in Bundle : [register |-> b] # [put |-> k]
      <4>1. \A b \in Bundle : DOMAIN [register |-> b] # DOMAIN [put |-> k]
        OBVIOUS
      <4> QED
        BY <4>1
    <3>3. \A b \in Bundle : Named(b)' => Named(b)
      BY <1>10, <3>2 DEF Put, Named
    <3> QED
      BY <1>2, <1>3, <1>r, <2>2, <3>1, <3>3, MoveBack DEF Over, HasCopies, HasSealed, Kinds
  <2>3. CASE /\ Store(k)
             /\ hand' = [hand EXCEPT ![r][k] = puts[k] + 1]
             /\ pc' = [pc EXCEPT ![r] = Readback[k]]
             /\ UNCHANGED <<pending, mem>>
    <3>1. /\ hand'[r][k] = puts[k] + 1
          /\ \A j \in Kinds : j # k => hand'[r][j] = hand[r][j]
      BY <2>3 DEF TypeOK
    <3>2. UNCHANGED <<cert, pending>>
      BY <1>10, <2>3 DEF Put
    <3>3. \A b \in Bundle : Named(b) => hand'[r][k] # b[k]
      <4>1. \A v \in stored[k] : v # puts[k] + 1
        BY DEF TypeOK
      <4> QED
        BY <3>1, <4>1 DEF Backing, Held
    <3>6. \A j \in Kinds : stored[j] \subseteq stored'[j]
      BY <2>1, <2>3
    <3>7. \A b \in Bundle : Named(b)' => Named(b)
      BY <1>5, <3>2
    <3>8. ckpt'.vault = ckpt.vault
      BY <1>3
    <3>4. pc'[r] = Readback[k] /\ \A q \in Runs : q # r => pc'[q] = "idle"
      BY <1>3, <2>3 DEF TypeOK
    <3>5. Receipts(r)'
      <4>1. CASE k = "copies"
        <5>1. pc'[r] = "copies_readback" /\ hand'[r]["copies"] \in stored'["copies"]
          BY <1>r, <2>1, <2>3, <3>1, <3>4, <4>1
        <5> QED
          BY <1>2, <3>8, <5>1 DEF Receipts, HasSealed
      <4>2. CASE k = "sealed"
        <5>1. pc'[r] = "sealed_readback" /\ hand'[r]["sealed"] \in stored'["sealed"]
          BY <1>r, <2>1, <2>3, <3>1, <3>4, <4>2
        <5>2. pc[r] = "sealed_put"
          BY <1>10, <4>2 DEF Put, Upload
        <5>3. hand'[r]["copies"] \in stored'["copies"]
          BY <1>3, <2>1, <2>3, <3>1, <4>2, <5>2 DEF Receipts, HasCopies, Kinds
        <5> QED
          BY <1>2, <3>8, <5>1, <5>3 DEF Receipts
      <4> QED
        BY <1>4, <4>1, <4>2
    <3>9. \A q \in Runs : Receipts(q)'
      BY <3>4, <3>5 DEF Receipts, HasCopies, HasSealed
    <3>10. ASSUME NEW b \in Bundle, Named(b)'
           PROVE  Held(b)'
      <4>1. Named(b) /\ Held(b)
        BY <3>7, <3>10 DEF Backing
      <4>2. ckpt'.vault = Locked /\ \A j \in Kinds : b[j] \in stored'[j]
        BY <3>6, <3>8, <4>1 DEF Held
      <4>3. ASSUME NEW j \in Kinds, NEW q \in Runs, pc'[q] = Readback[j]
            PROVE  hand'[q][j] # b[j]
        <5>1. Readback[j] # "idle" /\ (Readback[k] = Readback[j] => j = k)
          BY <1>4, <1>r DEF Kinds
        <5>2. q = r /\ j = k
          BY <3>4, <4>3, <5>1
        <5> QED
          BY <3>3, <4>1, <5>2
      <4> QED
        BY <4>2, <4>3 DEF Held
    <3> QED
      BY <3>9, <3>10 DEF Backing
  <2> QED
    BY <1>10, <2>2, <2>3 DEF Put, Broken
<1> QED
  BY <1>1, <1>6, <1>7, <1>8, <1>9, <1>10

LEMMA RegisterBack ==
    ASSUME TypeOK, Alone, Backing, NEW r \in Runs, Register(r)
    PROVE  Backing'
<1>1. pc[r] = "register" /\ ckpt' = ckpt /\ UNCHANGED stored
  BY DEF Register
<1>2. (\A q \in Runs : q # r => pc[q] = "idle") /\ Receipts(r)
  BY <1>1 DEF Alone, Backing
<1>3. ckpt.vault = Locked /\ \A k \in Kinds : BundleOf(r)[k] \in stored[k]
  BY <1>1, <1>2 DEF Receipts, HasCopies, HasSealed, BundleOf, Kinds
<1>4. \A b \in Bundle : [register |-> b] = [register |-> BundleOf(r)] => b = BundleOf(r)
  <2> SUFFICES ASSUME NEW b \in Bundle, [register |-> b] = [register |-> BundleOf(r)]
               PROVE  b = BundleOf(r)
    OBVIOUS
  <2>1. [register |-> b].register = [register |-> BundleOf(r)].register
    OBVIOUS
  <2> QED
    BY <2>1
<1>5. Admit(BundleOf(r)) =>
        (cert' # Absent => \/ cert # Absent /\ cert'.bundle = cert.bundle
                           \/ cert'.bundle = BundleOf(r))
  BY DEF Admit
<1>6. \A b \in Bundle : Named(b)' => Named(b) \/ b = BundleOf(r)
  <2>1. CASE Admit(BundleOf(r)) /\ UNCHANGED pending
    BY <1>5, <2>1 DEF Named
  <2>2. CASE pending' = pending \union {[register |-> BundleOf(r)]} /\ UNCHANGED cert
    BY <1>4, <2>2 DEF Named
  <2> QED
    BY <2>1, <2>2 DEF Register
<1>7. \A k \in Kinds : Readback[k] \notin {"idle", "announce"}
  BY DEF Readback, Kinds
<1>8. pc'[r] \in {"idle", "announce"} /\ \A q \in Runs : q # r => pc'[q] = "idle"
  BY <1>2 DEF Register, Broken, Over, Goto, TypeOK
<1>9. \A q \in Runs : Receipts(q)'
  BY <1>1, <1>3, <1>8 DEF Receipts, HasCopies, HasSealed
<1>10. ASSUME NEW b \in Bundle, Named(b)'
       PROVE  Held(b)'
  <2>1. ckpt.vault = Locked /\ \A k \in Kinds : b[k] \in stored[k]
    BY <1>3, <1>6, <1>10 DEF Backing, Held
  <2> QED
    BY <1>1, <1>7, <1>8, <2>1 DEF Held
<1> QED
  BY <1>9, <1>10 DEF Backing

\* A run that goes on, or is over, and neither stores, deletes nor registers.
LEMMA GoBack ==
    ASSUME TypeOK, Backing, NEW r \in Runs, NEW l,
           \A q \in Runs : q # r => pc[q] = "idle",
           pc' = [pc EXCEPT ![r] = l],
           ckpt'.vault = ckpt.vault,
           UNCHANGED <<stored, cert, pending>>,
           l \notin {"copies_readback", "sealed_readback"},
           l \notin {"idle", "lookup", "vault"} => ckpt.vault = Locked,
           l \in HasCopies => hand'[r] = hand[r] /\ pc[r] \in HasCopies,
           l \in HasSealed => hand'[r] = hand[r] /\ pc[r] \in HasSealed
    PROVE  Backing'
<1>1. pc'[r] = l /\ \A q \in Runs : q # r => pc'[q] = "idle"
  BY DEF TypeOK
<1>2. \A q \in Runs : Receipts(q)'
  BY <1>1 DEF Backing, Receipts, HasCopies, HasSealed
<1>3. \A k \in Kinds, q \in Runs : pc'[q] # Readback[k]
  BY <1>1 DEF Readback, Kinds
<1>4. ASSUME NEW b \in Bundle, Named(b)'
      PROVE  Held(b)'
  <2>1. Named(b)
    BY <1>4 DEF Named
  <2>2. ckpt'.vault = Locked /\ \A k \in Kinds : b[k] \in stored'[k]
    BY <2>1 DEF Backing, Held
  <2> QED
    BY <1>3, <2>2 DEF Held
<1> QED
  BY <1>2, <1>4 DEF Backing

LEMMA OverBack ==
    ASSUME TypeOK, Backing, NEW r \in Runs, Over(r),
           \A q \in Runs : q # r => pc[q] = "idle",
           ckpt'.vault = ckpt.vault,
           UNCHANGED <<stored, cert, pending>>
    PROVE  Backing'
<1>1. pc' = [pc EXCEPT ![r] = "idle"]
  BY DEF Over
<1> QED
  BY <1>1, GoBack DEF HasCopies, HasSealed

LEMMA AdvanceBack ==
    ASSUME TypeOK, Alone, Backing, \A k \in Kinds : stored[k] \subseteq 1..puts[k],
           [Next]_vars, NEW r \in Runs, Advance(r)
    PROVE  Backing'
<1>1. ckpt'.vault = ckpt.vault
  BY VaultKept
<1>2. pc[r] # "idle" => (\A q \in Runs : q # r => pc[q] = "idle") /\ mem[r] = ckpt
  BY DEF Alone
<1>3. pc[r] \notin {"idle", "lookup", "vault"} => ckpt.vault = Locked
  BY DEF Backing, Receipts
<1>4. CASE Lookup(r)
  <2>1. pc' = [pc EXCEPT ![r] = "vault"] /\ pc[r] = "lookup"
    BY <1>4 DEF Lookup
  <2> QED
    BY <1>1, <1>2, <1>4, <2>1, GoBack DEF Lookup, remote, HasCopies, HasSealed
<1>5. CASE CheckVault(r)
  <2>1. pc' = [pc EXCEPT ![r] = "copies"] /\ pc[r] = "vault" /\ ckpt.vault = Locked
    BY <1>2, <1>5 DEF CheckVault, Write, VaultVersionsKnown
  <2> QED
    BY <1>1, <1>2, <1>5, <2>1, GoBack DEF CheckVault, remote, HasCopies, HasSealed
<1>6. CASE NoVaultVersion(r)
  BY <1>1, <1>2, <1>6, OverBack DEF NoVaultVersion, remote
<1>7. CASE Ensure(r)
  BY <1>7, EnsureBack
<1>8. CASE RecordCustody(r)
  <2>1. pc' = [pc EXCEPT ![r] = "sealed"] /\ pc[r] = "custody" /\ hand' = hand
    BY <1>8 DEF RecordCustody, Write
  <2> QED
    BY <1>1, <1>2, <1>3, <1>8, <2>1, GoBack DEF RecordCustody, remote, HasCopies, HasSealed
<1>9. CASE RecordSealed(r)
  <2>1. pc' = [pc EXCEPT ![r] = "register"] /\ pc[r] = "record" /\ hand' = hand
    BY <1>9 DEF RecordSealed, Write
  <2> QED
    BY <1>1, <1>2, <1>3, <1>9, <2>1, GoBack DEF RecordSealed, remote, HasCopies, HasSealed
<1>10. CASE AlreadyRegistered(r)
  <2>1. pc' = [pc EXCEPT ![r] = "announce"] /\ pc[r] = "register"
    BY <1>10 DEF AlreadyRegistered, Goto
  <2> QED
    BY <1>1, <1>2, <1>3, <1>10, <2>1, GoBack DEF AlreadyRegistered, remote, HasCopies, HasSealed
<1>11. CASE Register(r)
  BY <1>11, RegisterBack
<1>12. CASE Conflict(r)
  BY <1>1, <1>2, <1>12, OverBack DEF Conflict, remote
<1>13. CASE Announce(r)
  <2>1. pc' = [pc EXCEPT ![r] = "confirm"] /\ pc[r] = "announce"
    BY <1>13 DEF Announce, Write
  <2> QED
    BY <1>1, <1>2, <1>3, <1>13, <2>1, GoBack DEF Announce, remote, HasCopies, HasSealed
<1>14. CASE Confirm(r)
  <2>1. pc[r] = "confirm" /\ UNCHANGED <<stored, cert, pending>>
    BY <1>14 DEF Confirm, remote
  <2>2. CASE Over(r)
    BY <1>1, <1>2, <2>1, <2>2, OverBack
  <2>3. CASE Goto(r, "complete")
    <3>1. pc' = [pc EXCEPT ![r] = "complete"]
      BY <2>3 DEF Goto
    <3> QED
      BY <1>1, <1>2, <1>3, <2>1, <3>1, GoBack DEF HasCopies, HasSealed
  <2> QED
    BY <1>14, <2>2, <2>3 DEF Confirm
<1>15. CASE Complete(r)
  <2>1. pc' = [pc EXCEPT ![r] = "report"] /\ pc[r] = "complete"
    BY <1>15 DEF Complete, Write
  <2> QED
    BY <1>1, <1>2, <1>3, <1>15, <2>1, GoBack DEF Complete, remote, HasCopies, HasSealed
<1>16. CASE Report(r)
  BY <1>1, <1>2, <1>16, OverBack DEF Report, remote
<1> QED
  BY <1>4, <1>5, <1>6, <1>7, <1>8, <1>9, <1>10, <1>11, <1>12, <1>13, <1>14, <1>15, <1>16
  DEF Advance

\* The version that did not read back is deleted, and no bundle names it.
LEMMA DeleteBack ==
    ASSUME TypeOK, Alone, Backing, NEW r \in Runs, NEW k \in Kinds, NotVerified(r, k)
    PROVE  Backing'
<1>1. /\ pc[r] = Readback[k] /\ Readback[k] # "idle"
      /\ ckpt' = ckpt /\ UNCHANGED <<cert, pending>> /\ Over(r)
  BY DEF NotVerified, Readback, Kinds, Broken
<1>2. \A q \in Runs : pc'[q] = "idle"
  BY <1>1 DEF Alone, Over, TypeOK
<1>3. \A q \in Runs : Receipts(q)'
  BY <1>2 DEF Receipts, HasCopies, HasSealed
<1>4. ASSUME NEW b \in Bundle, Named(b)'
      PROVE  Held(b)'
  <2>1. Held(b)
    BY <1>1, <1>4 DEF Backing, Named
  <2>2. hand[r][k] # b[k]
    BY <1>1, <2>1 DEF Held
  <2>3. \A j \in Kinds : b[j] \in stored'[j]
    BY <2>1, <2>2 DEF Held, NotVerified, TypeOK
  <2>4. \A j \in Kinds : Readback[j] # "idle"
    BY DEF Readback, Kinds
  <2> QED
    BY <1>1, <1>2, <2>1, <2>3, <2>4 DEF Held
<1> QED
  BY <1>3, <1>4 DEF Backing

\* What happens away from the recoveries names nothing new, and deletes nothing.
LEMMA AwayBack ==
    ASSUME Backing, UNCHANGED <<pc, hand>>, ckpt'.vault = ckpt.vault,
           \A k \in Kinds : stored[k] \subseteq stored'[k],
           \A b \in Bundle : Named(b)' => Named(b)
    PROVE  Backing'
<1>1. \A q \in Runs : Receipts(q)'
  BY DEF Backing, Receipts, Kinds
<1>2. \A b \in Bundle : Named(b)' => Held(b)'
  BY DEF Backing, Held
<1> QED
  BY <1>1, <1>2 DEF Backing

LEMMA StepBack == TypeOK /\ AloneInv /\ BackInv /\ [Next]_vars => BackInv'
<1> SUFFICES ASSUME TypeOK, AloneInv, BackInv, [Next]_vars, overlaps' = 0
             PROVE  Backing'
  BY VersionsAreOld DEF BackInv
<1>0. overlaps = 0 /\ Alone /\ Backing
  BY OverlapsGrow DEF AloneInv, BackInv
<1>1. ASSUME NEW r \in Runs, Start(r)
      PROVE  Backing'
  <2>1. \A q \in Runs : pc[q] = "idle"
    BY <1>0, <1>1 DEF Start, TypeOK
  <2>2. pc' = [pc EXCEPT ![r] = "lookup"]
    BY <1>1 DEF Start
  <2> QED
    BY <1>0, <1>1, <2>1, <2>2, GoBack DEF Start, remote, HasCopies, HasSealed
<1>2. ASSUME NEW r \in Runs, Advance(r)
      PROVE  Backing'
  BY <1>0, <1>2, AdvanceBack DEF BackInv
<1>3. ASSUME NEW r \in Runs, Interrupt(r)
      PROVE  Backing'
  BY <1>0, <1>3, OverBack DEF Interrupt, Broken, remote, Alone
<1>4. ASSUME NEW r \in Runs, NEW k \in Kinds, NotVerified(r, k)
      PROVE  Backing'
  BY <1>0, <1>4, DeleteBack
<1>5. ASSUME UNCHANGED <<cert, pending>>
      PROVE  \A b \in Bundle : Named(b)' => Named(b)
  BY <1>5 DEF Named
<1>6. CASE Live
  BY <1>0, <1>5, <1>6, LiveWritesNothing, AwayBack DEF Live, remote, local
<1>7. ASSUME NEW k \in Kinds, LatePut(k)
      PROVE  Backing'
  <2>1. \A j \in Kinds : stored[j] \subseteq stored'[j]
    BY <1>7 DEF LatePut, Store, TypeOK
  <2>2. \A b \in Bundle : Named(b)' => Named(b)
    BY <1>7 DEF LatePut, Named
  <2> QED
    BY <1>0, <1>7, <2>1, <2>2, AwayBack DEF LatePut, local
<1>8. ASSUME NEW q \in pending, "register" \in DOMAIN q, LateRegister(q.register)
      PROVE  Backing'
  <2>1. q.register \in Bundle /\ [register |-> q.register] \in pending
    BY <1>8 DEF LateRegister, TypeOK, Request
  <2>2. \A b \in Bundle : Named(b)' => Named(b)
    BY <1>8, <2>1 DEF LateRegister, Admit, Named
  <2> QED
    BY <1>0, <1>8, <2>2, AwayBack DEF LateRegister, local
<1>9. CASE Revoke
  <2>1. cert'.bundle = cert.bundle
    BY <1>9 DEF Revoke, TypeOK, Certificate
  <2>2. \A b \in Bundle : Named(b)' => Named(b)
    BY <1>9, <2>1 DEF Revoke, Named
  <2> QED
    BY <1>0, <1>9, <2>2, AwayBack DEF Revoke, local
<1>10. CASE UNCHANGED vars
  BY <1>0, <1>5, <1>10, AwayBack DEF vars, remote, local
<1>11. ASSUME NEW r \in Runs, NEW k \in Kinds, PutAgain(r, k)
       PROVE  Backing'
  <2>1. \A b \in Bundle : Named(b)' => Named(b)
    BY <1>11, AgainPends DEF Named
  <2> QED
    BY <1>0, <1>11, <2>1, AgainPends, AwayBack DEF local
<1> QED
  BY <1>1, <1>2, <1>3, <1>4, <1>6, <1>7, <1>8, <1>9, <1>10, <1>11 DEF Next, Fail

\* Unless two recoveries overlapped, a certificate names versions that are stored, and its
\* locked evidence is known: the rollback of a read-back that failed deletes the version
\* just put and no other, and a registration that takes effect late names what its run
\* had read back.
THEOREM CertificatesNameStoredEvidence == Spec => []CertificateIsBacked
<1>1. TypeOK /\ BackInv => CertificateIsBacked
  <2> SUFFICES ASSUME TypeOK, BackInv, overlaps = 0, cert # Absent
               PROVE  ckpt.vault = Locked /\ \A k \in Kinds : cert.bundle[k] \in stored[k]
    BY DEF CertificateIsBacked
  <2>1. cert.bundle \in Bundle
    BY DEF TypeOK, Certificate
  <2>2. Named(cert.bundle)
    BY DEF Named
  <2> QED
    BY <2>1, <2>2 DEF BackInv, Backing, Held
<1> QED
  BY <1>1, InitTypes, StepTypes, InitAlone, StepAlone, InitBack, StepBack, PTL DEF Spec
=============================================================================
