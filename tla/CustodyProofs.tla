----------------------------- MODULE CustodyProofs -----------------------------
(***************************************************************************)
(* What holds of custody for any number of processes, runs, jobs and       *)
(* faults, with no lock common to the processes; and, in the last part,    *)
(* of the readback that verifies each locked object, for any number of     *)
(* attempts, any deadline, any backoff and any bound on the time of a read.*)
(***************************************************************************)
EXTENDS Custody, ReadbackBudget, TLAPS

-------------------------------------------------------------------------------
(* The invariant. *)
Working == {"head", "reuse", "put", "verify"}

\* A version in hand that nobody else has uploaded, and nobody will.
Mine(w, s) ==
    /\ have[w][s] \in 1..versions[s][KeyOf(job[w], s)]
    /\ \A o \in Objects(s, KeyOf(job[w], s)) : o.version = have[w][s] => o.owner = Run(w)

Proved(st, j, s, v) ==
    \E o \in st :
        /\ o.slot = s
        /\ o.key = KeyOf(j, s)
        /\ o.version = v
        /\ Covers(o.until, j.until)

\* Version numbers are given out once, and owners are runs that have begun.
StoreInv ==
    /\ \A o \in store :
          /\ o.version \in 1..versions[o.slot][o.key]
          /\ o.owner[2] <= runs[o.owner[1]]
    /\ \A q \in late : q.owner[2] <= runs[q.owner[1]]

\* What a run holds is a version given out: one stored later has another number, also
\* when a put of the run itself stores it.
Known(w) ==
    /\ \A s \in Slots : have[w][s] <= versions[s][KeyOf(job[w], s)]
    /\ \A q \in late : q.owner = Run(w) => q.key = KeyOf(job[w], q.slot)

\* What a run in progress has established of the objects behind it, and of its own.
RunInv(w) ==
    /\ pc[w] \in Working => \A s \in created[w] : s < slot[w]
    /\ \A s \in created[w] : Mine(w, s)
    /\ pc[w] = "verify" => Mine(w, slot[w])
    /\ pc[w] = "put" => have[w][slot[w]] = 0
    /\ pc[w] = "return" => slot[w] = LastSlot
    /\ \A q \in late : q.owner = Run(w) =>
          /\ q.slot <= slot[w]
          /\ pc[w] \in {"head", "reuse"} => q.slot < slot[w]
    /\ \A o \in store : o.owner = Run(w) =>
          /\ o.slot <= slot[w]
          /\ pc[w] \in {"head", "reuse"} => o.slot < slot[w]
          /\ o.slot \in VaultSlots /\ o.version = have[w][o.slot] =>
                \/ <<o.slot, o.version>> \in partial[w]
                \/ pc[w] = "verify" /\ o.slot = slot[w]
    /\ pc[w] # "rollback" =>
          \A s \in VaultSlots :
              s < slot[w] \/ pc[w] = "return" => Proved(store, job[w], s, have[w][s])
    /\ \A r \in receipts : r.run # Run(w)

\* What a failed run has left is what its error reports.
Reported(w) ==
    \A o \in store :
        o.slot \in VaultSlots /\ o.owner = Run(w) /\ o.version = have[w][o.slot] =>
            <<o.slot, o.version>> \in partial[w]

ReceiptInv(r) ==
    /\ r.run[2] <= runs[r.run[1]]
    /\ \A s \in VaultSlots : Proved(store, r.job, s, r.have[s])

CustodyInv ==
    /\ TypeOK
    /\ StoreInv
    /\ \A w \in Workers : /\ Known(w)
                          /\ Active(w) => RunInv(w)
                          /\ pc[w] = "failed" => Reported(w)
    /\ \A r \in receipts : ReceiptInv(r)

-------------------------------------------------------------------------------
(* What a step of one run leaves to the others. *)
Change(w) ==
    /\ \A o \in store : o.slot \in VaultSlots => o \in store'
    /\ \A o \in store' : \/ o \in store
                         \/ /\ o.owner = Run(w)
                            /\ o.version > versions[o.slot][o.key]
                            /\ o.version <= versions'[o.slot][o.key]
    /\ \A s \in Slots : \A k \in Keys : versions[s][k] <= versions'[s][k]
    /\ \A r \in receipts' : r \in receipts \/ r.run = Run(w)
    /\ \A q \in late' : q \in late \/ q.owner = Run(w)

Unmoved(x) ==
    /\ pc'[x] = pc[x] /\ slot'[x] = slot[x] /\ job'[x] = job[x] /\ have'[x] = have[x]
    /\ created'[x] = created[x] /\ partial'[x] = partial[x] /\ runs'[x] = runs[x]

LEMMA JobKeys ==
    ASSUME NEW j \in Jobs, NEW s \in Slots
    PROVE  KeyOf(j, s) \in Keys
BY DEF KeyOf, Keys

LEMMA ProvedStays ==
    ASSUME NEW w, Change(w), NEW j, NEW s \in VaultSlots, NEW v, Proved(store, j, s, v)
    PROVE  Proved(store', j, s, v)
BY DEF Proved, Change

LEMMA MineStays ==
    ASSUME TypeOK, TypeOK', NEW w \in Workers, NEW x \in Workers, x # w, Change(w), Unmoved(x),
           NEW s \in Slots, Mine(x, s)
    PROVE  Mine(x, s)'
<1> DEFINE k == KeyOf(job[x], s)
<1>1. k \in Keys /\ k = KeyOf(job'[x], s)
  BY JobKeys DEF TypeOK, Unmoved
<1>2. versions[s][k] \in Nat /\ versions'[s][k] \in Nat /\ versions[s][k] <= versions'[s][k]
  BY <1>1 DEF TypeOK, Change
<1>3. have[x][s] \in 1..versions[s][k] /\ have'[x][s] = have[x][s] /\ have[x][s] \in Nat
  BY DEF Mine, Unmoved, TypeOK
<1>4. have'[x][s] \in 1..versions'[s][k]
  BY <1>2, <1>3
<1>5. ASSUME NEW o \in store', o.slot = s, o.key = k, o.version = have[x][s] PROVE o.owner = Run(x)
  <2>1. o \in store
    BY <1>2, <1>3, <1>5 DEF Change
  <2> QED
    BY <1>5, <2>1 DEF Mine, Objects
<1>6. Run(x)' = Run(x)
  BY DEF Run, Unmoved
<1> QED
  BY <1>1, <1>3, <1>4, <1>5, <1>6 DEF Mine, Objects

LEMMA KnownStays ==
    ASSUME TypeOK, TypeOK', NEW x \in Workers, Known(x),
           have'[x] = have[x], job'[x] = job[x], runs'[x] = runs[x],
           \A q \in late' : q \in late \/ q.owner # Run(x),
           \A s \in Slots : \A k \in Keys : versions[s][k] <= versions'[s][k]
    PROVE  Known(x)'
<1> SUFFICES ASSUME NEW s \in Slots PROVE have[x][s] <= versions'[s][KeyOf(job[x], s)]
  BY DEF Known, Run
<1>1. job[x] \in Jobs /\ have[x][s] \in Nat
  BY DEF TypeOK
<1>2. PICK k \in Keys : k = KeyOf(job[x], s)
  BY <1>1, JobKeys
<1>3. versions[s][k] \in Nat /\ versions'[s][k] \in Nat /\ versions[s][k] <= versions'[s][k]
  BY DEF TypeOK
<1>4. have[x][s] <= versions[s][k]
  BY <1>2 DEF Known
<1> QED
  BY <1>1, <1>2, <1>3, <1>4

LEMMA Others ==
    ASSUME CustodyInv, TypeOK', NEW w \in Workers, NEW x \in Workers, x # w, Change(w), Unmoved(x)
    PROVE  /\ Known(x)'
           /\ Active(x)' => RunInv(x)'
           /\ (pc[x] = "failed")' => Reported(x)'
<1>1. Run(x)' = Run(x) /\ Run(x) # Run(w)
  BY DEF Run, Unmoved
<1>2. /\ \A o \in store' : o.owner = Run(x) => o \in store
      /\ \A q \in late' : q.owner = Run(x) => q \in late
  BY <1>1 DEF Change
<1>k. Known(x)'
  <2>1. \A q \in late' : q \in late \/ q.owner # Run(x)
    BY <1>1 DEF Change
  <2> QED
    BY <2>1, KnownStays DEF CustodyInv, Change, Unmoved
<1>3. ASSUME pc'[x] = "failed" PROVE Reported(x)'
  BY <1>1, <1>2, <1>3 DEF CustodyInv, Reported, Unmoved
<1>4. ASSUME Active(x)' PROVE RunInv(x)'
  <2>1. RunInv(x)
    BY <1>4 DEF CustodyInv, Active, Unmoved
  <2>2. created[x] \subseteq Slots /\ slot[x] \in Slots
    BY DEF CustodyInv, TypeOK, AssetsSlots, Slots
  <2>3. (\A s \in created[x] : Mine(x, s))'
    BY <2>1, <2>2, MineStays DEF RunInv, Unmoved, CustodyInv
  <2>4. (pc[x] = "verify" => Mine(x, slot[x]))'
    <3>1. ASSUME pc[x] = "verify" PROVE Mine(x, slot[x])'
      <4>1. Mine(x, slot[x])
        BY <2>1, <3>1 DEF RunInv
      <4>2. ASSUME NEW s \in Slots, s = slot[x] PROVE Mine(x, s)'
        BY <4>1, <4>2, MineStays DEF CustodyInv
      <4> QED
        BY <2>2, <4>2 DEF Unmoved
    <3> QED
      BY <3>1 DEF Unmoved
  <2>5. (pc[x] # "rollback" =>
           \A s \in VaultSlots :
              s < slot[x] \/ pc[x] = "return" => Proved(store, job[x], s, have[x][s]))'
    <3> SUFFICES ASSUME pc[x] # "rollback", NEW s \in VaultSlots, s < slot[x] \/ pc[x] = "return"
                 PROVE  Proved(store', job[x], s, have[x][s])
      BY DEF Unmoved
    <3>1. Proved(store, job[x], s, have[x][s])
      BY <2>1 DEF RunInv
    <3> QED
      BY <3>1, ProvedStays
  <2>6. (\A r \in receipts : r.run # Run(x))'
    BY <1>1, <2>1 DEF RunInv, Change
  <2>7. (\A o \in store : o.owner = Run(x) =>
          /\ o.slot <= slot[x]
          /\ pc[x] \in {"head", "reuse"} => o.slot < slot[x]
          /\ o.slot \in VaultSlots /\ o.version = have[x][o.slot] =>
                \/ <<o.slot, o.version>> \in partial[x]
                \/ pc[x] = "verify" /\ o.slot = slot[x])'
    BY <1>1, <1>2, <2>1 DEF RunInv, Unmoved
  <2>8. (/\ pc[x] \in Working => \A s \in created[x] : s < slot[x]
         /\ pc[x] = "put" => have[x][slot[x]] = 0
         /\ pc[x] = "return" => slot[x] = LastSlot)'
    BY <2>1 DEF RunInv, Unmoved
  <2>9. (\A q \in late : q.owner = Run(x) =>
          /\ q.slot <= slot[x]
          /\ pc[x] \in {"head", "reuse"} => q.slot < slot[x])'
    BY <1>1, <1>2, <2>1 DEF RunInv, Unmoved
  <2> QED
    BY <2>3, <2>4, <2>5, <2>6, <2>7, <2>8, <2>9 DEF RunInv
<1> QED
  BY <1>k, <1>3, <1>4 DEF Active

LEMMA GlobalKept ==
    ASSUME CustodyInv, TypeOK', NEW w \in Workers, Active(w), Change(w), UNCHANGED <<runs, receipts>>
    PROVE  StoreInv' /\ \A r \in receipts' : ReceiptInv(r)'
<1>1. ASSUME NEW o \in store'
      PROVE  o.version \in 1..versions'[o.slot][o.key] /\ o.owner[2] <= runs'[o.owner[1]]
  <2>1. o.slot \in Slots /\ o.key \in Keys /\ o.version \in Nat
    BY DEF TypeOK, Version
  <2>2. versions[o.slot][o.key] \in Nat /\ versions'[o.slot][o.key] \in Nat
        /\ versions[o.slot][o.key] <= versions'[o.slot][o.key]
    BY <2>1 DEF CustodyInv, TypeOK, Change
  <2>3. CASE o \in store
    BY <2>1, <2>2, <2>3 DEF CustodyInv, StoreInv
  <2>4. CASE o \notin store
    <3>1. o.owner = Run(w) /\ o.version > versions[o.slot][o.key]
          /\ o.version <= versions'[o.slot][o.key]
      BY <2>4 DEF Change
    <3>2. Run(w)[1] = w /\ Run(w)[2] = runs[w] /\ runs[w] \in Nat
      BY DEF Run, CustodyInv, TypeOK
    <3> QED
      BY <2>1, <2>2, <3>1, <3>2
  <2> QED
    BY <2>3, <2>4
<1>2. ASSUME NEW r \in receipts PROVE ReceiptInv(r)'
  <2>1. ReceiptInv(r) /\ r.run # Run(w)
    BY DEF CustodyInv, RunInv
  <2>2. \A s \in VaultSlots : Proved(store', r.job, s, r.have[s])
    BY <2>1, ProvedStays DEF ReceiptInv
  <2> QED
    BY <2>1, <2>2 DEF ReceiptInv
<1>3. ASSUME NEW q \in late' PROVE q.owner[2] <= runs'[q.owner[1]]
  <2>1. Run(w)[1] = w /\ Run(w)[2] = runs[w] /\ runs[w] \in Nat
    BY DEF Run, CustodyInv, TypeOK
  <2>2. CASE q \in late
    BY <2>2 DEF CustodyInv, StoreInv
  <2>3. CASE q.owner = Run(w)
    BY <2>1, <2>3
  <2> QED
    BY <2>2, <2>3 DEF Change
<1> QED
  BY <1>1, <1>2, <1>3 DEF StoreInv

LEMMA Assemble ==
    ASSUME CustodyInv, TypeOK', NEW w \in Workers, Active(w), Change(w), UNCHANGED <<runs, receipts>>,
           \A x \in Workers : x # w => Unmoved(x), Known(w)',
           Active(w)' => RunInv(w)', (pc[w] = "failed")' => Reported(w)'
    PROVE  CustodyInv'
<1>1. StoreInv' /\ \A r \in receipts' : ReceiptInv(r)'
  BY GlobalKept
<1>2. ASSUME NEW x \in Workers
      PROVE  Known(x)' /\ (Active(x) => RunInv(x))' /\ (pc[x] = "failed" => Reported(x))'
  <2>1. CASE x = w
    BY <2>1
  <2>2. CASE x # w
    BY <2>2, Others
  <2> QED
    BY <2>1, <2>2
<1> QED
  BY <1>1, <1>2 DEF CustodyInv

LEMMA NothingStored ==
    ASSUME TypeOK, NEW w \in Workers, UNCHANGED <<store, versions, receipts, late>>
    PROVE  Change(w)
BY DEF TypeOK, Change

-------------------------------------------------------------------------------
(* The steps of a run. *)
LEMMA Places ==
    ASSUME TypeOK, NEW w \in Workers,
           NEW l \in {"idle", "head", "reuse", "put", "verify", "return", "rollback", "failed"},
           Goto(w, l)
    PROVE  /\ pc' \in [Workers -> {"idle", "head", "reuse", "put", "verify", "return",
                                   "rollback", "failed"}]
           /\ pc'[w] = l
           /\ \A x \in Workers : x # w => pc'[x] = pc[x]
BY DEF TypeOK, Goto

LEMMA Behind ==
    ASSUME TypeOK, NEW w \in Workers, RunInv(w), NEW o \in store, o.owner = Run(w)
    PROVE  /\ o.slot \in Slots /\ o.slot <= slot[w] /\ o.version \in Nat
           /\ pc[w] \in {"head", "reuse"} => o.slot < slot[w] /\ o.slot # slot[w]
           /\ o.slot \in VaultSlots /\ o.version = have[w][o.slot] =>
                \/ <<o.slot, o.version>> \in partial[w]
                \/ pc[w] = "verify" /\ o.slot = slot[w]
<1>1. o.slot \in Slots /\ slot[w] \in Slots /\ o.version \in Nat
  BY DEF TypeOK, Version
<1>2. o.slot <= slot[w] /\ (pc[w] \in {"head", "reuse"} => o.slot < slot[w])
  BY DEF RunInv
<1>3. o.slot < slot[w] => o.slot # slot[w]
  BY <1>1 DEF Slots
<1>4. o.slot \in VaultSlots /\ o.version = have[w][o.slot] =>
         \/ <<o.slot, o.version>> \in partial[w]
         \/ pc[w] = "verify" /\ o.slot = slot[w]
  BY DEF RunInv
<1> QED
  BY <1>1, <1>2, <1>3, <1>4

LEMMA Pending ==
    ASSUME TypeOK, NEW w \in Workers, RunInv(w), NEW q \in late, q.owner = Run(w)
    PROVE  /\ q.slot \in Slots /\ q.slot <= slot[w]
           /\ pc[w] \in {"head", "reuse"} => q.slot < slot[w]
BY DEF TypeOK, Upload, RunInv

LEMMA InCreated ==
    ASSUME TypeOK, NEW w \in Workers, RunInv(w), NEW q \in created[w]
    PROVE  /\ q \in Slots /\ q \in AssetsSlots /\ Mine(w, q)
           /\ pc[w] \in Working => q < slot[w] /\ q # slot[w]
<1>1. q \in Slots /\ slot[w] \in Slots /\ q \in AssetsSlots
  BY DEF TypeOK, AssetsSlots, Slots
<1> QED
  BY <1>1 DEF RunInv, Slots

LEMMA HeadStep ==
    ASSUME CustodyInv, NEW w \in Workers, HeadObject(w)
    PROVE  CustodyInv'
<1>a. Active(w) /\ pc[w] = "head"
  BY DEF Active, HeadObject
<1>t. /\ TypeOK /\ StoreInv /\ RunInv(w)
      /\ slot[w] \in Slots /\ job[w] \in Jobs /\ KeyOf(job[w], slot[w]) \in Keys
      /\ have[w] \in [Slots -> Nat] /\ Run(w) \in RunId
  BY <1>a, JobKeys DEF CustodyInv, TypeOK, Run, RunId
<1> DEFINE s == slot[w]
           k == KeyOf(job[w], s)
<1>1. PICK v \in Nat, l \in {"put", "reuse"} :
        /\ have' = [have EXCEPT ![w][s] = v] /\ Goto(w, l)
        /\ l = "put" => v = 0 /\ Objects(s, k) = {}
        /\ v <= versions[s][k]
  <2>1. \A o \in Newest(s, k) : o.version \in Nat /\ o.version <= versions[s][k]
    BY <1>t DEF Newest, Objects, TypeOK, Version, StoreInv
  <2>4. 0 <= versions[s][k]
    BY <1>t DEF TypeOK
  <2>2. CASE /\ Objects(s, k) = {}
             /\ have' = [have EXCEPT ![w][s] = 0]
             /\ Goto(w, "put")
    BY <2>2, <2>4
  <2>3. CASE /\ \E o \in Newest(s, k) : have' = [have EXCEPT ![w][s] = o.version]
             /\ Goto(w, "reuse")
    BY <2>1, <2>3
  <2> QED
    BY <2>2, <2>3 DEF HeadObject
<1>3. /\ have' \in [Workers -> [Slots -> Nat]]
      /\ have'[w][s] = v
      /\ \A q \in Slots : q # s => have'[w][q] = have[w][q]
      /\ \A x \in Workers : x # w => have'[x] = have[x]
  BY <1>1, <1>t DEF TypeOK
<1>4. /\ pc' \in [Workers -> {"idle", "head", "reuse", "put", "verify", "return",
                              "rollback", "failed"}]
      /\ pc'[w] = l
      /\ \A x \in Workers : x # w => pc'[x] = pc[x]
  BY <1>1, <1>t, Places
<1>5. TypeOK'
  BY <1>3, <1>4, <1>t DEF HeadObject, TypeOK
<1>u. UNCHANGED <<store, versions, late, slot, job, created, partial, runs, receipts>>
  BY DEF HeadObject
<1>6. Change(w) /\ (\A x \in Workers : x # w => Unmoved(x))
  BY <1>3, <1>4, <1>t, <1>u, NothingStored DEF Unmoved
<1>7. RunInv(w)'
  <2>1. \A o \in store : o.owner = Run(w) =>
            o.slot \in Slots /\ o.slot < s /\ o.slot <= s /\ o.slot # s
    BY <1>a, <1>t, Behind
  <2>7. \A q \in late : q.owner = Run(w) => q.slot <= s /\ q.slot < s
    BY <1>a, <1>t, Pending
  <2>6. Run(w)' = Run(w)
    BY <1>u DEF Run
  <2>2. (\A o \in store : o.owner = Run(w) =>
          /\ o.slot <= slot[w]
          /\ pc[w] \in {"head", "reuse"} => o.slot < slot[w]
          /\ o.slot \in VaultSlots /\ o.version = have[w][o.slot] =>
                \/ <<o.slot, o.version>> \in partial[w]
                \/ pc[w] = "verify" /\ o.slot = slot[w])'
    <3> SUFFICES ASSUME NEW o \in store, o.owner = Run(w)
                 PROVE  /\ o.slot <= s
                        /\ o.slot < s
                        /\ o.slot \in VaultSlots /\ o.version = have'[w][o.slot] =>
                              <<o.slot, o.version>> \in partial[w]
      BY <1>u, <2>6
    <3>1. have'[w][o.slot] = have[w][o.slot]
      BY <1>3, <2>1
    <3> QED
      BY <1>a, <1>t, <2>1, <3>1 DEF RunInv
  <2>3. \A q \in created[w] : q \in Slots /\ q < s /\ q # s /\ Mine(w, q)
    BY <1>a, <1>t, InCreated DEF Working
  <2>4. (\A q \in created[w] : Mine(w, q))'
    <3> SUFFICES ASSUME NEW q \in created[w] PROVE Mine(w, q)'
      BY <1>u
    <3>1. have'[w][q] = have[w][q]
      BY <1>3, <2>3
    <3> QED
      BY <1>u, <2>3, <2>6, <3>1 DEF Mine, Objects
  <2>5. (\A q \in VaultSlots : q < slot[w] \/ pc[w] = "return" => Proved(store, job[w], q, have[w][q]))'
    BY <1>a, <1>t, <1>3, <1>4, <1>u DEF RunInv, VaultSlots, Slots
  <2> QED
    BY <1>t, <1>1, <1>3, <1>4, <1>u, <2>2, <2>3, <2>4, <2>5, <2>6, <2>7 DEF RunInv, Working
<1>8. Known(w)'
  <2>1. Run(w)' = Run(w) /\ Known(w)
    BY <1>u DEF Run, CustodyInv
  <2>2. ASSUME NEW q \in Slots PROVE have'[w][q] <= versions[q][KeyOf(job[w], q)]
    BY <1>1, <1>3, <1>t, <2>1 DEF Known
  <2> QED
    BY <1>u, <2>1, <2>2 DEF Known
<1> QED
  BY <1>a, <1>4, <1>5, <1>6, <1>7, <1>8, <1>u, Assemble

LEMMA HoldStep ==
    ASSUME CustodyInv, NEW w \in Workers, Reuse(w) \/ Verified(w)
    PROVE  CustodyInv'
<1>a. Active(w) /\ pc[w] \in {"reuse", "verify"}
  BY DEF Active, Reuse, Verified
<1>t. /\ TypeOK /\ StoreInv /\ RunInv(w)
      /\ slot[w] \in Slots /\ job[w] \in Jobs /\ KeyOf(job[w], slot[w]) \in Keys
      /\ have[w] \in [Slots -> Nat] /\ Run(w) \in RunId
  BY <1>a, JobKeys DEF CustodyInv, TypeOK, Run, RunId
<1>u. /\ UNCHANGED <<store, versions, late, job, have, runs, receipts, faults, failures>>
      /\ Run(w)' = Run(w)
  BY DEF Reuse, Verified, Run
<1>1. /\ partial' = [partial EXCEPT ![w] = @ \union {<<slot[w], have[w][slot[w]]>>}]
      /\ \/ /\ slot[w] = LastSlot /\ Goto(w, "return") /\ UNCHANGED slot
         \/ /\ slot[w] # LastSlot /\ Goto(w, "head") /\ slot' = [slot EXCEPT ![w] = @ + 1]
  BY DEF Reuse, Verified, Hold
<1>2. PICK c \in SUBSET AssetsSlots :
        /\ created' = [created EXCEPT ![w] = created[w] \union c]
        /\ \A q \in c : q = slot[w] /\ pc[w] = "verify"
  <2>1. CASE Reuse(w)
    <3>1. created' = [created EXCEPT ![w] = created[w] \union {}]
      BY <1>t, <2>1 DEF Reuse, TypeOK
    <3>2. {} \in SUBSET AssetsSlots
      OBVIOUS
    <3> QED
      BY <3>1, <3>2
  <2>2. CASE Verified(w)
    <3>1. created' = [created EXCEPT ![w] = created[w] \union ({slot[w]} \intersect AssetsSlots)]
          /\ pc[w] = "verify"
      BY <2>2 DEF Verified
    <3>2. {slot[w]} \intersect AssetsSlots \in SUBSET AssetsSlots
      OBVIOUS
    <3> QED
      BY <3>1, <3>2
  <2> QED
    BY <2>1, <2>2
<1>3. /\ slot' \in [Workers -> Slots] /\ slot[w] <= slot'[w]
      /\ \A x \in Workers : x # w => slot'[x] = slot[x]
      /\ \/ slot'[w] = slot[w] /\ slot[w] = LastSlot /\ Goto(w, "return")
         \/ slot'[w] = slot[w] + 1 /\ slot[w] \in 1..3 /\ Goto(w, "head")
  <2>1. CASE slot[w] = LastSlot /\ Goto(w, "return") /\ UNCHANGED slot
    BY <1>t, <2>1 DEF TypeOK, Slots
  <2>2. CASE slot[w] # LastSlot /\ Goto(w, "head") /\ slot' = [slot EXCEPT ![w] = @ + 1]
    <3>1. slot[w] \in 1..3 /\ slot[w] + 1 \in Slots /\ slot[w] <= slot[w] + 1
      BY <1>t, <2>2 DEF Slots, LastSlot
    <3>2. slot' \in [Workers -> Slots] /\ slot'[w] = slot[w] + 1
          /\ \A x \in Workers : x # w => slot'[x] = slot[x]
      BY <1>t, <2>2, <3>1 DEF TypeOK
    <3> QED
      BY <2>2, <3>1, <3>2
  <2> QED
    BY <1>1, <2>1, <2>2
<1>4. /\ pc' \in [Workers -> {"idle", "head", "reuse", "put", "verify", "return",
                              "rollback", "failed"}]
      /\ pc'[w] \in {"head", "return"}
      /\ pc'[w] = "return" => slot'[w] = slot[w] /\ slot[w] = LastSlot
      /\ pc'[w] = "head" => slot'[w] = slot[w] + 1 /\ slot[w] \in 1..3
      /\ \A x \in Workers : x # w => pc'[x] = pc[x]
  BY <1>3, <1>t, Places
<1>5. /\ partial' \in [Workers -> SUBSET (Slots \X Nat)]
      /\ partial'[w] = partial[w] \union {<<slot[w], have[w][slot[w]]>>}
      /\ \A x \in Workers : x # w => partial'[x] = partial[x]
  <2>1. <<slot[w], have[w][slot[w]]>> \in Slots \X Nat
    BY <1>t
  <2> QED
    BY <1>1, <1>t, <2>1 DEF TypeOK
<1>6. /\ created' \in [Workers -> SUBSET AssetsSlots]
      /\ created'[w] = created[w] \union c
      /\ \A x \in Workers : x # w => created'[x] = created[x]
  BY <1>2, <1>t DEF TypeOK
<1>7. TypeOK'
  BY <1>3, <1>4, <1>5, <1>6, <1>t, <1>u DEF TypeOK
<1>8. Change(w) /\ (\A x \in Workers : x # w => Unmoved(x))
  BY <1>3, <1>4, <1>5, <1>6, <1>t, <1>u, NothingStored DEF Unmoved
<1>9. RunInv(w)'
  <2>1. ASSUME NEW q \in created'[w]
        PROVE  Mine(w, q)' /\ (pc'[w] \in Working => q < slot'[w])
    <3>1. q \in Slots /\ Mine(w, q) /\ q <= slot[w]
      <4>1. CASE q \in created[w]
        <5>1. q \in Slots /\ Mine(w, q) /\ q < slot[w]
          BY <1>a, <1>t, <4>1, InCreated DEF Working
        <5> QED
          BY <1>t, <5>1 DEF Slots
      <4>2. CASE q \in c
        BY <1>2, <1>t, <4>2 DEF RunInv, Slots
      <4> QED
        BY <1>6, <4>1, <4>2
    <3>2. Mine(w, q)'
      BY <1>u, <3>1 DEF Mine, Objects
    <3>3. pc'[w] \in Working => q < slot'[w]
      BY <1>4, <1>t, <3>1 DEF Working, Slots
    <3> QED
      BY <3>2, <3>3
  <2>2. ASSUME NEW o \in store, o.owner = Run(w)
        PROVE  /\ o.slot <= slot'[w]
               /\ pc'[w] \in {"head", "reuse"} => o.slot < slot'[w]
               /\ o.slot \in VaultSlots /\ o.version = have[w][o.slot] =>
                     <<o.slot, o.version>> \in partial'[w]
    <3>1. o.slot \in Slots /\ o.slot <= slot[w]
          /\ (o.slot \in VaultSlots /\ o.version = have[w][o.slot] =>
                 <<o.slot, o.version>> \in partial[w] \/ o.slot = slot[w])
      BY <1>a, <1>t, <2>2, Behind
    <3>2. o.slot <= slot'[w] /\ (pc'[w] \in {"head", "reuse"} => o.slot < slot'[w])
      BY <1>3, <1>4, <1>t, <3>1 DEF Slots
    <3> QED
      BY <1>5, <3>1, <3>2
  <2>3. ASSUME NEW q \in VaultSlots, q < slot'[w] \/ pc'[w] = "return"
        PROVE  Proved(store, job[w], q, have[w][q])
    <3>1. q <= slot[w]
      BY <1>4, <1>t, <2>3 DEF VaultSlots, Slots, LastSlot
    <3>2. CASE q < slot[w]
      BY <1>a, <1>t, <3>2 DEF RunInv
    <3>3. CASE q = slot[w]
      <4>1. Holds(w)
        BY DEF Reuse, Verified
      <4> QED
        BY <3>3, <4>1 DEF Holds, Proved, Objects
    <3> QED
      BY <1>t, <3>1, <3>2, <3>3 DEF VaultSlots, Slots
  <2>4. \A r \in receipts : r.run # Run(w)
    BY <1>t DEF RunInv
  <2>5. ASSUME NEW q \in late, q.owner = Run(w)
        PROVE  q.slot <= slot'[w] /\ (pc'[w] \in {"head", "reuse"} => q.slot < slot'[w])
    <3>1. q.slot \in Slots /\ q.slot <= slot[w]
      BY <1>t, <2>5, Pending
    <3> QED
      BY <1>3, <1>4, <1>t, <3>1 DEF Slots
  <2> QED
    BY <1>4, <1>u, <2>1, <2>2, <2>3, <2>4, <2>5 DEF RunInv
<1>10. Known(w)'
  BY <1>u DEF Known, CustodyInv
<1> QED
  BY <1>a, <1>4, <1>7, <1>8, <1>9, <1>10, <1>u, Assemble

\* The store has one more object, under a VersionId not given out before.
Adds(s, k, r) ==
    \E o \in Version :
        /\ store' = store \union {o}
        /\ o.slot = s /\ o.key = k /\ o.version = versions[s][k] + 1
        /\ o.owner = r /\ o.seen = runs

\* A put that takes effect stores one object.
LEMMA OneMore ==
    ASSUME TypeOK, NEW s \in Slots, NEW k \in Keys, NEW until \in Nat, NEW r \in RunId,
           Stores(s, k, until, r)
    PROVE  /\ Adds(s, k, r)
           /\ versions' \in [Slots -> [Keys -> Nat]]
           /\ versions'[s][k] = versions[s][k] + 1
           /\ \A q \in Slots : \A j \in Keys : versions[q][j] <= versions'[q][j]
<1>1. PICK v \in Nat : v = versions[s][k] + 1 /\ v > versions[s][k]
  BY DEF TypeOK
<1>2. versions' = [versions EXCEPT ![s][k] = v]
  BY <1>1 DEF Stores
<1>3. versions' \in [Slots -> [Keys -> Nat]] /\ versions'[s][k] = v
  BY <1>2 DEF TypeOK
<1>4. ASSUME NEW q \in Slots, NEW j \in Keys PROVE versions[q][j] <= versions'[q][j]
  <2>1. versions[q][j] \in Nat
    BY DEF TypeOK
  <2>2. versions'[q][j] = IF q = s /\ j = k THEN v ELSE versions[q][j]
    BY <1>2 DEF TypeOK
  <2> QED
    BY <1>1, <2>1, <2>2
<1>5. PICK u \in (IF s \in VaultSlots THEN Rounded(until) ELSE {0}) :
        store' = store \union {[slot |-> s, key |-> k, version |-> v, until |-> u,
                                owner |-> r, seen |-> runs]}
  BY <1>1 DEF Stores
<1>6. u \in Nat /\ runs \in [Workers -> Nat]
  BY <1>5 DEF Rounded, TypeOK
<1>7. PICK o \in Version : o = [slot |-> s, key |-> k, version |-> v, until |-> u,
                                owner |-> r, seen |-> runs]
  BY <1>1, <1>6 DEF Version
<1>8. store' = store \union {o}
  BY <1>5, <1>7
<1>9. Adds(s, k, r)
  BY <1>1, <1>7, <1>8 DEF Adds
<1> QED
  BY <1>1, <1>3, <1>4, <1>9

LEMMA PutStep ==
    ASSUME CustodyInv, NEW w \in Workers, Put(w)
    PROVE  CustodyInv'
<1>a. Active(w) /\ pc[w] = "put"
  BY DEF Active, Put
<1>t. /\ TypeOK /\ StoreInv /\ RunInv(w) /\ Known(w)
      /\ slot[w] \in Slots /\ job[w] \in Jobs /\ KeyOf(job[w], slot[w]) \in Keys
      /\ job[w].until \in Nat
      /\ have[w] \in [Slots -> Nat] /\ Run(w) \in RunId
  BY <1>a, JobKeys, CustodyAssumption DEF CustodyInv, TypeOK, Run, RunId
<1>u. /\ UNCHANGED <<late, slot, job, created, partial, runs, receipts, faults, failures>>
      /\ Run(w)' = Run(w)
  BY DEF Put, Run
<1>s. PICK s \in Slots, k \in Keys, v \in Nat :
        s = slot[w] /\ k = KeyOf(job[w], s) /\ v = versions[s][k] + 1 /\ v > versions[s][k]
  BY <1>t DEF TypeOK
<1>n. versions[s][k] \in Nat
  BY <1>t DEF TypeOK
<1>c. Stores(s, k, job[w].until, Run(w)) /\ have' = [have EXCEPT ![w][s] = v]
      /\ Goto(w, "verify")
  BY <1>s DEF Put
<1>1. /\ versions' \in [Slots -> [Keys -> Nat]]
      /\ versions'[s][k] = v
      /\ \A q \in Slots : \A j \in Keys : versions[q][j] <= versions'[q][j]
  BY <1>c, <1>s, <1>t, OneMore
<1>2. PICK new \in Version :
        /\ store' = store \union {new}
        /\ new.slot = s /\ new.key = k /\ new.version = v /\ new.owner = Run(w)
  <2>1. Adds(s, k, Run(w))
    BY <1>c, <1>t, OneMore
  <2> QED
    BY <2>1, <1>s DEF Adds
<1>3. /\ have' \in [Workers -> [Slots -> Nat]]
      /\ have'[w][s] = v
      /\ \A q \in Slots : q # s => have'[w][q] = have[w][q]
      /\ \A x \in Workers : x # w => have'[x] = have[x]
  BY <1>c, <1>t DEF TypeOK
<1>4. /\ pc' \in [Workers -> {"idle", "head", "reuse", "put", "verify", "return",
                              "rollback", "failed"}]
      /\ pc'[w] = "verify"
      /\ \A x \in Workers : x # w => pc'[x] = pc[x]
  BY <1>c, <1>t, Places
<1>6. TypeOK'
  BY <1>1, <1>2, <1>3, <1>4, <1>t, <1>u DEF TypeOK
<1>7. Change(w) /\ (\A x \in Workers : x # w => Unmoved(x))
  <2>1. new.version > versions[new.slot][new.key] /\ new.version <= versions'[new.slot][new.key]
    BY <1>s, <1>1, <1>2
  <2>2. Change(w)
    BY <1>1, <1>2, <1>u, <2>1 DEF Change
  <2> QED
    BY <1>3, <1>4, <1>u, <2>2 DEF Unmoved
<1>8. RunInv(w)'
  <2>1. ASSUME NEW q \in created[w]
        PROVE  Mine(w, q)' /\ q < slot[w]
    <3>1. q \in Slots /\ q < s /\ q # s /\ Mine(w, q)
      BY <1>a, <1>s, <1>t, InCreated DEF Working
    <3>2. have'[w][q] = have[w][q] /\ KeyOf(job[w], q) \in Keys
      BY <1>3, <1>t, <3>1, JobKeys
    <3>3. have[w][q] \in 1..versions'[q][KeyOf(job[w], q)]
      <4>1. versions[q][KeyOf(job[w], q)] <= versions'[q][KeyOf(job[w], q)]
        BY <1>1, <3>1, <3>2
      <4>2. versions[q][KeyOf(job[w], q)] \in Nat /\ versions'[q][KeyOf(job[w], q)] \in Nat
        BY <1>1, <1>t, <3>1, <3>2 DEF TypeOK
      <4> QED
        BY <3>1, <4>1, <4>2 DEF Mine
    <3>4. \A o \in store' : o.slot = q /\ o.key = KeyOf(job[w], q) /\ o.version = have[w][q] =>
                                 o.owner = Run(w)
      BY <1>2, <3>1 DEF Mine, Objects
    <3>5. Mine(w, q)'
      BY <1>u, <3>1, <3>2, <3>3, <3>4 DEF Mine, Objects
    <3> QED
      BY <1>s, <3>1, <3>5
  <2>2. Mine(w, s)'
    <3>1. v \in 1..versions'[s][k]
      BY <1>n, <1>s, <1>1
    <3>2. \A o \in store : o.slot = s /\ o.key = k => o.version # v
      BY <1>n, <1>s, <1>t DEF StoreInv
    <3>3. \A o \in store' : o.slot = s /\ o.key = k /\ o.version = v => o.owner = Run(w)
      BY <1>2, <3>2
    <3> QED
      BY <1>s, <1>u, <1>3, <3>1, <3>3 DEF Mine, Objects
  <2>3. ASSUME NEW o \in store', o.owner = Run(w)
        PROVE  /\ o.slot <= slot[w]
               /\ o.slot \in VaultSlots /\ o.version = have'[w][o.slot] =>
                     <<o.slot, o.version>> \in partial[w] \/ o.slot = slot[w]
    <3>1. CASE o \in store
      <4>1. o.slot \in Slots /\ o.slot <= s
            /\ (o.slot \in VaultSlots /\ o.version = have[w][o.slot] =>
                   <<o.slot, o.version>> \in partial[w])
        BY <1>a, <1>s, <1>t, <2>3, <3>1, Behind
      <4> QED
        BY <1>s, <1>3, <4>1
    <3>2. CASE o = new
      BY <1>s, <1>2, <3>2 DEF Slots
    <3> QED
      BY <1>2, <3>1, <3>2
  <2>4. ASSUME NEW q \in VaultSlots, q < slot[w]
        PROVE  Proved(store', job[w], q, have'[w][q])
    <3>1. q \in Slots /\ q # s
      BY <1>s, <2>4 DEF VaultSlots, Slots
    <3>2. Proved(store, job[w], q, have[w][q]) /\ have'[w][q] = have[w][q]
      BY <1>a, <1>t, <1>3, <2>4, <3>1 DEF RunInv
    <3> QED
      BY <1>7, <3>2, ProvedStays
  <2>5. \A r \in receipts : r.run # Run(w)
    BY <1>t DEF RunInv
  <2>6. \A q \in late : q.owner = Run(w) => q.slot <= slot[w]
    BY <1>t, Pending
  <2> QED
    BY <1>s, <1>4, <1>u, <2>1, <2>2, <2>3, <2>4, <2>5, <2>6 DEF RunInv
<1>9. Known(w)'
  <2> SUFFICES ASSUME NEW q \in Slots PROVE have'[w][q] <= versions'[q][KeyOf(job[w], q)]
    BY <1>t, <1>u DEF Known
  <2>1. CASE q = s
    BY <1>1, <1>3, <1>s, <2>1
  <2>2. CASE q # s
    <3>1. PICK j \in Keys : j = KeyOf(job[w], q)
      BY <1>t, JobKeys
    <3>2. /\ versions[q][j] \in Nat /\ versions'[q][j] \in Nat /\ have[w][q] \in Nat
          /\ versions[q][j] <= versions'[q][j] /\ have[w][q] <= versions[q][j]
      BY <1>1, <1>t, <3>1 DEF TypeOK, Known
    <3> QED
      BY <1>3, <2>2, <3>1, <3>2
  <2> QED
    BY <2>1, <2>2
<1> QED
  BY <1>a, <1>4, <1>6, <1>7, <1>8, <1>9, <1>u, Assemble

LEMMA UnansweredStep ==
    ASSUME CustodyInv, NEW w \in Workers, Unanswered(w)
    PROVE  CustodyInv'
<1>a. Active(w) /\ pc[w] = "put"
  BY DEF Active, Unanswered
<1>t. /\ TypeOK /\ StoreInv /\ RunInv(w) /\ Known(w)
      /\ slot[w] \in Slots /\ job[w] \in Jobs /\ KeyOf(job[w], slot[w]) \in Keys
      /\ job[w].until \in Nat /\ Run(w) \in RunId /\ faults \in Nat
  BY <1>a, JobKeys, CustodyAssumption DEF CustodyInv, TypeOK, Run, RunId
<1>u. /\ UNCHANGED <<store, versions, slot, job, have, created, partial, runs, receipts, failures>>
      /\ Run(w)' = Run(w)
  BY DEF Unanswered, runVars, Run
<1>1. PICK q \in Upload :
        /\ late' = late \union {q} /\ q.owner = Run(w) /\ q.slot = slot[w]
        /\ q.key = KeyOf(job[w], q.slot)
  <2>1. Sent(w, faults + 1) \in Upload
    BY <1>t DEF Sent, Upload
  <2> QED
    BY <2>1 DEF Unanswered, Sent
<1>2. /\ pc' \in [Workers -> {"idle", "head", "reuse", "put", "verify", "return",
                              "rollback", "failed"}]
      /\ pc'[w] \in {"put", "rollback"}
      /\ \A x \in Workers : x # w => pc'[x] = pc[x]
  BY <1>t, Places DEF Unanswered
<1>3. TypeOK'
  BY <1>1, <1>2, <1>t, <1>u DEF TypeOK, Unanswered
<1>4. Change(w) /\ \A x \in Workers : x # w => Unmoved(x)
  <2>1. \A s \in Slots : \A k \in Keys : versions[s][k] <= versions'[s][k]
    BY <1>t, <1>u DEF TypeOK
  <2> QED
    BY <1>1, <1>2, <1>u, <2>1 DEF Change, Unmoved
<1>5. RunInv(w)'
  <2>1. \A r \in late' : r.owner = Run(w) => r.slot <= slot[w]
    BY <1>1, <1>t, Pending DEF Slots
  <2>2. \A s \in created[w] : Mine(w, s)'
    BY <1>t, <1>u DEF RunInv, Mine, Objects
  <2>3. \A o \in store : o.owner = Run(w) =>
          /\ o.slot <= slot[w]
          /\ o.slot \in VaultSlots /\ o.version = have[w][o.slot] =>
                <<o.slot, o.version>> \in partial[w]
    BY <1>a, <1>t, Behind
  <2> QED
    BY <1>a, <1>2, <1>t, <1>u, <2>1, <2>2, <2>3 DEF RunInv, Working
<1>6. Known(w)'
  BY <1>1, <1>t, <1>u DEF Known
<1> QED
  BY <1>a, <1>2, <1>3, <1>4, <1>5, <1>6, <1>u, Assemble

\* A put that nobody waits for: no run, and no receipt, takes its version for one it
\* holds.
LEMMA LatePutStep ==
    ASSUME CustodyInv, NEW q \in late, LatePut(q)
    PROVE  CustodyInv'
<1>t. /\ TypeOK /\ StoreInv /\ q \in Upload
      /\ q.slot \in Slots /\ q.key \in Keys /\ q.until \in Nat /\ q.owner \in RunId
  BY DEF CustodyInv, TypeOK, Upload
<1>u. UNCHANGED <<pc, slot, job, have, created, partial, runs, receipts, faults, failures>>
  BY DEF LatePut, runVars
<1>1. /\ versions' \in [Slots -> [Keys -> Nat]]
      /\ versions'[q.slot][q.key] = versions[q.slot][q.key] + 1
      /\ \A s \in Slots : \A k \in Keys : versions[s][k] <= versions'[s][k]
  BY <1>t, OneMore DEF LatePut
<1>2. PICK new \in Version :
        /\ store' = store \union {new}
        /\ new.slot = q.slot /\ new.key = q.key /\ new.owner = q.owner
        /\ new.version = versions[q.slot][q.key] + 1
  <2>1. Adds(q.slot, q.key, q.owner)
    BY <1>t, OneMore DEF LatePut
  <2> QED
    BY <2>1 DEF Adds
<1>3. late' \subseteq late
  BY DEF LatePut
<1>4. TypeOK'
  BY <1>1, <1>2, <1>3, <1>t, <1>u DEF TypeOK
<1>n. versions[q.slot][q.key] \in Nat
  BY <1>t DEF TypeOK
<1>5. StoreInv'
  <2>1. ASSUME NEW o \in store'
        PROVE  o.version \in 1..versions'[o.slot][o.key] /\ o.owner[2] <= runs[o.owner[1]]
    <3>1. CASE o \in store
      <4>1. o.slot \in Slots /\ o.key \in Keys
        BY <1>t, <3>1 DEF TypeOK, Version
      <4>2. versions[o.slot][o.key] \in Nat /\ versions'[o.slot][o.key] \in Nat
            /\ versions[o.slot][o.key] <= versions'[o.slot][o.key]
        BY <1>1, <1>t, <4>1 DEF TypeOK
      <4>3. o.version \in 1..versions[o.slot][o.key] /\ o.owner[2] <= runs[o.owner[1]]
        BY <1>t, <3>1 DEF StoreInv
      <4> QED
        BY <4>2, <4>3
    <3>2. CASE o = new
      BY <1>1, <1>2, <1>n, <1>t, <3>2 DEF StoreInv
    <3> QED
      BY <1>2, <3>1, <3>2
  <2> QED
    BY <1>3, <1>t, <1>u, <2>1 DEF StoreInv
<1>6. ASSUME NEW x \in Workers
      PROVE  Known(x)' /\ \A s \in Slots : new.slot = s /\ new.key = KeyOf(job[x], s) =>
                                               new.version # have[x][s]
  <2>1. Known(x)
    BY DEF CustodyInv
  <2>2. Known(x)'
    BY <1>1, <1>3, <1>4, <1>t, <1>u, <2>1, KnownStays
  <2>3. ASSUME NEW s \in Slots, new.slot = s, new.key = KeyOf(job[x], s)
        PROVE  new.version # have[x][s]
    <3>1. have[x][s] <= versions[q.slot][q.key] /\ have[x][s] \in Nat
      BY <1>2, <1>t, <2>1, <2>3 DEF Known, TypeOK
    <3> QED
      BY <1>2, <1>n, <3>1
  <2> QED
    BY <2>2, <2>3
<1>7. ASSUME NEW x \in Workers, pc[x] = "failed" PROVE Reported(x)'
  <2> SUFFICES ASSUME NEW o \in store', o.slot \in VaultSlots, o.owner = Run(x),
                      o.version = have[x][o.slot]
               PROVE  <<o.slot, o.version>> \in partial[x]
    BY <1>u DEF Reported, Run
  <2>1. CASE o \in store
    BY <1>7, <2>1 DEF CustodyInv, Reported
  <2>2. CASE o = new
    BY <1>2, <1>6, <1>t, <2>2 DEF Known, CustodyInv
  <2> QED
    BY <1>2, <2>1, <2>2
<1>8. ASSUME NEW x \in Workers, Active(x) PROVE RunInv(x)'
  <2>t. /\ RunInv(x) /\ Known(x) /\ slot[x] \in Slots /\ job[x] \in Jobs /\ Run(x)' = Run(x)
        /\ have[x] \in [Slots -> Nat]
    BY <1>8, <1>u DEF CustodyInv, TypeOK, Run
  <2>1. ASSUME NEW s \in Slots, Mine(x, s) PROVE Mine(x, s)'
    <3>1. PICK k \in Keys : k = KeyOf(job[x], s)
      BY <2>t, JobKeys
    <3>2. versions[s][k] \in Nat /\ versions'[s][k] \in Nat /\ versions[s][k] <= versions'[s][k]
      BY <1>1, <1>t DEF TypeOK
    <3>3. have[x][s] \in 1..versions'[s][k]
      BY <2>1, <3>1, <3>2 DEF Mine
    <3>4. \A o \in store' : o.slot = s /\ o.key = k /\ o.version = have[x][s] => o.owner = Run(x)
      BY <1>2, <1>6, <2>1, <3>1 DEF Mine, Objects
    <3> QED
      BY <1>u, <2>t, <3>1, <3>3, <3>4 DEF Mine, Objects
  <2>2. \A s \in created[x] : Mine(x, s)'
    BY <1>t, <2>t, <2>1, InCreated
  <2>3. pc[x] = "verify" => Mine(x, slot[x])'
    <3>1. PICK s \in Slots : s = slot[x]
      BY <2>t
    <3> QED
      BY <1>u, <2>t, <2>1, <3>1 DEF RunInv
  <2>4. ASSUME NEW o \in store', o.owner = Run(x)
        PROVE  /\ o.slot <= slot[x]
               /\ pc[x] \in {"head", "reuse"} => o.slot < slot[x]
               /\ o.slot \in VaultSlots /\ o.version = have[x][o.slot] =>
                     \/ <<o.slot, o.version>> \in partial[x]
                     \/ pc[x] = "verify" /\ o.slot = slot[x]
    <3>1. CASE o \in store
      BY <2>t, <2>4, <3>1 DEF RunInv
    <3>2. CASE o = new
      <4>1. o.slot <= slot[x] /\ (pc[x] \in {"head", "reuse"} => o.slot < slot[x])
        BY <1>2, <1>t, <2>t, <2>4, <3>2, Pending
      <4>2. o.version # have[x][o.slot]
        BY <1>2, <1>6, <1>t, <2>t, <2>4, <3>2 DEF Known
      <4> QED
        BY <4>1, <4>2
    <3> QED
      BY <1>2, <3>1, <3>2
  <2>5. \A r \in late' : r.owner = Run(x) =>
           r.slot <= slot[x] /\ (pc[x] \in {"head", "reuse"} => r.slot < slot[x])
    BY <1>3, <1>t, <2>t, Pending
  <2>6. ASSUME pc[x] # "rollback", NEW s \in VaultSlots, s < slot[x] \/ pc[x] = "return"
        PROVE  Proved(store', job[x], s, have[x][s])
    BY <1>2, <2>t, <2>6 DEF RunInv, Proved
  <2> QED
    BY <1>u, <2>t, <2>2, <2>3, <2>4, <2>5, <2>6 DEF RunInv
<1>9. ASSUME NEW r \in receipts PROVE ReceiptInv(r)'
  BY <1>2, <1>u DEF CustodyInv, ReceiptInv, Proved
<1> QED
  BY <1>4, <1>5, <1>6, <1>7, <1>8, <1>9, <1>u DEF CustodyInv, Active

\* A run gives up: it may have deleted assets versions of its own, and reports the
\* vault version it could not verify.
LEMMA GivesUp ==
    ASSUME CustodyInv, TypeOK', NEW w \in Workers, Active(w),
           UNCHANGED <<versions, late, slot, job, have, runs, receipts>>,
           \A o \in store' : o \in store,
           \A o \in store : o.slot \in VaultSlots => o \in store',
           \A x \in Workers : x # w => Unmoved(x),
           pc'[w] = "rollback",
           \A q \in created'[w] : q \in created[w],
           \A e \in partial[w] : e \in partial'[w],
           pc[w] = "verify" /\ slot[w] \in VaultSlots => <<slot[w], have[w][slot[w]]>> \in partial'[w]
    PROVE  CustodyInv'
<1>t. TypeOK /\ RunInv(w) /\ Run(w)' = Run(w)
  BY DEF CustodyInv, Run
<1>1. Change(w)
  <2>1. \A s \in Slots : \A k \in Keys : versions[s][k] <= versions'[s][k]
    BY <1>t DEF TypeOK
  <2> QED
    BY <2>1 DEF Change
<1>2. ASSUME NEW q \in created'[w] PROVE Mine(w, q)'
  <2>1. Mine(w, q)
    BY <1>2, <1>t, InCreated
  <2> QED
    BY <1>t, <2>1 DEF Mine, Objects
<1>3. ASSUME NEW o \in store', o.owner = Run(w)
      PROVE  /\ o.slot <= slot[w]
             /\ o.slot \in VaultSlots /\ o.version = have[w][o.slot] =>
                   <<o.slot, o.version>> \in partial'[w]
  BY <1>3, <1>t, Behind
<1>4. \A r \in receipts : r.run # Run(w)
  BY <1>t DEF RunInv
<1>5. pc'[w] \notin Working /\ pc'[w] \notin {"head", "reuse", "put"}
      /\ pc'[w] # "verify" /\ pc'[w] # "put" /\ pc'[w] # "return" /\ pc'[w] # "failed"
  BY DEF Working
<1>6. RunInv(w)'
  <2>1. \A q \in late : q.owner = Run(w) => q.slot <= slot[w]
    BY <1>t, Pending
  <2> QED
    BY <1>t, <1>2, <1>3, <1>4, <1>5, <2>1 DEF RunInv
<1>7. Known(w)'
  BY <1>t DEF Known, CustodyInv
<1> QED
  BY <1>1, <1>5, <1>6, <1>7, Assemble

LEMMA NotVerifiedStep ==
    ASSUME CustodyInv, NEW w \in Workers, NotVerified(w)
    PROVE  CustodyInv'
<1>a. Active(w) /\ pc[w] = "verify"
  BY DEF Active, NotVerified
<1>t. TypeOK /\ slot[w] \in Slots /\ have[w] \in [Slots -> Nat]
  BY DEF CustodyInv, TypeOK
<1>u. UNCHANGED <<versions, late, slot, job, have, created, runs, receipts, faults>>
  BY DEF NotVerified
<1>1. /\ pc' \in [Workers -> {"idle", "head", "reuse", "put", "verify", "return",
                              "rollback", "failed"}]
      /\ pc'[w] = "rollback"
      /\ \A x \in Workers : x # w => pc'[x] = pc[x]
  BY <1>t, Places DEF NotVerified
<1>2. /\ \A o \in store' : o \in store
      /\ \A o \in store : o.slot \in VaultSlots => o \in store'
  <2>1. CASE UNCHANGED store
    BY <2>1
  <2>2. CASE slot[w] \in AssetsSlots
             /\ store' = Without(slot[w], KeyOf(job[w], slot[w]), have[w][slot[w]])
    BY <2>2 DEF Without, Objects, AssetsSlots, VaultSlots
  <2> QED
    BY <2>1, <2>2 DEF NotVerified
<1>3. /\ partial' \in [Workers -> SUBSET (Slots \X Nat)]
      /\ \A e \in partial[w] : e \in partial'[w]
      /\ slot[w] \in VaultSlots => <<slot[w], have[w][slot[w]]>> \in partial'[w]
      /\ \A x \in Workers : x # w => partial'[x] = partial[x]
  <2>1. CASE slot[w] \in AssetsSlots /\ UNCHANGED partial
    BY <1>t, <2>1 DEF TypeOK, AssetsSlots, VaultSlots
  <2>2. CASE partial' = [partial EXCEPT ![w] = @ \union {<<slot[w], have[w][slot[w]]>>}]
    <3>1. <<slot[w], have[w][slot[w]]>> \in Slots \X Nat
      BY <1>t
    <3> QED
      BY <1>t, <2>2, <3>1 DEF TypeOK
  <2> QED
    BY <2>1, <2>2 DEF NotVerified
<1>4. TypeOK'
  BY <1>t, <1>u, <1>1, <1>2, <1>3 DEF TypeOK, NotVerified, Fails
<1>5. \A x \in Workers : x # w => Unmoved(x)
  BY <1>u, <1>1, <1>3 DEF Unmoved
<1> QED
  BY <1>a, <1>u, <1>1, <1>2, <1>3, <1>4, <1>5, GivesUp

LEMMA FailStep ==
    ASSUME CustodyInv, NEW w \in Workers, Fail(w)
    PROVE  CustodyInv'
<1>a. Active(w) /\ pc[w] # "verify"
  BY DEF Active, Fail
<1>u. UNCHANGED <<store, versions, late, slot, job, have, created, partial, runs, receipts, faults>>
  BY DEF Fail, runVars
<1>1. /\ pc' \in [Workers -> {"idle", "head", "reuse", "put", "verify", "return",
                              "rollback", "failed"}]
      /\ pc'[w] = "rollback"
      /\ \A x \in Workers : x # w => pc'[x] = pc[x]
  BY Places DEF Fail, CustodyInv
<1>2. TypeOK'
  BY <1>u, <1>1 DEF TypeOK, CustodyInv, Fail, Fails
<1>3. \A x \in Workers : x # w => Unmoved(x)
  BY <1>u, <1>1 DEF Unmoved
<1> QED
  BY <1>a, <1>u, <1>1, <1>2, <1>3, GivesUp

LEMMA DeleteStep ==
    ASSUME CustodyInv, NEW w \in Workers, NEW s \in AssetsSlots, Delete(w, s)
    PROVE  CustodyInv'
<1>a. Active(w) /\ pc[w] = "rollback" /\ pc[w] # "verify"
  BY DEF Active, Delete
<1>u. UNCHANGED <<versions, late, pc, slot, job, have, partial, runs, receipts, failures>>
  BY DEF Delete
<1>1. /\ \A o \in store' : o \in store
      /\ \A o \in store : o.slot \in VaultSlots => o \in store'
  BY DEF Delete, Without, Objects, AssetsSlots, VaultSlots
<1>2. /\ created' \in [Workers -> SUBSET AssetsSlots]
      /\ \A q \in created'[w] : q \in created[w]
      /\ \A x \in Workers : x # w => created'[x] = created[x]
      /\ faults' \in Nat
  BY DEF Delete, TypeOK, CustodyInv
<1>3. TypeOK'
  BY <1>u, <1>1, <1>2 DEF TypeOK, CustodyInv
<1>4. \A x \in Workers : x # w => Unmoved(x)
  BY <1>u, <1>2 DEF Unmoved
<1> QED
  BY <1>a, <1>u, <1>1, <1>2, <1>3, <1>4, GivesUp

LEMMA RaiseStep ==
    ASSUME CustodyInv, NEW w \in Workers, Raise(w)
    PROVE  CustodyInv'
<1>a. Active(w) /\ pc[w] = "rollback" /\ pc[w] # "verify"
  BY DEF Active, Raise
<1>u. UNCHANGED <<store, versions, late, slot, job, have, created, partial, runs, receipts,
                  faults, failures>>
  BY DEF Raise, runVars
<1>t. TypeOK /\ RunInv(w) /\ Run(w)' = Run(w)
  BY <1>a, <1>u DEF CustodyInv, Run
<1>1. /\ pc' \in [Workers -> {"idle", "head", "reuse", "put", "verify", "return",
                              "rollback", "failed"}]
      /\ pc'[w] = "failed"
      /\ \A x \in Workers : x # w => pc'[x] = pc[x]
  BY <1>t, Places DEF Raise
<1>2. TypeOK'
  BY <1>t, <1>u, <1>1 DEF TypeOK
<1>3. Change(w) /\ \A x \in Workers : x # w => Unmoved(x)
  BY <1>t, <1>u, <1>1, NothingStored DEF Unmoved
<1>4. Reported(w)
  BY <1>a, <1>t, Behind DEF Reported
<1>5. Reported(w)' /\ ~Active(w)'
  BY <1>t, <1>u, <1>1, <1>4 DEF Reported, Active
<1>6. Known(w)'
  BY <1>t, <1>u DEF Known, CustodyInv
<1> QED
  BY <1>a, <1>u, <1>2, <1>3, <1>5, <1>6, Assemble

LEMMA ReturnStep ==
    ASSUME CustodyInv, NEW w \in Workers, Return(w)
    PROVE  CustodyInv'
<1>a. Active(w) /\ pc[w] = "return"
  BY DEF Active, Return
<1>u. UNCHANGED <<store, versions, late, slot, job, have, created, partial, runs, faults, failures>>
  BY DEF Return, runVars
<1>t. /\ TypeOK /\ RunInv(w) /\ StoreInv
      /\ job[w] \in Jobs /\ have[w] \in [Slots -> Nat] /\ runs[w] \in Nat
      /\ Run(w) \in RunId /\ Run(w)[1] = w /\ Run(w)[2] = runs[w]
  BY <1>a DEF CustodyInv, TypeOK, Run, RunId
<1> DEFINE n == [job |-> job[w], have |-> have[w], run |-> Run(w)]
<1>1. receipts' = receipts \union {n}
  BY DEF Return
<1>2. n \in Receipt
  BY <1>t DEF Receipt
<1>3. /\ pc' \in [Workers -> {"idle", "head", "reuse", "put", "verify", "return",
                              "rollback", "failed"}]
      /\ pc'[w] = "idle"
      /\ \A x \in Workers : x # w => pc'[x] = pc[x]
  BY <1>t, Places DEF Return
<1>4. TypeOK'
  BY <1>t, <1>u, <1>1, <1>2, <1>3 DEF TypeOK
<1>5. Change(w)
  <2>1. \A s \in Slots : \A k \in Keys : versions[s][k] <= versions'[s][k]
    BY <1>t, <1>u DEF TypeOK
  <2> QED
    BY <1>u, <1>1, <2>1 DEF Change
<1>6. \A x \in Workers : x # w => Unmoved(x)
  BY <1>u, <1>3 DEF Unmoved
<1>7. ReceiptInv(n)
  <2>1. \A s \in VaultSlots : Proved(store, job[w], s, have[w][s])
    BY <1>a, <1>t DEF RunInv
  <2> QED
    BY <1>t, <2>1 DEF ReceiptInv
<1>8. \A r \in receipts' : ReceiptInv(r)'
  <2>1. \A r \in receipts' : ReceiptInv(r)
    BY <1>1, <1>7 DEF CustodyInv
  <2> QED
    BY <1>u, <2>1 DEF ReceiptInv
<1>9. StoreInv'
  BY <1>t, <1>u DEF StoreInv
<1>10. ASSUME NEW x \in Workers
       PROVE  Known(x)' /\ (Active(x) => RunInv(x))' /\ (pc[x] = "failed" => Reported(x))'
  <2>1. CASE x = w
    BY <1>3, <1>t, <1>u, <2>1 DEF Active, Known, Run, CustodyInv
  <2>2. CASE x # w
    BY <1>4, <1>5, <1>6, <2>2, Others
  <2> QED
    BY <2>1, <2>2
<1> QED
  BY <1>4, <1>8, <1>9, <1>10 DEF CustodyInv

LEMMA BeginStep ==
    ASSUME CustodyInv, NEW w \in Workers, NEW j \in Jobs, Begin(w, j)
    PROVE  CustodyInv'
<1>t. TypeOK /\ StoreInv /\ runs[w] \in Nat
  BY DEF CustodyInv, TypeOK
<1>u. UNCHANGED <<store, versions, late, receipts, faults, failures>>
  BY DEF Begin
<1>1. /\ pc' \in [Workers -> {"idle", "head", "reuse", "put", "verify", "return",
                              "rollback", "failed"}]
      /\ pc'[w] = "head"
      /\ \A x \in Workers : x # w => pc'[x] = pc[x]
  BY <1>t, Places DEF Begin
<1>2. /\ runs' \in [Workers -> Nat] /\ runs'[w] = runs[w] + 1
      /\ job' \in [Workers -> Jobs]
      /\ \A x \in Workers : x # w => runs'[x] = runs[x] /\ job'[x] = job[x]
  BY <1>t DEF Begin, TypeOK
<1>3. /\ slot' \in [Workers -> Slots] /\ slot'[w] = 1
      /\ have' \in [Workers -> [Slots -> Nat]] /\ \A s \in Slots : have'[w][s] = 0
      /\ \A x \in Workers : x # w => slot'[x] = slot[x] /\ have'[x] = have[x]
  BY <1>t DEF Begin, TypeOK, Slots
<1>4. /\ created' \in [Workers -> SUBSET AssetsSlots] /\ created'[w] = {}
      /\ partial' \in [Workers -> SUBSET (Slots \X Nat)]
      /\ \A x \in Workers : x # w => created'[x] = created[x] /\ partial'[x] = partial[x]
  BY <1>t DEF Begin, TypeOK
<1>5. TypeOK'
  BY <1>t, <1>u, <1>1, <1>2, <1>3, <1>4 DEF TypeOK
<1>6. Change(w) /\ \A x \in Workers : x # w => Unmoved(x)
  BY <1>t, <1>u, <1>1, <1>2, <1>3, <1>4, NothingStored DEF Unmoved
<1>7. ASSUME NEW c \in RunId, c[2] <= runs[c[1]]
      PROVE  c[2] <= runs'[c[1]] /\ c # Run(w)'
  <2>1. c[1] \in Workers /\ c[2] \in Nat /\ runs[c[1]] \in Nat
    BY <1>t DEF RunId, TypeOK
  <2>2. Run(w)'[1] = w /\ Run(w)'[2] = runs[w] + 1
    BY <1>2 DEF Run
  <2>3. CASE c[1] = w
    BY <1>2, <1>t, <1>7, <2>1, <2>2, <2>3
  <2>4. CASE c[1] # w
    BY <1>2, <1>7, <2>1, <2>2, <2>4
  <2> QED
    BY <2>3, <2>4
<1>8. /\ StoreInv'
      /\ \A o \in store' : o.owner # Run(w)'
      /\ \A q \in late' : q.owner # Run(w)'
  <2>1. \A o \in store : o.owner \in RunId /\ o.owner[2] <= runs[o.owner[1]]
    BY <1>t DEF TypeOK, Version, StoreInv
  <2>2. \A o \in store : o.owner[2] <= runs'[o.owner[1]] /\ o.owner # Run(w)'
    BY <1>7, <2>1
  <2>3. \A q \in late : q.owner \in RunId /\ q.owner[2] <= runs[q.owner[1]]
    BY <1>t DEF TypeOK, Upload, StoreInv
  <2>4. \A q \in late : q.owner[2] <= runs'[q.owner[1]] /\ q.owner # Run(w)'
    BY <1>7, <2>3
  <2> QED
    BY <1>t, <1>u, <2>2, <2>4 DEF StoreInv
<1>9. \A r \in receipts' : ReceiptInv(r)' /\ r.run # Run(w)'
  <2>1. \A r \in receipts : r.run \in RunId /\ ReceiptInv(r)
    BY <1>t DEF TypeOK, Receipt, CustodyInv
  <2>2. \A r \in receipts : r.run[2] <= runs'[r.run[1]] /\ r.run # Run(w)'
    BY <1>7, <2>1 DEF ReceiptInv
  <2> QED
    BY <1>u, <2>1, <2>2 DEF ReceiptInv
<1>10. RunInv(w)'
  <2>1. ASSUME NEW s \in VaultSlots PROVE ~(s < slot'[w])
    BY <1>3 DEF VaultSlots
  <2>2. pc'[w] # "verify" /\ pc'[w] # "put" /\ pc'[w] # "return"
    BY <1>1
  <2> QED
    BY <1>4, <1>8, <1>9, <2>1, <2>2 DEF RunInv
<1>11. ASSUME NEW x \in Workers
       PROVE  Known(x)' /\ (Active(x) => RunInv(x))' /\ (pc[x] = "failed" => Reported(x))'
  <2>1. CASE x = w
    <3>1. Known(w)'
      <4> SUFFICES ASSUME NEW s \in Slots PROVE have'[w][s] <= versions'[s][KeyOf(job'[w], s)]
        BY <1>8 DEF Known
      <4>1. PICK k \in Keys : k = KeyOf(job'[w], s)
        BY <1>5, JobKeys DEF TypeOK
      <4> QED
        BY <1>3, <1>5, <4>1 DEF TypeOK
    <3> QED
      BY <1>1, <1>10, <2>1, <3>1
  <2>2. CASE x # w
    BY <1>5, <1>6, <2>2, Others
  <2> QED
    BY <2>1, <2>2
<1> QED
  BY <1>5, <1>8, <1>9, <1>11 DEF CustodyInv

LEMMA CrashStep ==
    ASSUME CustodyInv, NEW p \in Processes, Crash(p)
    PROVE  CustodyInv'
<1>t. TypeOK
  BY DEF CustodyInv
<1>u. UNCHANGED <<store, versions, slot, job, have, created, partial, runs, receipts, failures>>
  BY DEF Crash, runVars
<1>1. \A x \in Workers : pc'[x] = pc[x] \/ pc'[x] = "idle"
  BY DEF Crash
<1>2. ASSUME NEW q \in late', q \notin late
      PROVE  /\ q \in Upload
             /\ \E w \in Workers : /\ q.owner = Run(w) /\ q.key = KeyOf(job[w], q.slot)
                                   /\ pc'[w] = "idle"
  <2>1. PICK w \in Workers : q = Sent(w, 0) /\ ProcessOf[w] = p
    BY <1>2 DEF Crash
  <2>2. job[w] \in Jobs /\ slot[w] \in Slots /\ runs[w] \in Nat /\ job[w].until \in Nat
    BY <1>t, CustodyAssumption DEF TypeOK
  <2>3. KeyOf(job[w], slot[w]) \in Keys
    BY <2>2, JobKeys
  <2>4. q \in Upload
    BY <2>1, <2>2, <2>3 DEF Sent, Upload, Run, RunId
  <2>5. pc'[w] = "idle"
    BY <2>1 DEF Crash
  <2> QED
    BY <2>1, <2>4, <2>5 DEF Sent
<1>3. TypeOK'
  BY <1>u, <1>2 DEF Crash, CustodyInv, TypeOK
<1>4. StoreInv' /\ \A r \in receipts' : ReceiptInv(r)'
  <2>1. ASSUME NEW q \in late' PROVE q.owner[2] <= runs[q.owner[1]]
    <3>1. CASE q \in late
      BY <3>1 DEF CustodyInv, StoreInv
    <3>2. CASE q \notin late
      <4>1. PICK w \in Workers : q.owner = Run(w)
        BY <1>2, <3>2
      <4> QED
        BY <1>t, <4>1 DEF Run, TypeOK
    <3> QED
      BY <3>1, <3>2
  <2> QED
    BY <1>u, <2>1 DEF CustodyInv, StoreInv, ReceiptInv
<1>5. ASSUME NEW x \in Workers
      PROVE  Known(x)' /\ (Active(x) => RunInv(x))' /\ (pc[x] = "failed" => Reported(x))'
  <2>0. Known(x)'
    <3>1. ASSUME NEW q \in late', q.owner = Run(x) PROVE q.key = KeyOf(job[x], q.slot)
      <4>1. CASE q \in late
        BY <3>1, <4>1 DEF CustodyInv, Known
      <4>2. CASE q \notin late
        BY <1>2, <3>1, <4>2 DEF Run
      <4> QED
        BY <4>1, <4>2
    <3> QED
      BY <1>u, <3>1 DEF CustodyInv, Known, Run
  <2>1. CASE pc'[x] = "idle"
    BY <2>0, <2>1 DEF Active
  <2>2. CASE pc'[x] = pc[x] /\ pc'[x] # "idle"
    <3>1. ASSUME pc'[x] = "failed" PROVE Reported(x)'
      BY <1>u, <2>2, <3>1 DEF CustodyInv, Reported, Run
    <3>2. ASSUME Active(x)' PROVE RunInv(x)'
      <4>1. RunInv(x)
        BY <2>2, <3>2 DEF CustodyInv, Active
      <4>2. \A q \in late' : q.owner = Run(x) => q \in late
        BY <1>2, <2>2 DEF Run
      <4> QED
        BY <1>u, <2>2, <4>1, <4>2 DEF RunInv, Run, Mine, Objects
    <3> QED
      BY <2>0, <3>1, <3>2
  <2> QED
    BY <1>1, <2>1, <2>2
<1> QED
  BY <1>3, <1>4, <1>5 DEF CustodyInv

-------------------------------------------------------------------------------
(* Who had begun when a version was stored. *)
Younger(o, r) == r[2] <= o.seen[r[1]]

\* Whatever is under way belongs to a run that was there before any version of its key.
SeenInv ==
    /\ \A w \in Workers : pc[w] = "put" =>
          \A o \in Objects(slot[w], KeyOf(job[w], slot[w])) : Younger(o, Run(w))
    /\ \A q \in late : \A o \in Objects(q.slot, q.key) : Younger(o, q.owner)
    /\ NothingIsStoredAgain

\* A put of a run that was there before the versions of its key takes effect.
LEMMA SeenStores ==
    ASSUME CustodyInv, SeenInv, NEW s \in Slots, NEW k \in Keys, NEW until \in Nat,
           NEW r \in RunId, Stores(s, k, until, r),
           r[2] <= runs[r[1]], \A o \in Objects(s, k) : Younger(o, r),
           late' \subseteq late, UNCHANGED <<slot, job, runs>>,
           \A x \in Workers : pc'[x] = "put" => pc[x] = "put"
    PROVE  SeenInv'
<1>t. TypeOK /\ StoreInv
  BY DEF CustodyInv
<1>1. PICK new \in Version :
        /\ store' = store \union {new}
        /\ new.slot = s /\ new.key = k /\ new.version = versions[s][k] + 1
        /\ new.owner = r /\ new.seen = runs
  <2>1. Adds(s, k, r)
    BY <1>t, OneMore
  <2> QED
    BY <2>1 DEF Adds
<1>2. ASSUME NEW x \in Workers, pc'[x] = "put",
             NEW o \in store', o.slot = slot[x], o.key = KeyOf(job[x], slot[x])
      PROVE  Younger(o, Run(x))
  <2>1. CASE o \in store
    BY <1>2, <2>1 DEF SeenInv, Objects
  <2>2. CASE o = new
    BY <1>1, <1>t, <2>2 DEF Younger, Run, TypeOK
  <2> QED
    BY <1>1, <2>1, <2>2
<1>3. ASSUME NEW q \in late', NEW o \in store', o.slot = q.slot, o.key = q.key
      PROVE  Younger(o, q.owner)
  <2>1. CASE o \in store
    BY <1>3, <2>1 DEF SeenInv, Objects
  <2>2. CASE o = new
    BY <1>1, <1>t, <2>2 DEF Younger, StoreInv
  <2> QED
    BY <1>1, <2>1, <2>2
<1>4. ASSUME NEW o \in store', NEW p \in store', o.slot = p.slot, o.key = p.key,
             o.version < p.version
      PROVE  p.owner[2] <= o.seen[p.owner[1]]
  <2>1. CASE o \in store /\ p \in store
    BY <1>4, <2>1 DEF SeenInv, NothingIsStoredAgain
  <2>2. CASE o \in store /\ p = new
    BY <1>1, <1>4, <2>2 DEF Objects, Younger
  <2>3. CASE o = new /\ p \in store
    <3>1. p.version \in 1..versions[s][k] /\ versions[s][k] \in Nat
      BY <1>1, <1>4, <1>t, <2>3 DEF StoreInv, TypeOK
    <3> QED
      BY <1>1, <1>4, <2>3, <3>1
  <2>4. CASE o = new /\ p = new
    BY <1>1, <1>4, <1>t, <2>4 DEF TypeOK
  <2> QED
    BY <1>1, <2>1, <2>2, <2>3, <2>4
<1>5. \A x \in Workers : Run(x)' = Run(x)
  BY DEF Run
<1> QED
  BY <1>2, <1>3, <1>4, <1>5 DEF SeenInv, Objects, Younger, NothingIsStoredAgain

\* Every other step stores nothing; the puts it leaves under way are those of runs that
\* were about to upload.
LEMMA SeenKept ==
    ASSUME SeenInv,
           \A o \in store' : o \in store,
           \A x \in Workers : pc'[x] = "put" =>
               /\ slot'[x] = slot[x] /\ job'[x] = job[x] /\ runs'[x] = runs[x]
               /\ pc[x] = "put" \/ Objects(slot[x], KeyOf(job[x], slot[x])) = {},
           \A q \in late' : \/ q \in late
                            \/ \E x \in Workers : /\ pc[x] = "put" /\ q.owner = Run(x)
                                                  /\ q.slot = slot[x]
                                                  /\ q.key = KeyOf(job[x], slot[x])
    PROVE  SeenInv'
<1>1. ASSUME NEW x \in Workers, pc'[x] = "put",
             NEW o \in store', o.slot = slot[x], o.key = KeyOf(job[x], slot[x])
      PROVE  Younger(o, Run(x)) /\ Run(x)' = Run(x) /\ slot'[x] = slot[x] /\ job'[x] = job[x]
  BY <1>1 DEF SeenInv, Objects, Run
<1>2. ASSUME NEW q \in late', NEW o \in store', o.slot = q.slot, o.key = q.key
      PROVE  Younger(o, q.owner)
  BY <1>2 DEF SeenInv, Objects
<1>3. NothingIsStoredAgain'
  BY DEF SeenInv, NothingIsStoredAgain
<1>4. ASSUME NEW x \in Workers, pc'[x] = "put"
      PROVE  \A o \in Objects(slot[x], KeyOf(job[x], slot[x]))' : Younger(o, Run(x))'
  BY <1>1, <1>4 DEF Objects, Younger
<1> QED
  BY <1>2, <1>3, <1>4 DEF SeenInv, Objects, Younger

LEMMA SeenNext ==
    ASSUME CustodyInv, SeenInv, [Next]_vars
    PROVE  SeenInv'
<1>t. TypeOK /\ StoreInv
  BY DEF CustodyInv
<1>1. CASE UNCHANGED vars
  BY <1>1, SeenKept DEF vars
<1>2. ASSUME NEW w \in Workers, NEW j \in Jobs, Begin(w, j) PROVE SeenInv'
  <2>1. \A x \in Workers : pc'[x] = "put" => x # w /\ pc[x] = "put"
    BY <1>2, <1>t DEF Begin, Goto, TypeOK
  <2>2. \A x \in Workers : x # w => slot'[x] = slot[x] /\ job'[x] = job[x] /\ runs'[x] = runs[x]
    BY <1>2, <1>t DEF Begin, TypeOK
  <2> QED
    BY <1>2, <2>1, <2>2, SeenKept DEF Begin
<1>3. ASSUME NEW w \in Workers, Put(w) PROVE SeenInv'
  <2>1. /\ slot[w] \in Slots /\ KeyOf(job[w], slot[w]) \in Keys /\ job[w].until \in Nat
        /\ Run(w) \in RunId /\ Run(w)[2] <= runs[Run(w)[1]]
    BY <1>t, JobKeys, CustodyAssumption DEF TypeOK, Run, RunId
  <2>2. \A o \in Objects(slot[w], KeyOf(job[w], slot[w])) : Younger(o, Run(w))
    BY <1>3 DEF Put, SeenInv
  <2>3. \A x \in Workers : pc'[x] = "put" => pc[x] = "put"
    BY <1>3, <1>t DEF Put, Goto, TypeOK
  <2> QED
    BY <1>3, <2>1, <2>2, <2>3, SeenStores DEF Put
<1>4. ASSUME NEW q \in late, LatePut(q) PROVE SeenInv'
  <2>1. /\ q.slot \in Slots /\ q.key \in Keys /\ q.until \in Nat
        /\ q.owner \in RunId /\ q.owner[2] <= runs[q.owner[1]]
    BY <1>t DEF TypeOK, Upload, StoreInv
  <2>2. \A o \in Objects(q.slot, q.key) : Younger(o, q.owner)
    BY DEF SeenInv
  <2> QED
    BY <1>4, <2>1, <2>2, SeenStores DEF LatePut, runVars
<1>5. ASSUME NEW w \in Workers, Unanswered(w) PROVE SeenInv'
  <2>1. \A x \in Workers : pc'[x] = "put" => pc[x] = "put"
    BY <1>5, <1>t DEF Unanswered, Goto, TypeOK
  <2>2. \A q \in late' : q \in late \/ q = Sent(w, faults + 1)
    BY <1>5 DEF Unanswered
  <2> QED
    BY <1>5, <2>1, <2>2, SeenKept DEF Unanswered, runVars, Sent
<1>6. ASSUME NEW p \in Processes, Crash(p) PROVE SeenInv'
  <2>1. \A x \in Workers : pc'[x] = "put" => pc[x] = "put"
    BY <1>6 DEF Crash
  <2>2. \A q \in late' : q \in late \/ \E x \in Workers : pc[x] = "put" /\ q = Sent(x, 0)
    BY <1>6 DEF Crash
  <2> QED
    BY <1>6, <2>1, <2>2, SeenKept DEF Crash, runVars, Sent
<1>7. ASSUME NEW w \in Workers, HeadObject(w) PROVE SeenInv'
  <2>1. \A x \in Workers : pc'[x] = "put" =>
            pc[x] = "put" \/ Objects(slot[x], KeyOf(job[x], slot[x])) = {}
    BY <1>7, <1>t DEF HeadObject, Goto, TypeOK
  <2> QED
    BY <1>7, <2>1, SeenKept DEF HeadObject
<1>8. ASSUME NEW w \in Workers, Reuse(w) \/ Verified(w) PROVE SeenInv'
  <2>1. \A x \in Workers : pc'[x] = "put" => x # w /\ pc[x] = "put" /\ slot'[x] = slot[x]
    BY <1>8, <1>t DEF Reuse, Verified, Hold, Goto, TypeOK
  <2> QED
    BY <1>8, <2>1, SeenKept DEF Reuse, Verified
<1>9. ASSUME NEW w \in Workers,
             \/ NotVerified(w) \/ Return(w) \/ Fail(w) \/ Raise(w)
             \/ \E s \in AssetsSlots : Delete(w, s)
      PROVE  SeenInv'
  <2>1. \A x \in Workers : pc'[x] = "put" => pc[x] = "put"
    BY <1>9, <1>t DEF NotVerified, Return, Fail, Raise, Delete, Goto, TypeOK
  <2>2. /\ \A o \in store' : o \in store
        /\ UNCHANGED <<late, slot, job, runs>>
    BY <1>9 DEF NotVerified, Return, Fail, Raise, Delete, Without, runVars
  <2> QED
    BY <2>1, <2>2, SeenKept
<1> QED
  BY <1>1, <1>2, <1>3, <1>4, <1>5, <1>6, <1>7, <1>8, <1>9 DEF Next, Step

-------------------------------------------------------------------------------
(* What is removed. *)
\* Only a failed read-back and a rollback remove anything: an assets version of the
\* run that takes the step.
LEMMA Removed ==
    ASSUME CustodyInv, Next, NEW o \in store, o \notin store'
    PROVE  /\ o.slot \in AssetsSlots
           /\ \E w \in Workers : o.owner = Run(w) /\ pc[w] \in {"verify", "rollback"}
           /\ \A r \in receipts : r.run # o.owner
<1>1. ASSUME NEW w \in Workers, NEW s \in AssetsSlots, pc[w] \in {"verify", "rollback"}, Mine(w, s),
             store' = Without(s, KeyOf(job[w], s), have[w][s])
      PROVE  /\ o.slot \in AssetsSlots
             /\ \E x \in Workers : o.owner = Run(x) /\ pc[x] \in {"verify", "rollback"}
             /\ \A r \in receipts : r.run # o.owner
  <2>1. o \in Objects(s, KeyOf(job[w], s)) /\ o.version = have[w][s]
    BY <1>1 DEF Without
  <2>2. o.slot = s /\ o.owner = Run(w)
    BY <1>1, <2>1 DEF Mine, Objects
  <2>3. RunInv(w)
    BY <1>1 DEF CustodyInv, Active
  <2> QED
    BY <1>1, <2>2, <2>3 DEF RunInv
<1>2. ASSUME NEW w \in Workers, NotVerified(w)
      PROVE  /\ o.slot \in AssetsSlots
             /\ \E x \in Workers : o.owner = Run(x) /\ pc[x] \in {"verify", "rollback"}
             /\ \A r \in receipts : r.run # o.owner
  <2>1. pc[w] = "verify" /\ slot[w] \in AssetsSlots
        /\ store' = Without(slot[w], KeyOf(job[w], slot[w]), have[w][slot[w]])
    BY <1>2 DEF NotVerified
  <2>2. Mine(w, slot[w])
    BY <2>1 DEF CustodyInv, Active, RunInv
  <2> QED
    BY <1>1, <2>1, <2>2
<1>3. ASSUME NEW w \in Workers, NEW s \in AssetsSlots, Delete(w, s)
      PROVE  /\ o.slot \in AssetsSlots
             /\ \E x \in Workers : o.owner = Run(x) /\ pc[x] \in {"verify", "rollback"}
             /\ \A r \in receipts : r.run # o.owner
  <2>1. pc[w] = "rollback" /\ s \in created[w]
        /\ store' = Without(s, KeyOf(job[w], s), have[w][s])
    BY <1>3 DEF Delete
  <2>2. Mine(w, s)
    BY <2>1 DEF CustodyInv, Active, RunInv
  <2> QED
    BY <1>1, <2>1, <2>2
<1>4. \E w \in Workers : NotVerified(w) \/ \E s \in AssetsSlots : Delete(w, s)
  BY DEF Next, Step, Begin, HeadObject, Reuse, Put, Unanswered, LatePut, Stores, Verified, Return,
         Fail, Raise, Crash
<1> QED
  BY <1>2, <1>3, <1>4

-------------------------------------------------------------------------------
(* The theorems. *)
LEMMA InitInv == Init => CustodyInv
<1> SUFFICES ASSUME Init PROVE CustodyInv
  OBVIOUS
<1>1. TypeOK
  BY DEF Init, TypeOK, Slots
<1>2. \A w \in Workers : ~Active(w) /\ pc[w] # "failed"
  BY DEF Init, Active
<1>3. \A w \in Workers : Known(w)
  <2> SUFFICES ASSUME NEW w \in Workers, NEW s \in Slots
               PROVE  have[w][s] <= versions[s][KeyOf(job[w], s)]
    BY DEF Known, Init
  <2>1. KeyOf(job[w], s) \in Keys
    BY <1>1, JobKeys DEF TypeOK
  <2> QED
    BY <2>1 DEF Init
<1> QED
  BY <1>1, <1>2, <1>3 DEF Init, CustodyInv, StoreInv

LEMMA NextInv == CustodyInv /\ [Next]_vars => CustodyInv'
<1> SUFFICES ASSUME CustodyInv, [Next]_vars PROVE CustodyInv'
  OBVIOUS
<1>1. CASE UNCHANGED vars
  BY <1>1 DEF vars, CustodyInv, TypeOK, StoreInv, Known, RunInv, Reported, ReceiptInv, Active,
              Run, Mine, Objects
<1>2. ASSUME NEW w \in Workers, NEW j \in Jobs, Begin(w, j) PROVE CustodyInv'
  BY <1>2, BeginStep
<1>3. ASSUME NEW w \in Workers, Step(w) PROVE CustodyInv'
  <2>1. CASE HeadObject(w)
    BY <2>1, HeadStep
  <2>2. CASE Reuse(w) \/ Verified(w)
    BY <2>2, HoldStep
  <2>3. CASE Put(w)
    BY <2>3, PutStep
  <2>9. CASE Unanswered(w)
    BY <2>9, UnansweredStep
  <2>4. CASE NotVerified(w)
    BY <2>4, NotVerifiedStep
  <2>5. CASE Return(w)
    BY <2>5, ReturnStep
  <2>6. CASE Fail(w)
    BY <2>6, FailStep
  <2>7. CASE \E s \in AssetsSlots : Delete(w, s)
    BY <2>7, DeleteStep
  <2>8. CASE Raise(w)
    BY <2>8, RaiseStep
  <2> QED
    BY <1>3, <2>1, <2>2, <2>3, <2>4, <2>5, <2>6, <2>7, <2>8, <2>9 DEF Step
<1>4. ASSUME NEW p \in Processes, Crash(p) PROVE CustodyInv'
  BY <1>4, CrashStep
<1>5. ASSUME NEW q \in late, LatePut(q) PROVE CustodyInv'
  BY <1>5, LatePutStep
<1> QED
  BY <1>1, <1>2, <1>3, <1>4, <1>5 DEF Next

\* What a run in progress, a failed run and a receipt may rely on, at every moment.
THEOREM CustodyInvHolds == Spec => []CustodyInv
BY InitInv, NextInv, PTL DEF Spec

\* Every variable of the buckets and of the runs keeps its type.
THEOREM CustodyTypes == Spec => []TypeOK
<1>1. CustodyInv => TypeOK
  BY DEF CustodyInv
<1> QED
  BY <1>1, CustodyInvHolds, PTL

\* custody.py returns a receipt only over vault versions it read back: they exist,
\* hold the bytes of the job, and are retained for as long as was asked.
THEOREM ReceiptsProveCustody == Spec => []ReceiptProvesCustody
<1>1. CustodyInv => ReceiptProvesCustody
  BY DEF CustodyInv, ReceiptInv, Proved, ReceiptProvesCustody
<1> QED
  BY <1>1, CustodyInvHolds, PTL

\* The error of a failed run names every vault version whose VersionId the run was
\* told (partial_objects, and the B2PersistedObjectError of a failed read-back).
THEOREM FailuresAreReported == Spec => []FailureReportsVault
<1>1. CustodyInv => FailureReportsVault
  BY DEF CustodyInv, Reported, FailureReportsVault
<1> QED
  BY <1>1, CustodyInvHolds, PTL

\* Bytes that are stored are not uploaded again by a run that begins later: a repeated
\* or late put belongs to a run whose head was sent before the older version was there.
THEOREM NothingIsUploadedTwice == Spec => []NothingIsStoredAgain
<1>1. Init => SeenInv
  BY DEF Init, SeenInv, NothingIsStoredAgain, Objects
<1>2. SeenInv => NothingIsStoredAgain
  BY DEF SeenInv
<1>3. CustodyInv /\ SeenInv /\ [Next]_vars => SeenInv'
  BY SeenNext
<1> QED
  BY <1>1, <1>2, <1>3, CustodyInvHolds, PTL DEF Spec

\* No cleanup path of custody.py or b2_storage.py removes a version of the vault.
THEOREM VaultGrowsOnly == Spec => VaultOnlyGrows
<1>1. CustodyInv /\ [Next]_vars =>
          [\A o \in store : o.slot \in VaultSlots => o \in store']_store
  <2> SUFFICES ASSUME CustodyInv, Next, NEW o \in store, o \notin store'
               PROVE  o.slot \notin VaultSlots
    BY DEF vars
  <2>1. o.slot \in AssetsSlots
    BY Removed
  <2> QED
    BY <2>1 DEF AssetsSlots, VaultSlots
<1> QED
  BY <1>1, CustodyInvHolds, PTL DEF Spec, VaultOnlyGrows

\* A rollback removes only versions its own run uploaded: never one it found and
\* reused, never one a receipt of the same run names, whatever other processes do.
THEOREM RollbackIsOwn == Spec => RollbackRemovesOwn
<1>1. CustodyInv /\ [Next]_vars =>
          [\A o \in store \ store' :
              /\ \E w \in Workers : o.owner = Run(w) /\ pc[w] \in {"verify", "rollback"}
              /\ \A r \in receipts : r.run # o.owner]_store
  <2> SUFFICES ASSUME CustodyInv, Next, NEW o \in store \ store'
               PROVE  /\ \E w \in Workers : o.owner = Run(w) /\ pc[w] \in {"verify", "rollback"}
                      /\ \A r \in receipts : r.run # o.owner
    BY DEF vars
  <2> QED
    BY Removed
<1> QED
  BY <1>1, CustodyInvHolds, PTL DEF Spec, RollbackRemovesOwn
-------------------------------------------------------------------------------
(* The readback of a locked object: ReadbackBudget.tla. *)

(***************************************************************************)
(* The inductive invariant.  The counter of the budget counts the reads of *)
(* both phases, and the time is bounded phase by phase: a read of the      *)
(* bytes starts by the deadline, and so do all reads of the retention but  *)
(* the first, which may start one read later.                              *)
(***************************************************************************)
Phases ==
    /\ phase = "hash" => now <= MaxWait
    /\ phase = "retention" => now <= MaxWait + LongestRead

BudgetInv ==
    /\ BudgetTypeOK
    /\ reads = attempts
    /\ slept <= MaxWait
    /\ slept <= now
    /\ Phases
    /\ GivesUpOnlyWhenSpent
    /\ EndsSoonAfterDeadline

\* A delay is one of the backoff delays, whatever the number of the attempt.
LEMMA DelayType ==
    ASSUME NEW n \in Nat \ {0}
    PROVE  Delay(n) \in Nat
<1>1. Backoff \in Seq(Nat) /\ Len(Backoff) \in Nat \ {0}
  BY BudgetAssumption
<1>2. Least(n, Len(Backoff)) \in 1..Len(Backoff)
  BY <1>1 DEF Least
<1> QED
  BY <1>1, <1>2 DEF Delay

\* What a read may take.
LEMMA ReadTime ==
    ASSUME NEW d \in ReadTimes
    PROVE  d \in Nat /\ d <= LongestRead
BY BudgetAssumption

\* A budget that was just opened satisfies the invariant.
LEMMA InitBudget == BudgetInit => BudgetInv
BY BudgetAssumption DEF BudgetInit, BudgetInv, BudgetTypeOK, Reading, Phases, GivesUpOnlyWhenSpent,
   EndsSoonAfterDeadline

\* Every step keeps the invariant.
LEMMA StepBudget == BudgetInv /\ [BudgetNext]_budgetVars => BudgetInv'
<1> SUFFICES ASSUME BudgetInv, [BudgetNext]_budgetVars
             PROVE  BudgetInv'
  OBVIOUS
<1> USE DEF BudgetInv, BudgetTypeOK, Reading, Phases, GivesUpOnlyWhenSpent, EndsSoonAfterDeadline
<1>0. MaxAttempts \in Nat /\ MaxWait \in Nat /\ LongestRead \in Nat
  BY BudgetAssumption
<1>1. CASE \E d \in ReadTimes : Succeed(d) \/ Reject(d) \/ GiveUp(d) \/ Retry(d)
  <2>1. PICK d \in ReadTimes : Succeed(d) \/ Reject(d) \/ GiveUp(d) \/ Retry(d)
    BY <1>1
  <2>2. d \in Nat /\ d <= LongestRead
    BY ReadTime
  <2>3. CASE Succeed(d)
    BY <1>0, <2>2, <2>3 DEF Succeed, Read
  <2>4. CASE Reject(d)
    BY <1>0, <2>2, <2>4 DEF Reject, Read
  <2>5. CASE GiveUp(d)
    BY <1>0, <2>2, <2>5 DEF GiveUp, Read, Spent
  <2>6. CASE Retry(d)
    <3> DEFINE remaining == MaxWait - (now + d)
               pause == Least(Delay(attempts + 1), IF remaining > 0 THEN remaining ELSE 0)
    <3>1. Delay(attempts + 1) \in Nat
      BY DelayType
    <3>2. now + d < MaxWait /\ attempts + 1 < MaxAttempts
      BY <1>0, <2>2, <2>6 DEF Retry, Spent
    <3>3. pause \in Nat /\ pause <= MaxWait - (now + d)
      BY <1>0, <2>2, <3>1, <3>2 DEF Least
    <3>4. now' = now + d + pause /\ slept' = slept + pause /\ phase' = phase
      BY <2>6 DEF Retry
    <3> HIDE DEF pause
    <3> QED
      BY <1>0, <2>2, <2>6, <3>2, <3>3, <3>4 DEF Retry, Read
  <2> QED
    BY <2>1, <2>3, <2>4, <2>5, <2>6
<1>2. CASE NoAttemptLeft
  BY <1>0, <1>2 DEF NoAttemptLeft
<1>3. CASE UNCHANGED budgetVars
  BY <1>3 DEF budgetVars
<1> QED
  BY <1>1, <1>2, <1>3 DEF BudgetNext

\* The invariant holds of every readback.
THEOREM BudgetInvariant == BudgetSpec => []BudgetInv
<1>1. BudgetInit => BudgetInv
  BY InitBudget
<1>2. BudgetInv /\ [BudgetNext]_budgetVars => BudgetInv'
  BY StepBudget
<1> QED
  BY <1>1, <1>2, PTL DEF BudgetSpec

\* Every readback of a locked object has values of the declared types.
THEOREM BudgetTypes == BudgetSpec => []BudgetTypeOK
<1>1. BudgetInv => BudgetTypeOK
  BY DEF BudgetInv
<1> QED
  BY <1>1, BudgetInvariant, PTL

\* Hash and retention together never read more often than the budget has attempts, and
\* never sleep longer than its time.
THEOREM BudgetIsShared == BudgetSpec => []WithinBudget
<1>1. BudgetInv => WithinBudget
  BY BudgetAssumption DEF BudgetInv, BudgetTypeOK, WithinBudget
<1> QED
  BY <1>1, BudgetInvariant, PTL

\* B2EventualConsistencyTimeout is raised only when the attempts or the time are spent.
THEOREM TimeoutMeansSpent == BudgetSpec => []GivesUpOnlyWhenSpent
<1>1. BudgetInv => GivesUpOnlyWhenSpent
  BY DEF BudgetInv
<1> QED
  BY <1>1, BudgetInvariant, PTL

\* A readback outlasts its deadline by one read of each phase at most.
THEOREM BoundedOverrun == BudgetSpec => []EndsSoonAfterDeadline
<1>1. BudgetInv => EndsSoonAfterDeadline
  BY DEF BudgetInv
<1> QED
  BY <1>1, BudgetInvariant, PTL

===============================================================================
