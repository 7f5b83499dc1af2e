------------------------- MODULE CustodyRecoveryProofs ------------------------
(***************************************************************************)
(* Proofs about CustodyRecovery, for any number of scripts, runs, failures *)
(* and overlaps, any retention and any passage of time.                    *)
(***************************************************************************)
EXTENDS CustodyRecovery, TLAPS

-------------------------------------------------------------------------------
(* Types. *)
LEMMA NewTypes ==
    ASSUME TypeOK, NEW role \in Role, NEW kind \in Kind \union {"unknown"},
           NEW bytes \in Bytes, NEW time \in Nat
    PROVE  New(role, kind, bytes, time) \in Object
BY CustodyRecoveryAssumption DEF TypeOK, New, Object

LEMMA OverTypes ==
    ASSUME TypeOK, NEW x \in Scripts, Over(x)
    PROVE  /\ pc' \in [Scripts -> Location]
           /\ started' \in [Scripts -> Nat]
           /\ slot' \in [Scripts -> 1..4]
           /\ manifest' \in [Scripts -> Bytes]
           /\ hand' \in [Scripts -> SUBSET Object]
           /\ created' \in [Scripts -> SUBSET Object]
BY DEF TypeOK, Over, Location, Bytes

LEMMA GotoTypes ==
    ASSUME TypeOK, NEW x \in Scripts, NEW l \in Location, Goto(x, l)
    PROVE  /\ pc' \in [Scripts -> Location]
           /\ started' \in [Scripts -> Nat]
           /\ slot' \in [Scripts -> 1..4]
           /\ manifest' \in [Scripts -> Bytes]
           /\ hand' \in [Scripts -> SUBSET Object]
           /\ created' \in [Scripts -> SUBSET Object]
BY DEF TypeOK, Goto

LEMMA HoldTypes ==
    ASSUME TypeOK, NEW x \in Scripts, NEW o \in Object, Hold(x, o)
    PROVE  /\ pc' \in [Scripts -> Location]
           /\ started' \in [Scripts -> Nat]
           /\ slot' \in [Scripts -> 1..4]
           /\ manifest' \in [Scripts -> Bytes]
           /\ hand' \in [Scripts -> SUBSET Object]
<1>1. hand' \in [Scripts -> SUBSET Object]
  BY DEF TypeOK, Hold
<1>2. slot' \in [Scripts -> 1..4]
  BY DEF TypeOK, Hold
<1>3. pc' \in [Scripts -> Location]
  BY DEF TypeOK, Hold, Location
<1> QED
  BY <1>1, <1>2, <1>3 DEF TypeOK, Hold

LEMMA SlotTypes ==
    ASSUME TypeOK, NEW x \in Scripts
    PROVE  /\ Slots[slot[x]].role \in Role
           /\ Slots[slot[x]].kind \in Kind
           /\ BytesAt(x, Slots[slot[x]]) \in Bytes
<1>1. slot[x] \in 1..4 /\ manifest[x] \in Bytes
  BY DEF TypeOK
<1>2. CASE slot[x] = 1
  BY <1>1, <1>2 DEF Slots, Role, Kind, BytesAt, Bytes
<1>3. CASE slot[x] = 2
  BY <1>1, <1>3 DEF Slots, Role, Kind, BytesAt, Bytes
<1>4. CASE slot[x] = 3
  BY <1>1, <1>4 DEF Slots, Role, Kind, BytesAt, Bytes
<1>5. CASE slot[x] = 4
  BY <1>1, <1>5 DEF Slots, Role, Kind, BytesAt, Bytes
<1> QED
  BY <1>1, <1>2, <1>3, <1>4, <1>5

\* What a smoke stores in its vault slots is locked; it deletes only what it put in the assets
\* bucket, and it works on sources and manifests.
NewObject(x) ==
    New(Slots[slot[x]].role, Slots[slot[x]].kind, BytesAt(x, Slots[slot[x]]), started[x])

LEMMA NewObjectTypes ==
    ASSUME TypeOK, NEW x \in Scripts
    PROVE  /\ NewObject(x) \in Object
           /\ NewObject(x).kind \in Kind
           /\ NewObject(x).version = puts + 1
<1>1. started[x] \in Nat
  BY DEF TypeOK
<1>2. NewObject(x) \in Object
  BY <1>1, SlotTypes, NewTypes DEF NewObject
<1> QED
  BY <1>2, SlotTypes DEF NewObject, New

LEMMA TypesStep ==
    ASSUME TypeOK, Next
    PROVE  TypeOK'
<1>l. /\ "store" \in Location /\ "rollback" \in Location /\ "list_assets" \in Location
      /\ "list_vault" \in Location /\ "versions" \in Location /\ "download" \in Location /\ "retained" \in Location
      /\ "challenge" \in Location /\ "delete_source" \in Location
      /\ "delete_manifest" \in Location /\ "absent" \in Location /\ "report" \in Location
  BY DEF Location
<1>1. ASSUME NEW x \in Smokes, StartSmoke(x) PROVE TypeOK'
  <2>1. x \in Scripts
    BY DEF Scripts
  <2>2. manifest' \in [Scripts -> Bytes]
    BY <1>1, <2>1 DEF StartSmoke, TypeOK, Bytes
  <2>3. slot' \in [Scripts -> 1..4] /\ pc' \in [Scripts -> Location] /\ started' \in [Scripts -> Nat]
    BY <1>1, <1>l, <2>1 DEF StartSmoke, Begin, TypeOK
  <2> QED
    BY <1>1, <2>2, <2>3 DEF StartSmoke, Begin, TypeOK, TroubleLeft
<1>2. ASSUME NEW x \in Smokes, CustodyFails(x) PROVE TypeOK'
  <2>1. x \in Scripts
    BY DEF Scripts
  <2> QED
    BY <1>2, <1>l, <2>1, GotoTypes DEF CustodyFails, Trouble, TypeOK
<1>3. ASSUME NEW x \in Scripts, Reuse(x) PROVE TypeOK'
  <2>1. PICK o \in Found(x) : IF o.role = "assets" \/ o.until >= started[x] + Days
                              THEN Hold(x, o) /\ UNCHANGED created ELSE Goto(x, "rollback")
    BY <1>3 DEF Reuse
  <2>2. o \in Object
    BY DEF Found, Current, TypeOK
  <2>3. CASE Hold(x, o) /\ UNCHANGED created
    BY <1>3, <2>2, <2>3, HoldTypes DEF Reuse, TypeOK, counters
  <2>4. CASE Goto(x, "rollback")
    BY <1>3, <1>l, <2>4, GotoTypes DEF Reuse, TypeOK, counters
  <2> QED
    BY <2>1, <2>3, <2>4
<1>4. ASSUME NEW x \in Scripts, Put(x) PROVE TypeOK'
  <2>1. stored' = stored \union {NewObject(x)} /\ puts' = puts + 1
    BY <1>4 DEF Put, NewObject
  <2>2. stored' \subseteq Object /\ puts' \in Nat
    BY <2>1, NewObjectTypes DEF TypeOK
  <2>3. CASE Trouble /\ Goto(x, "rollback")
    BY <1>4, <1>l, <2>2, <2>3, GotoTypes DEF Put, Trouble, TypeOK
  <2>4. CASE /\ Hold(x, NewObject(x))
             /\ created' = [created EXCEPT ![x] = IF NewObject(x).role = "assets"
                                                  THEN @ \union {NewObject(x)} ELSE @]
             /\ UNCHANGED failures
    <3>1. created' \in [Scripts -> SUBSET Object]
      BY <2>4, NewObjectTypes DEF TypeOK
    <3> QED
      BY <1>4, <2>2, <2>4, <3>1, HoldTypes, NewObjectTypes DEF Put, TypeOK
  <2> QED
    BY <1>4, <2>3, <2>4 DEF Put, NewObject
<1>5. ASSUME NEW x \in Scripts, Rollback(x) PROVE TypeOK'
  <2>1. stored' \subseteq Object
    BY <1>5 DEF Rollback, TypeOK
  <2> QED
    BY <1>5, <2>1, OverTypes DEF Rollback, TypeOK, counters
<1>6. ASSUME NEW x \in Recoveries, StartRecovery(x) PROVE TypeOK'
  <2>1. x \in Scripts
    BY DEF Scripts
  <2>2. pc' \in [Scripts -> Location] /\ started' \in [Scripts -> Nat]
    BY <1>6, <1>l, <2>1 DEF StartRecovery, Begin, TypeOK
  <2> QED
    BY <1>6, <2>2 DEF StartRecovery, Begin, TypeOK, TroubleLeft
<1>7. ASSUME NEW x \in Scripts, InspectAssets(x) PROVE TypeOK'
  <2>1. {o \in Current : o.role = "assets"} \subseteq Object
    BY DEF Current, TypeOK
  <2> QED
    BY <1>7, <1>l, <2>1 DEF InspectAssets, TypeOK, counters
<1>8. ASSUME NEW x \in Scripts, InspectVault(x) PROVE TypeOK'
  <2>1. Seen(x) \subseteq Object
    BY DEF Seen, Current, TypeOK
  <2>2. CASE Over(x)
    BY <1>8, <2>2, OverTypes DEF InspectVault, TypeOK, counters
  <2>3. CASE /\ hand' = [hand EXCEPT ![x] = Seen(x)]
             /\ pc' = [pc EXCEPT ![x] = "versions"]
             /\ UNCHANGED <<started, slot, manifest, created>>
    BY <1>8, <1>l, <2>1, <2>3 DEF InspectVault, TypeOK, counters
  <2> QED
    BY <1>8, <2>2, <2>3 DEF InspectVault
<1>9. ASSUME NEW x \in Scripts,
             FindVersions(x) \/ Download(x) \/ CheckRetained(x) \/ VerifyAbsent(x)
      PROVE  TypeOK'
  <2>1. Over(x) \/ \E l \in Location : Goto(x, l)
    BY <1>9, <1>l DEF FindVersions, Download, CheckRetained, VerifyAbsent
  <2> QED
    BY <1>9, <2>1, GotoTypes, OverTypes
       DEF FindVersions, Download, CheckRetained, VerifyAbsent, TypeOK, counters
<1>10. ASSUME NEW x \in Scripts, Challenge(x) \/ DeleteSource(x) \/ DeleteManifest(x)
       PROVE TypeOK'
  <2>1. Over(x) \/ \E l \in Location : Goto(x, l)
    BY <1>10, <1>l DEF Challenge, DeleteSource, DeleteManifest
  <2>2. stored' \subseteq stored
    BY <1>10 DEF Challenge, DeleteSource, DeleteManifest
  <2> QED
    BY <1>10, <2>1, <2>2, GotoTypes, OverTypes
       DEF Challenge, DeleteSource, DeleteManifest, TypeOK, counters
<1>11. ASSUME NEW x \in Scripts, Report(x) PROVE TypeOK'
  <2>1. reports' \subseteq SUBSET Object
    BY <1>11 DEF Report, TypeOK
  <2> QED
    BY <1>11, <2>1, OverTypes DEF Report, TypeOK, counters
<1>12. ASSUME NEW x \in Scripts, Crash(x) PROVE TypeOK'
  BY <1>12, OverTypes DEF Crash, Trouble, TypeOK
<1>13. ASSUME Tick PROVE TypeOK'
  BY <1>13 DEF Tick, TypeOK, local, counters
<1>14. ASSUME ServiceCustody PROVE TypeOK'
  <2>1. \A role \in Role, kind \in Kind : New(role, kind, "paid", now) \in Object
    BY NewTypes DEF Bytes, TypeOK
  <2> QED
    BY <1>14, <2>1 DEF ServiceCustody, TypeOK, local, counters
<1>15. ASSUME ServiceSealed PROVE TypeOK'
  <2>1. New("assets", "unknown", "sealed", now) \in Object
    BY NewTypes DEF Bytes, TypeOK, Role
  <2> QED
    BY <1>15, <2>1 DEF ServiceSealed, TypeOK, local, counters
<1> QED
  BY <1>1, <1>2, <1>3, <1>4, <1>5, <1>6, <1>7, <1>8, <1>9, <1>10, <1>11, <1>12, <1>13, <1>14,
     <1>15 DEF Next, Smoke, Recovery, Finish, Scripts

\* The variables keep their types.
THEOREM CustodyRecoveryTypes == Spec => []TypeOK
<1>1. Init => TypeOK
  BY DEF Init, TypeOK, Location, Bytes
<1>2. TypeOK /\ UNCHANGED vars => TypeOK'
  BY DEF TypeOK, vars, local, counters
<1> QED
  BY <1>1, <1>2, TypesStep, PTL DEF Spec

-------------------------------------------------------------------------------
(***************************************************************************)
(* Reports stay true.  Version identifiers are never given out twice, so a *)
(* version that is gone stays gone; and a locked version goes only when    *)
(* its retention is over.  What one script relies on is therefore stable   *)
(* under the steps of the others.                                          *)
(***************************************************************************)
Fresh(o) == o.version <= puts

Locked(o) == o.role = "vault" => o \in stored \/ o.until <= now

Gone(o) == o.role = "assets" => o \notin stored

ScriptInv(x) ==
    /\ pc[x] = "idle" => hand[x] = {} /\ created[x] = {}
    /\ \A o \in created[x] : o.role = "assets"
    /\ \A o \in hand[x] : Fresh(o) /\ Locked(o)
    /\ pc[x] \notin {"list_assets", "list_vault"} => \A o \in hand[x] : o.kind \in Kind
    /\ pc[x] = "delete_manifest" => \A o \in hand[x] : o.kind = "source" => Gone(o)
    /\ pc[x] \in {"absent", "report"} => \A o \in hand[x] : Gone(o)

ReportInv == \A h \in reports : \A o \in h : Fresh(o) /\ Locked(o) /\ Gone(o)

IInv ==
    /\ TypeOK
    /\ \A o \in stored : Fresh(o)
    /\ ReportInv
    /\ \A x \in Scripts : ScriptInv(x)

\* What a step may do to the buckets, whoever takes it.
StoreChange ==
    /\ now' \in Nat /\ now <= now'
    /\ puts' \in Nat /\ puts <= puts'
    /\ \A o \in stored' : o \in stored \/ (o \in Object /\ o.version = puts + 1 /\ puts' = puts + 1)
    /\ \A o \in stored : o.role = "vault" => o \in stored' \/ o.until <= now

LEMMA Stable ==
    ASSUME TypeOK, StoreChange, NEW o \in Object, Fresh(o)
    PROVE  /\ Fresh(o)'
           /\ Locked(o) => Locked(o)'
           /\ Gone(o) => Gone(o)'
<1>1. o.version \in Nat /\ o.until \in Nat /\ puts \in Nat /\ now \in Nat
  BY DEF Object, TypeOK
<1>2. Fresh(o)'
  BY <1>1 DEF StoreChange, Fresh
<1>3. Locked(o) => Locked(o)'
  BY <1>1 DEF StoreChange, Locked
<1>4. Gone(o) => Gone(o)'
  BY <1>1 DEF StoreChange, Fresh, Gone
<1> QED
  BY <1>2, <1>3, <1>4

LEMMA StoredStaysFresh ==
    ASSUME TypeOK, StoreChange, \A o \in stored : Fresh(o)
    PROVE  (\A o \in stored : Fresh(o))'
<1>1. ASSUME NEW o \in stored' PROVE o.version <= puts'
  <2>1. CASE o \in stored
    <3>1. o \in Object
      BY <2>1 DEF TypeOK
    <3> QED
      BY <2>1, <3>1, Stable DEF Fresh
  <2>2. CASE o.version = puts + 1 /\ puts' = puts + 1
    BY <2>2 DEF TypeOK
  <2> QED
    BY <1>1, <2>1, <2>2 DEF StoreChange
<1> QED
  BY <1>1 DEF Fresh

LEMMA ReportsStayTrue ==
    ASSUME TypeOK, StoreChange, ReportInv, UNCHANGED reports
    PROVE  ReportInv'
<1>1. ASSUME NEW h \in reports, NEW o \in h PROVE (Fresh(o) /\ Locked(o) /\ Gone(o))'
  <2>1. o \in Object
    BY <1>1 DEF TypeOK
  <2> QED
    BY <1>1, <2>1, Stable DEF ReportInv
<1> QED
  BY <1>1 DEF ReportInv

\* A script keeps its invariant when another one takes a step.
LEMMA OthersKeep ==
    ASSUME TypeOK, StoreChange, NEW y \in Scripts, ScriptInv(y),
           pc'[y] = pc[y], hand'[y] = hand[y], created'[y] = created[y]
    PROVE  ScriptInv(y)'
<1>1. hand[y] \subseteq Object
  BY DEF TypeOK
<1>2. \A o \in hand[y] : Fresh(o)' /\ Locked(o)' /\ (Gone(o) => Gone(o)')
  BY <1>1, Stable DEF ScriptInv
<1>3. (\A o \in hand[y] : Fresh(o) /\ Locked(o))'
  BY <1>2
<1>4. (pc[y] = "delete_manifest" => \A o \in hand[y] : o.kind = "source" => Gone(o))'
  BY <1>2 DEF ScriptInv
<1>5. (pc[y] \in {"absent", "report"} => \A o \in hand[y] : Gone(o))'
  BY <1>2 DEF ScriptInv
<1> QED
  BY <1>3, <1>4, <1>5 DEF ScriptInv

\* A script that is over has nothing left to keep.
LEMMA OverKeeps ==
    ASSUME TypeOK, StoreChange, NEW x \in Scripts, \A y \in Scripts : ScriptInv(y), Over(x)
    PROVE  (\A y \in Scripts : ScriptInv(y))'
<1>1. ASSUME NEW y \in Scripts, y # x PROVE ScriptInv(y)'
  BY <1>1, OthersKeep DEF Over, TypeOK
<1>2. ScriptInv(x)'
  BY DEF Over, TypeOK, ScriptInv
<1> QED
  BY <1>1, <1>2

\* One that goes on with what it holds keeps it, if its new location asks nothing more.
LEMMA GotoKeeps ==
    ASSUME TypeOK, StoreChange, NEW x \in Scripts, \A y \in Scripts : ScriptInv(y),
           NEW l \in Location \ {"idle"}, Goto(x, l),
           pc[x] \notin {"list_assets", "list_vault"},
           (l = "delete_manifest" => \A o \in hand[x] : o.kind = "source" => Gone(o))',
           (l \in {"absent", "report"} => \A o \in hand[x] : Gone(o))'
    PROVE  (\A y \in Scripts : ScriptInv(y))'
<1>1. ASSUME NEW y \in Scripts, y # x PROVE ScriptInv(y)'
  BY <1>1, OthersKeep DEF Goto, TypeOK
<1>2. ScriptInv(x)'
  <2>1. hand[x] \subseteq Object /\ hand' = hand /\ created' = created /\ pc'[x] = l
    BY DEF Goto, TypeOK
  <2>2. (\A o \in hand[x] : Fresh(o) /\ Locked(o))'
    BY <2>1, Stable DEF ScriptInv
  <2> QED
    BY <2>1, <2>2 DEF ScriptInv
<1> QED
  BY <1>1, <1>2

\* A smoke that holds one more object, stored or found.
LEMMA HoldKeeps ==
    ASSUME TypeOK, StoreChange, NEW x \in Scripts, \A y \in Scripts : ScriptInv(y),
           NEW o \in Object, o.kind \in Kind, o \in stored', Fresh(o)',
           pc[x] = "store", Hold(x, o),
           \A y \in Scripts : created'[y] = created[y]
                              \/ (y = x /\ \A p \in created'[x] : p.role = "assets")
    PROVE  (\A y \in Scripts : ScriptInv(y))'
<1>1. ASSUME NEW y \in Scripts, y # x PROVE ScriptInv(y)'
  BY <1>1, OthersKeep DEF Hold, TypeOK
<1>2. ScriptInv(x)'
  <2>1. hand'[x] = hand[x] \union {o} /\ hand[x] \subseteq Object
    BY DEF Hold, TypeOK
  <2>2. pc'[x] \in {"store", "download"}
    BY DEF Hold, TypeOK
  <2>3. \A p \in hand[x] : Fresh(p)' /\ Locked(p)' /\ p.kind \in Kind
    BY <2>1, Stable DEF ScriptInv
  <2>4. Locked(o)'
    BY DEF Locked
  <2>5. (\A p \in hand[x] : Fresh(p) /\ Locked(p))'
    BY <2>1, <2>3, <2>4
  <2>6. \A p \in hand'[x] : p.kind \in Kind
    BY <2>1, <2>3
  <2>7. \A p \in created'[x] : p.role = "assets"
    BY DEF ScriptInv
  <2> QED
    BY <2>2, <2>5, <2>6, <2>7 DEF ScriptInv
<1> QED
  BY <1>1, <1>2

\* The steps that leave the buckets and the clock alone, and those that only delete.
LEMMA Untouched ==
    ASSUME TypeOK, UNCHANGED <<stored, puts, now>>
    PROVE  StoreChange
BY DEF TypeOK, StoreChange

LEMMA OnlyDeletes ==
    ASSUME TypeOK, UNCHANGED <<puts, now>>, stored' \subseteq stored,
           \A o \in stored \ stored' : o.role = "assets" \/ o.until <= now
    PROVE  StoreChange
BY DEF TypeOK, StoreChange

LEMMA Stores ==
    ASSUME TypeOK, NEW S, S \subseteq Object, \A o \in S : o.version = puts + 1,
           stored' = stored \union S, puts' = puts + 1, UNCHANGED now
    PROVE  StoreChange
BY DEF TypeOK, StoreChange

\* A step that keeps every script's invariant and the reports keeps it all.
LEMMA Together ==
    ASSUME TypeOK, TypeOK', StoreChange, IInv, UNCHANGED reports,
           (\A y \in Scripts : ScriptInv(y))'
    PROVE  IInv'
BY StoredStaysFresh, ReportsStayTrue DEF IInv

LEMMA NobodyMoves ==
    ASSUME IInv, StoreChange, UNCHANGED local
    PROVE  (\A y \in Scripts : ScriptInv(y))'
BY OthersKeep DEF IInv, local

LEMMA InvStep ==
    ASSUME IInv, TypeOK', Next
    PROVE  IInv'
<1>t. TypeOK /\ \A y \in Scripts : ScriptInv(y)
  BY DEF IInv
<1>l. /\ "store" \in Location /\ "rollback" \in Location /\ "list_assets" \in Location
      /\ "list_vault" \in Location /\ "versions" \in Location /\ "download" \in Location /\ "retained" \in Location
      /\ "challenge" \in Location /\ "delete_source" \in Location
      /\ "delete_manifest" \in Location /\ "absent" \in Location /\ "report" \in Location
  BY DEF Location
<1>1. ASSUME NEW x \in Scripts, Begin(x), NEW l \in {"store", "list_assets"},
             pc' = [pc EXCEPT ![x] = l]
      PROVE  IInv'
  <2>1. StoreChange /\ UNCHANGED reports
    BY <1>1, <1>t, Untouched DEF Begin
  <2>2. ASSUME NEW y \in Scripts, y # x PROVE ScriptInv(y)'
    BY <1>1, <1>t, <2>1, <2>2, OthersKeep DEF Begin, TypeOK
  <2>3. ScriptInv(x)'
    BY <1>1, <1>t DEF Begin, TypeOK, ScriptInv
  <2> QED
    BY <1>t, <2>1, <2>2, <2>3, Together
<1>2. ASSUME NEW x \in Scripts, CustodyFails(x) PROVE IInv'
  <2>1. StoreChange /\ UNCHANGED reports /\ Goto(x, "rollback") /\ pc[x] = "store"
    BY <1>2, <1>t, Untouched DEF CustodyFails
  <2>2. (\A y \in Scripts : ScriptInv(y))'
    BY <1>t, <1>l, <2>1, GotoKeeps
  <2> QED
    BY <1>t, <2>1, <2>2, Together
<1>3. ASSUME NEW x \in Scripts, Reuse(x) PROVE IInv'
  <2>1. StoreChange /\ UNCHANGED <<stored, puts, reports>> /\ pc[x] = "store"
    BY <1>3, <1>t, Untouched DEF Reuse
  <2>2. PICK o \in Found(x) : IF o.role = "assets" \/ o.until >= started[x] + Days
                              THEN Hold(x, o) /\ UNCHANGED created ELSE Goto(x, "rollback")
    BY <1>3 DEF Reuse
  <2>3. o \in stored /\ o.kind \in Kind /\ o \in Object /\ Fresh(o)
    BY <1>t, SlotTypes DEF Found, Current, TypeOK, IInv
  <2>4. (\A y \in Scripts : ScriptInv(y))'
    <3>1. CASE Hold(x, o) /\ UNCHANGED created
      <4>1. Fresh(o)' /\ o \in stored'
        BY <2>1, <2>3 DEF Fresh
      <4> QED
        BY <1>t, <2>1, <2>3, <3>1, <4>1, HoldKeeps
    <3>2. CASE Goto(x, "rollback")
      BY <1>t, <1>l, <2>1, <3>2, GotoKeeps
    <3> QED
      BY <2>2, <3>1, <3>2
  <2> QED
    BY <1>t, <2>1, <2>4, Together
<1>4. ASSUME NEW x \in Scripts, Put(x) PROVE IInv'
  <2>1. PICK o : o = NewObject(x)
    OBVIOUS
  <2>2. stored' = stored \union {o} /\ puts' = puts + 1 /\ UNCHANGED <<now, reports>>
        /\ pc[x] = "store"
    BY <1>4, <2>1 DEF Put, NewObject
  <2>3. o \in Object /\ o.kind \in Kind /\ o.version = puts + 1
    BY <1>t, <2>1, NewObjectTypes
  <2>4. StoreChange
    BY <1>t, <2>2, <2>3 DEF StoreChange, TypeOK
  <2>5. CASE Trouble /\ Goto(x, "rollback")
    <3>1. (\A y \in Scripts : ScriptInv(y))'
      BY <1>t, <1>l, <2>2, <2>4, <2>5, GotoKeeps
    <3> QED
      BY <1>t, <2>2, <2>4, <3>1, Together
  <2>6. CASE /\ Hold(x, o)
             /\ created' = [created EXCEPT ![x] = IF o.role = "assets" THEN @ \union {o} ELSE @]
    <3>1. Fresh(o)' /\ o \in stored'
      BY <1>t, <2>2, <2>3 DEF Fresh, TypeOK
    <3>2. \A y \in Scripts : created'[y] = created[y]
                             \/ (y = x /\ \A p \in created'[x] : p.role = "assets")
      BY <1>t, <2>6 DEF TypeOK, ScriptInv
    <3>3. (\A y \in Scripts : ScriptInv(y))'
      BY <1>t, <2>2, <2>3, <2>4, <2>6, <3>1, <3>2, HoldKeeps
    <3> QED
      BY <1>t, <2>2, <2>4, <3>3, Together
  <2> QED
    BY <1>4, <2>1, <2>5, <2>6 DEF Put, NewObject
<1>5. ASSUME NEW x \in Scripts, Rollback(x) PROVE IInv'
  <2>1. StoreChange
    <3>1. \A o \in stored \ stored' : o.role = "assets"
      BY <1>5, <1>t DEF Rollback, ScriptInv
    <3> QED
      BY <1>5, <1>t, <3>1, OnlyDeletes DEF Rollback
  <2>2. Over(x) /\ UNCHANGED reports
    BY <1>5 DEF Rollback
  <2> QED
    BY <1>t, <2>1, <2>2, OverKeeps, Together
<1>6. ASSUME NEW x \in Scripts, InspectAssets(x) PROVE IInv'
  <2>1. StoreChange /\ UNCHANGED <<stored, puts, now, reports>>
    BY <1>6, <1>t, Untouched DEF InspectAssets
  <2>2. ASSUME NEW y \in Scripts, y # x PROVE ScriptInv(y)'
    BY <1>6, <1>t, <2>1, <2>2, OthersKeep DEF InspectAssets, TypeOK
  <2>3. ScriptInv(x)'
    <3>1. hand'[x] \subseteq stored /\ pc'[x] = "list_vault" /\ created' = created
      BY <1>6, <1>t DEF InspectAssets, TypeOK, Current
    <3>2. \A o \in hand'[x] : o.version <= puts' /\ o \in stored'
      BY <2>1, <3>1 DEF IInv, Fresh
    <3> QED
      BY <1>t, <3>1, <3>2 DEF ScriptInv, Fresh, Locked
  <2> QED
    BY <1>t, <2>1, <2>2, <2>3, Together
<1>7. ASSUME NEW x \in Scripts, InspectVault(x) PROVE IInv'
  <2>1. StoreChange /\ UNCHANGED <<stored, puts, now, reports>>
    BY <1>7, <1>t, Untouched DEF InspectVault
  <2>2. CASE Over(x)
    BY <1>t, <2>1, <2>2, OverKeeps, Together
  <2>3. CASE /\ Accepts(Observation(Seen(x), started[x]))
             /\ hand' = [hand EXCEPT ![x] = Seen(x)]
             /\ pc' = [pc EXCEPT ![x] = "versions"]
             /\ UNCHANGED <<started, slot, manifest, created>>
    <3>1. ASSUME NEW y \in Scripts, y # x PROVE ScriptInv(y)'
      BY <1>t, <2>1, <2>3, <3>1, OthersKeep DEF TypeOK
    <3>2. hand'[x] = Seen(x) /\ pc'[x] = "versions" /\ created' = created
      BY <1>t, <2>3 DEF TypeOK
    <3>3. \A o \in Seen(x) : o.kind \in Kind
      <4>1. ~ \E o \in Seen(x) : o.kind = "unknown"
        BY <2>3 DEF Accepts, Observation
      <4>2. Seen(x) \subseteq Object
        BY <1>t DEF Seen, Current, TypeOK
      <4> QED
        BY <4>1, <4>2 DEF Object
    <3>4. \A o \in Seen(x) : o.version <= puts' /\ (o.role = "vault" => o \in stored' \/ o.until <= now')
      BY <1>t, <2>1 DEF Seen, Current, IInv, Fresh, ScriptInv, Locked
    <3>5. ScriptInv(x)'
      BY <1>t, <3>2, <3>3, <3>4 DEF ScriptInv, Fresh, Locked
    <3> QED
      BY <1>t, <2>1, <3>1, <3>5, Together
  <2> QED
    BY <1>7, <2>2, <2>3 DEF InspectVault
<1>8. ASSUME NEW x \in Scripts, FindVersions(x) \/ Download(x) \/ CheckRetained(x) PROVE IInv'
  <2>1. StoreChange /\ UNCHANGED reports
    BY <1>8, <1>t, Untouched DEF FindVersions, Download, CheckRetained
  <2>2. CASE Over(x)
    BY <1>t, <2>1, <2>2, OverKeeps, Together
  <2>3. CASE /\ pc[x] \in {"versions", "download", "retained"}
             /\ \E l \in {"download", "retained", "challenge"} : Goto(x, l)
    BY <1>t, <1>l, <2>1, <2>3, GotoKeeps, Together
  <2> QED
    BY <1>8, <2>2, <2>3 DEF FindVersions, Download, CheckRetained
<1>9. ASSUME NEW x \in Scripts, Challenge(x) PROVE IInv'
  <2>1. \A o \in stored \ stored' : o.until <= now
    BY <1>9 DEF Challenge
  <2>2. StoreChange /\ UNCHANGED reports
    BY <1>9, <1>t, <2>1, OnlyDeletes DEF Challenge
  <2>3. Over(x) \/ (Goto(x, "delete_source") /\ pc[x] = "challenge")
    BY <1>9 DEF Challenge
  <2>4. (\A y \in Scripts : ScriptInv(y))'
    BY <1>t, <1>l, <2>2, <2>3, OverKeeps, GotoKeeps
  <2> QED
    BY <1>t, <2>2, <2>4, Together
<1>10. ASSUME NEW x \in Scripts, DeleteSource(x) PROVE IInv'
  <2>1. StoreChange /\ UNCHANGED reports
    BY <1>10, <1>t, OnlyDeletes DEF DeleteSource, Held
  <2>2. (\A o \in hand[x] : o.kind = "source" => Gone(o))'
    BY <1>10 DEF DeleteSource, Held, Gone, Goto
  <2>3. (\A y \in Scripts : ScriptInv(y))'
    BY <1>10, <1>t, <1>l, <2>1, <2>2, GotoKeeps DEF DeleteSource
  <2> QED
    BY <1>t, <2>1, <2>3, Together
<1>11. ASSUME NEW x \in Scripts, DeleteManifest(x) PROVE IInv'
  <2>1. StoreChange /\ UNCHANGED reports
    BY <1>11, <1>t, OnlyDeletes DEF DeleteManifest, Held
  <2>2. (\A o \in hand[x] : Gone(o))'
    <3>1. \A o \in hand[x] : o.kind \in {"source", "manifest"} /\ (o.kind = "source" => Gone(o))
      BY <1>11, <1>t DEF DeleteManifest, ScriptInv, Kind
    <3> QED
      BY <1>11, <3>1 DEF DeleteManifest, Held, Gone, Goto
  <2>3. \E l \in {"absent", "report"} : Goto(x, l)
    BY <1>11 DEF DeleteManifest
  <2>4. (\A y \in Scripts : ScriptInv(y))'
    BY <1>11, <1>t, <1>l, <2>1, <2>2, <2>3, GotoKeeps DEF DeleteManifest
  <2> QED
    BY <1>t, <2>1, <2>4, Together
<1>12. ASSUME NEW x \in Scripts, VerifyAbsent(x) PROVE IInv'
  <2>1. StoreChange /\ UNCHANGED <<stored, puts, now, reports>> /\ pc[x] = "absent"
    BY <1>12, <1>t, Untouched DEF VerifyAbsent
  <2>2. CASE Over(x)
    BY <1>t, <2>1, <2>2, OverKeeps, Together
  <2>3. CASE Goto(x, "report")
    <3>1. (\A o \in hand[x] : Gone(o))'
      BY <1>t, <2>1, <2>3 DEF ScriptInv, Gone, Goto
    <3> QED
      BY <1>t, <1>l, <2>1, <2>3, <3>1, GotoKeeps, Together
  <2> QED
    BY <1>12, <2>2, <2>3 DEF VerifyAbsent
<1>13. ASSUME NEW x \in Scripts, Report(x) PROVE IInv'
  <2>1. StoreChange /\ UNCHANGED <<stored, puts, now>> /\ Over(x) /\ pc[x] = "report"
    BY <1>13, <1>t, Untouched DEF Report
  <2>2. (\A y \in Scripts : ScriptInv(y))'
    BY <1>t, <2>1, OverKeeps
  <2>3. \A o \in hand[x] : Fresh(o) /\ Locked(o) /\ Gone(o)
    BY <1>t, <2>1 DEF ScriptInv
  <2>4. ReportInv'
    BY <1>13, <2>1, <2>3 DEF Report, IInv, ReportInv, Fresh, Locked, Gone
  <2>5. (\A o \in stored : Fresh(o))'
    BY <1>t, <2>1, StoredStaysFresh DEF IInv
  <2> QED
    BY <2>2, <2>4, <2>5 DEF IInv
<1>14. ASSUME NEW x \in Scripts, Crash(x) PROVE IInv'
  BY <1>14, <1>t, Untouched, OverKeeps, Together DEF Crash
<1>15. ASSUME Tick PROVE IInv'
  <2>1. StoreChange
    BY <1>15, <1>t DEF Tick, StoreChange, TypeOK
  <2> QED
    BY <1>15, <1>t, <2>1, NobodyMoves, Together DEF Tick
<1>16. ASSUME ServiceCustody PROVE IInv'
  <2> DEFINE S == {New(role, kind, "paid", now) : role \in Role, kind \in Kind}
  <2>1. S \subseteq Object /\ \A o \in S : o.version = puts + 1
    <3>1. \A role \in Role, kind \in Kind : New(role, kind, "paid", now) \in Object
      BY <1>t, NewTypes DEF Bytes, TypeOK
    <3>2. \A role \in Role, kind \in Kind : New(role, kind, "paid", now).version = puts + 1
      BY DEF New
    <3> QED
      BY <3>1, <3>2
  <2>2. stored' = stored \union S /\ puts' = puts + 1 /\ UNCHANGED <<now, local, reports>>
    BY <1>16 DEF ServiceCustody
  <2>3. StoreChange
    <3> HIDE DEF S
    <3> QED
      BY <1>t, <2>1, <2>2, Stores
  <2> QED
    BY <1>t, <2>2, <2>3, NobodyMoves, Together
<1>17. ASSUME ServiceSealed PROVE IInv'
  <2> DEFINE S == {New("assets", "unknown", "sealed", now)}
  <2>1. S \subseteq Object /\ \A o \in S : o.version = puts + 1
    <3>1. New("assets", "unknown", "sealed", now) \in Object
      BY <1>t, NewTypes DEF Bytes, TypeOK, Role
    <3>2. New("assets", "unknown", "sealed", now).version = puts + 1
      BY DEF New
    <3> QED
      BY <3>1, <3>2
  <2>2. stored' = stored \union S /\ puts' = puts + 1 /\ UNCHANGED <<now, local, reports>>
    BY <1>17 DEF ServiceSealed
  <2>3. StoreChange
    <3> HIDE DEF S
    <3> QED
      BY <1>t, <2>1, <2>2, Stores
  <2> QED
    BY <1>t, <2>2, <2>3, NobodyMoves, Together
<1>18. ASSUME NEW x \in Scripts, StartSmoke(x) \/ StartRecovery(x) PROVE IInv'
  BY <1>18, <1>1 DEF StartSmoke, StartRecovery
<1> QED
  BY <1>2, <1>3, <1>4, <1>5, <1>6, <1>7, <1>8, <1>9, <1>10, <1>11, <1>12, <1>13, <1>14, <1>15,
     <1>16, <1>17, <1>18 DEF Next, Smoke, Recovery, Finish, Scripts

LEMMA InvStutter == IInv /\ UNCHANGED vars => IInv'
BY DEF IInv, TypeOK, ReportInv, ScriptInv, Fresh, Locked, Gone, vars, local, counters

\* What a report says stays true, whatever scripts and retentions do afterwards.
THEOREM ReportsAreTrue == Spec => []ReportIsTrue
<1>1. Init => IInv
  BY DEF Init, IInv, TypeOK, Location, Bytes, ReportInv, ScriptInv
<1>2. IInv /\ TypeOK' /\ [Next]_vars => IInv'
  BY InvStutter, InvStep
<1>3. IInv => ReportIsTrue
  BY DEF IInv, ReportInv, ReportIsTrue, Locked, Gone, TypeOK, Object, Role
<1> QED
  BY <1>1, <1>2, <1>3, CustodyRecoveryTypes, PTL DEF Spec

-------------------------------------------------------------------------------
(***************************************************************************)
(* The cleanup keeps a twin.  A smoke stores in the vault what it copied   *)
(* before it proves the denial, a recovery accepts paired and retained     *)
(* objects only; from then on the twin of every copy in hand is stored,    *)
(* with a retention that goes past the start of the script, and a script   *)
(* that is alone removes a version of the vault only where it ends.        *)
(***************************************************************************)
IsTwin(t, o, time) ==
    t.role = "vault" /\ t.kind = o.kind /\ t.bytes = o.bytes /\ t.until > time

\* A smoke holds copies of its fixture, and has stored the source in the vault before the manifest.
Stocked(x) ==
    /\ \A o \in hand[x] : o.role = "assets" => o.kind \in Kind /\ o.bytes = BytesAt(x, o)
    /\ slot[x] = 4 => \E t \in stored : t.role = "vault" /\ t.kind = "source"
                                        /\ t.bytes = "fixture" /\ t.until > started[x]

Matched(x) == \A o \in hand[x] : o.role = "assets" => \E t \in hand[x] : IsTwin(t, o, started[x])

Locks(x) ==
    \A o \in hand[x] : o.role = "assets" => \E t \in stored : IsTwin(t, o, started[x])

Cleaning == {"download", "retained", "challenge", "delete_source", "delete_manifest"}

Twinned(x) ==
    /\ pc[x] = "store" => Stocked(x)
    /\ pc[x] = "versions" => Matched(x)
    /\ pc[x] \in Cleaning => Locks(x)

OneScript == \A x, y \in Scripts : pc[x] # "idle" /\ pc[y] # "idle" => x = y

TwinInv == overlaps = 0 => OneScript /\ \A x \in Scripts : Twinned(x)

\* Scripts that overlapped have overlapped for good; the one that is alone is the one that
\* moves.
LEMMA OverlapsStay ==
    ASSUME TypeOK, [Next]_vars, overlaps' = 0
    PROVE  overlaps = 0
BY DEF TypeOK, Next, StartSmoke, Begin, CustodyFails, Smoke, Reuse, Put, Rollback, Finish, Download,
   CheckRetained, Challenge, DeleteSource, DeleteManifest, VerifyAbsent, Report, Recovery,
   StartRecovery, InspectAssets, InspectVault, FindVersions, Crash, Tick, ServiceCustody,
   ServiceSealed, vars, counters

LEMMA MoverIsAlone ==
    ASSUME TypeOK, NEW x \in Scripts, NEW l, pc' = [pc EXCEPT ![x] = l],
           \A y \in Scripts : y # x => pc[y] = "idle",
           l = "store" => Stocked(x)',
           l = "versions" => Matched(x)',
           l \in Cleaning => Locks(x)'
    PROVE  OneScript' /\ \A y \in Scripts : Twinned(y)'
<1>1. pc'[x] = l /\ \A y \in Scripts : y # x => pc'[y] = "idle"
  BY DEF TypeOK
<1>2. OneScript'
  BY <1>1 DEF OneScript
<1>3. ASSUME NEW y \in Scripts, y # x
      PROVE  Twinned(y)'
  BY <1>1, <1>3 DEF Twinned, Cleaning
<1>4. Twinned(x)'
  BY <1>1 DEF Twinned
<1> QED
  BY <1>2, <1>3, <1>4

LEMMA OverTwin ==
    ASSUME TypeOK, NEW x \in Scripts, Over(x), \A y \in Scripts : y # x => pc[y] = "idle"
    PROVE  OneScript' /\ \A y \in Scripts : Twinned(y)'
<1>1. pc' = [pc EXCEPT ![x] = "idle"]
  BY DEF Over
<1> QED
  BY <1>1, MoverIsAlone DEF Cleaning

\* Steps after the versions were found: the twins in the vault stay.
LEMMA LocksStay ==
    ASSUME TypeOK, NEW x \in Scripts, Locks(x), hand' = hand, started' = started,
           \A o \in stored : o.role = "vault" => o \in stored'
    PROVE  Locks(x)'
<1>1. ASSUME NEW o \in hand'[x], o.role = "assets"
      PROVE  \E t \in stored' : IsTwin(t, o, started[x])
  <2>1. PICK t \in stored : IsTwin(t, o, started[x])
    BY <1>1 DEF Locks
  <2>2. t \in stored'
    BY <2>1 DEF IsTwin
  <2> QED
    BY <2>1, <2>2
<1> QED
  BY <1>1 DEF Locks, IsTwin

LEMMA GotoTwin ==
    ASSUME TypeOK, NEW x \in Scripts, NEW l \in Location, Goto(x, l), l \notin {"store", "versions"},
           \A y \in Scripts : y # x => pc[y] = "idle",
           l \in Cleaning => Locks(x),
           \A o \in stored : o.role = "vault" => o \in stored'
    PROVE  OneScript' /\ \A y \in Scripts : Twinned(y)'
<1>1. pc' = [pc EXCEPT ![x] = l] /\ hand' = hand /\ started' = started
  BY DEF Goto
<1>2. l \in Cleaning => Locks(x)'
  BY <1>1, LocksStay
<1> QED
  BY <1>1, <1>2, MoverIsAlone

\* A smoke takes the object of its slot in hand: a copy of its fixture, or the lock of one.
LEMMA HoldTwin ==
    ASSUME TypeOK, NEW x \in Scripts, Stocked(x), NEW o \in Object, Hold(x, o),
           o.role = Slots[slot[x]].role, o.kind = Slots[slot[x]].kind,
           o.bytes = BytesAt(x, Slots[slot[x]]), o \in stored',
           o.role = "vault" => o.until > started[x],
           stored \subseteq stored', \A y \in Scripts : y # x => pc[y] = "idle"
    PROVE  OneScript' /\ \A y \in Scripts : Twinned(y)'
<1>1. /\ hand'[x] = hand[x] \union {o} /\ UNCHANGED <<manifest, started>>
      /\ slot'[x] = IF slot[x] = 4 THEN 4 ELSE slot[x] + 1
      /\ pc' = [pc EXCEPT ![x] = IF slot[x] = 4 THEN "download" ELSE "store"]
  BY DEF Hold, TypeOK
<1>2. slot[x] \in 1..4
  BY DEF TypeOK
<1>3. \A p : BytesAt(x, p) = IF p.kind = "source" THEN "fixture" ELSE manifest[x]
  BY DEF BytesAt
<1>4. \A p \in hand'[x] : p.role = "assets" =>
         p.kind \in Kind /\ p.bytes = IF p.kind = "source" THEN "fixture" ELSE manifest[x]
  <2>1. o.kind \in Kind
    BY SlotTypes
  <2> QED
    BY <1>1, <1>3, <2>1 DEF Stocked
<1>5. CASE slot[x] = 4
  <2>1. /\ o.role = "vault" /\ o.kind = "manifest" /\ o.bytes = manifest[x]
        /\ o.until > started[x]
    BY <1>3, <1>5 DEF Slots
  <2>2. PICK t \in stored : /\ t.role = "vault" /\ t.kind = "source" /\ t.bytes = "fixture"
                            /\ t.until > started[x]
    BY <1>5 DEF Stocked
  <2>3. Locks(x)'
    <3>1. ASSUME NEW p \in hand'[x], p.role = "assets"
          PROVE  \E twin \in stored' : IsTwin(twin, p, started[x])
      <4>1. CASE p.kind = "source"
        BY <1>4, <2>2, <3>1, <4>1 DEF IsTwin
      <4>2. CASE p.kind = "manifest"
        BY <1>4, <2>1, <3>1, <4>2 DEF IsTwin
      <4> QED
        BY <1>4, <3>1, <4>1, <4>2 DEF Kind
    <3> QED
      BY <1>1, <3>1 DEF Locks, IsTwin
  <2>4. pc' = [pc EXCEPT ![x] = "download"]
    BY <1>1, <1>5
  <2> QED
    BY <2>3, <2>4, MoverIsAlone
<1>6. CASE slot[x] # 4
  <2>1. slot'[x] = 4 => slot[x] = 3
    BY <1>1, <1>2, <1>6
  <2>2. slot'[x] = 4 => /\ o.role = "vault" /\ o.kind = "source" /\ o.bytes = "fixture"
                        /\ o.until > started[x]
    BY <1>3, <2>1 DEF Slots
  <2>3. Stocked(x)'
    BY <1>1, <1>4, <2>2 DEF Stocked, BytesAt
  <2>4. pc' = [pc EXCEPT ![x] = "store"]
    BY <1>1, <1>6
  <2> QED
    BY <2>3, <2>4, MoverIsAlone DEF Cleaning
<1> QED
  BY <1>5, <1>6

\* What the recovery accepts is paired, and retained at the time it compares with.
LEMMA AcceptedIsPaired ==
    ASSUME NEW seen, seen \subseteq Object, NEW time \in Nat, Accepts(Observation(seen, time)),
           NEW o \in seen, o.role = "assets"
    PROVE  \E t \in seen : IsTwin(t, o, time)
<1> DEFINE At(role, kind) == {p \in seen : p.role = role /\ p.kind = kind}
           Found1(role, kind) == {Recorded(p, time) : p \in At(role, kind)}
<1>1. o.kind \in Kind
  BY DEF Accepts, Observation, Object
<1>2. \A role \in Role, kind \in Kind :
          Observation(seen, time).found[<<role, kind>>] = Found1(role, kind)
  BY DEF Observation
<1>3. "assets" \in Role /\ "vault" \in Role
  BY DEF Role
<1>4. PICK a \in Found1("assets", o.kind), v \in Found1("vault", o.kind) :
          Found1("assets", o.kind) = {a} /\ a.bytes = v.bytes
  <2>1. Paired(Observation(seen, time), o.kind)
    BY <1>1 DEF Accepts
  <2> HIDE DEF Found1
  <2> QED
    BY <1>1, <1>2, <1>3, <2>1, Zenon DEF Paired
<1>5. Recorded(o, time) = a
  <2>1. Recorded(o, time) \in Found1("assets", o.kind)
    OBVIOUS
  <2> QED
    BY <1>4, <2>1
<1>6. PICK t \in At("vault", o.kind) : v = Recorded(t, time)
  BY <1>4
<1>7. Recorded(o, time).bytes = o.bytes /\ Recorded(t, time).bytes = t.bytes
  BY DEF Recorded
<1>8. t.until > time
  <2>1. Recorded(t, time) \in Found1("vault", o.kind)
    OBVIOUS
  <2>2. Recorded(t, time) \in Observation(seen, time).found[<<"vault", o.kind>>]
    BY <1>1, <1>2, <1>3, <2>1
  <2>3. Recorded(t, time).retention = "COMPLIANCE"
    BY <1>1, <2>2 DEF Accepts, Retained
  <2>4. t \in Object /\ t.role = "vault"
    OBVIOUS
  <2>5. t.until \in Nat
    BY <2>4 DEF Object
  <2> QED
    BY <2>3, <2>4, <2>5 DEF Recorded
<1> QED
  BY <1>4, <1>5, <1>6, <1>7, <1>8 DEF IsTwin

\* The only script that runs takes a step.
LEMMA ScriptTwin ==
    ASSUME IInv, OneScript, \A y \in Scripts : Twinned(y), NEW x \in Scripts,
           CustodyFails(x) \/ Smoke(x) \/ InspectAssets(x) \/ InspectVault(x) \/ FindVersions(x)
           \/ Crash(x)
    PROVE  OneScript' /\ \A y \in Scripts : Twinned(y)'
<1>t. TypeOK /\ Twinned(x)
  BY DEF IInv
<1>l. /\ "store" \in Location /\ "rollback" \in Location /\ "list_assets" \in Location
      /\ "list_vault" \in Location /\ "versions" \in Location /\ "download" \in Location
      /\ "retained" \in Location /\ "challenge" \in Location /\ "delete_source" \in Location
      /\ "delete_manifest" \in Location /\ "absent" \in Location /\ "report" \in Location
  BY DEF Location
<1>0. \A y \in Scripts : y # x => pc[y] = "idle"
  BY DEF OneScript, CustodyFails, Smoke, Reuse, Put, Rollback, Finish, Download, CheckRetained,
     Challenge, DeleteSource, DeleteManifest, VerifyAbsent, Report, InspectAssets, InspectVault,
     FindVersions, Crash
<1>1. CASE CustodyFails(x)
  BY <1>0, <1>1, <1>l, <1>t, GotoTwin DEF CustodyFails, Cleaning
<1>2. CASE Reuse(x)
  <2>1. PICK o \in Found(x) : IF o.role = "assets" \/ o.until >= started[x] + Days
                              THEN Hold(x, o) ELSE Goto(x, "rollback")
    BY <1>2 DEF Reuse
  <2>2. o \in Object /\ o \in stored /\ stored' = stored
    BY <1>2, <1>t DEF Reuse, Found, Current, TypeOK
  <2>3. /\ o.role = Slots[slot[x]].role /\ o.kind = Slots[slot[x]].kind
        /\ o.bytes = BytesAt(x, Slots[slot[x]])
    BY DEF Found
  <2>4. Stocked(x)
    BY <1>2, <1>t DEF Reuse, Twinned
  <2>5. CASE Hold(x, o) /\ (o.role = "assets" \/ o.until >= started[x] + Days)
    <3>1. o.until \in Nat /\ started[x] \in Nat /\ Days > 0 /\ Days \in Nat
      BY <1>t, <2>2, CustodyRecoveryAssumption DEF Object, TypeOK
    <3>2. o.role = "vault" => o.until > started[x]
      BY <2>5, <3>1
    <3> QED
      BY <1>0, <1>t, <2>2, <2>3, <2>4, <2>5, <3>2, HoldTwin
  <2>6. CASE Goto(x, "rollback")
    BY <1>0, <1>l, <1>t, <2>2, <2>6, GotoTwin DEF Cleaning
  <2> QED
    BY <2>1, <2>5, <2>6
<1>3. CASE Put(x)
  <2>1. PICK o : o = NewObject(x)
    OBVIOUS
  <2>2. stored' = stored \union {o} /\ (Hold(x, o) \/ Goto(x, "rollback"))
    BY <1>3, <2>1 DEF Put, NewObject
  <2>3. /\ o.role = Slots[slot[x]].role /\ o.kind = Slots[slot[x]].kind
        /\ o.bytes = BytesAt(x, Slots[slot[x]])
    BY <2>1 DEF NewObject, New
  <2>4. Stocked(x) /\ o \in Object
    BY <1>3, <1>t, <2>1, NewObjectTypes DEF Put, Twinned
  <2>5. CASE Hold(x, o)
    <3>1. started[x] \in Nat /\ Days > 0 /\ Days \in Nat
      BY <1>t, CustodyRecoveryAssumption DEF TypeOK
    <3>2. o.role = "vault" => o.until > started[x]
      BY <2>1, <3>1 DEF NewObject, New
    <3> QED
      BY <1>0, <1>t, <2>2, <2>3, <2>4, <2>5, <3>2, HoldTwin
  <2>6. CASE Goto(x, "rollback")
    BY <1>0, <1>l, <1>t, <2>2, <2>6, GotoTwin DEF Cleaning
  <2> QED
    BY <2>2, <2>5, <2>6
<1>4. CASE Rollback(x) \/ Report(x) \/ Crash(x)
  BY <1>0, <1>4, <1>t, OverTwin DEF Rollback, Report, Crash
<1>5. CASE InspectAssets(x)
  <2>1. pc' = [pc EXCEPT ![x] = "list_vault"]
    BY <1>5 DEF InspectAssets
  <2> QED
    BY <1>0, <1>t, <2>1, MoverIsAlone DEF Cleaning
<1>6. CASE InspectVault(x)
  <2>1. CASE Over(x)
    BY <1>0, <1>t, <2>1, OverTwin
  <2>2. CASE /\ Accepts(Observation(Seen(x), started[x]))
             /\ hand' = [hand EXCEPT ![x] = Seen(x)]
             /\ pc' = [pc EXCEPT ![x] = "versions"]
             /\ UNCHANGED started
    <3>1. hand'[x] = Seen(x) /\ Seen(x) \subseteq Object
      BY <1>t, <2>2 DEF Seen, Current, TypeOK
    <3>2. started[x] \in Nat
      BY <1>t DEF TypeOK
    <3>3. \A o \in Seen(x) :
             o.role = "assets" => \E t \in Seen(x) : IsTwin(t, o, started[x])
      BY <2>2, <3>1, <3>2, AcceptedIsPaired
    <3>4. Matched(x)'
      BY <2>2, <3>1, <3>3 DEF Matched, IsTwin
    <3> QED
      BY <1>0, <1>t, <2>2, <3>4, MoverIsAlone DEF Cleaning
  <2> QED
    BY <1>6, <2>1, <2>2 DEF InspectVault
<1>7. CASE FindVersions(x)
  <2>1. CASE Over(x)
    BY <1>0, <1>t, <2>1, OverTwin
  <2>2. CASE hand[x] \subseteq stored /\ Goto(x, "download")
    <3>1. Locks(x) /\ stored' = stored
      BY <1>7, <1>t, <2>2 DEF FindVersions, Twinned, Matched, Locks
    <3> QED
      BY <1>0, <1>l, <1>t, <2>2, <3>1, GotoTwin
  <2> QED
    BY <1>7, <2>1, <2>2 DEF FindVersions
<1>8. CASE Download(x) \/ CheckRetained(x) \/ VerifyAbsent(x)
  <2>1. CASE Over(x)
    BY <1>0, <1>t, <2>1, OverTwin
  <2>2. CASE /\ pc[x] \in {"download", "retained"} /\ UNCHANGED stored
             /\ \E l \in {"retained", "challenge"} : Goto(x, l)
    <3>1. Locks(x)
      BY <1>t, <2>2 DEF Twinned, Cleaning
    <3> QED
      BY <1>0, <1>l, <1>t, <2>2, <3>1, GotoTwin
  <2>3. CASE UNCHANGED stored /\ Goto(x, "report")
    BY <1>0, <1>l, <1>t, <2>3, GotoTwin DEF Cleaning
  <2> QED
    BY <1>8, <2>1, <2>2, <2>3 DEF Download, CheckRetained, VerifyAbsent
<1>9. CASE Challenge(x)
  <2>1. CASE Over(x)
    BY <1>0, <1>t, <2>1, OverTwin
  <2>2. CASE Goto(x, "delete_source") /\ stored' = stored
    <3>1. Locks(x)
      BY <1>9, <1>t DEF Challenge, Twinned, Cleaning
    <3> QED
      BY <1>0, <1>l, <1>t, <2>2, <3>1, GotoTwin
  <2> QED
    BY <1>9, <2>1, <2>2 DEF Challenge
<1>10. CASE DeleteSource(x) \/ DeleteManifest(x)
  <2>1. Locks(x)
    BY <1>10, <1>t DEF DeleteSource, DeleteManifest, Twinned, Cleaning
  <2>2. \A o \in stored : o.role = "vault" => o \in stored'
    BY <1>10 DEF DeleteSource, DeleteManifest, Held
  <2>3. \E l \in {"delete_manifest", "absent", "report"} : Goto(x, l)
    BY <1>10 DEF DeleteSource, DeleteManifest
  <2> QED
    BY <1>0, <1>l, <1>t, <2>1, <2>2, <2>3, GotoTwin
<1> QED
  BY <1>1, <1>2, <1>3, <1>4, <1>5, <1>6, <1>7, <1>8, <1>9, <1>10 DEF Smoke, Finish

\* What happens outside the scripts only adds to the buckets.
LEMMA AwayTwin ==
    ASSUME OneScript, \A y \in Scripts : Twinned(y), UNCHANGED local,
           stored \subseteq stored'
    PROVE  OneScript' /\ \A y \in Scripts : Twinned(y)'
<1>1. OneScript'
  BY DEF OneScript, local
<1>2. ASSUME NEW y \in Scripts
      PROVE  Twinned(y)'
  <2>1. Twinned(y)
    OBVIOUS
  <2> QED
    BY <2>1 DEF Twinned, Stocked, Matched, Locks, IsTwin, BytesAt, local
<1> QED
  BY <1>1, <1>2

LEMMA TwinStep ==
    ASSUME IInv, TwinInv, [Next]_vars
    PROVE  TwinInv'
<1>t. TypeOK
  BY DEF IInv
<1> SUFFICES ASSUME overlaps' = 0
             PROVE  OneScript' /\ \A y \in Scripts : Twinned(y)'
  BY DEF TwinInv
<1>0. OneScript /\ \A y \in Scripts : Twinned(y)
  BY <1>t, OverlapsStay DEF TwinInv
<1>1. ASSUME NEW x \in Scripts, StartSmoke(x) \/ StartRecovery(x)
      PROVE  OneScript' /\ \A y \in Scripts : Twinned(y)'
  <2>1. \A y \in Scripts : pc[y] = "idle"
    BY <1>1, <1>t, <1>0, OverlapsStay DEF StartSmoke, StartRecovery, Begin, TypeOK
  <2>2. hand'[x] = {}
    BY <1>1, <2>1 DEF StartSmoke, StartRecovery, Begin, IInv, ScriptInv
  <2>3. CASE StartSmoke(x)
    <3>1. Stocked(x)'
      BY <1>t, <2>2, <2>3 DEF StartSmoke, Stocked, TypeOK
    <3> QED
      BY <1>t, <2>1, <2>3, <3>1, MoverIsAlone DEF StartSmoke, Cleaning
  <2>4. CASE StartRecovery(x)
    BY <1>t, <2>1, <2>4, MoverIsAlone DEF StartRecovery, Cleaning
  <2> QED
    BY <1>1, <2>3, <2>4
<1>2. CASE Tick \/ ServiceCustody \/ ServiceSealed
  BY <1>0, <1>2, AwayTwin DEF Tick, ServiceCustody, ServiceSealed
<1>3. CASE UNCHANGED vars
  BY <1>0, <1>3, AwayTwin DEF vars
<1> QED
  BY <1>0, <1>1, <1>2, <1>3, ScriptTwin DEF Next, Smoke, Recovery, Scripts

\* While a script removes a copy it holds, the versions of the vault stay.
LEMMA CleanupIsNarrow ==
    ASSUME TypeOK, OneScript, Next, NEW x \in Scripts,
           pc[x] \in {"delete_source", "delete_manifest"},
           NEW t \in stored, t.role = "vault"
    PROVE  t \in stored'
<1>1. ASSUME NEW y \in Scripts, Rollback(y) \/ Challenge(y)
      PROVE  FALSE
  BY <1>1 DEF OneScript, Rollback, Challenge
<1>2. ASSUME NEW y \in Scripts, DeleteSource(y) \/ DeleteManifest(y)
      PROVE  t \in stored'
  BY <1>2 DEF DeleteSource, DeleteManifest, Held
<1> QED
  BY <1>1, <1>2 DEF Next, StartSmoke, Begin, CustodyFails, Smoke, Reuse, Put, Finish, Download,
     CheckRetained, VerifyAbsent, Report, Recovery, StartRecovery, InspectAssets, InspectVault,
     FindVersions, Crash, Tick, ServiceCustody, ServiceSealed, Scripts

\* A copy is deleted from the assets bucket, by a smoke or by a recovery, and whoever stored
\* it, only if the same bytes are stored in the vault under a retention that went past the
\* start of that script, as long as scripts do not overlap.
THEOREM CleanupKeepsTheTwin == Spec => CleanupKeepsTwin
<1>1. Init => IInv /\ TwinInv
  <2>1. Init => IInv
    BY DEF Init, IInv, TypeOK, Location, Bytes, ReportInv, ScriptInv
  <2>2. Init => TwinInv
    BY DEF Init, TwinInv, OneScript, Twinned, Cleaning
  <2> QED
    BY <2>1, <2>2
<1>2. IInv /\ TypeOK' /\ [Next]_vars => IInv'
  BY InvStutter, InvStep
<1>3. ASSUME IInv, TwinInv, [Next]_vars, NEW x \in Scripts,
             NEW o \in hand[x] \intersect (stored \ stored'),
             pc[x] \in {"delete_source", "delete_manifest"}, o.role = "assets", overlaps = 0
      PROVE  \E twin \in stored' : /\ twin.role = "vault"
                                   /\ twin.kind = o.kind /\ twin.bytes = o.bytes
                                   /\ twin.until > started[x]
  <2>1. PICK t \in stored : IsTwin(t, o, started[x])
    BY <1>3 DEF TwinInv, Twinned, Cleaning, Locks
  <2>2. Next
    BY <1>3 DEF vars
  <2>3. t \in stored'
    BY <1>3, <2>1, <2>2, CleanupIsNarrow DEF IInv, TwinInv, IsTwin
  <2> QED
    BY <2>1, <2>3 DEF IsTwin
<1>4. IInv /\ TwinInv /\ [Next]_vars =>
        [\A x \in Scripts : \A o \in hand[x] \intersect (stored \ stored') :
          /\ pc[x] \in {"delete_source", "delete_manifest"}
          /\ pc'[x] # pc[x]
          /\ o.role = "assets"
          /\ overlaps = 0
          => \E twin \in stored' : /\ twin.role = "vault"
                                   /\ twin.kind = o.kind /\ twin.bytes = o.bytes
                                   /\ twin.until > started[x]]_vars
  BY <1>3
<1> QED
  BY <1>1, <1>2, <1>4, TwinStep, CustodyRecoveryTypes, PTL DEF Spec, CleanupKeepsTwin

-------------------------------------------------------------------------------
(***************************************************************************)
(* The two decisions over an observation agree: the inspector's, which     *)
(* reports the first condition that applies, and the recovery's, which     *)
(* asks for what it needs.                                                 *)
(***************************************************************************)
LEMMA FirstCode ==
    ASSUME NEW S, S \subseteq Code, S # {}
    PROVE  Min(S) \in S
<1>1. \E m \in S : \A n \in S : m =< n
  <2>1. \A n \in S : n \in {10, 20, 30, 40, 41, 50, 51, 52, 53, 60}
    BY DEF Code
  <2>2. CASE 10 \in S
    BY <2>1, <2>2
  <2>3. CASE 10 \notin S /\ 20 \in S
    BY <2>1, <2>3
  <2>4. CASE 10 \notin S /\ 20 \notin S /\ 30 \in S
    BY <2>1, <2>4
  <2>5. CASE 10 \notin S /\ 20 \notin S /\ 30 \notin S
    <3>1. \A n \in S : n \in {40, 41, 50, 51, 52, 53, 60}
      BY <2>1, <2>5
    <3>2. CASE 40 \in S
      BY <3>1, <3>2
    <3>3. CASE 40 \notin S /\ 41 \in S
      BY <3>1, <3>3
    <3>4. CASE 40 \notin S /\ 41 \notin S /\ 50 \in S
      BY <3>1, <3>4
    <3>5. CASE 40 \notin S /\ 41 \notin S /\ 50 \notin S
      <4>1. \A n \in S : n \in {51, 52, 53, 60}
        BY <3>1, <3>5
      <4>2. PICK n \in S : TRUE
        OBVIOUS
      <4> QED
        BY <4>1, <4>2
    <3> QED
      BY <3>2, <3>3, <3>4, <3>5
  <2> QED
    BY <2>2, <2>3, <2>4, <2>5
<1> QED
  BY <1>1 DEF Min

\* The verdict is that the cleanup is what is missing when no condition applies.
LEMMA VerdictIsZero ==
    ASSUME NEW o
    PROVE  Verdict(o) = 0 <=> \A code \in Code : ~Applies(o, code)
<1> DEFINE codes == {code \in Code : Applies(o, code)}
<1>1. Verdict(o) = IF codes = {} THEN 0 ELSE Min(codes)
  BY DEF Verdict
<1>2. codes # {} => Min(codes) \in codes
  BY FirstCode
<1>3. 0 \notin Code
  BY DEF Code
<1> QED
  BY <1>1, <1>2, <1>3

\* What each code stands for.
LEMMA Conditions ==
    ASSUME NEW o
    PROVE  /\ Applies(o, 10) <=> "configuration" \in o.failures
           /\ Applies(o, 20) <=> "transport" \in o.failures
           /\ Applies(o, 30) <=> "assets" \in o.failures
           /\ Applies(o, 40) <=> "vault" \in o.failures
           /\ Applies(o, 41) <=> "retention" \in o.failures
           /\ Applies(o, 50) <=> \E role \in Role, kind \in Kind : o.found[<<role, kind>>] = {}
           /\ Applies(o, 51) <=> \/ o.unknown
                                \/ \E role \in Role, kind \in Kind :
                                      \E r \in o.found[<<role, kind>>] : ~r.sound
           /\ Applies(o, 52) <=> \E kind \in Kind : ~Paired(o, kind)
           /\ Applies(o, 53) <=> \/ ~o.lock
                                \/ \E kind \in Kind : \E r \in o.found[<<"vault", kind>>] :
                                      r.retention # "COMPLIANCE"
           /\ Applies(o, 60) <=> o.public
BY DEF Applies

\* Of any observation, of whatever is in the buckets: with versions, dates and keys for the
\* recovery, the inspector's verdict is 0 exactly when the recovery accepts and there is
\* nothing public and a lock configuration for the inspector.
THEOREM VerdictMatchesRecovery ==
    ASSUME NEW o, o.failures \subseteq Failure
    PROVE  Verdict(o) = 0 /\ Evident(o) <=> Accepts(o) /\ Private(o)
<1> DEFINE Exact == \A kind \in Kind, role \in Role : \A r \in o.found[<<role, kind>>] : r.exact
<1>1. Verdict(o) = 0 <=> /\ ~Applies(o, 10) /\ ~Applies(o, 20) /\ ~Applies(o, 30)
                         /\ ~Applies(o, 40) /\ ~Applies(o, 41) /\ ~Applies(o, 50)
                         /\ ~Applies(o, 51) /\ ~Applies(o, 52) /\ ~Applies(o, 53)
                         /\ ~Applies(o, 60)
  BY VerdictIsZero DEF Code
<1>2. o.failures = {} <=> /\ ~Applies(o, 10) /\ ~Applies(o, 20) /\ ~Applies(o, 30)
                          /\ ~Applies(o, 40) /\ ~Applies(o, 41) /\ "key" \notin o.failures
  BY Conditions DEF Failure
<1>3. (\A kind \in Kind : Paired(o, kind)) <=> ~Applies(o, 52)
  BY Conditions
<1>4. (\A kind \in Kind : Paired(o, kind)) => ~Applies(o, 50)
  BY Conditions DEF Paired, Role
<1>5. (~o.unknown /\ \A kind \in Kind, role \in Role : \A r \in o.found[<<role, kind>>] : r.sound)
        <=> ~Applies(o, 51)
  BY Conditions
<1>6. (o.lock /\ \A kind \in Kind : \A r \in o.found[<<"vault", kind>>] : Retained(r))
        <=> ~Applies(o, 53)
  <2>1. Applies(o, 53) <=> \/ ~o.lock
                           \/ \E kind \in Kind : \E r \in o.found[<<"vault", kind>>] :
                                 ~Retained(r)
    BY Conditions, Zenon DEF Retained
  <2> QED
    BY <2>1, Zenon
<1>7. Private(o) <=> o.lock /\ ~Applies(o, 60)
  BY Conditions DEF Private
<1>8. Accepts(o) <=>
        /\ o.failures = {} /\ ~o.unknown
        /\ \A kind \in Kind : Paired(o, kind)
        /\ \A kind \in Kind, role \in Role : \A r \in o.found[<<role, kind>>] : r.sound
        /\ Exact
        /\ \A kind \in Kind : \A r \in o.found[<<"vault", kind>>] : Retained(r)
  BY DEF Accepts
<1>9. Evident(o) <=> "key" \notin o.failures /\ Exact
  BY DEF Evident
<1> HIDE DEF Exact
<1> QED
  BY <1>1, <1>2, <1>3, <1>4, <1>5, <1>6, <1>7, <1>8, <1>9, Zenon

\* The inspector sends the operator to the cleanup exactly when the recovery would do it, but
\* for what only one of them looks at: the recovery for versions, dates and entries without a
\* key, the inspector for public objects and the lock configuration.
THEOREM VerdictsAlwaysAgree == Spec => []VerdictsAgree
<1>1. ASSUME NEW o, NEW flaw
      PROVE  WithFlaw(o, flaw).failures \subseteq Failure
  BY DEF WithFlaw
<1>2. VerdictsAgree
  BY <1>1, VerdictMatchesRecovery DEF VerdictsAgree
<1> QED
  BY <1>2, PTL
=============================================================================
