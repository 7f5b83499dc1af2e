---------------------- MODULE ControlPlaneRecoveryProofs ----------------------
(***************************************************************************)
(* What holds of the control plane's checkpoint and its recovery for any   *)
(* numbers of scripts, runs, requests and troubles.                        *)
(***************************************************************************)
EXTENDS ControlPlaneRecovery, FiniteSetTheorems, TLAPS

-------------------------------------------------------------------------------
(* Types. *)
LEMMA OverTypes ==
    ASSUME TypeOK, NEW x \in Scripts, Over(x)
    PROVE  /\ pc' \in [Scripts -> Location]
           /\ target' \in [Scripts -> Bundle \union {0}]
           /\ status' \in [Scripts -> {"absent", "active", "revoked"}]
           /\ counts' \in [Scripts -> Count]
BY DEF TypeOK, Over, Location, Nothing, Count

LEMMA GotoTypes ==
    ASSUME TypeOK, NEW x \in Scripts, NEW l \in Location, Goto(x, l)
    PROVE  /\ pc' \in [Scripts -> Location]
           /\ target' \in [Scripts -> Bundle \union {0}]
           /\ status' \in [Scripts -> {"absent", "active", "revoked"}]
           /\ counts' \in [Scripts -> Count]
BY DEF TypeOK, Goto

LEMMA OverlapsTypes ==
    ASSUME TypeOK, NEW x \in Scripts, Overlaps(x)
    PROVE  overlaps' \in Nat /\ (overlaps' = 0 => overlaps = 0)
BY DEF TypeOK, Overlaps

LEMMA AnsweredTypes ==
    ASSUME TypeOK, NEW x \in Scripts, NEW l \in Location, Answered(x, l)
    PROVE  /\ pc' \in [Scripts -> Location]
           /\ target' \in [Scripts -> Bundle \union {0}]
           /\ status' \in [Scripts -> {"absent", "active", "revoked"}]
           /\ counts' \in [Scripts -> Count]
           /\ failures' \in Nat
<1>1. failures' \in Nat
  BY DEF TypeOK, Answered, Trouble
<1>2. CASE Goto(x, l)
  BY <1>1, <1>2, GotoTypes
<1>3. CASE Over(x)
  BY <1>1, <1>3, OverTypes
<1> QED
  BY <1>2, <1>3 DEF Answered

\* A script that is at work on a bundle has one.
HasTarget == \A x \in Scripts : pc[x] \notin {"idle", "discover"} => target[x] \in Bundle

LEMMA RevokeTypes ==
    ASSUME TypeOK, NEW b \in Bundle, NEW reason \in {"smoke", "operator"}, RevokeRow(b, reason)
    PROVE  /\ rows' \in [Bundle -> Row]
           /\ revocations' \in Nat
           /\ rows'[b].status = "revoked"
           /\ \A c \in Bundle : c # b => rows'[c] = rows[c]
BY DEF TypeOK, RevokeRow, Row

LEMMA RegisterTypes ==
    ASSUME TypeOK, NEW b \in Bundle, RegisterRow(b)
    PROVE  /\ rows' \in [Bundle -> Row]
           /\ rows'[b].status = "active"
           /\ \A c \in Bundle : c # b => rows'[c] = rows[c]
BY DEF TypeOK, RegisterRow, Row

LEMMA AppendTypes ==
    ASSUME TypeOK, NEW b \in Bundle, NEW v \in Nat, NEW d \in Nat, AppendEvents(b, v, d)
    PROVE  /\ events' \in [Bundle -> Count]
           /\ UNCHANGED rows
           /\ events'[b].delivered = events[b].delivered + d
           /\ \A c \in Bundle : c # b => events'[c] = events[c]
BY DEF TypeOK, AppendEvents, Count

LEMMA TypesStep ==
    ASSUME TypeOK, HasTarget, Next
    PROVE  TypeOK'
<1>l. /\ "register" \in Location /\ "again" \in Location /\ "verify" \in Location
      /\ "record" \in Location /\ "discover" \in Location /\ "validate" \in Location
      /\ "project" \in Location /\ "read" \in Location /\ "revoke" \in Location
      /\ "confirm" \in Location /\ "report" \in Location /\ "idle" \in Location
      /\ "conflict" \in Location
  BY DEF Location
<1>n. MaxSmokes \in Nat
  BY ControlPlaneAssumption
<1>1. ASSUME NEW x \in Smokes, StartSmoke(x) PROVE TypeOK'
  <2>1. x \in Scripts
    BY DEF Scripts
  <2>2. smokes + 1 \in Bundle
    BY <1>1, <1>n DEF StartSmoke, TypeOK, Bundle
  <2>3. smokes' \in 0..MaxSmokes
    BY <1>1, <1>n DEF StartSmoke, TypeOK
  <2>4. overlaps' \in Nat
    BY <1>1, <2>1, OverlapsTypes DEF StartSmoke
  <2> QED
    BY <1>1, <1>l, <2>1, <2>2, <2>3, <2>4 DEF StartSmoke, TypeOK, registry
<1>2. ASSUME NEW x \in Scripts, StartRecovery(x) PROVE TypeOK'
  <2>1. overlaps' \in Nat
    BY <1>2, OverlapsTypes DEF StartRecovery
  <2> QED
    BY <1>2, <1>l, <2>1 DEF StartRecovery, TypeOK, registry
<1>3. ASSUME NEW x \in Scripts, Register(x) PROVE TypeOK'
  <2>1. rows' \in [Bundle -> Row] /\ UNCHANGED <<events, revocations>>
    BY <1>3, RegisterTypes DEF Register, TypeOK, RegisterRow, HasTarget
  <2>2. CASE Answered(x, "again")
    BY <1>3, <1>l, <2>1, <2>2, AnsweredTypes DEF Register, TypeOK
  <2>3. CASE Over(x) /\ UNCHANGED failures
    BY <1>3, <2>1, <2>3, OverTypes DEF Register, TypeOK
  <2> QED
    BY <1>3, <2>2, <2>3 DEF Register
<1>4. ASSUME NEW x \in Scripts, RegisterAgain(x) PROVE TypeOK'
  <2>1. CASE Over(x)
    BY <1>4, <2>1, OverTypes DEF RegisterAgain, Looks, TypeOK, registry, counters
  <2>2. CASE Goto(x, "conflict")
    BY <1>4, <1>l, <2>2, GotoTypes DEF RegisterAgain, Looks, TypeOK, registry, counters
  <2> QED
    BY <1>4, <2>1, <2>2 DEF RegisterAgain
<1>c. ASSUME NEW x \in Scripts, RegisterConflict(x) PROVE TypeOK'
  <2>1. passed' \subseteq Bundle
    BY <1>c DEF RegisterConflict, TypeOK, HasTarget
  <2>2. failures' \in Nat
    BY <1>c DEF RegisterConflict, Trouble, TypeOK
  <2> QED
    BY <1>c, <1>l, <2>1, <2>2 DEF RegisterConflict, TypeOK, registry
<1>5. ASSUME NEW x \in Scripts, Verify(x) PROVE TypeOK'
  <2>1. events' \in [Bundle -> Count] /\ UNCHANGED <<rows, revocations>>
    BY <1>5, AppendTypes DEF Verify, AppendEvents, HasTarget
  <2>2. CASE Answered(x, "record")
    BY <1>5, <1>l, <2>1, <2>2, AnsweredTypes DEF Verify, TypeOK
  <2>3. CASE Over(x) /\ UNCHANGED failures
    BY <1>5, <2>1, <2>3, OverTypes DEF Verify, TypeOK
  <2> QED
    BY <1>5, <2>2, <2>3 DEF Verify
<1>6. ASSUME NEW x \in Scripts, Record(x) PROVE TypeOK'
  <2>1. events' \in [Bundle -> Count] /\ UNCHANGED <<rows, revocations>>
    BY <1>6, AppendTypes DEF Record, AppendEvents, HasTarget
  <2> QED
    BY <1>6, <1>l, <2>1, AnsweredTypes DEF Record, TypeOK
<1>7. ASSUME NEW x \in Scripts, Discover(x) PROVE TypeOK'
  <2>1. CASE Over(x)
    BY <1>7, <2>1, OverTypes DEF Discover, Looks, TypeOK, registry, counters
  <2>2. CASE \E b \in Candidates :
              /\ target' = [target EXCEPT ![x] = b]
              /\ status' = [status EXCEPT ![x] = rows[b].status]
              /\ pc' = [pc EXCEPT ![x] = "validate"]
              /\ UNCHANGED counts
    BY <1>7, <1>l, <2>2 DEF Discover, Candidates, Looks, TypeOK, Row, registry, counters
  <2> QED
    BY <1>7, <2>1, <2>2 DEF Discover
<1>8. ASSUME NEW x \in Scripts, Validate(x) PROVE TypeOK'
  <2>1. CASE Over(x)
    BY <1>8, <2>1, OverTypes DEF Validate, Looks, TypeOK, registry, counters
  <2>2. CASE /\ pc' = [pc EXCEPT ![x] = "project"]
             /\ counts' = [counts EXCEPT ![x] = events[target[x]]]
             /\ UNCHANGED <<target, status>>
    BY <1>8, <1>l, <2>2 DEF Validate, HasTarget, Looks, TypeOK, registry, counters
  <2> QED
    BY <1>8, <2>1, <2>2 DEF Validate
<1>9. ASSUME NEW x \in Scripts, Project(x) \/ ReadRevocation(x) \/ Confirm(x) PROVE TypeOK'
  <2>1. Looks
    BY <1>9 DEF Project, ReadRevocation, Confirm, Shown
  <2>2. CASE Over(x)
    BY <2>1, <2>2, OverTypes DEF Looks, TypeOK, registry, counters
  <2>3. CASE \E l \in Location : Goto(x, l)
    BY <2>1, <2>3, GotoTypes DEF Looks, TypeOK, registry, counters
  <2> QED
    BY <1>9, <1>l, <2>2, <2>3 DEF Project, ReadRevocation, Confirm, Shown
<1>10. ASSUME NEW x \in Scripts, Revoke(x) PROVE TypeOK'
  <2>1. rows' \in [Bundle -> Row] /\ revocations' \in Nat
    BY <1>10, RevokeTypes DEF Revoke, HasTarget
  <2> QED
    BY <1>10, <1>l, <2>1, AnsweredTypes DEF Revoke, RevokeRow, TypeOK
<1>11. ASSUME NEW x \in Scripts, Report(x) PROVE TypeOK'
  <2>1. reports' \subseteq [by : Scripts, bundle : Bundle]
    BY <1>11 DEF Report, TypeOK, HasTarget
  <2> QED
    BY <1>11, <2>1, OverTypes DEF Report, TypeOK, registry, counters
<1>12. ASSUME NEW x \in Scripts, Crash(x) PROVE TypeOK'
  BY <1>12, OverTypes DEF Crash, Trouble, TypeOK, registry
<1>a. ASSUME NEW x \in Scripts, Abandon(x) PROVE TypeOK'
  <2>1. [what |-> pc[x], bundle |-> target[x], nr |-> failures + 1] \in Request
    BY <1>a DEF Abandon, Request, Write, TypeOK, HasTarget
  <2>2. late' \subseteq Request /\ failures' \in Nat
    BY <1>a, <2>1 DEF Abandon, Trouble, TypeOK
  <2> QED
    BY <1>a, <2>2, OverTypes DEF Abandon, TypeOK
<1>b. ASSUME NEW r \in late, Land(r) PROVE TypeOK'
  <2>1. r.bundle \in Bundle /\ late' \subseteq Request
    BY <1>b DEF TypeOK, Request, Land
  <2>2. overlaps' \in Nat
    BY <1>b DEF Land, TypeOK
  <2>3. CASE RegisterRow(r.bundle)
    BY <1>b, <2>1, <2>2, <2>3, RegisterTypes DEF Land, RegisterRow, TypeOK, local
  <2>4. CASE \E v, d \in {0, 1} : AppendEvents(r.bundle, v, d)
    <3>1. PICK v, d \in {0, 1} : AppendEvents(r.bundle, v, d)
      BY <2>4
    <3>2. events' \in [Bundle -> Count] /\ UNCHANGED <<rows, revocations>>
      BY <2>1, <3>1, AppendTypes DEF AppendEvents
    <3> QED
      BY <1>b, <2>1, <2>2, <3>2 DEF Land, TypeOK, local
  <2>5. CASE RevokeRow(r.bundle, "smoke")
    BY <1>b, <2>1, <2>2, <2>5, RevokeTypes DEF Land, RevokeRow, TypeOK, local
  <2> QED
    BY <1>b, <2>3, <2>4, <2>5 DEF Land
<1>13. ASSUME NEW b \in Bundle, Ask(b) PROVE TypeOK'
  <2>1. events' \in [Bundle -> Count] /\ UNCHANGED <<rows, revocations>>
    BY <1>13, AppendTypes DEF Ask, AppendEvents
  <2> QED
    BY <1>13, <2>1 DEF Ask, TypeOK, local
<1>14. ASSUME NEW b \in Bundle, OperatorRevokes(b) PROVE TypeOK'
  <2>1. rows' \in [Bundle -> Row] /\ revocations' \in Nat
    BY <1>14, RevokeTypes DEF OperatorRevokes
  <2> QED
    BY <1>14, <2>1 DEF OperatorRevokes, RevokeRow, TypeOK, local
<1> QED
  BY <1>1, <1>2, <1>3, <1>4, <1>c, <1>5, <1>6, <1>7, <1>8, <1>9, <1>10, <1>11, <1>12, <1>a,
     <1>b, <1>13, <1>14
     DEF Next, Smoke, Recovery, Finish, Scripts
-------------------------------------------------------------------------------
(***************************************************************************)
(* The inductive invariant.  A report is earned because the scripts come   *)
(* to it from a delivery event, which only a smoke past its duplicate      *)
(* stages or a client of the API makes; a revocation stands because a      *)
(* script that is about to revoke has seen the certificate active, and, as *)
(* long as nothing happens meanwhile, it still is.                         *)
(***************************************************************************)
Behind(b) == b \in passed \union asked

ScriptInv(x) ==
    /\ pc[x] \notin {"idle", "discover"} => target[x] \in Bundle
    /\ pc[x] \notin {"idle", "discover", "register"} => Mine(x).status # "absent"
    /\ pc[x] \in {"project", "read", "verify", "record", "revoke", "confirm", "report"}
          => Behind(target[x])
    /\ pc[x] = "report" => Mine(x).status = "revoked"
    /\ overlaps = 0 /\ pc[x] \in {"record", "revoke"} => Mine(x).status = "active"

Alone ==
    overlaps = 0 =>
        \A x, y \in Scripts : pc[x] # "idle" /\ pc[y] # "idle" => x = y

OnlyOne ==
    \A b, c \in Bundle : rows[b].status # "absent" /\ rows[c].status # "absent" => b = c

EventsBehind == \A b \in Bundle : events[b].delivered >= 1 => Behind(b)

\* What is true of a write when its script gives it up stays true until it is made.
LateInv ==
    \A r \in late :
        /\ r.what # "register" => rows[r.bundle].status # "absent"
        /\ r.what = "record" => Behind(r.bundle)

IInv ==
    /\ TypeOK
    /\ \A x \in Scripts : ScriptInv(x)
    /\ Alone
    /\ OnlyOne
    /\ EventsBehind
    /\ LateInv
    /\ ReportIsEarned

\* What every step does to the registry.
Stays ==
    /\ \A b \in Bundle : rows[b].status = "revoked" => rows'[b].status = "revoked"
    /\ \A b \in Bundle : rows[b].status # "absent" => rows'[b].status # "absent"
    /\ \A b \in Bundle : Behind(b) => Behind(b)'

\* A script keeps its invariant while others act.
LEMMA OthersKeep ==
    ASSUME TypeOK, Stays, NEW y \in Scripts, ScriptInv(y),
           pc'[y] = pc[y], target'[y] = target[y],
           overlaps' = 0 => overlaps = 0 /\ (pc[y] \notin {"record", "revoke"} \/ rows' = rows)
    PROVE  ScriptInv(y)'
<1>1. pc[y] \notin {"idle", "discover"} => target[y] \in Bundle
  BY DEF ScriptInv
<1>2. (pc[y] = "report" => Mine(y).status = "revoked")'
  BY <1>1 DEF ScriptInv, Stays, Mine
<1>3. (overlaps = 0 /\ pc[y] \in {"record", "revoke"} => Mine(y).status = "active")'
  BY DEF ScriptInv, Mine
<1>4. (pc[y] \in {"project", "read", "verify", "record", "revoke", "confirm", "report"}
          => Behind(target[y]))'
  BY <1>1 DEF ScriptInv, Stays
<1>5. (pc[y] \notin {"idle", "discover", "register"} => Mine(y).status # "absent")'
  BY <1>1 DEF ScriptInv, Stays, Mine
<1> QED
  BY <1>1, <1>2, <1>3, <1>4, <1>5 DEF ScriptInv

\* A step of one script that was running, and what it has to show of itself.
LEMMA StepKeeps ==
    ASSUME IInv, Stays, NEW x \in Scripts, pc[x] # "idle", UNCHANGED overlaps,
           \A y \in Scripts : y # x => pc'[y] = pc[y] /\ target'[y] = target[y],
           ScriptInv(x)'
    PROVE  (\A y \in Scripts : ScriptInv(y))' /\ Alone'
<1>1. ASSUME NEW y \in Scripts, y # x PROVE ScriptInv(y)'
  <2>1. overlaps' = 0 => overlaps = 0 /\ pc[y] = "idle"
    BY <1>1 DEF IInv, Alone
  <2> QED
    BY <1>1, <2>1, OthersKeep DEF IInv
<1>2. Alone'
  BY DEF IInv, Alone
<1> QED
  BY <1>1, <1>2

\* A script that is over has nothing left to keep.
LEMMA OverKeeps ==
    ASSUME IInv, Stays, NEW x \in Scripts, pc[x] # "idle", UNCHANGED overlaps, Over(x)
    PROVE  (\A y \in Scripts : ScriptInv(y))' /\ Alone'
<1>1. \A y \in Scripts : y # x => pc'[y] = pc[y] /\ target'[y] = target[y]
  BY DEF IInv, TypeOK, Over
<1>2. pc'[x] = "idle"
  BY DEF IInv, TypeOK, Over
<1>3. ScriptInv(x)'
  BY <1>2 DEF ScriptInv
<1> QED
  BY <1>1, <1>3, StepKeeps

\* One that goes on with its bundle keeps it, if it shows what its new location asks.
LEMMA GotoKeeps ==
    ASSUME IInv, Stays, NEW x \in Scripts,
           pc[x] \notin {"idle", "discover", "register"}, UNCHANGED overlaps, NEW l \in Location, Goto(x, l),
           Behind(target[x])',
           l = "report" => rows'[target[x]].status = "revoked",
           overlaps = 0 /\ l \in {"record", "revoke"} => rows'[target[x]].status = "active"
    PROVE  (\A y \in Scripts : ScriptInv(y))' /\ Alone'
<1>1. \A y \in Scripts : y # x => pc'[y] = pc[y] /\ target'[y] = target[y]
  BY DEF IInv, TypeOK, Goto
<1>2. pc'[x] = l /\ target' = target /\ target[x] \in Bundle
  BY DEF IInv, TypeOK, Goto, ScriptInv
<1>3. Mine(x)'.status # "absent"
  BY <1>2 DEF IInv, ScriptInv, Stays, Mine
<1>4. ScriptInv(x)'
  BY <1>2, <1>3 DEF ScriptInv, Mine
<1> QED
  BY <1>1, <1>4, StepKeeps

\* The steps that change no status and lose nobody's account of a bundle.
LEMMA Calm ==
    ASSUME IInv, UNCHANGED rows, passed \subseteq passed', asked \subseteq asked'
    PROVE  Stays
BY DEF Stays, Behind

LEMMA LooksCalm ==
    ASSUME IInv, Looks
    PROVE  /\ Stays
           /\ UNCHANGED <<rows, events, late, passed, asked, reports, overlaps>>
           /\ OnlyOne' /\ EventsBehind' /\ LateInv' /\ ReportIsEarned'
<1>1. UNCHANGED <<rows, events, late, passed, asked, reports, overlaps>>
  BY DEF Looks, registry, counters
<1> QED
  BY <1>1 DEF IInv, Stays, OnlyOne, EventsBehind, LateInv, ReportIsEarned, Behind

\* What was given up stays as it was, and reports stay earned, when only statuses move on.
LEMMA LateKeeps ==
    ASSUME IInv, Stays, late' \subseteq late
    PROVE  LateInv'
<1>1. \A r \in late : r.bundle \in Bundle
  BY DEF IInv, TypeOK, Request
<1> QED
  BY <1>1 DEF IInv, Stays, LateInv

LEMMA ReportsKeep ==
    ASSUME IInv, Stays, UNCHANGED reports, late' \subseteq late
    PROVE  ReportIsEarned' /\ LateInv'
<1>1. ReportIsEarned'
  BY DEF IInv, Stays, ReportIsEarned, Behind, TypeOK
<1> QED
  BY <1>1, LateKeeps

LEMMA InvStep ==
    ASSUME IInv, TypeOK', Next
    PROVE  IInv'
<1>l. /\ "register" \in Location /\ "again" \in Location /\ "verify" \in Location
      /\ "record" \in Location /\ "discover" \in Location /\ "validate" \in Location
      /\ "project" \in Location /\ "read" \in Location /\ "revoke" \in Location
      /\ "confirm" \in Location /\ "report" \in Location /\ "idle" \in Location
      /\ "conflict" \in Location
  BY DEF Location
<1>t. TypeOK /\ OnlyOne /\ EventsBehind /\ ReportIsEarned /\ Alone
      /\ \A x \in Scripts : ScriptInv(x)
  BY DEF IInv
<1>1. ASSUME NEW x \in Scripts, pc[x] = "idle", Overlaps(x),
             UNCHANGED <<registry, passed, reports, asked>>,
             \A y \in Scripts : y # x => pc'[y] = pc[y] /\ target'[y] = target[y],
             ScriptInv(x)'
      PROVE  IInv'
  <2>1. UNCHANGED <<rows, events, late>>
    BY <1>1 DEF registry
  <2>2. Stays
    BY <1>1, <2>1, Calm
  <2>3. overlaps' = 0 => overlaps = 0 /\ \A y \in Scripts \ {x} : pc[y] = "idle"
    BY <1>1, <1>t DEF Overlaps, TypeOK
  <2>4. ASSUME NEW y \in Scripts, y # x PROVE ScriptInv(y)'
    BY <1>1, <1>t, <2>2, <2>3, <2>4, OthersKeep
  <2>5. Alone'
    BY <1>1, <2>3 DEF Alone
  <2>6. OnlyOne' /\ EventsBehind'
    BY <1>1, <1>t, <2>1 DEF OnlyOne, EventsBehind, Behind
  <2> QED
    BY <1>1, <2>1, <2>2, <2>4, <2>5, <2>6, ReportsKeep DEF IInv
<1>2. ASSUME NEW x \in Smokes, StartSmoke(x) PROVE IInv'
  <2>1. x \in Scripts /\ target'[x] = smokes + 1 /\ pc'[x] = "register"
    BY <1>2, <1>t DEF StartSmoke, TypeOK, Scripts
  <2>2. ScriptInv(x)'
    <3>1. smokes + 1 \in Bundle
      BY <1>2, <1>t, ControlPlaneAssumption DEF StartSmoke, TypeOK, Bundle
    <3> QED
      BY <2>1, <3>1 DEF ScriptInv
  <2> QED
    BY <1>1, <1>2, <1>t, <2>1, <2>2 DEF StartSmoke, TypeOK
<1>3. ASSUME NEW x \in Scripts, StartRecovery(x) PROVE IInv'
  <2>1. ScriptInv(x)'
    BY <1>3, <1>t DEF StartRecovery, TypeOK, ScriptInv
  <2> QED
    BY <1>1, <1>3, <1>t, <2>1 DEF StartRecovery, TypeOK
<1>4. ASSUME NEW x \in Scripts, Register(x) PROVE IInv'
  <2>1. UNCHANGED <<events, late, passed, reports, asked, overlaps>> /\ pc[x] = "register"
    BY <1>4 DEF Register, RegisterRow
  <2>2. target[x] \in Bundle
    BY <1>t, <2>1 DEF ScriptInv
  <2>3. Stays /\ OnlyOne'
    <3>1. CASE UNCHANGED rows
      BY <1>t, <2>1, <3>1 DEF Stays, OnlyOne, Behind
    <3>2. CASE Free /\ RegisterRow(target[x])
      BY <1>t, <2>1, <2>2, <3>2, RegisterTypes DEF Stays, OnlyOne, Behind, Free
    <3> QED
      BY <1>4, <3>1, <3>2 DEF Register
  <2>4. (\A y \in Scripts : ScriptInv(y))' /\ Alone'
    <3>1. CASE Over(x)
      BY <2>1, <2>3, <3>1, OverKeeps
    <3>2. CASE Goto(x, "again") /\ RegisterRow(target[x])
      <4>1. \A y \in Scripts : y # x => pc'[y] = pc[y] /\ target'[y] = target[y]
        BY <1>t, <3>2 DEF TypeOK, Goto
      <4>2. ScriptInv(x)'
        BY <1>t, <2>2, <3>2, RegisterTypes DEF TypeOK, Goto, ScriptInv, Mine
      <4> QED
        BY <2>1, <2>3, <4>1, <4>2, StepKeeps
    <3> QED
      BY <1>4, <3>1, <3>2 DEF Register, Answered
  <2>5. EventsBehind'
    BY <1>t, <2>1 DEF EventsBehind, Behind
  <2> QED
    BY <2>1, <2>3, <2>4, <2>5, ReportsKeep DEF IInv
<1>5. ASSUME NEW x \in Scripts, RegisterAgain(x) PROVE IInv'
  <2>1. pc[x] = "again" /\ Looks
    BY <1>5 DEF RegisterAgain
  <2>2. CASE Over(x)
    BY <2>1, <2>2, OverKeeps, LooksCalm DEF IInv
  <2>3. CASE Goto(x, "conflict")
    <3>1. \A y \in Scripts : y # x => pc'[y] = pc[y] /\ target'[y] = target[y]
      BY <1>t, <2>3 DEF TypeOK, Goto
    <3>2. ScriptInv(x)'
      BY <1>t, <2>1, <2>3, LooksCalm DEF TypeOK, Goto, ScriptInv, Mine
    <3> QED
      BY <2>1, <3>1, <3>2, StepKeeps, LooksCalm DEF IInv
  <2> QED
    BY <1>5, <2>2, <2>3 DEF RegisterAgain
<1>c. ASSUME NEW x \in Scripts, RegisterConflict(x) PROVE IInv'
  <2>1. UNCHANGED <<rows, events, late, reports, asked, overlaps>> /\ pc[x] = "conflict"
        /\ passed' = passed \union {target[x]} /\ pc' = [pc EXCEPT ![x] = "project"]
        /\ UNCHANGED <<target, counts>>
    BY <1>c DEF RegisterConflict, registry
  <2>2. Stays
    BY <2>1, Calm
  <2>3. OnlyOne' /\ EventsBehind'
    BY <1>t, <2>1 DEF OnlyOne, EventsBehind, Behind
  <2>4. \A y \in Scripts : y # x => pc'[y] = pc[y] /\ target'[y] = target[y]
    BY <1>t, <2>1 DEF TypeOK
  <2>5. ScriptInv(x)'
    BY <1>t, <2>1 DEF TypeOK, ScriptInv, Behind, Mine
  <2>6. (\A y \in Scripts : ScriptInv(y))' /\ Alone'
    BY <2>1, <2>2, <2>4, <2>5, StepKeeps
  <2> QED
    BY <2>1, <2>2, <2>3, <2>6, ReportsKeep DEF IInv
<1>6. ASSUME NEW x \in Scripts, Verify(x) PROVE IInv'
  <2>1. UNCHANGED <<rows, late, passed, reports, asked, overlaps>> /\ pc[x] = "verify"
    BY <1>6 DEF Verify, AppendEvents
  <2>2. Stays
    BY <2>1, Calm
  <2>3. OnlyOne'
    BY <1>t, <2>1 DEF OnlyOne
  <2>4. EventsBehind'
    <3>1. AppendEvents(target[x], 1, 0) /\ target[x] \in Bundle
      BY <1>6, <1>t, <2>1 DEF Verify, ScriptInv
    <3>2. \A b \in Bundle : events'[b].delivered = events[b].delivered
      <4>1. \A b \in Bundle : events[b].delivered \in Nat
        BY <1>t DEF TypeOK, Count
      <4>2. events'[target[x]].delivered = events[target[x]].delivered + 0
        BY <1>t, <3>1, AppendTypes
      <4>3. \A b \in Bundle : b # target[x] => events'[b] = events[b]
        BY <1>t, <3>1, AppendTypes
      <4> QED
        BY <3>1, <4>1, <4>2, <4>3
    <3> QED
      BY <1>t, <2>1, <3>2 DEF EventsBehind, Behind
  <2>5. (\A y \in Scripts : ScriptInv(y))' /\ Alone'
    <3>1. CASE Over(x)
      BY <2>1, <2>2, <3>1, OverKeeps
    <3>2. CASE Goto(x, "record") /\ Mine(x).status = "active"
      <4>1. Behind(target[x])'
        BY <1>t, <2>1, <3>2 DEF ScriptInv, Behind, Goto
      <4> QED
        BY <1>l, <2>1, <2>2, <3>2, <4>1, GotoKeeps DEF Mine
    <3> QED
      BY <1>6, <3>1, <3>2 DEF Verify, Answered
  <2> QED
    BY <2>1, <2>2, <2>3, <2>4, <2>5, ReportsKeep DEF IInv
<1>7. ASSUME NEW x \in Scripts, Record(x) PROVE IInv'
  <2>1. UNCHANGED <<rows, late, passed, reports, asked, overlaps>> /\ pc[x] = "record"
    BY <1>7 DEF Record, AppendEvents
  <2>2. Stays
    BY <2>1, Calm
  <2>3. OnlyOne'
    BY <1>t, <2>1 DEF OnlyOne
  <2>b. Behind(target[x]) /\ target[x] \in Bundle
    BY <1>t, <2>1 DEF ScriptInv
  <2>4. EventsBehind'
    <3>1. AppendEvents(target[x], 0, 1)
      BY <1>7 DEF Record
    <3>2. \A b \in Bundle : b # target[x] => events'[b].delivered = events[b].delivered
      BY <1>t, <2>b, <3>1, AppendTypes
    <3> QED
      BY <1>t, <2>1, <2>b, <3>2 DEF EventsBehind, Behind
  <2>5. (\A y \in Scripts : ScriptInv(y))' /\ Alone'
    <3>1. CASE Over(x)
      BY <2>1, <2>2, <3>1, OverKeeps
    <3>2. CASE Goto(x, "revoke")
      <4>1. Behind(target[x])'
        BY <2>1, <2>b, <3>2 DEF Behind, Goto
      <4>2. overlaps = 0 => Mine(x).status = "active"
        BY <1>t, <2>1 DEF ScriptInv
      <4> QED
        BY <1>l, <2>1, <2>2, <3>2, <4>1, <4>2, GotoKeeps DEF Mine
    <3> QED
      BY <1>7, <3>1, <3>2 DEF Record, Answered
  <2> QED
    BY <2>1, <2>2, <2>3, <2>4, <2>5, ReportsKeep DEF IInv
<1>8. ASSUME NEW x \in Scripts, Discover(x) PROVE IInv'
  <2>1. pc[x] = "discover" /\ Looks
    BY <1>8 DEF Discover
  <2>2. CASE Over(x)
    BY <2>1, <2>2, OverKeeps, LooksCalm DEF IInv
  <2>3. CASE \E b \in Candidates :
              /\ target' = [target EXCEPT ![x] = b]
              /\ status' = [status EXCEPT ![x] = rows[b].status]
              /\ pc' = [pc EXCEPT ![x] = "validate"]
              /\ UNCHANGED counts
    <3>1. \A y \in Scripts : y # x => pc'[y] = pc[y] /\ target'[y] = target[y]
      BY <1>t, <2>3 DEF TypeOK
    <3>2. pc'[x] = "validate" /\ target'[x] \in Bundle /\ Mine(x)'.status # "absent"
      BY <1>t, <2>1, <2>3, LooksCalm DEF TypeOK, Candidates, Mine
    <3>3. ScriptInv(x)'
      BY <3>2 DEF ScriptInv
    <3> QED
      BY <2>1, <3>1, <3>3, StepKeeps, LooksCalm DEF IInv
  <2> QED
    BY <1>8, <2>2, <2>3 DEF Discover
<1>9. ASSUME NEW x \in Scripts, Validate(x) PROVE IInv'
  <2>1. pc[x] = "validate" /\ Looks
    BY <1>9 DEF Validate
  <2>2. CASE Over(x)
    BY <2>1, <2>2, OverKeeps, LooksCalm DEF IInv
  <2>3. CASE /\ Events(target[x])
             /\ pc' = [pc EXCEPT ![x] = "project"]
             /\ UNCHANGED <<target, status>>
    <3>1. \A y \in Scripts : y # x => pc'[y] = pc[y] /\ target'[y] = target[y]
      BY <1>t, <2>3 DEF TypeOK
    <3>2. target[x] \in Bundle /\ Behind(target[x])
      BY <1>t, <2>1, <2>3 DEF ScriptInv, EventsBehind, Events
    <3>3. pc'[x] = "project" /\ Behind(target[x])'
      BY <1>t, <2>1, <2>3, <3>2, LooksCalm DEF TypeOK, Behind
    <3>4. ScriptInv(x)'
      BY <1>t, <2>1, <2>3, <3>2, <3>3, LooksCalm DEF ScriptInv, Behind, Mine
    <3> QED
      BY <2>1, <3>1, <3>4, StepKeeps, LooksCalm DEF IInv
  <2> QED
    BY <1>9, <2>2, <2>3 DEF Validate
<1>10. ASSUME NEW x \in Scripts, Project(x) \/ ReadRevocation(x) \/ Confirm(x) PROVE IInv'
  <2>1. pc[x] \in {"project", "read", "confirm"} /\ Looks
    BY <1>10 DEF Project, ReadRevocation, Confirm, Shown
  <2>2. CASE Over(x)
    BY <2>1, <2>2, OverKeeps, LooksCalm DEF IInv
  <2>3. CASE \E l \in {"read", "verify", "revoke", "confirm", "report"} :
               /\ Goto(x, l)
               /\ l = "report" => Mine(x).status = "revoked"
               /\ l = "revoke" => Mine(x).status = "active"
    <3>1. PICK l \in {"read", "verify", "revoke", "confirm", "report"} :
               /\ Goto(x, l)
               /\ l = "report" => Mine(x).status = "revoked"
               /\ l = "revoke" => Mine(x).status = "active"
      BY <2>3
    <3>2. Behind(target[x])
      BY <1>t, <2>1 DEF ScriptInv
    <3>3. Behind(target[x])'
      BY <2>1, <3>1, <3>2, LooksCalm DEF Behind, Goto
    <3>4. (\A y \in Scripts : ScriptInv(y))' /\ Alone'
      BY <1>l, <2>1, <3>1, <3>3, LooksCalm, GotoKeeps DEF Mine
    <3> QED
      BY <2>1, <3>4, LooksCalm DEF IInv
  <2> QED
    BY <1>10, <2>2, <2>3 DEF Project, ReadRevocation, Confirm, Shown
<1>11. ASSUME NEW x \in Scripts, Revoke(x) PROVE IInv'
  <2>1. UNCHANGED <<events, late, passed, reports, asked, overlaps>> /\ pc[x] = "revoke"
        /\ RevokeRow(target[x], "smoke")
    BY <1>11 DEF Revoke, RevokeRow
  <2>2. target[x] \in Bundle /\ Behind(target[x])
    BY <1>t, <2>1 DEF ScriptInv
  <2>3. /\ rows'[target[x]].status = "revoked"
        /\ \A c \in Bundle : c # target[x] => rows'[c] = rows[c]
    BY <1>t, <2>1, <2>2, RevokeTypes
  <2>4. rows[target[x]].status # "absent"
    BY <1>t, <2>1 DEF ScriptInv, Mine
  <2>5. Stays /\ OnlyOne'
    BY <1>t, <2>1, <2>2, <2>3, <2>4 DEF Stays, OnlyOne, Behind
  <2>6. EventsBehind'
    BY <1>t, <2>1 DEF EventsBehind, Behind
  <2>7. (\A y \in Scripts : ScriptInv(y))' /\ Alone'
    <3>1. CASE Over(x)
      BY <2>1, <2>5, <3>1, OverKeeps
    <3>2. CASE Goto(x, "confirm")
      <4>1. Behind(target[x])'
        BY <2>1, <2>2, <3>2 DEF Behind, Goto
      <4> QED
        BY <1>l, <2>1, <2>5, <3>2, <4>1, GotoKeeps
    <3> QED
      BY <1>11, <3>1, <3>2 DEF Revoke, Answered
  <2> QED
    BY <2>1, <2>5, <2>6, <2>7, ReportsKeep DEF IInv
<1>12. ASSUME NEW x \in Scripts, Report(x) PROVE IInv'
  <2>1. UNCHANGED <<rows, events, late, passed, asked, overlaps>> /\ pc[x] = "report" /\ Over(x)
    BY <1>12 DEF Report, registry, counters
  <2>2. Stays
    BY <2>1, Calm
  <2>3. OnlyOne' /\ EventsBehind'
    BY <1>t, <2>1 DEF OnlyOne, EventsBehind, Behind
  <2>4. rows[target[x]].status = "revoked" /\ Behind(target[x])
    BY <1>t, <2>1 DEF ScriptInv, Mine
  <2>5. ReportIsEarned'
    <3>1. reports' = reports \union {[by |-> x, bundle |-> target[x]]}
      BY <1>12 DEF Report
    <3> QED
      BY <1>t, <2>1, <2>4, <3>1 DEF ReportIsEarned, Behind
  <2>6. (\A y \in Scripts : ScriptInv(y))' /\ Alone'
    BY <2>1, <2>2, OverKeeps
  <2> QED
    BY <2>1, <2>2, <2>3, <2>5, <2>6, LateKeeps DEF IInv
<1>13. ASSUME NEW x \in Scripts, Crash(x) PROVE IInv'
  <2>1. /\ UNCHANGED <<rows, events, late, passed, asked, reports, overlaps>>
        /\ pc[x] # "idle" /\ Over(x)
    BY <1>13 DEF Crash, registry
  <2>2. Stays
    BY <2>1, Calm
  <2>3. OnlyOne' /\ EventsBehind'
    BY <1>t, <2>1 DEF OnlyOne, EventsBehind, Behind
  <2>4. (\A y \in Scripts : ScriptInv(y))' /\ Alone'
    BY <2>1, <2>2, OverKeeps
  <2> QED
    BY <2>1, <2>2, <2>3, <2>4, ReportsKeep DEF IInv
<1>a. ASSUME NEW x \in Scripts, Abandon(x) PROVE IInv'
  <2>1. /\ UNCHANGED <<rows, events, passed, asked, reports, overlaps>>
        /\ pc[x] \in Write /\ Over(x)
        /\ late' = late \union {[what |-> pc[x], bundle |-> target[x], nr |-> failures + 1]}
    BY <1>a DEF Abandon
  <2>2. Stays
    BY <2>1, Calm
  <2>3. OnlyOne' /\ EventsBehind'
    BY <1>t, <2>1 DEF OnlyOne, EventsBehind, Behind
  <2>4. (\A y \in Scripts : ScriptInv(y))' /\ Alone'
    BY <2>1, <2>2, OverKeeps DEF Write
  <2>5. /\ pc[x] # "register" => rows[target[x]].status # "absent"
        /\ pc[x] = "record" => Behind(target[x])
    BY <1>t, <2>1 DEF ScriptInv, Mine, Write
  <2>6. LateInv'
    BY <2>1, <2>5 DEF IInv, LateInv, Behind
  <2>7. ReportIsEarned'
    BY <1>t, <2>1 DEF ReportIsEarned
  <2> QED
    BY <2>3, <2>4, <2>6, <2>7 DEF IInv
<1>b. ASSUME NEW r \in late, Land(r) PROVE IInv'
  <2>1. /\ UNCHANGED <<pc, target, passed, asked, reports>> /\ late' \subseteq late
        /\ r.bundle \in Bundle
    BY <1>b, <1>t DEF Land, local, TypeOK, Request
  <2>2. /\ r.what # "register" => rows[r.bundle].status # "absent"
        /\ r.what = "record" => Behind(r.bundle)
    BY DEF IInv, LateInv
  <2>3. ASSUME Stays, OnlyOne', EventsBehind',
               overlaps' = 0 => overlaps = 0 /\ \/ \A y \in Scripts : pc[y] \notin {"record", "revoke"}
                                                \/ rows' = rows
        PROVE  IInv'
    <3>1. ASSUME NEW y \in Scripts PROVE ScriptInv(y)'
      BY <1>t, <2>1, <2>3, OthersKeep
    <3>2. Alone'
      BY <1>t, <2>1, <2>3 DEF Alone
    <3> QED
      BY <2>1, <2>3, <3>1, <3>2, ReportsKeep DEF IInv
  <2>4. CASE r.what = "register" /\ Free /\ RegisterRow(r.bundle) /\ UNCHANGED overlaps
    <3>1. Stays /\ OnlyOne'
      BY <1>t, <2>1, <2>4, RegisterTypes DEF Stays, OnlyOne, Behind, Free
    <3>2. EventsBehind'
      BY <1>t, <2>1, <2>4 DEF EventsBehind, Behind, RegisterRow
    <3>3. \A y \in Scripts : pc[y] \notin {"record", "revoke"}
      BY <1>t, <2>4 DEF ScriptInv, Mine, Free
    <3> QED
      BY <2>3, <2>4, <3>1, <3>2, <3>3
  <2>5. CASE \E v, d \in {0, 1} : /\ AppendEvents(r.bundle, v, d) /\ UNCHANGED overlaps
                                  /\ d = 1 => r.what = "record"
    <3>1. PICK v, d \in {0, 1} : /\ AppendEvents(r.bundle, v, d) /\ UNCHANGED overlaps
                                 /\ d = 1 => r.what = "record"
      BY <2>5
    <3>2. /\ UNCHANGED rows
          /\ events'[r.bundle].delivered = events[r.bundle].delivered + d
          /\ \A c \in Bundle : c # r.bundle => events'[c] = events[c]
      BY <1>t, <2>1, <3>1, AppendTypes
    <3>3. Stays /\ OnlyOne'
      BY <1>t, <2>1, <3>2, Calm DEF OnlyOne
    <3>4. EventsBehind'
      <4>1. events[r.bundle].delivered \in Nat
        BY <1>t, <2>1 DEF TypeOK, Count
      <4> QED
        BY <1>t, <2>1, <2>2, <3>1, <3>2, <4>1 DEF EventsBehind, Behind
    <3> QED
      BY <2>3, <3>1, <3>2, <3>3, <3>4
  <2>6. CASE /\ r.what = "revoke" /\ RevokeRow(r.bundle, "smoke")
             /\ overlaps' = IF \A y \in Scripts : pc[y] = "idle" THEN overlaps ELSE overlaps + 1
    <3>1. /\ rows'[r.bundle].status = "revoked"
          /\ \A c \in Bundle : c # r.bundle => rows'[c] = rows[c]
      BY <1>t, <2>1, <2>6, RevokeTypes
    <3>2. Stays /\ OnlyOne'
      BY <1>t, <2>1, <2>2, <2>6, <3>1 DEF Stays, OnlyOne, Behind
    <3>3. EventsBehind'
      BY <1>t, <2>1, <2>6 DEF EventsBehind, Behind, RevokeRow
    <3>4. overlaps' = 0 => overlaps = 0 /\ \A y \in Scripts : pc[y] = "idle"
      BY <1>t, <2>6 DEF TypeOK
    <3> QED
      BY <2>3, <3>2, <3>3, <3>4
  <2> QED
    BY <1>b, <2>4, <2>5, <2>6 DEF Land
<1>14. ASSUME NEW b \in Bundle, Ask(b) PROVE IInv'
  <2>1. /\ UNCHANGED <<rows, late, local, passed, reports, overlaps>>
        /\ asked' = asked \union {b}
    BY <1>14 DEF Ask, AppendEvents
  <2>2. Stays
    BY <2>1, Calm
  <2>3. OnlyOne'
    BY <1>t, <2>1 DEF OnlyOne
  <2>4. EventsBehind'
    <3>1. \A c \in Bundle : c # b => events'[c] = events[c]
      BY <1>14, <1>t, AppendTypes DEF Ask
    <3> QED
      BY <1>t, <2>1, <3>1 DEF EventsBehind, Behind
  <2>5. (\A y \in Scripts : ScriptInv(y))' /\ Alone'
    <3>1. UNCHANGED <<pc, target, rows, overlaps>>
      BY <2>1 DEF local
    <3>2. ASSUME NEW y \in Scripts PROVE ScriptInv(y)'
      BY <1>t, <2>2, <3>1, OthersKeep
    <3>3. Alone'
      BY <1>t, <3>1 DEF Alone
    <3> QED
      BY <3>2, <3>3
  <2> QED
    BY <2>1, <2>2, <2>3, <2>4, <2>5, ReportsKeep DEF IInv
<1>15. ASSUME NEW b \in Bundle, OperatorRevokes(b) PROVE IInv'
  <2>1. UNCHANGED <<events, late, local, passed, asked, reports>> /\ rows[b].status = "active"
        /\ RevokeRow(b, "operator")
    BY <1>15 DEF OperatorRevokes, RevokeRow
  <2>2. /\ rows'[b].status = "revoked"
        /\ \A c \in Bundle : c # b => rows'[c] = rows[c]
    BY <1>t, <2>1, RevokeTypes
  <2>3. Stays /\ OnlyOne' /\ EventsBehind'
    BY <1>t, <2>1, <2>2 DEF Stays, OnlyOne, EventsBehind, Behind
  <2>4. UNCHANGED <<pc, target>>
    BY <2>1 DEF local
  <2>5. overlaps' = 0 => overlaps = 0 /\ \A y \in Scripts : pc[y] = "idle"
    BY <1>15, <1>t DEF OperatorRevokes, TypeOK
  <2>6. ASSUME NEW y \in Scripts PROVE ScriptInv(y)'
    BY <1>t, <2>3, <2>4, <2>5, OthersKeep
  <2>7. Alone'
    BY <2>4, <2>5 DEF Alone
  <2> QED
    BY <2>1, <2>3, <2>6, <2>7, ReportsKeep DEF IInv
<1> QED
  BY <1>2, <1>3, <1>4, <1>5, <1>c, <1>6, <1>7, <1>8, <1>9, <1>10, <1>11, <1>12, <1>13, <1>a,
     <1>b, <1>14, <1>15
     DEF Next, Smoke, Recovery, Finish, Scripts

LEMMA InvInit == Init => IInv
BY ControlPlaneAssumption
   DEF Init, IInv, TypeOK, Row, Count, Nothing, Location, ScriptInv, Alone, OnlyOne,
       EventsBehind, LateInv, ReportIsEarned, Mine

LEMMA InvNext == IInv /\ [Next]_vars => IInv'
<1> SUFFICES ASSUME IInv, [Next]_vars PROVE IInv'
  OBVIOUS
<1>1. CASE Next
  <2>1. HasTarget
    BY DEF HasTarget, IInv, ScriptInv
  <2> QED
    BY <1>1, <2>1, TypesStep, InvStep DEF IInv
<1>2. CASE UNCHANGED vars
  BY <1>2 DEF vars, local, registry, counters, IInv, TypeOK, ScriptInv, Alone, OnlyOne,
              EventsBehind, LateInv, ReportIsEarned, Behind, Mine
<1> QED
  BY <1>1, <1>2

\* The variables keep their types.
THEOREM ControlPlaneTypes == Spec => []TypeOK
<1>1. IInv => TypeOK
  BY DEF IInv
<1> QED
  BY <1>1, InvInit, InvNext, PTL DEF Spec

\* A report is of a revoked certificate whose smoke went through its duplicate stages, or
\* whose events are a client's, whatever was interrupted, lost, made late or run at the same
\* time.  (Not that the conflicting duplicate was refused: any error of its call will do.)
THEOREM ReportsAreEarned == Spec => []ReportIsEarned
<1>1. IInv => ReportIsEarned
  BY DEF IInv
<1> QED
  BY <1>1, InvInit, InvNext, PTL DEF Spec

\* The unique digest of the fixture leaves room for one bundle: the recovery is never in
\* doubt which one to finish.
THEOREM NeverAmbiguous == Spec => []OneBundle
<1>1. ASSUME IInv PROVE OneBundle
  <2> DEFINE S == {b \in Bundle : rows[b].status # "absent"}
  <2>1. CASE S = {}
    BY <2>1, FS_EmptySet DEF OneBundle
  <2>2. CASE S # {}
    <3>1. PICK b \in S : S = {b}
      BY <1>1, <2>2 DEF IInv, OnlyOne
    <3>2. Cardinality({b}) = 1
      BY FS_Singleton
    <3>3. Cardinality(S) = 1
      BY <3>1, <3>2
    <3> QED
      BY <3>3 DEF OneBundle
  <2> QED
    BY <2>1, <2>2
<1> QED
  BY <1>1, InvInit, InvNext, PTL DEF Spec

\* A revocation is never overwritten, as long as scripts do not overlap and no revocation of
\* one that has ended is still to be made.
THEOREM RevocationStands == Spec => RevokedOnce
<1> DEFINE NoneLate(b) == \A r \in late : r.bundle = b => r.what # "revoke"
<1>1. ASSUME IInv, [Next]_vars, NEW b \in Bundle, rows[b].status = "revoked", overlaps = 0,
             NoneLate(b)
      PROVE  /\ rows'[b].status = "revoked"
             /\ rows'[b].reason = rows[b].reason
             /\ rows'[b].at = rows[b].at
  <2>1. CASE UNCHANGED rows
    BY <1>1, <2>1
  <2>2. ASSUME NEW x \in Scripts, Register(x) PROVE UNCHANGED rows
    BY <1>1, <2>2 DEF Register, Free
  <2>3. ASSUME NEW x \in Scripts, Revoke(x) PROVE rows'[b] = rows[b]
    <3>1. target[x] \in Bundle /\ rows[target[x]].status = "active" /\ RevokeRow(target[x], "smoke")
      BY <1>1, <2>3 DEF Revoke, IInv, ScriptInv, Mine
    <3> QED
      BY <1>1, <3>1, RevokeTypes DEF IInv
  <2>4. ASSUME NEW c \in Bundle, OperatorRevokes(c) PROVE rows'[b] = rows[b]
    BY <1>1, <2>4, RevokeTypes DEF OperatorRevokes, IInv
  <2>b. ASSUME NEW r \in late, Land(r) PROVE rows'[b] = rows[b]
    <3>1. r.bundle \in Bundle
      BY <1>1 DEF IInv, TypeOK, Request
    <3>2. CASE Free
      BY <1>1, <3>2 DEF Free
    <3>3. CASE r.what = "revoke" /\ RevokeRow(r.bundle, "smoke")
      BY <1>1, <3>1, <3>3, RevokeTypes DEF IInv
    <3>4. CASE UNCHANGED rows
      BY <3>4
    <3> QED
      BY <2>b, <3>2, <3>3, <3>4 DEF Land, AppendEvents
  <2>5. CASE Next
    BY <1>1, <2>1, <2>2, <2>3, <2>4, <2>b, <2>5
       DEF Next, Smoke, Recovery, Finish, Scripts, StartSmoke, RegisterAgain, RegisterConflict,
           Verify, Record, StartRecovery, Discover, Validate, Project, ReadRevocation, Confirm,
           Report, Crash, Abandon, Ask, AppendEvents, Looks, registry
  <2> QED
    BY <1>1, <2>1, <2>5 DEF vars, registry
<1>2. IInv /\ [Next]_vars =>
         \A b \in Bundle :
            rows[b].status = "revoked" /\ overlaps = 0
              /\ (\A r \in late : r.bundle = b => r.what # "revoke") =>
             /\ rows'[b].status = "revoked"
             /\ rows'[b].reason = rows[b].reason
             /\ rows'[b].at = rows[b].at
  BY <1>1
<1> QED
  BY <1>2, InvInit, InvNext, PTL DEF Spec, RevokedOnce
===============================================================================
