-------------------------- MODULE LiveOperationProofs --------------------------
(***************************************************************************)
(* What holds of the live script however often its runs are interrupted    *)
(* and repeated, and whenever an administrator revokes.                    *)
(***************************************************************************)
EXTENDS LiveOperation, SequenceTheorems, TLAPS

-------------------------------------------------------------------------------
(* The invariant. *)

\* Where a run is within the stages it goes through one by one.
Place ==
    /\ pc = "stages" => at \in 1..Len(SealStages[op])
    /\ pc = "verify" => at \in 1..Len(VerifyStages)
    /\ pc \notin {"stages", "verify"} => at = 1

Secured == {"custody_persisted", "sealed_persisted", "registered", "complete"}
Sealed == {"sealed_persisted", "registered", "complete"}
Done == {"registered", "complete"}

\* What a checkpoint says of the submissions made: all of them are counted, except one
\* whose answer was never recorded.
Submissions(o) ==
    /\ ckpt[o].calls = 0 <=> ckpt[o].state \in {"none", "request_ready"}
    /\ ckpt[o].state = "none" => ckpt[o].rejected = 0
    /\ ckpt[o].rejected <= 2
    /\ ckpt[o].state # "provider_rejected" => ckpt[o].rejected <= 1
    /\ ckpt[o].rejected <= Len(outcomes[o])
    /\ Len(outcomes[o]) <= ckpt[o].rejected + 1
    /\ ckpt[o].state \in {"none", "request_ready", "provider_rejected"} =>
          Len(outcomes[o]) = ckpt[o].rejected
    /\ ckpt[o].rejected >= 1 /\ (\/ ckpt[o].state # "provider_rejected"
                                 \/ ckpt[o].retry
                                 \/ ckpt[o].rejected = 2) =>
          outcomes[o][1] = "refused"

\* Of the versions under the key of the sealed asset, a run was told of one at most.
OneTold(b) ==
    /\ b.versions \subseteq 1..b.puts
    /\ b.told \subseteq 1..b.puts
    /\ \A v, w \in b.versions \intersect b.told : v = w

\* What it says of the objects stored and of the certificate.
Recorded(o) ==
    /\ ckpt[o].bytes <=> ckpt[o].state \in {"generated", "prepared"} \union Secured
    /\ ckpt[o].custody <=> ckpt[o].state \in Secured
    /\ ckpt[o].custody => vault[o]
    /\ OneTold(bucket[o])
    /\ ~ckpt[o].custody => bucket[o].told = {}
    /\ ckpt[o].sealed # 0 <=> ckpt[o].state \in Sealed
    /\ ckpt[o].sealed # 0 => ckpt[o].sealed \in bucket[o].versions
    /\ certs[o].status # "absent" => ckpt[o].state \in Sealed /\ certs[o].sealed = ckpt[o].sealed
    /\ \A v \in pending[o] : ckpt[o].state \in Sealed /\ v = ckpt[o].sealed
    /\ ckpt[o].state \in Done => certs[o].status # "absent"

\* What a run has established of its operation when it gets to a place.
Reached ==
    /\ pc = "admit" => ckpt[op].state # "none"
    /\ pc = "request" => ckpt[op].state \in {"request_ready", "generated"}
    /\ pc = "submit" => ckpt[op].state = "request_ready"
    /\ pc \in {"call", "answer"} => ckpt[op].state = "provider_call_started"
    /\ pc = "call" => Len(outcomes[op]) = ckpt[op].rejected
    /\ pc = "answer" => Len(outcomes[op]) = ckpt[op].rejected + 1
    /\ pc \in {"submit", "call", "answer"} => service
    /\ pc \in {"stages", "prepare"} => ckpt[op].state = "generated" /\ service
    /\ pc \in {"custody", "store", "stored"} => ckpt[op].state \in {"prepared"} \union Secured
    /\ pc = "stored" => ckpt[op].state = "prepared" /\ vault[op]
    /\ pc \in {"upload", "put", "uploaded"} => ckpt[op].state \in Secured
    /\ pc = "put" =>
          ckpt[op].sealed = 0 /\ bucket[op].versions \intersect bucket[op].told = {}
    /\ pc = "uploaded" =>
          /\ held \in bucket[op].versions
          /\ held # 0
          /\ ckpt[op].sealed # 0 => held = ckpt[op].sealed
    /\ pc \in {"sign", "announce", "register", "registered"} =>
          ckpt[op].state = "sealed_persisted"
    /\ pc = "registered" => certs[op].status # "absent"
    /\ pc \in {"confirm", "verify", "complete"} => ckpt[op].state \in Done
    /\ service =>
          /\ pc \notin {"idle", "configure", "admit", "request", "verify", "complete", "finalize"}
          /\ pc \in {"custody", "store", "stored"} => ckpt[op].state = "prepared"
          /\ pc \in {"upload", "put", "uploaded"} => ckpt[op].state = "custody_persisted"
          /\ pc = "upload" => bucket[op].told = {}

LiveInv ==
    /\ TypeOK
    /\ Place
    /\ \A o \in Ops : Submissions(o) /\ Recorded(o)
    /\ Reached

-------------------------------------------------------------------------------
(* Types. *)
LEMMA Concatenation ==
    ASSUME NEW S, NEW a \in Seq(S), NEW b \in Seq(S)
    PROVE  a \o b \in Seq(S) /\ Len(a \o b) = Len(a) + Len(b)
BY ConcatProperties

LEMMA StageTypes ==
    /\ \A o \in Ops : SealStages[o] \in Seq(Stage) /\ Len(SealStages[o]) \in Nat \ {0}
    /\ VerifyStages \in Seq(Stage) /\ Len(VerifyStages) = 5
<1> DEFINE a == <<"response_validation", "source_hash", "private_manifest", "canonical_hash">>
           b(o) == IF o = "image" THEN <<"public_capsule">> ELSE <<>>
           c == <<"sealed_hash">>
<1>1. a \in Seq(Stage) /\ Len(a) = 4
  BY DEF Stage
<1>2. ASSUME NEW o \in Ops PROVE b(o) \in Seq(Stage) /\ Len(b(o)) \in Nat
  <2>1. <<"public_capsule">> \in Seq(Stage) /\ Len(<<"public_capsule">>) = 1
    BY DEF Stage
  <2>2. << >> \in Seq(Stage) /\ Len(<< >>) = 0
    BY EmptySeq
  <2> QED
    BY <2>1, <2>2
<1>3. c \in Seq(Stage) /\ Len(c) = 1
  BY DEF Stage
<1>4. ASSUME NEW o \in Ops
      PROVE  SealStages[o] \in Seq(Stage) /\ Len(SealStages[o]) \in Nat \ {0}
  <2>1. SealStages[o] = (a \o b(o)) \o c
    BY DEF SealStages
  <2> HIDE DEF a, b, c
  <2>2. a \o b(o) \in Seq(Stage) /\ Len(a \o b(o)) = Len(a) + Len(b(o))
    BY <1>1, <1>2, Concatenation
  <2>3. (a \o b(o)) \o c \in Seq(Stage) /\ Len((a \o b(o)) \o c) = Len(a \o b(o)) + Len(c)
    BY <1>3, <2>2, Concatenation
  <2> QED
    BY <1>1, <1>2, <1>3, <2>1, <2>2, <2>3
<1>5. VerifyStages \in Seq(Stage) /\ Len(VerifyStages) = 5
  BY DEF VerifyStages, Stage
<1> QED
  BY <1>4, <1>5

LEMMA TrackedTypes ==
    ASSUME NEW k \in Checkpoint, NEW s, cur \in Stage \union {"none"}
    PROVE  /\ Tracked(k, s) \in Checkpoint
           /\ \E r \in Seq(Stage) : Tracked(k, s) = [k EXCEPT !.rows = r]
<1>1. k.rows \in Seq(Stage) /\ k = [k EXCEPT !.rows = k.rows]
  BY DEF Checkpoint
<1>2. CASE s = cur \/ s \in Elements(k.rows) \/ cur = "none"
  BY <1>1, <1>2 DEF Tracked
<1>3. CASE ~(s = cur \/ s \in Elements(k.rows) \/ cur = "none")
  <2>1. Append(k.rows, cur) \in Seq(Stage)
    BY <1>1, <1>3, AppendProperties
  <2>2. Tracked(k, s) = [k EXCEPT !.rows = Append(k.rows, cur)]
    BY <1>3 DEF Tracked
  <2> QED
    BY <2>1, <2>2 DEF Checkpoint
<1> QED
  BY <1>2, <1>3

\* Checkpoints that differ in their rows at most.
SameButRows(k, l) ==
    /\ k.state = l.state /\ k.calls = l.calls /\ k.rejected = l.rejected /\ k.retry = l.retry
    /\ k.bytes = l.bytes /\ k.custody = l.custody /\ k.sealed = l.sealed

LEMMA BeginKeeps ==
    ASSUME TypeOK, NEW s \in Stage, Begin(s)
    PROVE  /\ ckpt' \in [Ops -> Checkpoint]
           /\ cur' \in Stage \union {"none"}
           /\ \A o \in Ops : SameButRows(ckpt'[o], ckpt[o])
<1>1. ckpt[op] \in Checkpoint /\ ckpt \in [Ops -> Checkpoint] /\ op \in Ops
      /\ cur \in Stage \union {"none"}
  BY DEF TypeOK
<1>2. Tracked(ckpt[op], s) \in Checkpoint
  BY <1>1, TrackedTypes
<1>3. PICK r \in Seq(Stage) : Tracked(ckpt[op], s) = [ckpt[op] EXCEPT !.rows = r]
  BY <1>1, TrackedTypes
<1>4. ckpt' = [ckpt EXCEPT ![op] = Tracked(ckpt[op], s)]
  BY DEF Begin, Update
<1>5. cur' \in Stage \union {"none"}
  BY <1>1 DEF Begin
<1>6. SameButRows(Tracked(ckpt[op], s), ckpt[op])
  BY <1>1, <1>3 DEF SameButRows, Checkpoint
<1>7. \A o \in Ops : SameButRows(ckpt'[o], ckpt[o])
  BY <1>1, <1>4, <1>6 DEF SameButRows
<1> QED
  BY <1>1, <1>2, <1>4, <1>5, <1>7

\* The variables a step of the run sets besides the checkpoint and the world.
RunTypes ==
    pc \in Location /\ op \in Ops /\ at \in Nat /\ cur \in Stage \union {"none"}
    /\ service \in BOOLEAN /\ held \in Nat /\ failures \in Nat

LEMMA OverTypes ==
    ASSUME TypeOK, Over, failures' \in Nat
    PROVE  RunTypes' /\ Place' /\ Reached'
BY DEF TypeOK, Over, RunTypes, Location, Ops, Place, Reached

LEMMA GotoTypes ==
    ASSUME TypeOK, NEW l \in Location, Goto(l), UNCHANGED failures, cur' \in Stage \union {"none"}
    PROVE  RunTypes'
BY DEF TypeOK, Goto, RunTypes

LEMMA BrokenTypes ==
    ASSUME TypeOK, Broken
    PROVE  RunTypes' /\ Place' /\ Reached'
<1>1. failures' \in Nat /\ Over
  BY DEF TypeOK, Broken
<1> QED
  BY <1>1, OverTypes

LEMMA UpdateTypes ==
    ASSUME TypeOK, NEW k \in Checkpoint, Update(k)
    PROVE  /\ ckpt' \in [Ops -> Checkpoint]
           /\ ckpt'[op] = k
           /\ \A o \in Ops \ {op} : ckpt'[o] = ckpt[o]
BY DEF TypeOK, Update

\* The facts about an operation hold as long as nothing but its rows changes.
LEMMA FactsKept ==
    ASSUME NEW o \in Ops, Submissions(o), Recorded(o), SameButRows(ckpt'[o], ckpt[o]),
           outcomes'[o] = outcomes[o], vault'[o] = vault[o],
           bucket'[o] = bucket[o], certs'[o] = certs[o], pending'[o] = pending[o]
    PROVE  Submissions(o)' /\ Recorded(o)'
BY DEF Submissions, Recorded, SameButRows

\* A step that only tracks a stage, and one that changes nothing but the run.
LEMMA TrackedKeeps ==
    ASSUME LiveInv, \A o \in Ops : SameButRows(ckpt'[o], ckpt[o]), UNCHANGED world
    PROVE  \A o \in Ops : Submissions(o)' /\ Recorded(o)'
BY FactsKept DEF LiveInv, world

LEMMA Together ==
    ASSUME ckpt' \in [Ops -> Checkpoint], RunTypes', Place', Reached', UNCHANGED world, TypeOK,
           \A o \in Ops : Submissions(o)' /\ Recorded(o)'
    PROVE  LiveInv'
BY DEF LiveInv, TypeOK, RunTypes, world

LEMMA InitInv == Init => LiveInv
<1> SUFFICES ASSUME Init PROVE LiveInv
  OBVIOUS
<1>1. NoCheckpoint \in Checkpoint
  BY EmptySeq DEF NoCheckpoint, Checkpoint, State
<1>2. << >> \in Seq(Answer) /\ Len(<< >>) = 0
  BY EmptySeq
<1>3. TypeOK
  BY <1>1, <1>2 DEF Init, TypeOK, Location, Ops, Bucket
<1>4. Place /\ Reached
  BY DEF Init, Place, Reached
<1>b. \A o \in Ops : bucket[o].told = {} /\ OneTold(bucket[o])
  BY DEF Init, OneTold
<1>5. \A o \in Ops : Submissions(o) /\ Recorded(o)
  BY <1>2, <1>b DEF Init, NoCheckpoint, Submissions, Recorded, Secured, Sealed, Done
<1> QED
  BY <1>3, <1>4, <1>5 DEF LiveInv

-------------------------------------------------------------------------------
(* The steps, in the order of the script. *)
LEMMA Locations ==
    /\ "idle" \in Location /\ "configure" \in Location /\ "admit" \in Location
    /\ "request" \in Location /\ "submit" \in Location /\ "call" \in Location
    /\ "answer" \in Location /\ "stages" \in Location /\ "prepare" \in Location
    /\ "custody" \in Location /\ "store" \in Location /\ "stored" \in Location
    /\ "upload" \in Location /\ "put" \in Location /\ "uploaded" \in Location /\ "sign" \in Location
    /\ "announce" \in Location /\ "register" \in Location /\ "registered" \in Location
    /\ "confirm" \in Location /\ "verify" \in Location /\ "complete" \in Location
    /\ "finalize" \in Location
BY DEF Location

LEMMA StateNames ==
    /\ "request_ready" \in State /\ "provider_call_started" \in State
    /\ "provider_rejected" \in State /\ "generated" \in State /\ "prepared" \in State
    /\ "custody_persisted" \in State /\ "sealed_persisted" \in State
    /\ "registered" \in State /\ "complete" \in State
BY DEF State

\* What a step that writes a new checkpoint has to show.
LEMMA Written ==
    ASSUME LiveInv, NEW k \in Checkpoint, Update(k), RunTypes', Place', Reached', UNCHANGED world,
           ASSUME NEW o \in Ops, o = op, ckpt'[o] = k PROVE Submissions(o)' /\ Recorded(o)'
    PROVE  LiveInv'
<1>1. TypeOK /\ (\A o \in Ops : Submissions(o) /\ Recorded(o))
  BY DEF LiveInv
<1>2. /\ ckpt' \in [Ops -> Checkpoint]
      /\ ckpt'[op] = k
      /\ \A o \in Ops \ {op} : ckpt'[o] = ckpt[o]
  BY <1>1, UpdateTypes
<1>3. ASSUME NEW o \in Ops PROVE Submissions(o)' /\ Recorded(o)'
  <2>1. CASE o = op
    BY <1>2, <2>1
  <2>2. CASE o # op
    BY <1>1, <1>2, <2>2, FactsKept DEF world, SameButRows
  <2> QED
    BY <2>1, <2>2
<1> QED
  BY <1>1, <1>2, <1>3, Together

LEMMA AdmissionStep ==
    ASSUME LiveInv, Start \/ Initialize \/ Configure \/ Refuse \/ Retry \/ Proceed
    PROVE  LiveInv'
<1>t. TypeOK /\ op \in Ops /\ cur \in Stage \union {"none"} /\ Place /\ Reached
      /\ ckpt \in [Ops -> Checkpoint] /\ (\A o \in Ops : Submissions(o) /\ Recorded(o))
  BY DEF LiveInv, TypeOK
<1>s. "configuration_validation" \in Stage
  BY DEF Stage
<1>1. CASE Start
  <2>1. RunTypes'
    BY <1>1, <1>t, Locations, GotoTypes DEF Start
  <2>2. Place' /\ Reached'
    BY <1>1, <1>t DEF Start, Goto, Place, Reached
  <2>3. \A o \in Ops : Submissions(o)' /\ Recorded(o)'
    BY <1>1, TrackedKeeps DEF Start, SameButRows
  <2> QED
    BY <1>1, <1>t, <2>1, <2>2, <2>3, Together DEF Start
<1>2. CASE Initialize
  <2> DEFINE k == [NoCheckpoint EXCEPT !.state = "request_ready"]
  <2>0. NoCheckpoint \in Checkpoint
    BY EmptySeq DEF NoCheckpoint, Checkpoint, State
  <2>1. /\ k \in Checkpoint
        /\ k.state = "request_ready" /\ k.calls = 0 /\ k.rejected = 0
        /\ ~k.bytes /\ ~k.custody /\ k.sealed = 0
    <3>1. k \in Checkpoint
      BY <2>0, StateNames DEF Checkpoint
    <3>2. /\ k.state = "request_ready" /\ k.calls = 0 /\ k.rejected = 0
          /\ ~k.bytes /\ ~k.custody /\ k.sealed = 0
      BY DEF NoCheckpoint
    <3> QED
      BY <3>1, <3>2
  <2> HIDE DEF k
  <2>2. Update(k)
    BY <1>2 DEF Initialize, k
  <2>3. ckpt'[op] = k
    BY <1>t, <2>1, <2>2, UpdateTypes
  <2>4. RunTypes'
    BY <1>2, <1>t, <1>s, Locations, GotoTypes DEF Initialize
  <2>5. Place' /\ Reached'
    BY <1>2, <1>t, <2>1, <2>3 DEF Initialize, Goto, Place, Reached
  <2>6. ASSUME NEW o \in Ops, o = op, ckpt'[o] = k PROVE Submissions(o)' /\ Recorded(o)'
    <3>1. Len(outcomes[o]) \in Nat
      BY LenProperties DEF LiveInv, TypeOK
    <3> QED
      BY <1>2, <1>t, <2>1, <2>6, <3>1
      DEF Initialize, Submissions, Recorded, world, Secured, Sealed, Done
  <2> QED
    BY <1>2, <2>1, <2>2, <2>4, <2>5, <2>6, Written DEF Initialize
<1>3. CASE Configure
  <2>1. /\ ckpt' \in [Ops -> Checkpoint] /\ cur' \in Stage \union {"none"}
        /\ \A o \in Ops : SameButRows(ckpt'[o], ckpt[o])
    BY <1>3, <1>s, <1>t, BeginKeeps DEF Configure
  <2>2. RunTypes'
    BY <1>3, <1>t, <2>1, Locations, GotoTypes DEF Configure
  <2>3. Place' /\ Reached'
    BY <1>3, <1>t, <2>1 DEF Configure, Goto, Place, Reached, SameButRows
  <2>4. \A o \in Ops : Submissions(o)' /\ Recorded(o)'
    BY <1>3, <2>1, TrackedKeeps DEF Configure
  <2> QED
    BY <1>3, <1>t, <2>1, <2>2, <2>3, <2>4, Together DEF Configure
<1>4. CASE Refuse
  <2>1. RunTypes' /\ Place' /\ Reached'
    BY <1>4, <1>t, OverTypes DEF Refuse, TypeOK
  <2>2. \A o \in Ops : Submissions(o)' /\ Recorded(o)'
    BY <1>4, TrackedKeeps DEF Refuse, SameButRows
  <2> QED
    BY <1>4, <1>t, <2>1, <2>2, Together DEF Refuse
<1>5. CASE Retry
  <2> DEFINE k == [ckpt[op] EXCEPT !.state = "request_ready", !.calls = 0, !.retry = FALSE]
  <2>0. ckpt[op] \in Checkpoint
    BY <1>t
  <2>1. /\ k \in Checkpoint
        /\ k.state = "request_ready" /\ k.calls = 0 /\ k.rejected = ckpt[op].rejected
        /\ k.bytes = ckpt[op].bytes /\ k.custody = ckpt[op].custody /\ k.sealed = ckpt[op].sealed
    <3>1. 0 \in 0..1 /\ FALSE \in BOOLEAN
      OBVIOUS
    <3>2. k \in Checkpoint
      BY <2>0, <3>1, StateNames DEF Checkpoint
    <3>3. /\ k.state = "request_ready" /\ k.calls = 0 /\ k.rejected = ckpt[op].rejected
          /\ k.bytes = ckpt[op].bytes /\ k.custody = ckpt[op].custody
          /\ k.sealed = ckpt[op].sealed
      BY <2>0 DEF Checkpoint
    <3> QED
      BY <3>2, <3>3
  <2> HIDE DEF k
  <2>2. Update(k)
    BY <1>5 DEF Retry, k
  <2>3. ckpt'[op] = k
    BY <1>t, <2>1, <2>2, UpdateTypes
  <2>4. RunTypes'
    BY <1>5, <1>t, Locations, GotoTypes DEF Retry
  <2>5. Place' /\ Reached'
    BY <1>5, <1>t, <2>1, <2>3 DEF Retry, Goto, Place, Reached
  <2>6. ASSUME NEW o \in Ops, o = op, ckpt'[o] = k PROVE Submissions(o)' /\ Recorded(o)'
    BY <1>5, <1>t, <2>1, <2>6
    DEF Retry, RetryAllowed, Submissions, Recorded, world, Secured, Sealed, Done
  <2> QED
    BY <1>5, <2>1, <2>2, <2>4, <2>5, <2>6, Written DEF Retry
<1>6. CASE Proceed
  <2>1. RunTypes'
    BY <1>6, <1>t, Locations, GotoTypes DEF Proceed
  <2>2. Place' /\ Reached'
    BY <1>6, <1>t DEF Proceed, Goto, Place, Reached, Checkpoint, State, Secured
  <2>3. \A o \in Ops : Submissions(o)' /\ Recorded(o)'
    BY <1>6, TrackedKeeps DEF Proceed, SameButRows
  <2> QED
    BY <1>6, <1>t, <2>1, <2>2, <2>3, Together DEF Proceed
<1> QED
  BY <1>1, <1>2, <1>3, <1>4, <1>5, <1>6

LEMMA ServiceStep ==
    ASSUME LiveInv, Request \/ Submit \/ Call \/ Capture \/ Reject \/ SealStage \/ Prepare
    PROVE  LiveInv'
<1>t. TypeOK /\ op \in Ops /\ cur \in Stage \union {"none"} /\ Place /\ Reached
      /\ ckpt \in [Ops -> Checkpoint] /\ (\A o \in Ops : Submissions(o) /\ Recorded(o))
  BY DEF LiveInv, TypeOK
<1>k. ckpt[op] \in Checkpoint
  BY <1>t
<1>s. "request_construction" \in Stage /\ "generation" \in Stage
  BY DEF Stage
<1>n. \A o \in Ops : Len(outcomes[o]) \in Nat /\ outcomes[o] \in Seq(Answer)
  BY <1>t, LenProperties DEF TypeOK
<1>1. CASE Request
  <2>1. /\ ckpt' \in [Ops -> Checkpoint] /\ cur' \in Stage \union {"none"}
        /\ \A o \in Ops : SameButRows(ckpt'[o], ckpt[o])
    BY <1>1, <1>s, <1>t, BeginKeeps DEF Request
  <2>2. RunTypes'
    BY <1>1, <1>t, <2>1, Locations DEF Request, RunTypes, TypeOK
  <2>3. Place'
    BY <1>1, <1>t, StageTypes DEF Request, Place
  <2>4. Reached'
    BY <1>1, <1>t, <2>1 DEF Request, Captured, Reached, SameButRows, Recorded
  <2>5. \A o \in Ops : Submissions(o)' /\ Recorded(o)'
    BY <1>1, <2>1, TrackedKeeps DEF Request
  <2> QED
    BY <1>1, <1>t, <2>1, <2>2, <2>3, <2>4, <2>5, Together DEF Request
<1>2. CASE Submit
  <2> DEFINE k == [ckpt[op] EXCEPT !.state = "provider_call_started", !.calls = 1]
  <2>1. k \in Checkpoint
    <3>1. 1 \in 0..1
      OBVIOUS
    <3> QED
      BY <1>k, <3>1, StateNames DEF Checkpoint
  <2>2. /\ k.state = "provider_call_started" /\ k.calls = 1 /\ k.rejected = ckpt[op].rejected
        /\ k.bytes = ckpt[op].bytes /\ k.custody = ckpt[op].custody /\ k.sealed = ckpt[op].sealed
        /\ k.retry = ckpt[op].retry
    BY <1>k DEF Checkpoint
  <2> HIDE DEF k
  <2>3. Update(k)
    BY <1>2 DEF Submit, k
  <2>4. ckpt'[op] = k
    BY <1>t, <2>1, <2>3, UpdateTypes
  <2>5. RunTypes'
    BY <1>2, <1>t, Locations, GotoTypes DEF Submit
  <2>6. Place' /\ Reached'
    BY <1>2, <1>t, <1>n, <2>2, <2>4 DEF Submit, Goto, Place, Reached, world, Submissions
  <2>7. ASSUME NEW o \in Ops, o = op, ckpt'[o] = k PROVE Submissions(o)' /\ Recorded(o)'
    BY <1>2, <1>t, <1>n, <2>2, <2>7
    DEF Submit, Submissions, Recorded, Reached, world, Secured, Sealed, Done
  <2> QED
    BY <1>2, <2>1, <2>3, <2>5, <2>6, <2>7, Written DEF Submit
<1>3. CASE Call
  <2>1. /\ ckpt' \in [Ops -> Checkpoint] /\ cur' \in Stage \union {"none"}
        /\ \A o \in Ops : SameButRows(ckpt'[o], ckpt[o])
    BY <1>3, <1>s, <1>t, BeginKeeps DEF Call
  <2>2. PICK a \in Answer : outcomes' = [outcomes EXCEPT ![op] = Append(@, a)]
    BY <1>3 DEF Call
  <2>3. /\ outcomes' \in [Ops -> Seq(Answer)]
        /\ outcomes'[op] \in Seq(Answer)
        /\ Len(outcomes'[op]) = Len(outcomes[op]) + 1
        /\ Len(outcomes[op]) >= 1 => outcomes'[op][1] = outcomes[op][1]
        /\ \A o \in Ops \ {op} : outcomes'[o] = outcomes[o]
    <3>1. /\ Append(outcomes[op], a) \in Seq(Answer)
          /\ Len(Append(outcomes[op], a)) = Len(outcomes[op]) + 1
          /\ \A i \in 1..Len(outcomes[op]) : Append(outcomes[op], a)[i] = outcomes[op][i]
      BY <1>n, <1>t, AppendProperties
    <3> QED
      BY <1>n, <1>t, <2>2, <3>1 DEF TypeOK
  <2>4. RunTypes'
    BY <1>3, <1>t, <2>1, Locations, GotoTypes DEF Call
  <2>5. Place' /\ Reached'
    BY <1>3, <1>t, <1>n, <2>1, <2>3 DEF Call, Goto, Place, Reached, SameButRows
  <2>6. ASSUME NEW o \in Ops, o = op PROVE Submissions(o)' /\ Recorded(o)'
    <3>1. Recorded(o)'
      BY <1>3, <1>t, <2>1, <2>6 DEF Call, Recorded, SameButRows
    <3>2. Submissions(o)'
      BY <1>3, <1>t, <1>k, <1>n, <2>1, <2>3, <2>6
      DEF Call, Submissions, Reached, SameButRows, Checkpoint
    <3> QED
      BY <3>1, <3>2
  <2>7. ASSUME NEW o \in Ops, o # op PROVE Submissions(o)' /\ Recorded(o)'
    BY <1>3, <1>t, <2>1, <2>3, <2>7, FactsKept DEF Call
  <2> QED
    BY <1>3, <1>t, <2>1, <2>3, <2>4, <2>5, <2>6, <2>7 DEF Call, LiveInv, TypeOK, RunTypes
<1>4. CASE Capture
  <2> DEFINE k == [ckpt[op] EXCEPT !.state = "generated", !.bytes = TRUE, !.retry = FALSE]
  <2>1. k \in Checkpoint
    <3>1. TRUE \in BOOLEAN /\ FALSE \in BOOLEAN
      OBVIOUS
    <3> QED
      BY <1>k, <3>1, StateNames DEF Checkpoint
  <2>2. /\ k.state = "generated" /\ k.calls = ckpt[op].calls /\ k.rejected = ckpt[op].rejected
        /\ k.bytes /\ k.custody = ckpt[op].custody /\ k.sealed = ckpt[op].sealed
    BY <1>k DEF Checkpoint
  <2> HIDE DEF k
  <2>3. Update(k)
    BY <1>4 DEF Capture, k
  <2>4. ckpt'[op] = k
    BY <1>t, <2>1, <2>3, UpdateTypes
  <2>5. RunTypes'
    BY <1>4, <1>t, Locations, GotoTypes DEF Capture
  <2>6. Place' /\ Reached'
    <3>1. at' = 1 /\ op' = op /\ pc' = "stages" /\ Len(SealStages[op]) \in Nat \ {0}
      BY <1>4, <1>t, StageTypes DEF Capture, Goto, Place
    <3>2. Place'
      BY <3>1 DEF Place
    <3>3. pc = "answer" /\ service' = service
      BY <1>4 DEF Capture, Goto
    <3>4. ckpt'[op].state = "generated"
      BY <2>2, <2>4
    <3>5. Reached'
      BY <1>t, <3>1, <3>3, <3>4 DEF Reached
    <3> QED
      BY <3>2, <3>5
  <2>7. ASSUME NEW o \in Ops, o = op, ckpt'[o] = k PROVE Submissions(o)' /\ Recorded(o)'
    BY <1>4, <1>t, <1>n, <2>2, <2>7
    DEF Capture, Submissions, Recorded, Reached, world, Secured, Sealed, Done
  <2> QED
    BY <1>4, <2>1, <2>3, <2>5, <2>6, <2>7, Written DEF Capture
<1>5. CASE Reject
  <2> DEFINE k == [ckpt[op] EXCEPT !.state = "provider_rejected", !.rejected = @ + 1,
                                   !.retry = LastAnswer = "refused"]
  <2>1. k \in Checkpoint
    <3>1. (LastAnswer = "refused") \in BOOLEAN /\ ckpt[op].rejected + 1 \in Nat
      BY <1>k DEF Checkpoint
    <3> QED
      BY <1>k, <3>1, StateNames DEF Checkpoint
  <2>2. /\ k.state = "provider_rejected" /\ k.calls = ckpt[op].calls
        /\ k.rejected = ckpt[op].rejected + 1
        /\ k.bytes = ckpt[op].bytes /\ k.custody = ckpt[op].custody /\ k.sealed = ckpt[op].sealed
    BY <1>k DEF Checkpoint
  <2>8. k.retry => LastAnswer = "refused"
    BY <1>k DEF Checkpoint
  <2> HIDE DEF k
  <2>3. Update(k)
    BY <1>5 DEF Reject, k
  <2>4. ckpt'[op] = k
    BY <1>t, <2>1, <2>3, UpdateTypes
  <2>5. RunTypes' /\ Place' /\ Reached'
    BY <1>5, <1>t, OverTypes DEF Reject, TypeOK
  <2>6. ASSUME NEW o \in Ops, o = op, ckpt'[o] = k PROVE Submissions(o)' /\ Recorded(o)'
    <3>1. Recorded(o)'
      BY <1>5, <1>t, <2>2, <2>6 DEF Reject, Recorded, Reached, world, Secured, Sealed, Done
    <3>2. ckpt[op].rejected \in 0..1 /\ Len(outcomes[op]) = ckpt[op].rejected + 1
          /\ ckpt[op].calls # 0
      BY <1>5, <1>t, <1>k DEF Reject, Reached, Submissions, Checkpoint
    <3>6. UNCHANGED outcomes
      BY <1>5 DEF Reject, world
    <3>3. ASSUME ckpt[op].rejected = 0 PROVE Submissions(o)'
      <4>1. Len(outcomes[op]) = 1 /\ (k.retry => outcomes[op][1] = "refused")
        BY <2>8, <3>2, <3>3 DEF LastAnswer
      <4>2. /\ ckpt'[o].state = "provider_rejected" /\ ckpt'[o].calls # 0
            /\ ckpt'[o].rejected = 1 /\ Len(outcomes'[o]) = 1
        BY <2>2, <2>6, <3>2, <3>3, <3>6, <4>1
      <4>3. ckpt'[o].retry => outcomes'[o][1] = "refused"
        BY <2>6, <3>6, <4>1
      <4> QED
        BY <4>2, <4>3 DEF Submissions
    <3>4. ASSUME ckpt[op].rejected = 1 PROVE Submissions(o)'
      <4>1. Len(outcomes[op]) = 2 /\ outcomes[op][1] = "refused"
        BY <1>5, <1>t, <3>2, <3>4 DEF Reject, Reached, Submissions
      <4>2. /\ ckpt'[o].state = "provider_rejected" /\ ckpt'[o].calls # 0
            /\ ckpt'[o].rejected = 2 /\ Len(outcomes'[o]) = 2
            /\ outcomes'[o][1] = "refused"
        BY <2>2, <2>6, <3>2, <3>4, <3>6, <4>1
      <4> QED
        BY <4>2 DEF Submissions
    <3> QED
      BY <3>1, <3>2, <3>3, <3>4
  <2> QED
    BY <1>5, <2>1, <2>3, <2>5, <2>6, Written DEF Reject
<1>6. CASE SealStage
  <2>1. SealStages[op] \in Seq(Stage) /\ Len(SealStages[op]) \in Nat \ {0}
        /\ at \in 1..Len(SealStages[op])
    BY <1>6, <1>t, StageTypes DEF SealStage, Place
  <2>2. SealStages[op][at] \in Stage
    BY <2>1, ElementOfSeq
  <2>3. /\ ckpt' \in [Ops -> Checkpoint] /\ cur' \in Stage \union {"none"}
        /\ \A o \in Ops : SameButRows(ckpt'[o], ckpt[o])
    BY <1>6, <1>t, <2>2, BeginKeeps DEF SealStage
  <2>4. RunTypes'
    BY <1>6, <1>t, <2>1, <2>3, Locations DEF SealStage, RunTypes, TypeOK
  <2>5. Place'
    BY <1>6, <1>t, <2>1 DEF SealStage, Place
  <2>6. Reached'
    BY <1>6, <1>t, <2>3 DEF SealStage, Reached, SameButRows
  <2>7. \A o \in Ops : Submissions(o)' /\ Recorded(o)'
    BY <1>6, <2>3, TrackedKeeps DEF SealStage
  <2> QED
    BY <1>6, <1>t, <2>3, <2>4, <2>5, <2>6, <2>7, Together DEF SealStage
<1>7. CASE Prepare
  <2> DEFINE k == [ckpt[op] EXCEPT !.state = "prepared"]
  <2>1. k \in Checkpoint
    BY <1>k, StateNames DEF Checkpoint
  <2>2. /\ k.state = "prepared" /\ k.calls = ckpt[op].calls /\ k.rejected = ckpt[op].rejected
        /\ k.bytes = ckpt[op].bytes /\ k.custody = ckpt[op].custody /\ k.sealed = ckpt[op].sealed
        /\ k.retry = ckpt[op].retry
    BY <1>k DEF Checkpoint
  <2> HIDE DEF k
  <2>3. Update(k)
    BY <1>7 DEF Prepare, k
  <2>4. ckpt'[op] = k
    BY <1>t, <2>1, <2>3, UpdateTypes
  <2>5. RunTypes'
    BY <1>7, <1>t, Locations, GotoTypes DEF Prepare
  <2>6. Place' /\ Reached'
    BY <1>7, <1>t, <2>2, <2>4 DEF Prepare, Goto, Place, Reached
  <2>7. ASSUME NEW o \in Ops, o = op, ckpt'[o] = k PROVE Submissions(o)' /\ Recorded(o)'
    BY <1>7, <1>t, <1>n, <2>2, <2>7
    DEF Prepare, Submissions, Recorded, Reached, world, Secured, Sealed, Done
  <2> QED
    BY <1>7, <2>1, <2>3, <2>5, <2>6, <2>7, Written DEF Prepare
<1> QED
  BY <1>1, <1>2, <1>3, <1>4, <1>5, <1>6, <1>7

LEMMA CustodyStep ==
    ASSUME LiveInv, BeginCustody \/ Store \/ Recheck \/ Stored
    PROVE  LiveInv'
<1>t. TypeOK /\ op \in Ops /\ cur \in Stage \union {"none"} /\ Place /\ Reached
      /\ ckpt \in [Ops -> Checkpoint] /\ (\A o \in Ops : Submissions(o) /\ Recorded(o))
  BY DEF LiveInv, TypeOK
<1>k. ckpt[op] \in Checkpoint
  BY <1>t
<1>n. \A o \in Ops : Len(outcomes[o]) \in Nat /\ outcomes[o] \in Seq(Answer)
  BY <1>t, LenProperties DEF TypeOK
<1>s. "b2_custody" \in Stage
  BY DEF Stage
<1>1. CASE BeginCustody
  <2>1. /\ ckpt' \in [Ops -> Checkpoint] /\ cur' \in Stage \union {"none"}
        /\ \A o \in Ops : SameButRows(ckpt'[o], ckpt[o])
    BY <1>1, <1>s, <1>t, BeginKeeps DEF BeginCustody
  <2>2. RunTypes'
    BY <1>1, <1>t, <2>1, Locations, GotoTypes DEF BeginCustody
  <2>3. Place' /\ Reached'
    BY <1>1, <1>t, <2>1 DEF BeginCustody, Goto, Place, Reached, SameButRows, Secured
  <2>4. \A o \in Ops : Submissions(o)' /\ Recorded(o)'
    BY <1>1, <2>1, TrackedKeeps DEF BeginCustody
  <2> QED
    BY <1>1, <1>t, <2>1, <2>2, <2>3, <2>4, Together DEF BeginCustody
<1>2. CASE Store
  <2>1. vault' \in [Ops -> BOOLEAN] /\ vault'[op] /\ (\A o \in Ops : vault[o] => vault'[o])
    BY <1>2, <1>t DEF Store, TypeOK
  <2>2. RunTypes' /\ Place' /\ Reached'
    <3>1. CASE Goto("stored") /\ UNCHANGED <<cur, failures>>
      <4>1. RunTypes'
        BY <1>t, <3>1, Locations, GotoTypes
      <4>2. Place' /\ Reached'
        BY <1>2, <1>t, <2>1, <3>1 DEF Store, Goto, Place, Reached, Recorded, Secured
      <4> QED
        BY <4>1, <4>2
    <3>2. CASE Broken
      BY <1>t, <3>2, BrokenTypes
    <3> QED
      BY <1>2, <3>1, <3>2 DEF Store
  <2>3. ASSUME NEW o \in Ops PROVE Submissions(o)' /\ Recorded(o)'
    BY <1>2, <1>t, <2>1 DEF Store, Submissions, Recorded
  <2> QED
    BY <1>2, <1>t, <2>1, <2>2, <2>3 DEF Store, LiveInv, TypeOK, RunTypes
<1>3. CASE Recheck
  <2>1. RunTypes'
    BY <1>3, <1>t, Locations, GotoTypes DEF Recheck, RunTypes, TypeOK
  <2>2. Place' /\ Reached'
    BY <1>3, <1>t DEF Recheck, Goto, Place, Reached, Secured, Sealed, Done, Recorded
  <2>3. \A o \in Ops : Submissions(o)' /\ Recorded(o)'
    BY <1>3, TrackedKeeps DEF Recheck, SameButRows
  <2> QED
    BY <1>3, <1>t, <2>1, <2>2, <2>3, Together DEF Recheck
<1>4. CASE Stored
  <2> DEFINE k == [ckpt[op] EXCEPT
           !.custody = TRUE,
           !.state = IF @ \in {"sealed_persisted", "registered", "complete"}
                     THEN @ ELSE "custody_persisted"]
  <2>0. ckpt[op].state = "prepared" /\ vault[op] /\ pc = "stored"
    BY <1>4, <1>t DEF Stored, Reached
  <2>1. k \in Checkpoint
    <3>1. k = [ckpt[op] EXCEPT !.custody = TRUE, !.state = "custody_persisted"]
      BY <2>0
    <3>2. TRUE \in BOOLEAN
      OBVIOUS
    <3> QED
      BY <1>k, <3>1, <3>2, StateNames DEF Checkpoint
  <2>2. /\ k.state = "custody_persisted" /\ k.calls = ckpt[op].calls
        /\ k.rejected = ckpt[op].rejected /\ k.retry = ckpt[op].retry
        /\ k.bytes = ckpt[op].bytes /\ k.custody /\ k.sealed = ckpt[op].sealed
    BY <1>k, <2>0 DEF Checkpoint
  <2> HIDE DEF k
  <2>3. Update(k)
    BY <1>4 DEF Stored, k
  <2>4. ckpt'[op] = k
    BY <1>t, <2>1, <2>3, UpdateTypes
  <2>5. RunTypes'
    BY <1>4, <1>t, Locations, GotoTypes DEF Stored
  <2>6. bucket[op].told = {}
    <3>1. Recorded(op)
      BY <1>t
    <3> QED
      BY <2>0, <3>1 DEF Recorded, Secured
  <2>7. Place' /\ Reached'
    BY <1>4, <1>t, <2>0, <2>2, <2>4, <2>6 DEF Stored, Goto, Place, Reached, world, Secured
  <2>8. ASSUME NEW o \in Ops, o = op, ckpt'[o] = k PROVE Submissions(o)' /\ Recorded(o)'
    BY <1>4, <1>t, <1>n, <2>0, <2>2, <2>8
    DEF Stored, Submissions, Recorded, world, Secured, Sealed, Done
  <2> QED
    BY <1>4, <2>1, <2>3, <2>5, <2>7, <2>8, Written DEF Stored
<1> QED
  BY <1>1, <1>2, <1>3, <1>4

\* A put that takes effect is a version that no run has been told of.
LEMMA NewVersion ==
    ASSUME NEW b \in Bucket, OneTold(b)
    PROVE  /\ WithVersion(b) \in Bucket
           /\ WithVersion(b).versions = b.versions \union {b.puts + 1}
           /\ WithVersion(b).told = b.told
           /\ WithVersion(b).puts = b.puts + 1
           /\ WithVersion(b).late = b.late
           /\ b.puts + 1 \notin b.versions \union b.told
           /\ b.puts + 1 \in Nat \ {0}
           /\ OneTold(WithVersion(b))
<1>1. b.puts \in Nat /\ b.versions \in SUBSET Nat /\ b.told \in SUBSET Nat /\ b.late \in Nat
  BY DEF Bucket
<1>p. PICK p : p = b.puts + 1
  OBVIOUS
<1>v. PICK v : v = b.versions \union {p}
  OBVIOUS
<1>2. WithVersion(b) = [b EXCEPT !.puts = p, !.versions = v]
  BY <1>p, <1>v DEF WithVersion
<1>3. p \in Nat \ {0} /\ v \in SUBSET Nat
  BY <1>1, <1>p, <1>v
<1>4. /\ WithVersion(b) \in Bucket
      /\ WithVersion(b).versions = v /\ WithVersion(b).puts = p
      /\ WithVersion(b).told = b.told /\ WithVersion(b).late = b.late
  BY <1>2, <1>3 DEF Bucket
<1>5. p \notin b.versions \union b.told
  BY <1>1, <1>p DEF OneTold
<1>6. b.versions \subseteq 1..p /\ b.told \subseteq 1..p /\ p \in 1..p
  BY <1>1, <1>p DEF OneTold
<1>7. OneTold(WithVersion(b))
  BY <1>4, <1>5, <1>6, <1>v DEF OneTold
<1> QED
  BY <1>3, <1>4, <1>5, <1>7, <1>p, <1>v

\* A put that is answered: the run is told of its version, and may delete it again.
Told(b, n) == [WithVersion(b) EXCEPT !.told = @ \union {n}]
Deleted(c, n) == [c EXCEPT !.versions = @ \ {n}]

LEMMA ToldVersion ==
    ASSUME NEW b \in Bucket, OneTold(b), b.versions \intersect b.told = {},
           NEW n, n = b.puts + 1, NEW d, d = Told(b, n) \/ d = Deleted(Told(b, n), n)
    PROVE  d \in Bucket /\ OneTold(d) /\ n \in Told(b, n).versions
<1>c. PICK c : c = Told(b, n)
  OBVIOUS
<1>w. PICK w : w = WithVersion(b)
  OBVIOUS
<1>0. /\ w \in Bucket /\ w.versions = b.versions \union {n} /\ w.told = b.told /\ w.puts = n
      /\ n \notin b.versions /\ n \notin b.told /\ n \in Nat \ {0}
      /\ b.versions \subseteq 1..n /\ b.told \subseteq 1..n /\ n \in 1..n
  <2>1. b.puts \in Nat
    BY DEF Bucket
  <2> QED
    BY <2>1, <1>w, NewVersion DEF OneTold
<1>t. PICK t : t = b.told \union {n}
  OBVIOUS
<1>1. c = [w EXCEPT !.told = t]
  BY <1>0, <1>w, <1>t, <1>c DEF Told
<1>2. t \in SUBSET Nat
  BY <1>0, <1>t DEF Bucket
<1>3. /\ c \in Bucket /\ c.versions = b.versions \union {n}
      /\ c.told = t /\ c.puts = n
  BY <1>0, <1>1, <1>2 DEF Bucket
<1>v. PICK v : v = c.versions \ {n}
  OBVIOUS
<1>4. /\ d \in Bucket /\ d.told = t /\ d.puts = n
      /\ d.versions \subseteq b.versions \union {n}
  <2>1. CASE d = c
    BY <1>3, <2>1
  <2>2. CASE d = [c EXCEPT !.versions = v]
    <3>1. v \in SUBSET Nat /\ v \subseteq b.versions \union {n}
      BY <1>3, <1>v DEF Bucket
    <3>2. d \in Bucket /\ d.told = c.told /\ d.puts = c.puts /\ d.versions = v
      BY <1>3, <2>2, <3>1 DEF Bucket
    <3> QED
      BY <1>3, <3>1, <3>2
  <2> QED
    BY <1>v, <1>c, <2>1, <2>2 DEF Deleted
<1>5. OneTold(d)
  BY <1>0, <1>4, <1>t DEF OneTold
<1> QED
  BY <1>c, <1>3, <1>4, <1>5

\* The facts about an operation hold when its bucket changes as a put changes it.
LEMMA BucketKeeps ==
    ASSUME LiveInv, NEW b \in Bucket, OneTold(b), bucket' = [bucket EXCEPT ![op] = b],
           ckpt[op].custody, ckpt[op].sealed # 0 => ckpt[op].sealed \in b.versions,
           UNCHANGED <<ckpt, outcomes, vault, certs, pending>>
    PROVE  /\ bucket' \in [Ops -> Bucket]
           /\ bucket'[op] = b
           /\ \A o \in Ops : Submissions(o)' /\ Recorded(o)'
<1>1. /\ bucket \in [Ops -> Bucket] /\ op \in Ops
      /\ \A o \in Ops : Submissions(o) /\ Recorded(o)
  BY DEF LiveInv, TypeOK
<1>2. bucket' \in [Ops -> Bucket] /\ bucket'[op] = b /\ \A o \in Ops \ {op} : bucket'[o] = bucket[o]
  BY <1>1
<1>3. ASSUME NEW o \in Ops PROVE Submissions(o)' /\ Recorded(o)'
  <2>1. CASE o = op
    BY <1>1, <1>2, <2>1 DEF Submissions, Recorded
  <2>2. CASE o # op
    BY <1>1, <1>2, <2>2, FactsKept DEF SameButRows
  <2> QED
    BY <2>1, <2>2
<1> QED
  BY <1>2, <1>3

LEMMA UploadStep ==
    ASSUME LiveInv, Upload \/ Reuse \/ Put \/ PutAgain \/ Uploaded
    PROVE  LiveInv'
<1>t. TypeOK /\ op \in Ops /\ cur \in Stage \union {"none"} /\ Place /\ Reached
      /\ ckpt \in [Ops -> Checkpoint] /\ (\A o \in Ops : Submissions(o) /\ Recorded(o))
  BY DEF LiveInv, TypeOK
<1>k. ckpt[op] \in Checkpoint /\ bucket[op] \in Bucket /\ OneTold(bucket[op])
  BY <1>t DEF TypeOK, Recorded
<1>n. \A o \in Ops : Len(outcomes[o]) \in Nat /\ outcomes[o] \in Seq(Answer)
  BY <1>t, LenProperties DEF TypeOK
<1>v. bucket[op].versions \subseteq Nat \ {0}
  BY <1>k DEF Bucket, OneTold
<1>1. CASE Upload
  <2>1. /\ pc = "upload" /\ ckpt[op].state \in Secured
        /\ ckpt[op].sealed = 0 /\ bucket[op].versions \intersect bucket[op].told = {}
    BY <1>1, <1>t DEF Upload, NeedsUpload, Reached, Recorded, Secured, Sealed
  <2>2. RunTypes'
    BY <1>1, <1>t, Locations, GotoTypes DEF Upload, RunTypes, TypeOK
  <2>3. Place' /\ Reached'
    BY <1>1, <1>t, <2>1 DEF Upload, Goto, Place, Reached, world
  <2>4. \A o \in Ops : Submissions(o)' /\ Recorded(o)'
    BY <1>1, TrackedKeeps DEF Upload, SameButRows
  <2> QED
    BY <1>1, <1>t, <2>2, <2>3, <2>4, Together DEF Upload
<1>2. CASE Reuse
  <2>1. ~service /\ ckpt[op].state \in Secured /\ pc = "upload"
    BY <1>2, <1>t DEF Reuse, NeedsUpload, Reached
  <2>2. PICK v \in bucket[op].versions : held' = v /\ (ckpt[op].sealed # 0 => v = ckpt[op].sealed)
    BY <1>2 DEF Reuse
  <2>3. v \in Nat \ {0} /\ pc' = "uploaded" /\ UNCHANGED <<op, at, cur, service, failures>>
    BY <1>2, <1>v, <2>2 DEF Reuse
  <2>4. RunTypes'
    BY <1>t, <2>2, <2>3, Locations DEF RunTypes, TypeOK
  <2>5. Place' /\ Reached'
    BY <1>2, <1>t, <2>1, <2>2, <2>3 DEF Reuse, Place, Reached, world
  <2>6. \A o \in Ops : Submissions(o)' /\ Recorded(o)'
    BY <1>2, TrackedKeeps DEF Reuse, SameButRows
  <2> QED
    BY <1>2, <1>t, <2>4, <2>5, <2>6, Together DEF Reuse
<1>4. CASE Put
  <2>1. /\ pc = "put" /\ ckpt[op].state \in Secured /\ ckpt[op].sealed = 0 /\ ckpt[op].custody
        /\ bucket[op].versions \intersect bucket[op].told = {}
        /\ service => ckpt[op].state = "custody_persisted"
    BY <1>4, <1>t DEF Put, Reached, Recorded
  <2>n. PICK n : n = bucket[op].puts + 1
    OBVIOUS
  <2>b. PICK b : b = [WithVersion(bucket[op]) EXCEPT !.told = @ \union {n}]
    OBVIOUS
  <2>2. \/ /\ bucket' = [bucket EXCEPT ![op] = b]
           /\ held' = n
           /\ pc' = "uploaded"
           /\ UNCHANGED <<op, at, cur, service, failures>>
        \/ /\ \/ bucket' = [bucket EXCEPT ![op] = b]
              \/ bucket' = [bucket EXCEPT ![op] = [b EXCEPT !.versions = @ \ {n}]]
           /\ Broken
    BY <1>4, <2>n, <2>b DEF Put
  <2>3. PICK d : d \in {b, [b EXCEPT !.versions = @ \ {n}]} /\ bucket' = [bucket EXCEPT ![op] = d]
                 /\ (d = b \/ Broken)
    BY <2>2
  <2>4. d \in Bucket /\ OneTold(d) /\ n \in b.versions
    <3>1. b = Told(bucket[op], n)
      BY <2>b DEF Told
    <3>2. d = Told(bucket[op], n) \/ d = Deleted(Told(bucket[op], n), n)
      BY <2>3, <3>1 DEF Deleted
    <3> QED
      BY <1>k, <2>1, <2>n, <3>1, <3>2, ToldVersion
  <2>5. UNCHANGED <<ckpt, outcomes, vault, certs, pending, report>>
    BY <1>4 DEF Put
  <2>6. /\ bucket' \in [Ops -> Bucket] /\ bucket'[op] = d
        /\ \A o \in Ops : Submissions(o)' /\ Recorded(o)'
    BY <2>1, <2>3, <2>4, <2>5, BucketKeeps
  <2>7. RunTypes' /\ Place' /\ Reached'
    <3>1. CASE /\ bucket' = [bucket EXCEPT ![op] = b]
               /\ held' = n
               /\ pc' = "uploaded"
               /\ UNCHANGED <<op, at, cur, service, failures>>
      <4>1. n \in Nat \ {0}
        BY <1>k, <2>n, NewVersion
      <4>2. RunTypes'
        BY <1>t, <3>1, <4>1, Locations DEF RunTypes, TypeOK
      <4>3. bucket'[op] = b
        BY <1>t, <3>1 DEF TypeOK
      <4>4. Place'
        BY <1>t, <2>1, <3>1 DEF Place
      <4>5. Reached'
        BY <2>1, <2>4, <2>5, <3>1, <4>1, <4>3 DEF Reached
      <4> QED
        BY <4>2, <4>4, <4>5
    <3>2. CASE Broken
      BY <1>t, <3>2, BrokenTypes
    <3> QED
      BY <2>2, <3>1, <3>2
  <2> QED
    BY <1>t, <2>5, <2>6, <2>7 DEF LiveInv, TypeOK, RunTypes
<1>5. CASE PutAgain
  <2>b. PICK b : b = [bucket[op] EXCEPT !.late = @ + 1]
    OBVIOUS
  <2>1. /\ bucket' = [bucket EXCEPT ![op] = b]
        /\ UNCHANGED <<ckpt, outcomes, vault, certs, pending, report, run>>
        /\ failures' = failures + 1 /\ pc = "put"
    BY <1>5, <2>b DEF PutAgain
  <2>2. /\ b \in Bucket /\ OneTold(b)
        /\ b.versions = bucket[op].versions /\ b.told = bucket[op].told
    BY <1>k, <2>b DEF Bucket, OneTold
  <2>3. ckpt[op].custody /\ ckpt[op].sealed = 0
    BY <1>t, <2>1 DEF Reached, Recorded
  <2>4. /\ bucket' \in [Ops -> Bucket] /\ bucket'[op] = b
        /\ \A o \in Ops : Submissions(o)' /\ Recorded(o)'
    BY <2>1, <2>2, <2>3, BucketKeeps
  <2>5. Place' /\ Reached'
    BY <1>t, <2>1, <2>2, <2>4 DEF run, Place, Reached
  <2> QED
    BY <1>t, <2>1, <2>4, <2>5 DEF run, LiveInv, TypeOK
<1>3. CASE Uploaded
  <2> DEFINE k == [ckpt[op] EXCEPT
           !.sealed = held,
           !.state = IF @ \in {"registered", "complete"} THEN @ ELSE "sealed_persisted"]
             st == IF ckpt[op].state \in {"registered", "complete"}
                   THEN ckpt[op].state ELSE "sealed_persisted"
  <2>0. /\ held \in bucket[op].versions /\ held # 0 /\ pc = "uploaded"
        /\ ckpt[op].state \in Secured /\ (ckpt[op].sealed # 0 => held = ckpt[op].sealed)
    BY <1>3, <1>t DEF Uploaded, Reached
  <2>1. k \in Checkpoint
    <3>1. k = [ckpt[op] EXCEPT !.sealed = held, !.state = st]
      OBVIOUS
    <3>2. st \in State /\ held \in Nat
      BY <1>k, <1>t, StateNames DEF Checkpoint, TypeOK
    <3> HIDE DEF st, k
    <3> QED
      BY <1>k, <3>1, <3>2 DEF Checkpoint
  <2>2. /\ k.state = st /\ k.calls = ckpt[op].calls
        /\ k.rejected = ckpt[op].rejected /\ k.retry = ckpt[op].retry
        /\ k.bytes = ckpt[op].bytes /\ k.custody = ckpt[op].custody /\ k.sealed = held
    BY <1>k DEF Checkpoint
  <2>3. Update(k)
    BY <1>3 DEF Uploaded
  <2> HIDE DEF k
  <2>4. ckpt'[op] = k
    BY <1>t, <2>1, <2>3, UpdateTypes
  <2>5. RunTypes'
    BY <1>3, <1>t, Locations, GotoTypes DEF Uploaded
  <2>6. service => ckpt[op].state \notin Done
    BY <1>t, <2>0 DEF Reached, Done
  <2>7. Place' /\ Reached'
    <3>1. /\ pc' = (IF ckpt[op].state \in Done THEN "verify" ELSE "sign")
          /\ op' = op /\ at' = at /\ service' = service /\ at = 1
      BY <1>3, <1>t, <2>0 DEF Uploaded, Goto, Done, Place
    <3>2. Place'
      BY <3>1, StageTypes DEF Place
    <3>3. ckpt'[op].state = st
      BY <2>2, <2>4
    <3>4. Reached'
      BY <2>0, <2>6, <3>1, <3>3 DEF Reached, Secured, Done
    <3> QED
      BY <3>2, <3>4
  <2>8. ASSUME NEW o \in Ops, o = op, ckpt'[o] = k PROVE Submissions(o)' /\ Recorded(o)'
    BY <1>3, <1>t, <1>n, <2>0, <2>2, <2>8
    DEF Uploaded, Submissions, Recorded, world, Secured, Sealed, Done
  <2> QED
    BY <1>3, <2>1, <2>3, <2>5, <2>7, <2>8, Written DEF Uploaded
<1> QED
  BY <1>1, <1>2, <1>3, <1>4, <1>5

\* A registration with the recorded version leaves the certificate that agrees with it.
LEMMA AdmittedCert ==
    ASSUME LiveInv, NEW o \in Ops, NEW v \in Nat,
           ckpt[o].state \in Sealed, v = ckpt[o].sealed,
           certs' = [certs EXCEPT ![o] = Admitted(o, v)]
    PROVE  /\ certs' \in [Ops -> [status : {"absent", "active", "revoked"}, sealed : Nat]]
           /\ certs'[o].status # "absent" /\ certs'[o].sealed = ckpt[o].sealed
           /\ \A p \in Ops \ {o} : certs'[p] = certs[p]
<1>1. certs \in [Ops -> [status : {"absent", "active", "revoked"}, sealed : Nat]] /\ Recorded(o)
  BY DEF LiveInv, TypeOK
<1>2. /\ Admitted(o, v) \in [status : {"absent", "active", "revoked"}, sealed : Nat]
      /\ Admitted(o, v).status # "absent" /\ Admitted(o, v).sealed = ckpt[o].sealed
  <2>1. CASE certs[o].status = "absent"
    BY <2>1 DEF Admitted
  <2>2. CASE certs[o].status # "absent"
    BY <1>1, <2>2 DEF Admitted, Recorded
  <2> QED
    BY <2>1, <2>2
<1> QED
  BY <1>1, <1>2

LEMMA RegistrationStep ==
    ASSUME LiveInv, Sign \/ Announce \/ Register \/ RegisterRefused \/ Registered \/ Confirm
    PROVE  LiveInv'
<1>t. TypeOK /\ op \in Ops /\ cur \in Stage \union {"none"} /\ Place /\ Reached
      /\ ckpt \in [Ops -> Checkpoint] /\ (\A o \in Ops : Submissions(o) /\ Recorded(o))
  BY DEF LiveInv, TypeOK
<1>k. ckpt[op] \in Checkpoint
  BY <1>t
<1>n. \A o \in Ops : Len(outcomes[o]) \in Nat /\ outcomes[o] \in Seq(Answer)
  BY <1>t, LenProperties DEF TypeOK
<1>s. "envelope_signature" \in Stage /\ "supabase_registration" \in Stage
  BY DEF Stage
<1>1. CASE Sign
  <2>1. /\ ckpt' \in [Ops -> Checkpoint] /\ cur' \in Stage \union {"none"}
        /\ \A o \in Ops : SameButRows(ckpt'[o], ckpt[o])
    BY <1>1, <1>s, <1>t, BeginKeeps DEF Sign
  <2>2. RunTypes'
    BY <1>1, <1>t, <2>1, Locations, GotoTypes DEF Sign
  <2>3. Place' /\ Reached'
    BY <1>1, <1>t, <2>1 DEF Sign, Goto, Place, Reached, SameButRows, Secured
  <2>4. \A o \in Ops : Submissions(o)' /\ Recorded(o)'
    BY <1>1, <2>1, TrackedKeeps DEF Sign
  <2> QED
    BY <1>1, <1>t, <2>1, <2>2, <2>3, <2>4, Together DEF Sign
<1>2. CASE Announce
  <2>1. /\ ckpt' \in [Ops -> Checkpoint] /\ cur' \in Stage \union {"none"}
        /\ \A o \in Ops : SameButRows(ckpt'[o], ckpt[o])
    BY <1>2, <1>s, <1>t, BeginKeeps DEF Announce
  <2>2. RunTypes'
    BY <1>2, <1>t, <2>1, Locations, GotoTypes DEF Announce
  <2>3. Place' /\ Reached'
    <3>1. /\ ckpt[op].state = "sealed_persisted" /\ UNCHANGED <<op, at, service, certs>>
          /\ pc' = "register" \/ (pc' = "registered" /\ certs[op].status # "absent")
          /\ at = 1
      BY <1>2, <1>t DEF Announce, Goto, Reached, Place, world
    <3>2. ckpt'[op].state = "sealed_persisted"
      BY <1>t, <2>1, <3>1 DEF SameButRows
    <3> QED
      BY <3>1, <3>2 DEF Place, Reached
  <2>4. \A o \in Ops : Submissions(o)' /\ Recorded(o)'
    BY <1>2, <2>1, TrackedKeeps DEF Announce
  <2> QED
    BY <1>2, <1>t, <2>1, <2>2, <2>3, <2>4, Together DEF Announce
<1>3. CASE Register
  <2>1. pc = "register" /\ ckpt[op].state = "sealed_persisted"
    BY <1>3, <1>t DEF Register, Reached
  <2>2. /\ certs' \in [Ops -> [status : {"absent", "active", "revoked"}, sealed : Nat]]
        /\ certs'[op].status # "absent" /\ certs'[op].sealed = ckpt[op].sealed
        /\ \A o \in Ops \ {op} : certs'[o] = certs[o]
    <3>1. ckpt[op].sealed \in Nat /\ ckpt[op].state \in Sealed
      BY <1>k, <2>1 DEF Checkpoint, Sealed
    <3>2. certs' = [certs EXCEPT ![op] = Admitted(op, ckpt[op].sealed)]
      BY <1>3 DEF Register
    <3> QED
      BY <1>t, <3>1, <3>2, AdmittedCert
  <2>3. RunTypes'
    BY <1>3, <1>t, Locations, GotoTypes DEF Register
  <2>4. Place' /\ Reached'
    BY <1>3, <1>t, <2>1, <2>2 DEF Register, Goto, Place, Reached
  <2>5. ASSUME NEW o \in Ops PROVE Submissions(o)' /\ Recorded(o)'
    <3>1. CASE o = op
      BY <1>3, <1>t, <2>1, <2>2, <3>1 DEF Register, Submissions, Recorded, Sealed, Done
    <3>2. CASE o # op
      BY <1>3, <1>t, <2>2, <3>2, FactsKept DEF Register, SameButRows
    <3> QED
      BY <3>1, <3>2
  <2> QED
    BY <1>3, <1>t, <2>2, <2>3, <2>4, <2>5 DEF Register, LiveInv, TypeOK, RunTypes
<1>4. CASE RegisterRefused
  <2>1. RunTypes' /\ Place' /\ Reached'
    BY <1>4, <1>t, OverTypes DEF RegisterRefused, TypeOK
  <2>2. \A o \in Ops : Submissions(o)' /\ Recorded(o)'
    BY <1>4, TrackedKeeps DEF RegisterRefused, SameButRows
  <2> QED
    BY <1>4, <1>t, <2>1, <2>2, Together DEF RegisterRefused
<1>5. CASE Registered
  <2> DEFINE k == [ckpt[op] EXCEPT !.state = "registered"]
  <2>0. pc = "registered" /\ ckpt[op].state = "sealed_persisted" /\ certs[op].status # "absent"
    BY <1>5, <1>t DEF Registered, Reached
  <2>1. k \in Checkpoint
    BY <1>k, StateNames DEF Checkpoint
  <2>2. /\ k.state = "registered" /\ k.calls = ckpt[op].calls
        /\ k.rejected = ckpt[op].rejected /\ k.retry = ckpt[op].retry
        /\ k.bytes = ckpt[op].bytes /\ k.custody = ckpt[op].custody /\ k.sealed = ckpt[op].sealed
    BY <1>k DEF Checkpoint
  <2>3. Update(k)
    BY <1>5 DEF Registered
  <2> HIDE DEF k
  <2>4. ckpt'[op] = k
    BY <1>t, <2>1, <2>3, UpdateTypes
  <2>5. RunTypes'
    BY <1>5, <1>t, Locations, GotoTypes DEF Registered
  <2>6. at = 1
    BY <1>t, <2>0 DEF Place
  <2>7. Place' /\ Reached'
    <3>1. /\ pc' = (IF service THEN "confirm" ELSE "verify")
          /\ op' = op /\ at' = 1 /\ service' = service
      BY <1>5, <2>6 DEF Registered, Goto
    <3>2. Place'
      BY <3>1, StageTypes DEF Place
    <3>3. ckpt'[op].state = "registered"
      BY <2>2, <2>4
    <3>4. Reached'
      BY <3>1, <3>3 DEF Reached, Done
    <3> QED
      BY <3>2, <3>4
  <2>8. ASSUME NEW o \in Ops, o = op, ckpt'[o] = k PROVE Submissions(o)' /\ Recorded(o)'
    BY <1>5, <1>t, <1>n, <2>0, <2>2, <2>8
    DEF Registered, Submissions, Recorded, world, Secured, Sealed, Done
  <2> QED
    BY <1>5, <2>1, <2>3, <2>5, <2>7, <2>8, Written DEF Registered
<1>6. CASE Confirm
  <2>1. RunTypes'
    BY <1>6, <1>t, Locations DEF Confirm, RunTypes, TypeOK
  <2>2. Place' /\ Reached'
    BY <1>6, <1>t DEF Confirm, Place, Reached, Done, Secured
  <2>3. \A o \in Ops : Submissions(o)' /\ Recorded(o)'
    BY <1>6, TrackedKeeps DEF Confirm, SameButRows
  <2> QED
    BY <1>6, <1>t, <2>1, <2>2, <2>3, Together DEF Confirm
<1> QED
  BY <1>1, <1>2, <1>3, <1>4, <1>5, <1>6

LEMMA VerificationStep ==
    ASSUME LiveInv, VerifyStage \/ VerifyFails \/ LastRow \/ Complete
    PROVE  LiveInv'
<1>t. TypeOK /\ op \in Ops /\ cur \in Stage \union {"none"} /\ Place /\ Reached
      /\ ckpt \in [Ops -> Checkpoint] /\ (\A o \in Ops : Submissions(o) /\ Recorded(o))
  BY DEF LiveInv, TypeOK
<1>k. ckpt[op] \in Checkpoint
  BY <1>t
<1>n. \A o \in Ops : Len(outcomes[o]) \in Nat /\ outcomes[o] \in Seq(Answer)
  BY <1>t, LenProperties DEF TypeOK
<1>v. pc = "verify" => VerifyStages[at] \in Stage
  BY <1>t, StageTypes, ElementOfSeq DEF Place
<1>1. CASE VerifyStage
  <2>1. /\ ckpt' \in [Ops -> Checkpoint] /\ cur' \in Stage \union {"none"}
        /\ \A o \in Ops : SameButRows(ckpt'[o], ckpt[o])
    BY <1>1, <1>v, <1>t, BeginKeeps DEF VerifyStage
  <2>2. at \in 1..Len(VerifyStages) /\ Len(VerifyStages) = 5
    BY <1>1, <1>t, StageTypes DEF VerifyStage, Place
  <2>3. RunTypes'
    BY <1>1, <1>t, <2>1, <2>2, Locations DEF VerifyStage, RunTypes, TypeOK
  <2>4. Place'
    BY <1>1, <1>t, <2>2 DEF VerifyStage, Place
  <2>5. Reached'
    BY <1>1, <1>t, <2>1 DEF VerifyStage, Reached, SameButRows
  <2>6. \A o \in Ops : Submissions(o)' /\ Recorded(o)'
    BY <1>1, <2>1, TrackedKeeps DEF VerifyStage
  <2> QED
    BY <1>1, <1>t, <2>1, <2>3, <2>4, <2>5, <2>6, Together DEF VerifyStage
<1>2. CASE VerifyFails
  <2> DEFINE k == Tracked(ckpt[op], VerifyStages[at])
  <2>1. k \in Checkpoint /\ SameButRows(k, ckpt[op])
    <3>1. PICK r \in Seq(Stage) : k = [ckpt[op] EXCEPT !.rows = r]
      BY <1>t, <1>k, TrackedTypes
    <3>2. SameButRows(k, ckpt[op])
      BY <1>k, <3>1 DEF SameButRows, Checkpoint
    <3> QED
      BY <1>t, <1>k, <3>2, TrackedTypes
  <2>2. Update(k)
    BY <1>2 DEF VerifyFails
  <2> HIDE DEF k
  <2>3. RunTypes' /\ Place' /\ Reached'
    BY <1>2, <1>t, OverTypes DEF VerifyFails, TypeOK
  <2>4. ASSUME NEW o \in Ops, o = op, ckpt'[o] = k PROVE Submissions(o)' /\ Recorded(o)'
    BY <1>2, <1>t, <2>1, <2>4, FactsKept DEF VerifyFails, world
  <2> QED
    BY <1>2, <2>1, <2>2, <2>3, <2>4, Written DEF VerifyFails
<1>3. CASE LastRow
  <2> DEFINE k == [ckpt[op] EXCEPT !.rows = Append(@, cur)]
  <2>1. k \in Checkpoint /\ SameButRows(k, ckpt[op])
    <3>1. Append(ckpt[op].rows, cur) \in Seq(Stage)
      BY <1>3, <1>t, <1>k, AppendProperties DEF LastRow, Checkpoint
    <3> QED
      BY <1>k, <3>1 DEF SameButRows, Checkpoint
  <2>2. Update(k)
    BY <1>3 DEF LastRow
  <2> HIDE DEF k
  <2>3. ckpt'[op] = k
    BY <1>t, <2>1, <2>2, UpdateTypes
  <2>4. RunTypes'
    BY <1>3, <1>t, Locations, GotoTypes DEF LastRow
  <2>5. Place' /\ Reached'
    BY <1>3, <1>t, <2>1, <2>3 DEF LastRow, Goto, Place, Reached, SameButRows
  <2>6. ASSUME NEW o \in Ops, o = op, ckpt'[o] = k PROVE Submissions(o)' /\ Recorded(o)'
    BY <1>3, <1>t, <2>1, <2>6, FactsKept DEF LastRow, world
  <2> QED
    BY <1>3, <2>1, <2>2, <2>4, <2>5, <2>6, Written DEF LastRow
<1>4. CASE Complete
  <2> DEFINE k == [ckpt[op] EXCEPT !.state = "complete"]
  <2>0. pc = "complete" /\ ckpt[op].state \in Done /\ ~service /\ at = 1
    BY <1>4, <1>t DEF Complete, Reached, Place
  <2>1. k \in Checkpoint
    BY <1>k, StateNames DEF Checkpoint
  <2>2. /\ k.state = "complete" /\ k.calls = ckpt[op].calls
        /\ k.rejected = ckpt[op].rejected /\ k.retry = ckpt[op].retry
        /\ k.bytes = ckpt[op].bytes /\ k.custody = ckpt[op].custody /\ k.sealed = ckpt[op].sealed
    BY <1>k DEF Checkpoint
  <2>3. Update(k)
    BY <1>4 DEF Complete
  <2> HIDE DEF k
  <2>4. RunTypes'
    BY <1>4, <1>t, Locations DEF Complete, RunTypes, TypeOK, Ops
  <2>5. Place' /\ Reached'
    BY <1>4, <2>0 DEF Complete, Place, Reached
  <2>6. ASSUME NEW o \in Ops, o = op, ckpt'[o] = k PROVE Submissions(o)' /\ Recorded(o)'
    BY <1>4, <1>t, <1>n, <2>0, <2>2, <2>6
    DEF Complete, Submissions, Recorded, world, Secured, Sealed, Done
  <2> QED
    BY <1>4, <2>1, <2>3, <2>4, <2>5, <2>6, Written DEF Complete
<1> QED
  BY <1>1, <1>2, <1>3, <1>4

LEMMA EndStep ==
    ASSUME LiveInv, \/ Finalize \/ FinalizeFails \/ ResumeExisting \/ Interrupt
                \/ (\E o \in Ops : LatePut(o) \/ LateRegister(o) \/ Revoke(o))
    PROVE  LiveInv'
<1>t. TypeOK /\ op \in Ops /\ cur \in Stage \union {"none"} /\ Place /\ Reached
      /\ ckpt \in [Ops -> Checkpoint] /\ (\A o \in Ops : Submissions(o) /\ Recorded(o))
  BY DEF LiveInv, TypeOK
<1>1. CASE Finalize
  <2>1. RunTypes' /\ Place' /\ Reached'
    BY <1>1, <1>t, OverTypes DEF Finalize, TypeOK
  <2>2. \A o \in Ops : Submissions(o)' /\ Recorded(o)'
    BY <1>1, <1>t, FactsKept DEF Finalize, SameButRows
  <2> QED
    BY <1>1, <1>t, <2>1, <2>2 DEF Finalize, LiveInv, TypeOK, RunTypes
<1>2. CASE FinalizeFails
  <2>1. RunTypes' /\ Place' /\ Reached'
    BY <1>2, <1>t, OverTypes, BrokenTypes DEF FinalizeFails, TypeOK
  <2>2. \A o \in Ops : Submissions(o)' /\ Recorded(o)'
    BY <1>2, TrackedKeeps DEF FinalizeFails, SameButRows
  <2> QED
    BY <1>2, <1>t, <2>1, <2>2, Together DEF FinalizeFails
<1>3. CASE ResumeExisting
  <2>1. \A o \in Ops : Submissions(o)' /\ Recorded(o)'
    BY <1>3, <1>t, FactsKept DEF ResumeExisting, SameButRows
  <2>2. Place' /\ Reached'
    BY <1>3, <1>t DEF ResumeExisting, run, Place, Reached
  <2> QED
    BY <1>3, <1>t, <2>1, <2>2 DEF ResumeExisting, run, LiveInv, TypeOK
<1>4. CASE Interrupt
  <2>1. RunTypes' /\ Place' /\ Reached'
    BY <1>4, <1>t, BrokenTypes DEF Interrupt
  <2>2. UNCHANGED <<ckpt, outcomes, vault, certs, report>>
    BY <1>4 DEF Interrupt
  <2>3. /\ bucket' \in [Ops -> Bucket]
        /\ \A o \in Ops : /\ bucket'[o].versions = bucket[o].versions
                          /\ bucket'[o].told = bucket[o].told
                          /\ bucket'[o].puts = bucket[o].puts
    <3>1. bucket \in [Ops -> Bucket] /\ bucket[op] \in Bucket
      BY <1>t DEF TypeOK
    <3>b. PICK b : b = [bucket[op] EXCEPT !.late = @ + 1]
      OBVIOUS
    <3>2. /\ b \in Bucket /\ b.versions = bucket[op].versions
          /\ b.told = bucket[op].told /\ b.puts = bucket[op].puts
      BY <3>1, <3>b DEF Bucket
    <3>3. bucket' = bucket \/ bucket' = [bucket EXCEPT ![op] = b]
      BY <1>4, <3>b DEF Interrupt
    <3> QED
      BY <1>t, <3>1, <3>2, <3>3
  <2>4. /\ pending' \in [Ops -> SUBSET Nat]
        /\ \A o \in Ops : \A v \in pending'[o] :
              v \in pending[o] \/ (ckpt[o].state \in Sealed /\ v = ckpt[o].sealed)
    <3>1. CASE pc = "register"
      <4>1. pending' = [pending EXCEPT ![op] = @ \union {ckpt[op].sealed}]
        BY <1>4, <3>1 DEF Interrupt
      <4>2. ckpt[op].sealed \in Nat /\ ckpt[op].state \in Sealed
        BY <1>t, <3>1 DEF Checkpoint, Sealed, Reached
      <4> QED
        BY <1>t, <4>1, <4>2 DEF TypeOK
    <3>2. CASE pc # "register"
      BY <1>4, <1>t, <3>2 DEF Interrupt, TypeOK
    <3> QED
      BY <3>1, <3>2
  <2>5. ASSUME NEW o \in Ops PROVE Submissions(o)' /\ Recorded(o)'
    BY <1>t, <2>2, <2>3, <2>4 DEF Submissions, Recorded, OneTold
  <2> QED
    BY <1>t, <2>1, <2>2, <2>3, <2>4, <2>5 DEF LiveInv, TypeOK, RunTypes
<1>6. ASSUME NEW o \in Ops, LatePut(o) PROVE LiveInv'
  <2>1. bucket \in [Ops -> Bucket] /\ bucket[o] \in Bucket /\ OneTold(bucket[o])
    BY <1>t DEF TypeOK, Recorded
  <2>w. PICK w : w = WithVersion(bucket[o])
    OBVIOUS
  <2>b. PICK b : b = [w EXCEPT !.late = @ - 1]
    OBVIOUS
  <2>2. /\ bucket' = [bucket EXCEPT ![o] = b] /\ bucket[o].late > 0
        /\ UNCHANGED <<ckpt, outcomes, vault, certs, pending, report, run, failures>>
    BY <1>6, <2>1, <2>w, <2>b DEF LatePut
  <2>3. /\ w \in Bucket /\ OneTold(w) /\ w.late = bucket[o].late /\ w.told = bucket[o].told
        /\ w.versions = bucket[o].versions \union {bucket[o].puts + 1}
        /\ bucket[o].puts + 1 \notin bucket[o].told
    BY <2>1, <2>w, NewVersion
  <2>4. /\ b \in Bucket /\ OneTold(b) /\ b.versions = w.versions /\ b.told = w.told
    BY <2>2, <2>3, <2>b DEF Bucket, OneTold
  <2>5. /\ bucket' \in [Ops -> Bucket] /\ bucket'[o] = b
        /\ \A p \in Ops \ {o} : bucket'[p] = bucket[p]
    BY <2>1, <2>2, <2>4
  <2>6. ASSUME NEW p \in Ops PROVE Submissions(p)' /\ Recorded(p)'
    <3>1. CASE p = o
      BY <1>t, <2>2, <2>3, <2>4, <2>5, <3>1 DEF Submissions, Recorded
    <3>2. CASE p # o
      BY <1>t, <2>2, <2>5, <3>2, FactsKept DEF SameButRows
    <3> QED
      BY <3>1, <3>2
  <2>7. Place'
    BY <1>t, <2>2 DEF run, Place
  <2>8. /\ bucket'[op].told = bucket[op].told
        /\ bucket[op].versions \subseteq bucket'[op].versions
        /\ bucket'[op].versions \intersect bucket'[op].told
              = bucket[op].versions \intersect bucket[op].told
    <3>1. CASE op = o
      BY <2>3, <2>4, <2>5, <3>1
    <3>2. CASE op # o
      BY <1>t, <2>5, <3>2
    <3> QED
      BY <3>1, <3>2
  <2>9. Reached'
    BY <1>t, <2>2, <2>8 DEF run, Reached
  <2> QED
    BY <1>t, <2>2, <2>5, <2>6, <2>7, <2>9 DEF run, LiveInv, TypeOK
<1>7. ASSUME NEW o \in Ops, LateRegister(o) PROVE LiveInv'
  <2>1. PICK v \in pending[o] : /\ pending' = [pending EXCEPT ![o] = @ \ {v}]
                                /\ certs' = [certs EXCEPT ![o] = Admitted(o, v)]
    BY <1>7 DEF LateRegister
  <2>2. UNCHANGED <<ckpt, outcomes, vault, bucket, report, run, failures>>
    BY <1>7 DEF LateRegister
  <2>3. v \in Nat /\ ckpt[o].state \in Sealed /\ v = ckpt[o].sealed
    BY <1>t, <2>1 DEF TypeOK, Recorded
  <2>4. /\ certs' \in [Ops -> [status : {"absent", "active", "revoked"}, sealed : Nat]]
        /\ certs'[o].status # "absent" /\ certs'[o].sealed = ckpt[o].sealed
        /\ \A p \in Ops \ {o} : certs'[p] = certs[p]
    BY <2>1, <2>3, AdmittedCert
  <2>5. /\ pending' \in [Ops -> SUBSET Nat]
        /\ pending'[o] \subseteq pending[o]
        /\ \A p \in Ops \ {o} : pending'[p] = pending[p]
    BY <1>t, <2>1 DEF TypeOK
  <2>6. ASSUME NEW p \in Ops PROVE Submissions(p)' /\ Recorded(p)'
    <3>1. CASE p = o
      BY <1>t, <2>2, <2>3, <2>4, <2>5, <3>1 DEF Submissions, Recorded
    <3>2. CASE p # o
      BY <1>t, <2>2, <2>4, <2>5, <3>2, FactsKept DEF SameButRows
    <3> QED
      BY <3>1, <3>2
  <2>7. Place'
    BY <1>t, <2>2 DEF run, Place
  <2>8. \A p \in Ops : certs[p].status # "absent" => certs'[p].status # "absent"
    BY <2>4
  <2>9. Reached'
    BY <1>t, <2>2, <2>8 DEF run, Reached
  <2> QED
    BY <1>t, <2>2, <2>4, <2>5, <2>6, <2>7, <2>9 DEF run, LiveInv, TypeOK
<1>5. ASSUME NEW o \in Ops, Revoke(o) PROVE LiveInv'
  <2>1. /\ certs' \in [Ops -> [status : {"absent", "active", "revoked"}, sealed : Nat]]
        /\ certs[o].status = "active" /\ certs'[o].status = "revoked"
        /\ certs'[o].sealed = certs[o].sealed
        /\ \A p \in Ops \ {o} : certs'[p] = certs[p]
    <3>1. certs \in [Ops -> [status : {"absent", "active", "revoked"}, sealed : Nat]]
      BY <1>t DEF TypeOK
    <3>c. PICK c : c = [certs[o] EXCEPT !.status = "revoked"]
      OBVIOUS
    <3>2. /\ c \in [status : {"absent", "active", "revoked"}, sealed : Nat]
          /\ c.status = "revoked" /\ c.sealed = certs[o].sealed
      BY <3>1, <3>c
    <3>3. certs' = [certs EXCEPT ![o] = c] /\ certs[o].status = "active"
      BY <1>5, <3>c DEF Revoke
    <3> QED
      BY <3>1, <3>2, <3>3
  <2>2. ASSUME NEW p \in Ops PROVE Submissions(p)' /\ Recorded(p)'
    <3>1. CASE p = o
      BY <1>5, <1>t, <2>1, <3>1 DEF Revoke, Submissions, Recorded
    <3>2. CASE p # o
      BY <1>5, <1>t, <2>1, <3>2, FactsKept DEF Revoke, SameButRows
    <3> QED
      BY <3>1, <3>2
  <2>3. Place'
    BY <1>5, <1>t DEF Revoke, run, Place
  <2>4. \A p \in Ops : certs[p].status # "absent" => certs'[p].status # "absent"
    BY <2>1
  <2>5. Reached'
    BY <1>5, <1>t, <2>4 DEF Revoke, run, Reached
  <2> QED
    BY <1>5, <1>t, <2>1, <2>2, <2>3, <2>5 DEF Revoke, run, LiveInv, TypeOK
<1> QED
  BY <1>1, <1>2, <1>3, <1>4, <1>5, <1>6, <1>7

LEMMA NextInv ==
    ASSUME LiveInv, [Next]_vars
    PROVE  LiveInv'
<1>1. CASE UNCHANGED vars
  BY <1>1 DEF LiveInv, TypeOK, Place, Submissions, Recorded, Reached, vars
<1>2. CASE Next
  BY <1>2, AdmissionStep, ServiceStep, CustodyStep, UploadStep, RegistrationStep,
     VerificationStep, EndStep DEF Next, Step
<1> QED
  BY <1>1, <1>2

\* The invariant the theorems below follow from.
THEOREM LiveInvHolds == Spec => []LiveInv
BY InitInv, NextInv, PTL DEF Spec

-------------------------------------------------------------------------------
(* What a reader should know. *)

\* Type correctness, whatever number of runs is interrupted.
THEOREM LiveTypes == Spec => []TypeOK
<1>1. LiveInv => TypeOK
  BY DEF LiveInv
<1> QED
  BY <1>1, LiveInvHolds, PTL

\* A provider is asked again only after it has definitively refused, and then once: no
\* interruption makes the script pay twice.
THEOREM OneCallIsBilled == Spec => []OneBillableCall
<1>1. LiveInv => OneBillableCall
  <2> SUFFICES ASSUME LiveInv, NEW o \in Ops
               PROVE  /\ Len(outcomes[o]) <= 2
                      /\ Len(outcomes[o]) = 2 => outcomes[o][1] = "refused"
    BY DEF OneBillableCall
  <2>1. ckpt[o].rejected \in Nat /\ ckpt[o] \in Checkpoint
    BY DEF LiveInv, TypeOK, Checkpoint
  <2>2. Len(outcomes[o]) \in Nat
    BY LenProperties DEF LiveInv, TypeOK
  <2>3. Submissions(o)
    BY DEF LiveInv
  <2>4. /\ ckpt[o].rejected <= 2 /\ Len(outcomes[o]) <= ckpt[o].rejected + 1
        /\ ckpt[o].state # "provider_rejected" => ckpt[o].rejected <= 1
        /\ ckpt[o].state = "provider_rejected" => Len(outcomes[o]) = ckpt[o].rejected
    BY <2>3 DEF Submissions
  <2>5. ckpt[o].rejected >= 1 /\ (ckpt[o].state # "provider_rejected" \/ ckpt[o].rejected = 2) =>
           outcomes[o][1] = "refused"
    BY <2>3 DEF Submissions
  <2>6. Len(outcomes[o]) <= 2
    BY <2>1, <2>2, <2>4
  <2>7. Len(outcomes[o]) = 2 => ckpt[o].rejected >= 1 /\ (\/ ckpt[o].state # "provider_rejected"
                                                         \/ ckpt[o].rejected = 2)
    BY <2>1, <2>2, <2>4
  <2> QED
    BY <2>5, <2>6, <2>7
<1> QED
  BY <1>1, LiveInvHolds, PTL

\* The checkpoint and the registry agree at every moment, so that any run may take over
\* from the checkpoint.
THEOREM CheckpointAgrees == Spec => []CheckpointAgreesWithRegistry
<1>1. LiveInv => CheckpointAgreesWithRegistry
  <2> SUFFICES ASSUME LiveInv, NEW o \in Ops
               PROVE  /\ ckpt[o].state \in {"registered", "complete"} => certs[o].status # "absent"
                      /\ certs[o].status # "absent" =>
                            /\ ckpt[o].sealed = certs[o].sealed
                            /\ ckpt[o].sealed \in bucket[o].versions
                            /\ ckpt[o].custody /\ vault[o] /\ ckpt[o].bytes
    BY DEF CheckpointAgreesWithRegistry
  <2>1. Recorded(o)
    BY DEF LiveInv
  <2> QED
    BY <2>1 DEF Recorded, Secured, Sealed, Done
<1> QED
  BY <1>1, LiveInvHolds, PTL

\* However often an operation is resumed, one of the stored versions of its sealed bytes at
\* most was uploaded by a put that was answered: the runs themselves never upload twice.
\* What the client's repetitions and the puts of dead runs add is not bounded.
THEOREM SealedAssetIsUploadedOnce == Spec => []SealedOnce
<1>1. LiveInv => SealedOnce
  BY DEF LiveInv, Recorded, OneTold, SealedOnce
<1> QED
  BY <1>1, LiveInvHolds, PTL

\* What ProgressIsKept asks of a step.
Kept(o) ==
    /\ Rank(ckpt[o]) <= Rank(ckpt'[o])
    /\ ckpt[o].bytes => ckpt'[o].bytes
    /\ ckpt[o].sealed # 0 => ckpt'[o].sealed = ckpt[o].sealed

LEMMA SameIsKept ==
    ASSUME LiveInv, NEW o \in Ops, SameButRows(ckpt'[o], ckpt[o])
    PROVE  Kept(o)
<1>1. ckpt[o].state \in State
  BY DEF LiveInv, TypeOK, Checkpoint
<1> QED
  BY <1>1 DEF Kept, SameButRows, Rank, State

LEMMA WriteKeeps ==
    ASSUME LiveInv, NEW k, Update(k), Rank(ckpt[op]) <= Rank(k), ckpt[op].bytes => k.bytes,
           ckpt[op].sealed # 0 => k.sealed = ckpt[op].sealed
    PROVE  \A o \in Ops : Kept(o)
<1>1. ckpt'[op] = k /\ (\A o \in Ops \ {op} : ckpt'[o] = ckpt[o])
  BY DEF LiveInv, TypeOK, Update
<1>2. \A o \in Ops : o = op => Kept(o)
  BY <1>1 DEF Kept
<1>3. \A o \in Ops : o # op => Kept(o)
  BY <1>1, SameIsKept DEF SameButRows
<1> QED
  BY <1>2, <1>3

LEMMA StepKeeps ==
    ASSUME LiveInv, Step
    PROVE  \A o \in Ops : Kept(o)
<1>t. TypeOK /\ op \in Ops /\ Place /\ Reached /\ ckpt[op] \in Checkpoint /\ ckpt[op].state \in State
      /\ Recorded(op) /\ Submissions(op)
  BY DEF LiveInv, TypeOK, Checkpoint
<1>1. CASE Initialize
  <2> DEFINE k == [NoCheckpoint EXCEPT !.state = "request_ready"]
  <2>1. ckpt[op].state = "none" /\ Update(k)
    BY <1>1 DEF Initialize
  <2>2. ~ckpt[op].bytes /\ ckpt[op].sealed = 0
    BY <1>t, <2>1 DEF Recorded, Secured, Sealed
  <2>3. k.state = "request_ready"
    BY DEF NoCheckpoint
  <2>4. Rank(ckpt[op]) <= Rank(k)
    BY <2>1, <2>3 DEF Rank
  <2> QED
    BY <2>1, <2>2, <2>4, WriteKeeps
<1>2. CASE Retry
  <2> DEFINE k == [ckpt[op] EXCEPT !.state = "request_ready", !.calls = 0, !.retry = FALSE]
  <2>1. ckpt[op].state = "provider_rejected" /\ Update(k)
    BY <1>2 DEF Retry, RetryAllowed
  <2>2. k.state = "request_ready" /\ k.bytes = ckpt[op].bytes /\ k.sealed = ckpt[op].sealed
    BY <1>t DEF Checkpoint
  <2>3. Rank(ckpt[op]) <= Rank(k)
    BY <2>1, <2>2 DEF Rank
  <2> QED
    BY <2>1, <2>2, <2>3, WriteKeeps
<1>3. CASE Submit
  <2> DEFINE k == [ckpt[op] EXCEPT !.state = "provider_call_started", !.calls = 1]
  <2>1. ckpt[op].state = "request_ready" /\ Update(k)
    BY <1>3, <1>t DEF Submit, Reached
  <2>2. k.state = "provider_call_started" /\ k.bytes = ckpt[op].bytes /\ k.sealed = ckpt[op].sealed
    BY <1>t DEF Checkpoint
  <2>3. Rank(ckpt[op]) <= Rank(k)
    BY <2>1, <2>2 DEF Rank
  <2> QED
    BY <2>1, <2>2, <2>3, WriteKeeps
<1>4. CASE Capture
  <2> DEFINE k == [ckpt[op] EXCEPT !.state = "generated", !.bytes = TRUE, !.retry = FALSE]
  <2>1. ckpt[op].state = "provider_call_started" /\ Update(k)
    BY <1>4, <1>t DEF Capture, Reached
  <2>2. k.state = "generated" /\ k.bytes /\ k.sealed = ckpt[op].sealed
    BY <1>t DEF Checkpoint
  <2>3. Rank(ckpt[op]) <= Rank(k)
    BY <2>1, <2>2 DEF Rank
  <2> QED
    BY <2>1, <2>2, <2>3, WriteKeeps
<1>5. CASE Reject
  <2> DEFINE k == [ckpt[op] EXCEPT !.state = "provider_rejected", !.rejected = @ + 1,
                                   !.retry = LastAnswer = "refused"]
  <2>1. ckpt[op].state = "provider_call_started" /\ Update(k)
    BY <1>5, <1>t DEF Reject, Reached
  <2>2. k.state = "provider_rejected" /\ k.bytes = ckpt[op].bytes /\ k.sealed = ckpt[op].sealed
    BY <1>t DEF Checkpoint
  <2>3. Rank(ckpt[op]) <= Rank(k)
    BY <2>1, <2>2 DEF Rank
  <2> QED
    BY <2>1, <2>2, <2>3, WriteKeeps
<1>6. CASE Prepare
  <2> DEFINE k == [ckpt[op] EXCEPT !.state = "prepared"]
  <2>1. ckpt[op].state = "generated" /\ Update(k)
    BY <1>6, <1>t DEF Prepare, Reached
  <2>2. k.state = "prepared" /\ k.bytes = ckpt[op].bytes /\ k.sealed = ckpt[op].sealed
    BY <1>t DEF Checkpoint
  <2>3. Rank(ckpt[op]) <= Rank(k)
    BY <2>1, <2>2 DEF Rank
  <2> QED
    BY <2>1, <2>2, <2>3, WriteKeeps
<1>7. CASE Stored
  <2> DEFINE k == [ckpt[op] EXCEPT
           !.custody = TRUE,
           !.state = IF @ \in {"sealed_persisted", "registered", "complete"}
                     THEN @ ELSE "custody_persisted"]
  <2>1. ckpt[op].state = "prepared" /\ Update(k)
    BY <1>7, <1>t DEF Stored, Reached
  <2>2. k.state = "custody_persisted" /\ k.bytes = ckpt[op].bytes /\ k.sealed = ckpt[op].sealed
    BY <1>t, <2>1 DEF Checkpoint
  <2>3. Rank(ckpt[op]) <= Rank(k)
    BY <2>1, <2>2 DEF Rank
  <2> QED
    BY <2>1, <2>2, <2>3, WriteKeeps
<1>8. CASE Uploaded
  <2> DEFINE k == [ckpt[op] EXCEPT
           !.sealed = held,
           !.state = IF @ \in {"registered", "complete"} THEN @ ELSE "sealed_persisted"]
  <2>1. ckpt[op].state \in Secured /\ Update(k)
    BY <1>8, <1>t DEF Uploaded, Reached
  <2>2. /\ k.state = IF ckpt[op].state \in {"registered", "complete"}
                     THEN ckpt[op].state ELSE "sealed_persisted"
        /\ k.bytes = ckpt[op].bytes /\ k.sealed = held
    BY <1>t, <2>1 DEF Checkpoint
  <2>3. Rank(ckpt[op]) <= Rank(k)
    BY <2>1, <2>2 DEF Rank, Secured
  <2>4. ckpt[op].sealed # 0 => held = ckpt[op].sealed
    BY <1>8, <1>t DEF Uploaded, Reached
  <2> QED
    BY <2>1, <2>2, <2>3, <2>4, WriteKeeps
<1>9. CASE Registered
  <2> DEFINE k == [ckpt[op] EXCEPT !.state = "registered"]
  <2>1. ckpt[op].state = "sealed_persisted" /\ Update(k)
    BY <1>9, <1>t DEF Registered, Reached
  <2>2. k.state = "registered" /\ k.bytes = ckpt[op].bytes /\ k.sealed = ckpt[op].sealed
    BY <1>t DEF Checkpoint
  <2>3. Rank(ckpt[op]) <= Rank(k)
    BY <2>1, <2>2 DEF Rank
  <2> QED
    BY <2>1, <2>2, <2>3, WriteKeeps
<1>10. CASE Complete
  <2> DEFINE k == [ckpt[op] EXCEPT !.state = "complete"]
  <2>1. ckpt[op].state \in Done /\ Update(k)
    BY <1>10, <1>t DEF Complete, Reached
  <2>2. k.state = "complete" /\ k.bytes = ckpt[op].bytes /\ k.sealed = ckpt[op].sealed
    BY <1>t DEF Checkpoint
  <2>3. Rank(ckpt[op]) <= Rank(k)
    BY <2>1, <2>2 DEF Rank, Done
  <2> QED
    BY <2>1, <2>2, <2>3, WriteKeeps
<1>11. CASE \/ Configure \/ Request \/ Call \/ SealStage \/ BeginCustody \/ Sign \/ Announce
            \/ VerifyStage
  <2>1. PICK s \in Stage : Begin(s)
    <3>1. /\ "configuration_validation" \in Stage /\ "request_construction" \in Stage
          /\ "generation" \in Stage /\ "b2_custody" \in Stage
          /\ "envelope_signature" \in Stage /\ "supabase_registration" \in Stage
      BY DEF Stage
    <3>2. pc = "stages" => SealStages[op][at] \in Stage
      BY <1>t, StageTypes, ElementOfSeq DEF Place
    <3>3. pc = "verify" => VerifyStages[at] \in Stage
      BY <1>t, StageTypes, ElementOfSeq DEF Place
    <3> QED
      BY <1>11, <3>1, <3>2, <3>3
      DEF Configure, Request, Call, SealStage, BeginCustody, Sign, Announce, VerifyStage
  <2>2. \A o \in Ops : SameButRows(ckpt'[o], ckpt[o])
    BY <1>t, <2>1, BeginKeeps
  <2> QED
    BY <2>2, SameIsKept
<1>12. CASE VerifyFails
  <2> DEFINE k == Tracked(ckpt[op], VerifyStages[at])
  <2>1. k.state = ckpt[op].state /\ k.bytes = ckpt[op].bytes /\ k.sealed = ckpt[op].sealed
    BY <1>t DEF Tracked, Checkpoint
  <2>2. Update(k)
    BY <1>12 DEF VerifyFails
  <2>3. Rank(ckpt[op]) <= Rank(k)
    BY <1>t, <2>1 DEF Rank, State
  <2> QED
    BY <2>1, <2>2, <2>3, WriteKeeps
<1>13. CASE LastRow
  <2> DEFINE k == [ckpt[op] EXCEPT !.rows = Append(@, cur)]
  <2>1. k.state = ckpt[op].state /\ k.bytes = ckpt[op].bytes /\ k.sealed = ckpt[op].sealed
    BY <1>t DEF Checkpoint
  <2>2. Update(k)
    BY <1>13 DEF LastRow
  <2>3. Rank(ckpt[op]) <= Rank(k)
    BY <1>t, <2>1 DEF Rank, State
  <2> QED
    BY <2>1, <2>2, <2>3, WriteKeeps
<1>14. CASE \/ Refuse \/ Proceed \/ Store \/ Recheck \/ Upload \/ Reuse \/ Put \/ PutAgain
            \/ Register \/ RegisterRefused \/ Confirm \/ Finalize \/ FinalizeFails
  <2>1. UNCHANGED ckpt
    BY <1>14 DEF Refuse, Proceed, Store, Recheck, Upload, Reuse, Put, PutAgain, Register,
          RegisterRefused, Confirm, Finalize, FinalizeFails
  <2> QED
    BY <2>1, SameIsKept DEF SameButRows
<1> QED
  BY <1>1, <1>2, <1>3, <1>4, <1>5, <1>6, <1>7, <1>8, <1>9, <1>10, <1>11, <1>12, <1>13, <1>14
  DEF Step

\* Nothing paid for is lost: captured bytes stay captured, a recorded version stays the one
\* recorded, and no step moves a checkpoint back but the permitted retry.
THEOREM ProgressStays == Spec => ProgressIsKept
<1>1. ASSUME LiveInv, [Next]_vars PROVE [\A o \in Ops : Kept(o)]_vars
  <2>1. CASE Step
    BY <1>1, <2>1, StepKeeps
  <2>2. CASE \/ Start \/ ResumeExisting \/ Interrupt
             \/ (\E o \in Ops : LatePut(o) \/ LateRegister(o) \/ Revoke(o))
    <3>1. UNCHANGED ckpt
      BY <2>2 DEF Start, ResumeExisting, Interrupt, LatePut, LateRegister, Revoke
    <3> QED
      BY <1>1, <3>1, SameIsKept DEF SameButRows
  <2> QED
    BY <1>1, <2>1, <2>2 DEF Next
<1> QED
  BY <1>1, LiveInvHolds, PTL DEF Spec, ProgressIsKept, Kept

-------------------------------------------------------------------------------
(***************************************************************************)
(* A report is earned, and stays so: runs of complete operations go over   *)
(* the same stages again, find a row of each, and write none.              *)
(***************************************************************************)
\* Bytes are captured from the last submission, and there is none after that.
Paid(o) == ckpt[o].bytes => outcomes[o][Len(outcomes[o])] = "valid"

ReportInv ==
    /\ \A o \in Ops : Paid(o)
    /\ pc = "idle" => cur = "none"
    /\ report =>
          /\ cur = "none"
          /\ \A o \in Ops : ckpt[o].state = "complete" /\ ckpt[o].rows = Declared[o]

LEMMA ElementsOfConcat ==
    ASSUME NEW S, NEW a \in Seq(S), NEW b \in Seq(S)
    PROVE  Elements(a \o b) = Elements(a) \union Elements(b)
<1>1. /\ a \o b \in Seq(S) /\ Len(a \o b) = Len(a) + Len(b)
      /\ Len(a) \in Nat /\ Len(b) \in Nat
      /\ \A i \in 1..(Len(a) + Len(b)) :
            (a \o b)[i] = IF i <= Len(a) THEN a[i] ELSE b[i - Len(a)]
  BY ConcatProperties, LenProperties
<1>2. ASSUME NEW x \in Elements(a \o b) PROVE x \in Elements(a) \union Elements(b)
  <2>1. PICK i \in 1..(Len(a) + Len(b)) : x = (a \o b)[i]
    BY <1>1, <1>2 DEF Elements
  <2>2. CASE i <= Len(a)
    BY <1>1, <2>1, <2>2 DEF Elements
  <2>3. CASE i > Len(a)
    <3>1. i - Len(a) \in 1..Len(b) /\ x = b[i - Len(a)]
      BY <1>1, <2>1, <2>3
    <3> QED
      BY <3>1 DEF Elements
  <2> QED
    BY <1>1, <2>1, <2>2, <2>3
<1>3. ASSUME NEW x \in Elements(a) PROVE x \in Elements(a \o b)
  <2>1. PICK i \in 1..Len(a) : x = a[i]
    BY <1>3 DEF Elements
  <2>2. i \in 1..(Len(a) + Len(b)) /\ (a \o b)[i] = x
    BY <1>1, <2>1
  <2> QED
    BY <1>1, <2>2 DEF Elements
<1>4. ASSUME NEW x \in Elements(b) PROVE x \in Elements(a \o b)
  <2>1. PICK i \in 1..Len(b) : x = b[i]
    BY <1>4 DEF Elements
  <2>2. i + Len(a) \in 1..(Len(a) + Len(b)) /\ (a \o b)[i + Len(a)] = x
    BY <1>1, <2>1
  <2> QED
    BY <1>1, <2>2 DEF Elements
<1> QED
  BY <1>2, <1>3, <1>4

\* The stages that a run of a complete operation begins are declared.
LEMMA DeclaredStages ==
    ASSUME NEW o \in Ops
    PROVE  /\ "configuration_validation" \in Elements(Declared[o])
           /\ "b2_custody" \in Elements(Declared[o])
           /\ \A i \in 1..Len(VerifyStages) : VerifyStages[i] \in Elements(Declared[o])
<1> DEFINE a == <<"configuration_validation", "request_construction", "generation">>
           c == <<"b2_custody", "envelope_signature", "supabase_registration">>
<1>1. a \in Seq(Stage) /\ "configuration_validation" \in Elements(a)
  <2>1. a \in Seq(Stage) /\ Len(a) = 3 /\ a[1] = "configuration_validation"
    BY DEF Stage
  <2> HIDE DEF a
  <2> QED
    BY <2>1 DEF Elements
<1>2. c \in Seq(Stage) /\ "b2_custody" \in Elements(c)
  <2>1. c \in Seq(Stage) /\ Len(c) = 3 /\ c[1] = "b2_custody"
    BY DEF Stage
  <2> HIDE DEF c
  <2> QED
    BY <2>1 DEF Elements
<1>3. SealStages[o] \in Seq(Stage) /\ VerifyStages \in Seq(Stage)
  BY StageTypes
<1>4. Declared[o] = ((a \o SealStages[o]) \o c) \o VerifyStages
  BY DEF Declared
<1> HIDE DEF a, c
<1>s. PICK s : s = SealStages[o]
  OBVIOUS
<1>d. PICK d : d = a \o s
  OBVIOUS
<1>e. PICK e : e = d \o c
  OBVIOUS
<1>5. d \in Seq(Stage)
  BY <1>1, <1>3, <1>s, <1>d, Concatenation
<1>6. e \in Seq(Stage)
  BY <1>2, <1>5, <1>e, Concatenation
<1>7. Elements(d) = Elements(a) \union Elements(SealStages[o])
  <2>1. Elements(a \o s) = Elements(a) \union Elements(s)
    BY <1>1, <1>3, <1>s, ElementsOfConcat
  <2> QED
    BY <2>1, <1>s, <1>d
<1>8. Elements(e) = Elements(d) \union Elements(c)
  <2>1. Elements(d \o c) = Elements(d) \union Elements(c)
    BY <1>2, <1>5, ElementsOfConcat
  <2> QED
    BY <2>1, <1>e
<1>9. Elements(Declared[o]) = Elements(e) \union Elements(VerifyStages)
  <2>1. Elements(e \o VerifyStages) = Elements(e) \union Elements(VerifyStages)
    BY <1>3, <1>6, ElementsOfConcat
  <2> QED
    BY <2>1, <1>4, <1>s, <1>d, <1>e
<1>10. \A i \in 1..Len(VerifyStages) : VerifyStages[i] \in Elements(VerifyStages)
  BY DEF Elements
<1> QED
  BY <1>1, <1>2, <1>7, <1>8, <1>9, <1>10

\* A stage that has its row is not begun again, and one is not completed when none is
\* under way.
LEMMA BeginsNothing ==
    ASSUME ckpt \in [Ops -> Checkpoint], op \in Ops, cur = "none",
           NEW s \in Elements(ckpt[op].rows), Begin(s)
    PROVE  UNCHANGED <<ckpt, cur>>
<1>1. Tracked(ckpt[op], s) = ckpt[op]
  BY DEF Tracked
<1> QED
  BY <1>1 DEF Begin, Update

\* What a run of complete operations may do.
LEMMA CompleteStep ==
    ASSUME LiveInv, ReportInv, report, Step
    PROVE  /\ cur' = "none"
           /\ \A o \in Ops : ckpt'[o].state = "complete" /\ ckpt'[o].rows = Declared[o]
<1>t. /\ ckpt \in [Ops -> Checkpoint] /\ op \in Ops /\ cur = "none" /\ Place /\ Reached
      /\ \A o \in Ops : ckpt[o].state = "complete" /\ ckpt[o].rows = Declared[o]
  BY DEF LiveInv, TypeOK, ReportInv
<1>0. ckpt[op].state = "complete" /\ ckpt[op].rows = Declared[op]
  BY <1>t
<1>s. pc # "put"
  BY <1>t, <1>0 DEF LiveInv, Recorded, Sealed, Reached
<1>1. ~(\/ Initialize \/ Refuse \/ Retry \/ Request \/ Submit \/ Call \/ Capture \/ Reject
        \/ SealStage \/ Prepare \/ Stored \/ Sign \/ Announce \/ Register \/ RegisterRefused
        \/ Put \/ PutAgain \/ Registered \/ LastRow)
  BY <1>t, <1>0, <1>s DEF Reached, Initialize, Refuse, Refused, RetryAllowed, Retry, Request, Submit,
     Call, Capture, Reject, SealStage, Prepare, Stored, Sign, Announce, Register,
     RegisterRefused, Put, PutAgain, Registered, LastRow
<1>2. CASE Configure \/ BeginCustody \/ VerifyStage
  <2>1. PICK s \in Elements(ckpt[op].rows) : Begin(s)
    BY <1>t, <1>0, <1>2, DeclaredStages DEF Configure, BeginCustody, VerifyStage, Place
  <2>2. UNCHANGED <<ckpt, cur>>
    BY <1>t, <2>1, BeginsNothing
  <2> QED
    BY <1>t, <2>2
<1>3. CASE VerifyFails
  <2>1. Tracked(ckpt[op], VerifyStages[at]) = ckpt[op]
    BY <1>t DEF Tracked
  <2>2. ckpt' = ckpt /\ cur' = "none"
    BY <1>3, <1>t, <2>1 DEF VerifyFails, Update, Over
  <2> QED
    BY <1>t, <2>2
<1>4. CASE Uploaded \/ Complete
  <2> DEFINE k == [ckpt[op] EXCEPT !.state = "complete"]
             l == [ckpt[op] EXCEPT !.sealed = held, !.state = "complete"]
  <2>1. k.state = "complete" /\ k.rows = Declared[op] /\ l.state = "complete" /\ l.rows = Declared[op]
    BY <1>t, <1>0 DEF Checkpoint
  <2>2. cur' = "none" /\ (Update(k) \/ Update(l))
    BY <1>4, <1>t, <1>0 DEF Uploaded, Complete
  <2> HIDE DEF k, l
  <2> QED
    BY <1>t, <2>1, <2>2 DEF Update
<1>5. CASE \/ Proceed \/ Store \/ Recheck \/ Upload \/ Reuse \/ Confirm \/ Finalize
           \/ FinalizeFails
  <2>1. ckpt' = ckpt /\ cur' = "none"
    BY <1>5, <1>t DEF Proceed, Store, Recheck, Upload, Reuse, Confirm, Finalize, FinalizeFails,
       Broken, Over
  <2> QED
    BY <1>t, <2>1
<1> QED
  BY <1>1, <1>2, <1>3, <1>4, <1>5 DEF Step

\* A write of a checkpoint that captures nothing.
LEMMA WritePays ==
    ASSUME LiveInv, ReportInv, NEW k, Update(k), k.bytes => ckpt[op].bytes, UNCHANGED outcomes
    PROVE  \A o \in Ops : Paid(o)'
<1>1. ckpt'[op] = k /\ (\A o \in Ops \ {op} : ckpt'[o] = ckpt[o])
  BY DEF LiveInv, TypeOK, Update
<1>2. op \in Ops
  BY DEF LiveInv, TypeOK
<1> QED
  BY <1>1, <1>2 DEF ReportInv, Paid

LEMMA StepPays ==
    ASSUME LiveInv, ReportInv, Step
    PROVE  \A o \in Ops : Paid(o)'
<1>t. /\ TypeOK /\ op \in Ops /\ Place /\ Reached /\ ckpt[op] \in Checkpoint
      /\ Recorded(op)
      /\ \A o \in Ops : Paid(o)
  BY DEF LiveInv, TypeOK, ReportInv
<1>1. CASE Initialize
  <2> DEFINE k == [NoCheckpoint EXCEPT !.state = "request_ready"]
  <2>1. ~k.bytes
    BY DEF NoCheckpoint
  <2>2. Update(k) /\ UNCHANGED outcomes
    BY <1>1 DEF Initialize, world
  <2> QED
    BY <2>1, <2>2, WritePays
<1>2. CASE Retry \/ Submit \/ Reject \/ Prepare \/ Stored \/ Uploaded \/ Registered \/ Complete
  <2>1. /\ [ckpt[op] EXCEPT !.state = "request_ready", !.calls = 0, !.retry = FALSE].bytes
              = ckpt[op].bytes
        /\ [ckpt[op] EXCEPT !.state = "provider_call_started", !.calls = 1].bytes = ckpt[op].bytes
        /\ [ckpt[op] EXCEPT !.state = "provider_rejected", !.rejected = @ + 1,
                            !.retry = LastAnswer = "refused"].bytes = ckpt[op].bytes
        /\ [ckpt[op] EXCEPT !.state = "prepared"].bytes = ckpt[op].bytes
        /\ [ckpt[op] EXCEPT !.custody = TRUE,
              !.state = IF @ \in {"sealed_persisted", "registered", "complete"}
                        THEN @ ELSE "custody_persisted"].bytes = ckpt[op].bytes
        /\ [ckpt[op] EXCEPT !.sealed = held,
              !.state = IF @ \in {"registered", "complete"} THEN @ ELSE "sealed_persisted"].bytes
              = ckpt[op].bytes
        /\ [ckpt[op] EXCEPT !.state = "registered"].bytes = ckpt[op].bytes
        /\ [ckpt[op] EXCEPT !.state = "complete"].bytes = ckpt[op].bytes
    BY <1>t DEF Checkpoint
  <2>2. PICK k : Update(k) /\ k.bytes = ckpt[op].bytes
    BY <1>2, <2>1 DEF Retry, Submit, Reject, Prepare, Stored, Uploaded, Registered, Complete
  <2>3. UNCHANGED outcomes
    BY <1>2 DEF Retry, Submit, Reject, Prepare, Stored, Uploaded, Registered, Complete, world
  <2> QED
    BY <2>2, <2>3, WritePays
<1>3. CASE Call
  <2>1. "generation" \in Stage
    BY DEF Stage
  <2>2. \A o \in Ops : SameButRows(ckpt'[o], ckpt[o])
    BY <1>t, <1>3, <2>1, BeginKeeps DEF Call
  <2>3. ~ckpt[op].bytes
    BY <1>t, <1>3 DEF Call, Reached, Recorded, Secured
  <2>4. \A o \in Ops : o # op => outcomes'[o] = outcomes[o]
    BY <1>t, <1>3 DEF Call, TypeOK
  <2> QED
    BY <1>t, <2>2, <2>3, <2>4 DEF Paid, SameButRows
<1>4. CASE Capture
  <2>1. outcomes' = outcomes /\ outcomes[op][Len(outcomes[op])] = "valid"
    BY <1>4 DEF Capture, LastAnswer, world
  <2>2. \A o \in Ops \ {op} : ckpt'[o] = ckpt[o]
    BY <1>4, <1>t DEF Capture, Update, TypeOK
  <2> QED
    BY <1>t, <2>1, <2>2 DEF Paid
<1>5. CASE \/ Configure \/ Request \/ SealStage \/ BeginCustody \/ Sign \/ Announce \/ VerifyStage
  <2>1. PICK s \in Stage : Begin(s)
    <3>1. /\ "configuration_validation" \in Stage /\ "request_construction" \in Stage
          /\ "b2_custody" \in Stage
          /\ "envelope_signature" \in Stage /\ "supabase_registration" \in Stage
      BY DEF Stage
    <3>2. pc = "stages" => SealStages[op][at] \in Stage
      BY <1>t, StageTypes, ElementOfSeq DEF Place
    <3>3. pc = "verify" => VerifyStages[at] \in Stage
      BY <1>t, StageTypes, ElementOfSeq DEF Place
    <3> QED
      BY <1>5, <3>1, <3>2, <3>3
      DEF Configure, Request, SealStage, BeginCustody, Sign, Announce, VerifyStage
  <2>2. \A o \in Ops : SameButRows(ckpt'[o], ckpt[o])
    BY <1>t, <2>1, BeginKeeps
  <2>3. UNCHANGED outcomes
    BY <1>5 DEF Configure, Request, SealStage, BeginCustody, Sign, Announce, VerifyStage, world
  <2> QED
    BY <1>t, <2>2, <2>3 DEF Paid, SameButRows
<1>6. CASE VerifyFails
  <2> DEFINE k == Tracked(ckpt[op], VerifyStages[at])
  <2>1. k.bytes = ckpt[op].bytes
    BY <1>t DEF Tracked, Checkpoint
  <2>2. Update(k) /\ UNCHANGED outcomes
    BY <1>6 DEF VerifyFails, world
  <2> QED
    BY <2>1, <2>2, WritePays
<1>7. CASE LastRow
  <2> DEFINE k == [ckpt[op] EXCEPT !.rows = Append(@, cur)]
  <2>1. k.bytes = ckpt[op].bytes
    BY <1>t DEF Checkpoint
  <2>2. Update(k) /\ UNCHANGED outcomes
    BY <1>7 DEF LastRow, world
  <2> QED
    BY <2>1, <2>2, WritePays
<1>8. CASE \/ Refuse \/ Proceed \/ Store \/ Recheck \/ Upload \/ Reuse \/ Put \/ PutAgain
           \/ Register \/ RegisterRefused \/ Confirm \/ Finalize \/ FinalizeFails
  <2>1. UNCHANGED <<ckpt, outcomes>>
    BY <1>8 DEF Refuse, Proceed, Store, Recheck, Upload, Reuse, Put, PutAgain, Register,
          RegisterRefused, Confirm, Finalize, FinalizeFails, world
  <2> QED
    BY <1>t, <2>1 DEF Paid
<1> QED
  BY <1>1, <1>2, <1>3, <1>4, <1>5, <1>6, <1>7, <1>8 DEF Step

\* A run that is over tracks no stage.
LEMMA StepIdles ==
    ASSUME Step
    PROVE  pc' = "idle" => cur' = "none"
<1>1. CASE \/ Refuse \/ Reject \/ RegisterRefused \/ VerifyFails \/ Finalize \/ FinalizeFails
  BY <1>1 DEF Refuse, Reject, RegisterRefused, VerifyFails, Finalize, FinalizeFails, Over
<1>2. CASE Store \/ Put \/ PutAgain
  BY <1>2 DEF Store, Put, PutAgain, run, Goto, Broken, Over
<1>3. CASE \/ Initialize \/ Configure \/ Retry \/ Proceed \/ Request \/ Submit \/ Call \/ Capture
           \/ SealStage \/ Prepare \/ BeginCustody \/ Recheck \/ Stored \/ Upload \/ Reuse \/ Uploaded
  BY <1>3 DEF Initialize, Configure, Retry, Proceed, Request, Submit, Call, Capture,
     SealStage, Prepare, BeginCustody, Recheck, Stored, Upload, Reuse, Uploaded, Goto
<1>4. CASE \/ Sign \/ Announce \/ Register \/ Registered \/ Confirm \/ VerifyStage
           \/ LastRow \/ Complete
  BY <1>4 DEF Sign, Announce, Register, Registered, Confirm, VerifyStage,
     LastRow, Complete, Goto
<1> QED
  BY <1>1, <1>2, <1>3, <1>4 DEF Step

\* The report is only written when everything is reportable.
LEMMA StepReports ==
    ASSUME LiveInv, ReportInv, Step, report'
    PROVE  /\ cur' = "none"
           /\ \A o \in Ops : ckpt'[o].state = "complete" /\ ckpt'[o].rows = Declared[o]
<1>1. CASE report
  BY <1>1, CompleteStep
<1>2. CASE Finalize
  BY <1>2 DEF Finalize, Reportable, Over
<1>3. CASE ~Finalize
  <2>1. report' = report
    BY <1>3 DEF Step, Initialize, Configure, Refuse, Retry, Proceed, Request, Submit, Call,
       Capture, Reject, SealStage, Prepare, BeginCustody, Store, Recheck, Stored, Upload, Reuse,
       Put, PutAgain, Uploaded, Sign, Announce, Register, RegisterRefused, Registered, Confirm,
       VerifyStage,
       VerifyFails, LastRow, Complete, FinalizeFails, world
  <2> QED
    BY <2>1, CompleteStep
<1> QED
  BY <1>2, <1>3

LEMMA NextReport == LiveInv /\ ReportInv /\ [Next]_vars => ReportInv'
<1> SUFFICES ASSUME LiveInv, ReportInv, [Next]_vars
             PROVE  ReportInv'
  OBVIOUS
<1>1. CASE Step
  BY <1>1, StepPays, StepIdles, StepReports DEF ReportInv
<1>2. CASE \/ Start \/ UNCHANGED vars
           \/ (\E o \in Ops : LatePut(o) \/ LateRegister(o) \/ Revoke(o))
  <2>1. UNCHANGED <<ckpt, outcomes, report, cur>> /\ (pc' = pc \/ pc' = "configure")
    BY <1>2 DEF Start, LatePut, LateRegister, Revoke, vars, world, run, Goto
  <2> QED
    BY <2>1 DEF ReportInv, Paid
<1>3. CASE Interrupt
  <2>1. UNCHANGED <<ckpt, outcomes, report>> /\ cur' = "none"
    BY <1>3 DEF Interrupt, Broken, Over, world
  <2> QED
    BY <2>1 DEF ReportInv, Paid
<1>4. CASE ResumeExisting
  <2>1. /\ UNCHANGED <<ckpt, outcomes, pc, cur>>
        /\ pc = "idle"
        /\ \A o \in Ops : Reportable(ckpt[o], o)
    BY <1>4 DEF ResumeExisting, run
  <2> QED
    BY <2>1 DEF ReportInv, Paid, Reportable
<1> QED
  BY <1>1, <1>2, <1>3, <1>4 DEF Next

THEOREM ReportInvHolds == Spec => []ReportInv
<1>1. Init => ReportInv
  BY DEF Init, NoCheckpoint, ReportInv, Paid
<1>2. LiveInv /\ ReportInv /\ [Next]_vars => ReportInv'
  BY NextReport
<1> QED
  BY <1>1, <1>2, LiveInvHolds, PTL DEF Spec

\* A report on disk stands for two complete operations: each has every declared stage, a
\* valid last answer and its certificate, and no later run or revocation undoes that.
THEOREM ReportsAreEarned == Spec => []ReportIsEarned
<1>1. LiveInv /\ ReportInv => ReportIsEarned
  <2> SUFFICES ASSUME LiveInv, ReportInv, report, NEW o \in Ops
               PROVE  /\ ckpt[o].state = "complete"
                      /\ Elements(ckpt[o].rows) = Elements(Declared[o])
                      /\ outcomes[o][Len(outcomes[o])] = "valid"
                      /\ certs[o].status # "absent"
    BY DEF ReportIsEarned
  <2>1. ckpt[o].state = "complete" /\ ckpt[o].rows = Declared[o]
    BY DEF ReportInv
  <2>2. ckpt[o].bytes /\ certs[o].status # "absent"
    BY <2>1 DEF LiveInv, Recorded, Secured, Done
  <2> QED
    BY <2>1, <2>2 DEF ReportInv, Paid
<1> QED
  BY <1>1, LiveInvHolds, ReportInvHolds, PTL
=============================================================================
