-------------------------- MODULE GenerateSealProofs ---------------------------
(***************************************************************************)
(* Proofs about GenerateSeal, for any threads, processes, keys, requests,  *)
(* calls and faults: what a successful answer rests on, when the provider  *)
(* may be called, and that the service implements IssueOnce.               *)
(***************************************************************************)
EXTENDS GenerateSeal, TLAPS

-------------------------------------------------------------------------------
(* The invariant. *)

\* A thread inside the lock of its process is the thread that holds it.
LockInv == \A w \in Workers : pc[w] \in Locked => holder[ProcessOf[w]] = w

\* The registry names one bundle of a key at most.
OneBundle == \A b, d \in registered : b.key = d.key => b = d

\* What a call has established by the time it is at a place.
Progress(w) ==
    /\ pc[w] # "idle" => calls[w] \in 1..MaxCalls
    /\ pc[w] \in {"upload", "register", "reread"} => Call(w) \in custody
    /\ pc[w] \in {"register", "reread"} => Call(w) \in stored
    /\ pc[w] = "compare" => Certificate(key[w]) # {}
    /\ pc[w] = "reread" => BundleOf(w) \in registered

CallInv == \A w \in Workers : Progress(w)

\* A registration that nobody waits for is of a call whose evidence is complete.
PendingInv == \A b \in pending : b.body.call \in custody \intersect stored

\* Only a completed call names a bundle.
SilentReplies == \A r \in replies : r.outcome # "completed" => r.bundles = {}

SealInv ==
    /\ TypeOK
    /\ LockInv
    /\ OneBundle
    /\ CallInv
    /\ SilentReplies
    /\ PendingInv
    /\ CertificateIsBacked
    /\ NoGenerationOnceRegistered
    /\ SuccessIsBacked

-------------------------------------------------------------------------------
(* The operators. *)

\* A call that has begun has a name, and what it would register is a bundle.
LEMMA CallType ==
    ASSUME TypeOK, NEW w \in Workers, calls[w] \in 1..MaxCalls
    PROVE  /\ Call(w) \in CallId
           /\ Call(w)[1] = w
           /\ BundleOf(w) \in Bundle
           /\ BundleOf(w).key = key[w]
           /\ BundleOf(w).sealed = SealedDigest(request[w], Call(w), media[w])
           /\ BundleOf(w).body = [call |-> Call(w), request |-> request[w]]
<1>1. Call(w) \in CallId /\ Call(w)[1] = w
  BY DEF Call, CallId
<1>2. key[w] \in Keys /\ request[w] \in Requests /\ media[w] \in Media
  BY DEF TypeOK
<1>3. SealedDigest(request[w], Call(w), media[w]) \in Sealed
  BY <1>1, <1>2 DEF SealedDigest, Sealed
<1>4. [call |-> Call(w), request |-> request[w]] \in [call : CallId, request : Requests]
  BY <1>1, <1>2
<1>5. BundleOf(w) = [key |-> key[w],
                     sealed |-> SealedDigest(request[w], Call(w), media[w]),
                     body |-> [call |-> Call(w), request |-> request[w]]]
  BY DEF BundleOf
<1> HIDE DEF Call
<1>6. BundleOf(w) \in Bundle
  BY <1>2, <1>3, <1>4, <1>5 DEF Bundle
<1> QED
  BY <1>1, <1>5, <1>6

\* The threads that hold the lock of one process are one thread.
LEMMA MutualExclusion ==
    ASSUME LockInv, NEW w \in Workers, NEW x \in Workers,
           pc[w] \in Locked, pc[x] \in Locked, ProcessOf[w] = ProcessOf[x]
    PROVE  w = x
BY DEF LockInv

\* The certificate of a key that has one is that one bundle.
LEMMA OneCertificate ==
    ASSUME OneBundle, NEW k, NEW b \in Certificate(k)
    PROVE  Certificate(k) = {b} /\ b \in registered /\ b.key = k
BY DEF OneBundle, Certificate

\* The bundle that a call is about to register has its evidence.
LEMMA RegisteringBundle ==
    ASSUME TypeOK, CallInv, NEW w \in Workers, pc[w] = "register"
    PROVE  /\ BundleOf(w) \in Bundle
           /\ BundleOf(w).key = key[w]
           /\ BundleOf(w).body.call = Call(w)
           /\ Call(w) \in custody \intersect stored
<1>1. calls[w] \in 1..MaxCalls /\ Call(w) \in custody /\ Call(w) \in stored
  BY DEF CallInv, Progress
<1>2. /\ BundleOf(w) \in Bundle /\ BundleOf(w).key = key[w]
      /\ BundleOf(w).body = [call |-> Call(w), request |-> request[w]]
  BY <1>1, CallType
<1>3. BundleOf(w).body.call = Call(w)
  BY <1>2
<1> QED
  BY <1>1, <1>2, <1>3

-------------------------------------------------------------------------------
(* The initial state and the actions. *)

LEMMA InitSeal == Init => SealInv
<1> SUFFICES ASSUME Init
             PROVE  SealInv
  OBVIOUS
<1>1. /\ registered = {} /\ revoked = {} /\ custody = {} /\ stored = {} /\ replies = {} /\ pending = {}
      /\ pc = [w \in Workers |-> "idle"]
  BY DEF Init, Registry!Init
<1>2. TypeOK
  <2>1. /\ (CHOOSE k \in Keys : TRUE) \in Keys
        /\ (CHOOSE r \in Requests : TRUE) \in Requests
        /\ (CHOOSE m \in Media : TRUE) \in Media
    BY SealAssumption
  <2> QED
    BY <1>1, <2>1, SealAssumption DEF Init, TypeOK
<1>3. \A w \in Workers : pc[w] = "idle"
  BY <1>1
<1>4. LockInv /\ CallInv /\ NoGenerationOnceRegistered
  BY <1>3 DEF LockInv, CallInv, Progress, NoGenerationOnceRegistered, Locked
<1>5. OneBundle /\ SilentReplies /\ PendingInv /\ CertificateIsBacked /\ SuccessIsBacked
  BY <1>1 DEF OneBundle, SilentReplies, PendingInv, CertificateIsBacked, SuccessIsBacked
<1> QED
  BY <1>2, <1>4, <1>5 DEF SealInv

\* A step of the call of w that stays inside the lock and registers nothing.
LEMMA MoveSeal ==
    ASSUME SealInv, NEW w \in Workers, pc[w] \in Locked, NEW l \in Locked \ {"reread"},
           Goto(w, l),
           UNCHANGED <<registryVars, callVars, holder, replies, pending, faults>>,
           media' \in [Workers -> Media],
           \A x \in Workers : x # w => media'[x] = media[x],
           custody \subseteq custody', custody' \subseteq CallId,
           stored \subseteq stored', stored' \subseteq CallId,
           l \in {"upload", "register"} => Call(w) \in custody',
           l = "register" => Call(w) \in stored',
           l = "compare" => Certificate(key[w]) # {},
           l = "generate" => Certificate(key[w]) = {}
    PROVE  SealInv'
<1>u. /\ UNCHANGED <<registered, revoked, blind, key, request, calls, holder, replies,
                     pending, faults>>
      /\ pc' = [pc EXCEPT ![w] = l]
  BY DEF registryVars, callVars, Goto
<1>t. TypeOK /\ LockInv /\ OneBundle /\ CallInv /\ SilentReplies
  BY DEF SealInv
<1>1. TypeOK'
  BY <1>u, <1>t DEF TypeOK
<1>2. pc'[w] = l /\ \A x \in Workers : x # w => pc'[x] = pc[x]
  BY <1>u, <1>t DEF TypeOK
<1>3. LockInv'
  BY <1>u, <1>t, <1>2 DEF LockInv
<1>4. OneBundle' /\ SilentReplies' /\ PendingInv'
  BY <1>u, <1>t DEF SealInv, OneBundle, SilentReplies, PendingInv
<1>5. CallInv'
  <2> SUFFICES ASSUME NEW x \in Workers
               PROVE  Progress(x)'
    BY DEF CallInv
  <2>0. Progress(x) /\ Progress(w)
    BY <1>t DEF CallInv
  <2>1. CASE x # w
    <3>1. pc'[x] = pc[x] /\ calls'[x] = calls[x] /\ media'[x] = media[x]
      BY <1>u, <1>2, <2>1
    <3>2. Call(x)' = Call(x) /\ BundleOf(x)' = BundleOf(x) /\ Certificate(key[x])' = Certificate(key[x])
      BY <1>u, <3>1 DEF Call, BundleOf, Certificate
    <3> QED
      BY <1>u, <2>0, <3>1, <3>2 DEF Progress
  <2>2. CASE x = w
    <3>1. pc'[w] = l /\ calls'[w] = calls[w] /\ calls[w] \in 1..MaxCalls
      BY <1>u, <1>2, <2>0 DEF Progress, Locked
    <3>2. Call(w)' = Call(w) /\ Certificate(key[w])' = Certificate(key[w])
      BY <1>u DEF Call, Certificate
    <3>3. Progress(w)'
      BY <3>1, <3>2 DEF Progress
    <3> QED
      BY <3>3, <2>2
  <2> QED
    BY <2>1, <2>2
<1>6. CertificateIsBacked'
  BY <1>u DEF SealInv, CertificateIsBacked
<1>7. NoGenerationOnceRegistered'
  <2>1. \A x \in Workers : Certificate(key[x])' = Certificate(key[x]) /\ Call(x)' = Call(x)
    BY <1>u DEF Certificate, Call
  <2> QED
    BY <1>u, <1>2, <2>1 DEF SealInv, NoGenerationOnceRegistered
<1>8. SuccessIsBacked'
  BY <1>u DEF SealInv, SuccessIsBacked
<1> QED
  BY <1>1, <1>3, <1>4, <1>5, <1>6, <1>7, <1>8 DEF SealInv

\* What the end of the call of w needs: an answer that names a bundle names the one
\* registered for its key and its request.
EarnedAnswer(w, outcome, bundles) ==
    /\ outcome \in {"completed", "conflict", "error"}
    /\ outcome # "completed" => bundles = {}
    /\ outcome = "completed" =>
          \E b \in registered :
              /\ bundles = {b}
              /\ b.key = key[w]
              /\ b.body.request = request[w]

\* The call of w ends, and registers nothing, though its registration may be left behind.
LEMMA FinishSeal ==
    ASSUME SealInv, NEW w \in Workers, pc[w] \in Locked, NEW outcome, NEW bundles,
           EarnedAnswer(w, outcome, bundles), Finish(w, outcome, bundles),
           UNCHANGED <<registryVars, callVars, custody, media>>, faults' \in Nat,
           \/ UNCHANGED pending
           \/ pc[w] = "register" /\ pending' = pending \union {BundleOf(w)},
           stored \subseteq stored', stored' \subseteq CallId
    PROVE  SealInv'
<1> DEFINE answer == [call |-> Call(w), key |-> key[w], request |-> request[w],
                      outcome |-> outcome, bundles |-> bundles]
<1>u. /\ UNCHANGED <<registered, revoked, blind, key, request, calls, custody, media>>
      /\ pc' = [pc EXCEPT ![w] = "idle"]
      /\ holder' = [holder EXCEPT ![ProcessOf[w]] = NoWorker]
      /\ replies' = replies \union {answer}
  BY DEF registryVars, callVars, Finish, Goto
<1>t. TypeOK /\ LockInv /\ OneBundle /\ CallInv /\ SilentReplies
  BY DEF SealInv
<1>a. /\ answer.key = key[w] /\ answer.request = request[w]
      /\ answer.outcome = outcome /\ answer.bundles = bundles
  OBVIOUS
<1>b. answer \in Reply
  <2>1. Call(w) \in CallId
    BY <1>t, CallType DEF CallInv, Progress, Locked
  <2>2. key[w] \in Keys /\ request[w] \in Requests
    BY <1>t DEF TypeOK
  <2>3. bundles \in SUBSET Bundle
    BY <1>t DEF EarnedAnswer, TypeOK
  <2>4. outcome \in {"completed", "conflict", "error"}
    BY DEF EarnedAnswer
  <2> QED
    BY <2>1, <2>2, <2>3, <2>4 DEF Reply
<1> HIDE DEF answer
<1>p. pending' \subseteq Bundle /\ PendingInv'
  <2>1. pending \subseteq Bundle /\ \A b \in pending : b.body.call \in custody' \intersect stored'
    BY <1>u, <1>t DEF SealInv, TypeOK, PendingInv
  <2>2. CASE UNCHANGED pending
    BY <2>1, <2>2 DEF PendingInv
  <2>3. CASE pc[w] = "register" /\ pending' = pending \union {BundleOf(w)}
    <3>1. BundleOf(w) \in Bundle /\ BundleOf(w).body.call \in custody' \intersect stored'
      BY <1>u, <1>t, <2>3, RegisteringBundle
    <3> QED
      BY <2>1, <2>3, <3>1 DEF PendingInv
  <2> QED
    BY <2>2, <2>3
<1>1. TypeOK'
  <2>1. replies' \subseteq Reply
    BY <1>u, <1>t, <1>b DEF TypeOK
  <2>2. holder' \in [Processes -> Workers \union {NoWorker}]
    BY <1>u, <1>t DEF TypeOK
  <2>3. pc' \in [Workers -> {"idle", "waiting"} \union Locked]
    BY <1>u, <1>t DEF TypeOK
  <2> QED
    BY <1>u, <1>t, <1>p, <2>1, <2>2, <2>3 DEF TypeOK
<1>2. pc'[w] = "idle" /\ \A x \in Workers : x # w => pc'[x] = pc[x]
  BY <1>u, <1>t DEF TypeOK
<1>3. LockInv'
  <2> SUFFICES ASSUME NEW x \in Workers, pc'[x] \in Locked
               PROVE  holder'[ProcessOf[x]] = x
    BY DEF LockInv
  <2>1. x # w /\ pc[x] \in Locked
    BY <1>2 DEF Locked
  <2>2. ProcessOf[x] # ProcessOf[w]
    BY <1>t, <2>1, MutualExclusion
  <2>3. holder[ProcessOf[x]] = x
    BY <1>t, <2>1 DEF LockInv
  <2>4. ProcessOf[x] \in Processes
    BY SealAssumption
  <2> QED
    BY <1>u, <1>t, <2>2, <2>3, <2>4 DEF TypeOK
<1>4. OneBundle'
  BY <1>u, <1>t DEF OneBundle
<1>5. CallInv'
  <2> SUFFICES ASSUME NEW x \in Workers
               PROVE  Progress(x)'
    BY DEF CallInv
  <2>0. Progress(x)
    BY <1>t DEF CallInv
  <2>1. Call(x)' = Call(x) /\ BundleOf(x)' = BundleOf(x) /\ Certificate(key[x])' = Certificate(key[x])
    BY <1>u DEF Call, BundleOf, Certificate
  <2>2. pc'[x] = "idle" \/ pc'[x] = pc[x]
    BY <1>2
  <2> QED
    BY <1>u, <2>0, <2>1, <2>2 DEF Progress
<1>6. SilentReplies'
  BY <1>u, <1>t, <1>a DEF SilentReplies, EarnedAnswer
<1>7. CertificateIsBacked'
  BY <1>u DEF SealInv, CertificateIsBacked
<1>8. NoGenerationOnceRegistered'
  <2>1. \A x \in Workers : Certificate(key[x])' = Certificate(key[x]) /\ Call(x)' = Call(x)
    BY <1>u DEF Certificate, Call
  <2> QED
    BY <1>u, <1>2, <2>1 DEF SealInv, NoGenerationOnceRegistered
<1>9. SuccessIsBacked'
  <2> SUFFICES ASSUME NEW r \in replies', r.outcome = "completed"
               PROVE  \E b \in registered :
                          /\ r.bundles = {b}
                          /\ b.key = r.key
                          /\ b.body.request = r.request
                          /\ b.body.call \in custody \intersect stored'
    BY <1>u DEF SuccessIsBacked
  <2>1. CASE r \in replies
    BY <2>1 DEF SealInv, SuccessIsBacked
  <2>2. CASE r = answer
    <3>1. PICK b \in registered : bundles = {b} /\ b.key = key[w] /\ b.body.request = request[w]
      BY <1>a, <2>2 DEF EarnedAnswer
    <3>2. b.body.call \in custody \intersect stored
      BY DEF SealInv, CertificateIsBacked
    <3> QED
      BY <1>a, <2>2, <3>1, <3>2
  <2> QED
    BY <1>u, <2>1, <2>2
<1> QED
  BY <1>1, <1>3, <1>4, <1>5, <1>6, <1>7, <1>8, <1>9, <1>p DEF SealInv

\* The calls that a certificate lands behind are calls.
LEMMA LandsUnseenType ==
    ASSUME TypeOK, CallInv, NEW b, NEW unseen, unseen \subseteq Workers,
           LandsUnseen(b, unseen)
    PROVE  blind' \subseteq CallId
<1>1. ASSUME NEW x \in unseen, pc[x] = "generate"
      PROVE  Call(x) \in CallId
  <2>1. calls[x] \in 1..MaxCalls
    BY <1>1 DEF CallInv, Progress
  <2> QED
    BY <2>1, CallType
<1> QED
  BY <1>1 DEF LandsUnseen, TypeOK

\* A registered bundle: it is of the call in the lock, whose evidence is complete, and
\* of a key that no other thread of the process is working on.
LEMMA RegisterSeal ==
    ASSUME SealInv, NEW w \in Workers, Register(w)
    PROVE  SealInv'
<1> DEFINE new == BundleOf(w)
<1>u. /\ UNCHANGED <<revoked, custody, stored, key, request, calls, media, pending, faults>>
      /\ pc[w] = "register"
      /\ registered' = registered \union {new}
      /\ \A d \in registered : d # new => d.key # new.key
  BY DEF Register, evidenceVars, callVars, Registry!Accept, Registry!Clash
<1>l. LandsUnseen(new, OtherProcess(w))
  BY DEF Register
<1>e. \/ /\ pc' = [pc EXCEPT ![w] = "reread"]
         /\ UNCHANGED <<holder, replies>>
      \/ Finish(w, "error", {})
  BY DEF Register, Goto
<1>t. TypeOK /\ LockInv /\ OneBundle /\ CallInv /\ SilentReplies
  BY DEF SealInv
<1>p. /\ calls[w] \in 1..MaxCalls
      /\ Call(w) \in custody
      /\ Call(w) \in stored
  BY <1>u, <1>t DEF CallInv, Progress
<1>b. new \in Bundle /\ new.key = key[w] /\ new.body.call = Call(w)
  BY <1>u, <1>t, RegisteringBundle
<1> DEFINE answer == [call |-> Call(w), key |-> key[w], request |-> request[w],
                      outcome |-> "error", bundles |-> {}]
<1>a. answer \in Reply /\ answer.outcome = "error" /\ answer.bundles = {}
  <2>1. Call(w) \in CallId
    BY <1>t, <1>p, CallType
  <2>2. key[w] \in Keys /\ request[w] \in Requests
    BY <1>t DEF TypeOK
  <2> QED
    BY <2>1, <2>2 DEF Reply
<1>r. replies' = replies \/ replies' = replies \union {answer}
  BY <1>e DEF Finish
<1>2. /\ pc'[w] \in {"idle", "reread"}
      /\ \A x \in Workers : x # w => pc'[x] = pc[x]
      /\ pc' \in [Workers -> {"idle", "waiting"} \union Locked]
  <2>1. pc' = [pc EXCEPT ![w] = "reread"] \/ pc' = [pc EXCEPT ![w] = "idle"]
    BY <1>e DEF Finish, Goto
  <2> QED
    BY <1>t, <2>1 DEF TypeOK, Locked
<1>h. \/ holder' = holder
      \/ holder' = [holder EXCEPT ![ProcessOf[w]] = NoWorker] /\ pc'[w] = "idle"
  BY <1>e, <1>t DEF Finish, Goto, TypeOK
<1> HIDE DEF new, answer
<1>n. blind' \subseteq CallId /\ PendingInv'
  <2>1. blind' \subseteq CallId
    BY <1>l, <1>t, LandsUnseenType DEF OtherProcess
  <2>2. PendingInv'
    BY <1>u DEF SealInv, PendingInv
  <2> QED
    BY <2>1, <2>2
<1>1. TypeOK'
  <2>1. registered' \subseteq Bundle /\ revoked' \subseteq registered'
    BY <1>u, <1>t, <1>b DEF TypeOK
  <2>2. replies' \subseteq Reply
    BY <1>r, <1>a, <1>t DEF TypeOK
  <2>3. holder' \in [Processes -> Workers \union {NoWorker}]
    BY <1>h, <1>t DEF TypeOK
  <2> QED
    BY <1>u, <1>t, <1>2, <1>n, <2>1, <2>2, <2>3 DEF TypeOK
<1>3. LockInv'
  <2> SUFFICES ASSUME NEW x \in Workers, pc'[x] \in Locked
               PROVE  holder'[ProcessOf[x]] = x
    BY DEF LockInv
  <2>1. pc[x] \in Locked
    BY <1>u, <1>2 DEF Locked
  <2>2. holder[ProcessOf[x]] = x
    BY <1>t, <2>1 DEF LockInv
  <2>3. CASE holder' = holder
    BY <2>2, <2>3
  <2>4. CASE holder' = [holder EXCEPT ![ProcessOf[w]] = NoWorker] /\ pc'[w] = "idle"
    <3>1. x # w
      BY <2>4 DEF Locked
    <3>2. ProcessOf[x] # ProcessOf[w]
      BY <1>u, <1>t, <2>1, <3>1, MutualExclusion DEF Locked
    <3>3. ProcessOf[x] \in Processes
      BY SealAssumption
    <3> QED
      BY <1>t, <2>2, <2>4, <3>2, <3>3 DEF TypeOK
  <2> QED
    BY <1>h, <2>3, <2>4
<1>4. OneBundle'
  <2> SUFFICES ASSUME NEW b \in registered', NEW d \in registered', b.key = d.key
               PROVE  b = d
    BY DEF OneBundle
  <2> QED
    BY <1>u, <1>t DEF OneBundle
<1>5. CallInv'
  <2> SUFFICES ASSUME NEW x \in Workers
               PROVE  Progress(x)'
    BY DEF CallInv
  <2>0. Progress(x)
    BY <1>t DEF CallInv
  <2>1. Call(x)' = Call(x) /\ BundleOf(x)' = BundleOf(x)
    BY <1>u DEF Call, BundleOf
  <2>2. Certificate(key[x]) \subseteq Certificate(key[x])' /\ registered \subseteq registered'
    BY <1>u DEF Certificate
  <2>3. CASE x # w
    <3>1. pc'[x] = pc[x]
      BY <1>2, <2>3
    <3> QED
      BY <1>u, <2>0, <2>1, <2>2, <3>1 DEF Progress
  <2>4. CASE x = w
    <3>1. new \in registered' /\ new = BundleOf(w)
      BY <1>u DEF new
    <3> QED
      BY <1>u, <1>p, <1>2, <2>1, <2>4, <3>1 DEF Progress
  <2> QED
    BY <2>3, <2>4
<1>6. SilentReplies'
  BY <1>r, <1>a, <1>t DEF SilentReplies
<1>7. CertificateIsBacked'
  BY <1>u, <1>p, <1>b DEF SealInv, CertificateIsBacked
<1>8. NoGenerationOnceRegistered'
  <2> SUFFICES ASSUME NEW x \in Workers, pc'[x] = "generate",
                      NEW b \in registered', b.key = key[x]
               PROVE  Call(x) \in blind'
    BY <1>u DEF NoGenerationOnceRegistered, Certificate, Call
  <2>1. x # w /\ pc[x] = "generate"
    BY <1>2
  <2>2. CASE b \in registered
    BY <1>l, <2>1, <2>2 DEF SealInv, NoGenerationOnceRegistered, Certificate, LandsUnseen
  <2>3. CASE b = new
    <3>1. ProcessOf[w] # ProcessOf[x]
      BY <1>u, <1>t, <2>1, MutualExclusion DEF Locked
    <3>2. x \in OtherProcess(w)
      BY <3>1 DEF OtherProcess
    <3> QED
      BY <1>l, <2>1, <2>3, <3>2 DEF LandsUnseen
  <2> QED
    BY <1>u, <2>2, <2>3
<1>9. SuccessIsBacked'
  <2> SUFFICES ASSUME NEW r \in replies', r.outcome = "completed"
               PROVE  \E b \in registered' :
                          /\ r.bundles = {b}
                          /\ b.key = r.key
                          /\ b.body.request = r.request
                          /\ b.body.call \in custody \intersect stored
    BY <1>u DEF SuccessIsBacked
  <2>1. r \in replies
    BY <1>r, <1>a
  <2> QED
    BY <1>u, <2>1 DEF SealInv, SuccessIsBacked
<1> QED
  BY <1>1, <1>3, <1>4, <1>5, <1>6, <1>7, <1>8, <1>9, <1>n DEF SealInv

\* A registration that nobody waits for commits: every call that is about to generate for
\* its key has looked the key up before.
LEMMA LateRegisterSeal ==
    ASSUME SealInv, NEW b \in pending, LateRegister(b)
    PROVE  SealInv'
<1>u. /\ UNCHANGED <<revoked, custody, stored, pc, key, request, calls, media, holder, replies,
                     faults>>
      /\ pending' \subseteq pending
      /\ registered' = registered \union {b}
      /\ \A d \in registered : d # b => d.key # b.key
      /\ LandsUnseen(b, Workers)
  BY DEF LateRegister, evidenceVars, callVars, Registry!Accept, Registry!Clash
<1>t. TypeOK /\ LockInv /\ OneBundle /\ CallInv /\ SilentReplies /\ PendingInv
  BY DEF SealInv
<1>b. b \in Bundle /\ b.body.call \in custody \intersect stored
  BY <1>t DEF TypeOK, PendingInv
<1>1. TypeOK'
  <2>1. blind' \subseteq CallId
    BY <1>u, <1>t, LandsUnseenType
  <2> QED
    BY <1>u, <1>t, <1>b, <2>1 DEF TypeOK
<1>2. LockInv' /\ SilentReplies' /\ PendingInv'
  BY <1>u, <1>t DEF LockInv, SilentReplies, PendingInv
<1>4. OneBundle'
  <2> SUFFICES ASSUME NEW c \in registered', NEW d \in registered', c.key = d.key
               PROVE  c = d
    BY DEF OneBundle
  <2> QED
    BY <1>u, <1>t DEF OneBundle
<1>5. CallInv'
  <2> SUFFICES ASSUME NEW x \in Workers
               PROVE  Progress(x)'
    BY DEF CallInv
  <2>0. Progress(x)
    BY <1>t DEF CallInv
  <2>1. Call(x)' = Call(x) /\ BundleOf(x)' = BundleOf(x)
    BY <1>u DEF Call, BundleOf
  <2>2. Certificate(key[x]) \subseteq Certificate(key[x])' /\ registered \subseteq registered'
    BY <1>u DEF Certificate
  <2> QED
    BY <1>u, <2>0, <2>1, <2>2 DEF Progress
<1>7. CertificateIsBacked'
  BY <1>u, <1>b DEF SealInv, CertificateIsBacked
<1>8. NoGenerationOnceRegistered'
  <2> SUFFICES ASSUME NEW x \in Workers, pc[x] = "generate",
                      NEW c \in registered', c.key = key[x]
               PROVE  Call(x) \in blind'
    BY <1>u DEF NoGenerationOnceRegistered, Certificate, Call
  <2>1. CASE c \in registered
    BY <1>u, <2>1 DEF SealInv, NoGenerationOnceRegistered, Certificate, LandsUnseen
  <2>2. CASE c = b
    BY <1>u, <2>2 DEF LandsUnseen
  <2> QED
    BY <1>u, <2>1, <2>2
<1>9. SuccessIsBacked'
  BY <1>u DEF SealInv, SuccessIsBacked
<1> QED
  BY <1>1, <1>2, <1>4, <1>5, <1>7, <1>8, <1>9 DEF SealInv

\* What does not read the variables a step changes.
LEMMA KeepsRegistry ==
    ASSUME SealInv, UNCHANGED <<registered, custody, stored, replies>>
    PROVE  /\ OneBundle' /\ SilentReplies' /\ CertificateIsBacked' /\ SuccessIsBacked'
           /\ UNCHANGED pending => PendingInv'
<1>1. OneBundle' /\ SilentReplies' /\ CertificateIsBacked'
  BY DEF SealInv, OneBundle, SilentReplies, CertificateIsBacked
<1>2. SuccessIsBacked'
  BY DEF SealInv, SuccessIsBacked
<1>3. UNCHANGED pending => PendingInv'
  BY DEF SealInv, PendingInv
<1> QED
  BY <1>1, <1>2, <1>3

\* A new call, under a key and for a request of its own.
LEMMA ReceiveSeal ==
    ASSUME SealInv, NEW w \in Workers, Receive(w)
    PROVE  SealInv'
<1>u. /\ UNCHANGED <<registered, revoked, blind, custody, stored, media, holder, replies,
                     pending, faults>>
      /\ pc' = [pc EXCEPT ![w] = "waiting"]
      /\ calls[w] < MaxCalls
      /\ calls' = [calls EXCEPT ![w] = @ + 1]
  BY DEF Receive, registryVars, evidenceVars, Goto
<1>k. PICK k \in Keys : key' = [key EXCEPT ![w] = k]
  BY DEF Receive
<1>q. PICK q \in Requests : request' = [request EXCEPT ![w] = q]
  BY DEF Receive
<1>t. TypeOK /\ LockInv /\ CallInv
  BY DEF SealInv
<1>m. MaxCalls \in Nat
  BY SealAssumption
<1>0. calls[w] \in 0..MaxCalls
  BY <1>t DEF TypeOK
<1>2. /\ pc'[w] = "waiting" /\ calls'[w] \in 1..MaxCalls
      /\ \A x \in Workers : x # w =>
            pc'[x] = pc[x] /\ key'[x] = key[x] /\ request'[x] = request[x] /\ calls'[x] = calls[x]
  BY <1>u, <1>k, <1>q, <1>t, <1>m, <1>0 DEF TypeOK
<1>1. TypeOK'
  <2>1. key' \in [Workers -> Keys] /\ request' \in [Workers -> Requests]
    BY <1>k, <1>q, <1>t DEF TypeOK
  <2>2. calls' \in [Workers -> 0..MaxCalls]
    BY <1>u, <1>t, <1>m, <1>0 DEF TypeOK
  <2>3. pc' \in [Workers -> {"idle", "waiting"} \union Locked]
    BY <1>u, <1>t DEF TypeOK
  <2> QED
    BY <1>u, <1>t, <2>1, <2>2, <2>3 DEF TypeOK
<1>3. LockInv'
  BY <1>u, <1>t, <1>2 DEF LockInv, Locked
<1>5. CallInv'
  <2> SUFFICES ASSUME NEW x \in Workers
               PROVE  Progress(x)'
    BY DEF CallInv
  <2>1. CASE x # w
    <3>1. Progress(x)
      BY <1>t DEF CallInv
    <3>2. pc'[x] = pc[x] /\ key'[x] = key[x] /\ request'[x] = request[x] /\ calls'[x] = calls[x]
      BY <1>2, <2>1
    <3>3. Call(x)' = Call(x) /\ BundleOf(x)' = BundleOf(x) /\ Certificate(key[x])' = Certificate(key[x])
      BY <1>u, <3>2 DEF Call, BundleOf, Certificate
    <3> QED
      BY <1>u, <3>1, <3>2, <3>3 DEF Progress
  <2>2. CASE x = w
    BY <1>2, <2>2 DEF Progress
  <2> QED
    BY <2>1, <2>2
<1>8. NoGenerationOnceRegistered'
  <2>1. \A x \in Workers :
           x # w => Certificate(key[x])' = Certificate(key[x]) /\ Call(x)' = Call(x)
    BY <1>u, <1>2 DEF Certificate, Call
  <2> QED
    BY <1>u, <1>2, <2>1 DEF SealInv, NoGenerationOnceRegistered
<1> QED
  BY <1>u, <1>1, <1>3, <1>5, <1>8, KeepsRegistry DEF SealInv

\* The lock is free, so no thread of the process is inside it.
LEMMA AcquireSeal ==
    ASSUME SealInv, NEW w \in Workers, Acquire(w)
    PROVE  SealInv'
<1>u. /\ UNCHANGED <<registered, revoked, custody, stored, key, request, calls, media,
                     replies, blind, pending, faults>>
      /\ pc[w] = "waiting"
      /\ pc' = [pc EXCEPT ![w] = "lookup"]
      /\ holder[ProcessOf[w]] = NoWorker
      /\ holder' = [holder EXCEPT ![ProcessOf[w]] = w]
  BY DEF Acquire, registryVars, evidenceVars, callVars, Goto
<1>t. TypeOK /\ LockInv /\ CallInv
  BY DEF SealInv
<1>1. TypeOK'
  <2>1. holder' \in [Processes -> Workers \union {NoWorker}]
    BY <1>u, <1>t DEF TypeOK
  <2>2. pc' \in [Workers -> {"idle", "waiting"} \union Locked]
    BY <1>u, <1>t DEF TypeOK, Locked
  <2> QED
    BY <1>u, <1>t, <2>1, <2>2 DEF TypeOK
<1>2. pc'[w] = "lookup" /\ \A x \in Workers : x # w => pc'[x] = pc[x]
  BY <1>u, <1>t DEF TypeOK
<1>3. LockInv'
  <2> SUFFICES ASSUME NEW x \in Workers, pc'[x] \in Locked
               PROVE  holder'[ProcessOf[x]] = x
    BY DEF LockInv
  <2>0. ProcessOf[x] \in Processes /\ ProcessOf[w] \in Processes
    BY SealAssumption
  <2>1. CASE x = w
    BY <1>u, <1>t, <2>0, <2>1 DEF TypeOK
  <2>2. CASE x # w
    <3>1. holder[ProcessOf[x]] = x
      BY <1>t, <1>2, <2>2 DEF LockInv
    <3>2. ProcessOf[x] # ProcessOf[w]
      BY <1>u, <3>1, SealAssumption
    <3> QED
      BY <1>u, <1>t, <2>0, <3>1, <3>2 DEF TypeOK
  <2> QED
    BY <2>1, <2>2
<1>5. CallInv'
  <2> SUFFICES ASSUME NEW x \in Workers
               PROVE  Progress(x)'
    BY DEF CallInv
  <2>0. Progress(x)
    BY <1>t DEF CallInv
  <2>1. Call(x)' = Call(x) /\ BundleOf(x)' = BundleOf(x) /\ Certificate(key[x])' = Certificate(key[x])
    BY <1>u DEF Call, BundleOf, Certificate
  <2>2. pc'[x] = pc[x] \/ (pc'[x] = "lookup" /\ pc[x] = "waiting")
    BY <1>u, <1>2
  <2> QED
    BY <1>u, <2>0, <2>1, <2>2 DEF Progress
<1>8. NoGenerationOnceRegistered'
  <2>1. \A x \in Workers : Certificate(key[x])' = Certificate(key[x]) /\ Call(x)' = Call(x)
    BY <1>u DEF Certificate, Call
  <2> QED
    BY <1>u, <1>2, <2>1 DEF SealInv, NoGenerationOnceRegistered
<1> QED
  BY <1>u, <1>1, <1>3, <1>5, <1>8, KeepsRegistry DEF SealInv

\* A crash takes the calls of its process and their lock, and leaves the others'.
LEMMA CrashSeal ==
    ASSUME SealInv, NEW p \in Processes, Crash(p)
    PROVE  SealInv'
<1>u. /\ UNCHANGED <<registered, revoked, blind, custody, stored, key, request, calls, media,
                     replies>>
      /\ faults' = faults + 1
      /\ pending' = pending \union
             {BundleOf(w) : w \in {x \in Workers : ProcessOf[x] = p /\ pc[x] = "register"}}
      /\ pc' = [w \in Workers |-> IF ProcessOf[w] = p THEN "idle" ELSE pc[w]]
      /\ holder' = [holder EXCEPT ![p] = NoWorker]
  BY DEF Crash, registryVars, evidenceVars, callVars
<1>t. TypeOK /\ LockInv /\ CallInv
  BY DEF SealInv
<1>p. pending' \subseteq Bundle /\ PendingInv'
  <2>1. ASSUME NEW x \in Workers, pc[x] = "register"
        PROVE  BundleOf(x) \in Bundle /\ BundleOf(x).body.call \in custody \intersect stored
    BY <1>t, <2>1, RegisteringBundle
  <2>2. pending \subseteq Bundle /\ \A b \in pending : b.body.call \in custody \intersect stored
    BY DEF SealInv, TypeOK, PendingInv
  <2>3. \A b \in pending' : b \in Bundle /\ b.body.call \in custody \intersect stored
    BY <1>u, <2>1, <2>2
  <2> QED
    BY <1>u, <2>3 DEF PendingInv
<1>2. \A x \in Workers : pc'[x] = "idle" \/ (pc'[x] = pc[x] /\ ProcessOf[x] # p)
  BY <1>u
<1>1. TypeOK'
  <2>1. holder' \in [Processes -> Workers \union {NoWorker}]
    BY <1>u, <1>t DEF TypeOK
  <2>2. pc' \in [Workers -> {"idle", "waiting"} \union Locked]
    BY <1>u, <1>t DEF TypeOK
  <2>3. faults' \in Nat
    BY <1>u, <1>t DEF TypeOK
  <2> QED
    BY <1>u, <1>t, <1>p, <2>1, <2>2, <2>3 DEF TypeOK
<1>3. LockInv'
  <2> SUFFICES ASSUME NEW x \in Workers, pc'[x] \in Locked
               PROVE  holder'[ProcessOf[x]] = x
    BY DEF LockInv
  <2>1. pc[x] \in Locked /\ ProcessOf[x] # p
    BY <1>2 DEF Locked
  <2>2. holder[ProcessOf[x]] = x /\ ProcessOf[x] \in Processes
    BY <1>t, <2>1, SealAssumption DEF LockInv
  <2> QED
    BY <1>u, <1>t, <2>1, <2>2 DEF TypeOK
<1>5. CallInv'
  <2> SUFFICES ASSUME NEW x \in Workers
               PROVE  Progress(x)'
    BY DEF CallInv
  <2>0. Progress(x)
    BY <1>t DEF CallInv
  <2>1. Call(x)' = Call(x) /\ BundleOf(x)' = BundleOf(x) /\ Certificate(key[x])' = Certificate(key[x])
    BY <1>u DEF Call, BundleOf, Certificate
  <2> QED
    BY <1>u, <1>2, <2>0, <2>1 DEF Progress
<1>8. NoGenerationOnceRegistered'
  <2>1. \A x \in Workers : Certificate(key[x])' = Certificate(key[x]) /\ Call(x)' = Call(x)
    BY <1>u DEF Certificate, Call
  <2> QED
    BY <1>u, <1>2, <2>1 DEF SealInv, NoGenerationOnceRegistered
<1> QED
  BY <1>u, <1>1, <1>3, <1>5, <1>8, <1>p, KeepsRegistry DEF SealInv

\* A revocation leaves the certificate registered.
LEMMA RevokeSeal ==
    ASSUME SealInv, NEW k \in Keys, Revoke(k)
    PROVE  SealInv'
<1>u. UNCHANGED <<registered, custody, stored, key, request, calls, pc, media, holder, replies,
                  blind, pending, faults>>
  BY DEF Revoke, Registry!RevokeBundle, evidenceVars, callVars
<1>1. TypeOK'
  <2>1. PICK b \in Certificate(k) : b \in registered /\ revoked' = revoked \union {b}
    BY DEF Revoke, Registry!RevokeBundle
  <2> QED
    BY <1>u, <2>1 DEF SealInv, TypeOK
<1>2. LockInv'
  BY <1>u DEF SealInv, LockInv
<1>3. CallInv'
  <2> SUFFICES ASSUME NEW x \in Workers
               PROVE  Progress(x)'
    BY DEF CallInv
  <2>1. Call(x)' = Call(x) /\ BundleOf(x)' = BundleOf(x) /\ Certificate(key[x])' = Certificate(key[x])
    BY <1>u DEF Call, BundleOf, Certificate
  <2> QED
    BY <1>u, <2>1 DEF SealInv, CallInv, Progress
<1>4. NoGenerationOnceRegistered'
  <2>1. \A x \in Workers : Certificate(key[x])' = Certificate(key[x]) /\ Call(x)' = Call(x)
    BY <1>u DEF Certificate, Call
  <2> QED
    BY <1>u, <2>1 DEF SealInv, NoGenerationOnceRegistered
<1> QED
  BY <1>u, <1>1, <1>2, <1>3, <1>4, KeepsRegistry DEF SealInv

\* The places of a call inside the lock.
LEMMA LockedPlaces ==
    /\ {"lookup", "compare", "generate", "prepare", "custody", "upload", "register",
        "reread"} \subseteq Locked
    /\ {"generate", "compare", "prepare", "custody", "upload", "register"}
          \subseteq Locked \ {"reread"}
BY DEF Locked

\* The certificate a comparison that matches answers with is of this key and request.
LEMMA MatchingAnswer ==
    ASSUME SealInv, NEW w \in Workers, pc[w] = "compare",
           \A b \in Certificate(key[w]) : b.body.request = request[w]
    PROVE  EarnedAnswer(w, "completed", Certificate(key[w]))
<1>1. OneBundle /\ Certificate(key[w]) # {}
  BY DEF SealInv, CallInv, Progress
<1>2. PICK b : b \in Certificate(key[w])
  BY <1>1
<1>3. Certificate(key[w]) = {b} /\ b \in registered /\ b.key = key[w]
  BY <1>1, <1>2, OneCertificate
<1>4. b.body.request = request[w]
  BY <1>2
<1> QED
  BY <1>3, <1>4 DEF EarnedAnswer

\* The certificate read again after the registration is the one just registered.
LEMMA RereadAnswer ==
    ASSUME SealInv, NEW w \in Workers, pc[w] = "reread"
    PROVE  /\ Certificate(key[w]) = {BundleOf(w)}
           /\ EarnedAnswer(w, "completed", Certificate(key[w]))
<1>1. TypeOK /\ OneBundle /\ calls[w] \in 1..MaxCalls /\ BundleOf(w) \in registered
  BY DEF SealInv, CallInv, Progress
<1>2. BundleOf(w).key = key[w] /\ BundleOf(w).body = [call |-> Call(w), request |-> request[w]]
  BY <1>1, CallType
<1>3. BundleOf(w) \in Certificate(key[w])
  BY <1>1, <1>2 DEF Certificate
<1>4. Certificate(key[w]) = {BundleOf(w)}
  BY <1>1, <1>3, OneCertificate
<1>5. BundleOf(w).body.request = request[w]
  BY <1>2
<1> QED
  BY <1>1, <1>2, <1>4, <1>5 DEF EarnedAnswer

\* What a step of a call does: it moves on inside the lock, registers, or ends.
LEMMA StepSeal ==
    ASSUME SealInv, NEW w \in Workers, Step(w)
    PROVE  SealInv'
<1>t. TypeOK /\ CallInv
  BY DEF SealInv
<1>s. /\ custody \subseteq CallId /\ stored \subseteq CallId /\ media \in [Workers -> Media]
      /\ faults \in Nat
  BY <1>t DEF TypeOK
<1>c. pc[w] \in Locked => Call(w) \in CallId
  BY <1>t, CallType DEF CallInv, Progress, Locked
<1>0. UNCHANGED evidenceVars => UNCHANGED <<custody, stored>>
  BY DEF evidenceVars
<1>e. EarnedAnswer(w, "error", {}) /\ EarnedAnswer(w, "conflict", {})
  BY DEF EarnedAnswer
<1>1. CASE Lookup(w)
  <2>1. CASE Certificate(key[w]) = {}
    BY <1>0, <1>s, <1>1, <2>1, LockedPlaces, MoveSeal DEF Lookup
  <2>2. CASE Certificate(key[w]) # {}
    BY <1>0, <1>s, <1>1, <2>2, LockedPlaces, MoveSeal DEF Lookup
  <2> QED
    BY <2>1, <2>2
<1>2. CASE Compare(w)
  <2>1. CASE \A b \in Certificate(key[w]) : b.body.request = request[w]
    <3>1. EarnedAnswer(w, "completed", Certificate(key[w]))
      BY <1>2, <2>1, MatchingAnswer DEF Compare
    <3> QED
      BY <1>0, <1>s, <1>2, <2>1, <3>1, LockedPlaces, FinishSeal DEF Compare
  <2>2. CASE ~\A b \in Certificate(key[w]) : b.body.request = request[w]
    BY <1>0, <1>e, <1>s, <1>2, <2>2, LockedPlaces, FinishSeal DEF Compare
  <2> QED
    BY <2>1, <2>2
<1>3. CASE Generate(w)
  <2>1. ASSUME NEW m \in Media, media' = [media EXCEPT ![w] = m], Goto(w, "prepare"),
               UNCHANGED <<holder, replies>>
        PROVE  SealInv'
    <3>1. media' \in [Workers -> Media] /\ \A x \in Workers : x # w => media'[x] = media[x]
      BY <1>s, <2>1
    <3> QED
      BY <1>s, <1>3, <2>1, <3>1, LockedPlaces, MoveSeal DEF Generate
  <2>2. CASE Finish(w, "error", {}) /\ UNCHANGED media
    BY <1>e, <1>s, <1>3, <2>2, LockedPlaces, FinishSeal DEF Generate
  <2> QED
    BY <1>3, <2>1, <2>2 DEF Generate
<1>4. CASE Prepare(w)
  BY <1>0, <1>s, <1>4, LockedPlaces, MoveSeal DEF Prepare
<1>5. CASE TakeCustody(w)
  <2>1. custody' = custody \union {Call(w)} /\ custody' \subseteq CallId
    BY <1>5, <1>s, <1>c, LockedPlaces DEF TakeCustody
  <2> QED
    BY <1>s, <1>5, <2>1, LockedPlaces, MoveSeal DEF TakeCustody
<1>6. CASE Upload(w)
  <2>1. stored \subseteq stored' /\ stored' \subseteq CallId
    BY <1>6, <1>s, <1>c, LockedPlaces DEF Upload
  <2>2. CASE stored' = stored \union {Call(w)} /\ Goto(w, "register") /\ UNCHANGED <<holder, replies>>
    <3>1. Call(w) \in custody
      BY <1>6, <1>t DEF Upload, CallInv, Progress
    <3> QED
      BY <1>s, <1>6, <2>1, <2>2, <3>1, LockedPlaces, MoveSeal DEF Upload
  <2>3. CASE Finish(w, "error", {})
    BY <1>e, <1>s, <1>6, <2>1, <2>3, LockedPlaces, FinishSeal DEF Upload
  <2> QED
    BY <1>6, <2>2, <2>3 DEF Upload
<1>7. CASE Register(w)
  BY <1>7, RegisterSeal
<1>8. CASE Reread(w)
  <2>1. Certificate(key[w]) = {BundleOf(w)} /\ EarnedAnswer(w, "completed", Certificate(key[w]))
    BY <1>8, RereadAnswer DEF Reread
  <2>2. Finish(w, "completed", Certificate(key[w]))
    BY <1>8, <2>1 DEF Reread
  <2> QED
    BY <1>0, <1>s, <1>8, <2>1, <2>2, LockedPlaces, FinishSeal DEF Reread
<1>9. CASE Fail(w)
  BY <1>0, <1>e, <1>s, <1>9, LockedPlaces, FinishSeal DEF Fail
<1>10. CASE GiveUp(w)
  <2>1. /\ pc[w] = "register" /\ Finish(w, "error", {})
        /\ UNCHANGED <<registryVars, callVars, custody, stored, media>>
        /\ pending' = pending \union {BundleOf(w)}
        /\ faults' \in Nat
    BY <1>0, <1>s, <1>10 DEF GiveUp
  <2> QED
    BY <1>e, <1>s, <2>1, LockedPlaces, FinishSeal
<1> QED
  BY <1>1, <1>2, <1>3, <1>4, <1>5, <1>6, <1>7, <1>8, <1>9, <1>10 DEF Step

\* Every step keeps the invariant.
LEMMA NextSeal == SealInv /\ [Next]_vars => SealInv'
<1> SUFFICES ASSUME SealInv, [Next]_vars
             PROVE  SealInv'
  OBVIOUS
<1>1. ASSUME NEW w \in Workers, Receive(w)
      PROVE  SealInv'
  BY <1>1, ReceiveSeal
<1>2. ASSUME NEW w \in Workers, Acquire(w)
      PROVE  SealInv'
  BY <1>2, AcquireSeal
<1>3. ASSUME NEW w \in Workers, Step(w)
      PROVE  SealInv'
  BY <1>3, StepSeal
<1>4. ASSUME NEW p \in Processes, Crash(p)
      PROVE  SealInv'
  BY <1>4, CrashSeal
<1>5. ASSUME NEW k \in Keys, Revoke(k)
      PROVE  SealInv'
  BY <1>5, RevokeSeal
<1>7. ASSUME NEW b \in pending, LateRegister(b)
      PROVE  SealInv'
  BY <1>7, LateRegisterSeal
<1>6. CASE UNCHANGED vars
  BY <1>6 DEF vars, SealInv, TypeOK, LockInv, OneBundle, CallInv, Progress, SilentReplies,
     PendingInv, CertificateIsBacked, NoGenerationOnceRegistered, SuccessIsBacked, Certificate, Call, BundleOf
<1> QED
  BY <1>1, <1>2, <1>3, <1>4, <1>5, <1>6, <1>7 DEF Next

-------------------------------------------------------------------------------
(* What holds of every behaviour. *)

\* The invariant holds of the service, among any number of processes.
THEOREM SealInvariant == Spec => []SealInv
<1>1. Init => SealInv
  BY InitSeal
<1>2. SealInv /\ [Next]_vars => SealInv'
  BY NextSeal
<1> QED
  BY <1>1, <1>2, PTL DEF Spec

\* Every call, answer and bundle has values of the declared types.
THEOREM SealTypes == Spec => []TypeOK
<1>1. SealInv => TypeOK
  BY DEF SealInv
<1> QED
  BY <1>1, SealInvariant, PTL

\* The lock of a process excludes: two of its threads are never both inside a call.
THEOREM CallsExclude ==
    Spec => [](\A w, x \in Workers :
                  /\ pc[w] \in Locked
                  /\ pc[x] \in Locked
                  /\ ProcessOf[w] = ProcessOf[x]
                  => w = x)
<1>1. SealInv => \A w, x \in Workers :
                    /\ pc[w] \in Locked
                    /\ pc[x] \in Locked
                    /\ ProcessOf[w] = ProcessOf[x]
                    => w = x
  BY MutualExclusion DEF SealInv
<1> QED
  BY <1>1, SealInvariant, PTL

\* A completed answer names the registered certificate of its key and its request,
\* whose custody was verified and whose sealed version was stored.
THEOREM SuccessesAreBacked == Spec => []SuccessIsBacked
<1>1. SealInv => SuccessIsBacked
  BY DEF SealInv
<1> QED
  BY <1>1, SealInvariant, PTL

\* No certificate is registered ahead of its evidence.
THEOREM CertificatesAreBacked == Spec => []CertificateIsBacked
<1>1. SealInv => CertificateIsBacked
  BY DEF SealInv
<1> QED
  BY <1>1, SealInvariant, PTL

\* The provider is never called for a certificate that the lookup of the call could have
\* found: one that is there came after the lookup, from another process or from a call that
\* had given up.
THEOREM NeverGeneratesAgain == Spec => []NoGenerationOnceRegistered
<1>1. SealInv => NoGenerationOnceRegistered
  BY DEF SealInv
<1> QED
  BY <1>1, SealInvariant, PTL

-------------------------------------------------------------------------------
(***************************************************************************)
(* The service implements IssueOnce.  The registration of a new bundle is  *)
(* the issue of its key, an answer that names a certificate is an answer,  *)
(* a conflict is a refusal, and every other step changes nothing there.    *)
(***************************************************************************)
Issued == [k \in Keys |-> IssuedOf(k)]

NamedBy(r) == {[key |-> r.key, request |-> r.request, result |-> b.sealed] : b \in r.bundles}

Answered == UNION {NamedBy(r) : r \in replies}

Refused == {[key |-> r.key, request |-> r.request]
            : r \in {x \in replies : x.outcome = "conflict"}}

\* The issue of a bundle.
IssueOf(b) == [request |-> b.body.request, result |-> b.sealed]

\* A set of one element has one choice.
LEMMA ChoiceOfOne ==
    ASSUME NEW S, NEW b, S = {b}
    PROVE  (CHOOSE x \in S : TRUE) = b
<1>1. (CHOOSE x \in S : TRUE) \in S
  OBVIOUS
<1> QED
  BY <1>1

\* What a registered bundle issues is not Unissued.
LEMMA IssueType ==
    ASSUME NEW b \in Bundle
    PROVE  /\ IssueOf(b) \in [request : Requests, result : Sealed]
           /\ IssueOf(b) # Unissued
<1>1. b.body.request \in Requests /\ b.sealed \in Sealed
  BY DEF Bundle
<1>2. IssueOf(b) \in [request : Requests, result : Sealed]
  BY <1>1 DEF IssueOf
<1> QED
  BY <1>2, UnissuedAssumption

\* What a key has issued is what its certificate says.
LEMMA IssuedIsCertificate ==
    ASSUME NEW k, NEW b, Certificate(k) = {b}
    PROVE  IssuedOf(k) = IssueOf(b)
<1>1. (CHOOSE x \in Certificate(k) : TRUE) = b
  BY ChoiceOfOne
<1> QED
  BY <1>1 DEF IssuedOf, IssueOf

\* A step that leaves the registry and its answers alone is a stutter.
LEMMA SameRegistry ==
    ASSUME UNCHANGED registered
    PROVE  UNCHANGED Issued
<1>1. \A k \in Keys : Certificate(k)' = Certificate(k)
  BY DEF Certificate
<1>2. \A k \in Keys : IssuedOf(k)' = IssuedOf(k)
  BY <1>1 DEF IssuedOf
<1> QED
  BY <1>2 DEF Issued

\* What the answer to a call adds to what was answered ...
LEMMA FinishAnswers ==
    ASSUME NEW w, NEW outcome, NEW bundles, Finish(w, outcome, bundles)
    PROVE  Answered' = Answered \union
               {[key |-> key[w], request |-> request[w], result |-> b.sealed] : b \in bundles}
<1> DEFINE answer == [call |-> Call(w), key |-> key[w], request |-> request[w],
                      outcome |-> outcome, bundles |-> bundles]
<1>1. replies' = replies \union {answer}
  BY DEF Finish
<1>2. /\ answer.key = key[w] /\ answer.request = request[w]
      /\ answer.bundles = bundles
  OBVIOUS
<1> HIDE DEF answer
<1>3. Answered' = Answered \union NamedBy(answer)
  BY <1>1 DEF Answered, NamedBy
<1>4. NamedBy(answer) = {[key |-> key[w], request |-> request[w], result |-> b.sealed]
                          : b \in bundles}
  BY <1>2 DEF NamedBy
<1> QED
  BY <1>3, <1>4

\* Nothing, when it names no bundle ...
LEMMA FinishNamesNothing ==
    ASSUME NEW w, NEW outcome, Finish(w, outcome, {})
    PROVE  Answered' = Answered
<1> DEFINE named == {[key |-> key[w], request |-> request[w], result |-> b.sealed] : b \in {}}
<1>1. Answered' = Answered \union named
  BY FinishAnswers
<1>2. named = {}
  OBVIOUS
<1> HIDE DEF named
<1> QED
  BY <1>1, <1>2

\* ... and to what was refused: a conflict, and nothing else.
LEMMA FinishRefuses ==
    ASSUME NEW w, NEW outcome, NEW bundles, Finish(w, outcome, bundles)
    PROVE  /\ outcome = "conflict" =>
                 Refused' = Refused \union {[key |-> key[w], request |-> request[w]]}
           /\ outcome # "conflict" => Refused' = Refused
<1> DEFINE answer == [call |-> Call(w), key |-> key[w], request |-> request[w],
                      outcome |-> outcome, bundles |-> bundles]
<1>1. replies' = replies \union {answer}
  BY DEF Finish
<1>2. answer.key = key[w] /\ answer.request = request[w] /\ answer.outcome = outcome
  OBVIOUS
<1> HIDE DEF answer
<1>3. CASE outcome = "conflict"
  BY <1>1, <1>2, <1>3 DEF Refused
<1>4. CASE outcome # "conflict"
  BY <1>1, <1>2, <1>4 DEF Refused
<1> QED
  BY <1>3, <1>4

\* A call that ends without naming a bundle, for another reason than a conflict.
LEMMA ErrorRefines ==
    ASSUME NEW w, Finish(w, "error", {})
    PROVE  UNCHANGED <<Answered, Refused>>
<1>1. Answered' = Answered
  BY FinishNamesNothing
<1>2. Refused' = Refused
  BY FinishRefuses
<1> QED
  BY <1>1, <1>2

\* An answer that names the certificate of the key is an answer of the promise.
LEMMA AnswerRefines ==
    ASSUME SealInv, NEW w \in Workers, NEW b, Certificate(key[w]) = {b},
           b.body.request = request[w],
           Finish(w, "completed", Certificate(key[w])), UNCHANGED registered
    PROVE  Promise!Next
<1>0. PICK k \in Keys : k = key[w]
  BY DEF SealInv, TypeOK
<1>1. b \in Bundle
  BY DEF SealInv, TypeOK, Certificate
<1>2. Issued[k] = IssueOf(b)
  BY <1>0, IssuedIsCertificate DEF Issued
<1>3. Issued[k] # Unissued
  BY <1>1, <1>2, IssueType
<1>4. Issued[k].request = request[w] /\ Issued[k].result = b.sealed
  BY <1>2 DEF IssueOf
<1>5. Answered' = Answered \union {[key |-> k, request |-> request[w], result |-> b.sealed]}
  BY <1>0, FinishAnswers
<1>6. UNCHANGED <<Issued, Refused>>
  <2>1. Refused' = Refused
    BY FinishRefuses
  <2> QED
    BY <2>1, SameRegistry
<1>7. Promise!Answer(k)
  <2>1. Answered' = Answered \union
           {[key |-> k, request |-> Issued[k].request, result |-> Issued[k].result]}
    BY <1>4, <1>5
  <2> QED
    BY <1>3, <1>6, <2>1 DEF Promise!Answer, Issued, Answered, NamedBy, Refused
<1> QED
  BY <1>7 DEF Promise!Next

\* A conflict is a refusal of a request other than the one issued.
LEMMA ConflictRefines ==
    ASSUME SealInv, NEW w \in Workers, NEW b \in Certificate(key[w]),
           b.body.request # request[w],
           Finish(w, "conflict", {}), UNCHANGED registered
    PROVE  Promise!Next
<1>0. PICK k \in Keys, q \in Requests : k = key[w] /\ q = request[w]
  BY DEF SealInv, TypeOK
<1>1. b \in Bundle
  BY DEF SealInv, TypeOK, Certificate
<1>2. Certificate(k) = {b}
  BY <1>0, OneCertificate DEF SealInv
<1>3. Issued[k] = IssueOf(b)
  BY <1>2, IssuedIsCertificate DEF Issued
<1>4. Issued[k] # Unissued
  BY <1>1, <1>3, IssueType
<1>5. Issued[k].request # q
  BY <1>0, <1>3 DEF IssueOf
<1>6. Refused' = Refused \union {[key |-> k, request |-> q]}
  BY <1>0, FinishRefuses
<1>7. UNCHANGED <<Issued, Answered>>
  <2>1. Answered' = Answered
    BY FinishNamesNothing
  <2> QED
    BY <2>1, SameRegistry
<1>8. Promise!Refuse(k, q)
  BY <1>4, <1>5, <1>6, <1>7 DEF Promise!Refuse, Issued, Answered, NamedBy, Refused
<1> QED
  BY <1>8 DEF Promise!Next

\* A bundle accepted by the registry issues its key, unless it was registered already.
LEMMA AcceptRefines ==
    ASSUME NEW new \in Bundle, registered' = registered \union {new},
           \A d \in registered : d # new => d.key # new.key,
           UNCHANGED <<Answered, Refused>>
    PROVE  Promise!Next \/ UNCHANGED <<Issued, Answered, Refused>>
<1>1. PICK k \in Keys : new.key = k
  BY DEF Bundle
<1>2. UNCHANGED <<Answered, Refused>>
  OBVIOUS
<1>3. registered' = registered \union {new} /\ \A d \in registered : d # new => d.key # new.key
  OBVIOUS
<1>4. CASE new \in registered
  <2>1. UNCHANGED registered
    BY <1>3, <1>4
  <2> QED
    BY <1>2, <2>1, SameRegistry
<1>5. CASE new \notin registered
  <2>1. Certificate(k) = {} /\ Certificate(k)' = {new}
    BY <1>1, <1>3, <1>5 DEF Certificate
  <2>2. \A j \in Keys : j # k => Certificate(j)' = Certificate(j)
    BY <1>1, <1>3 DEF Certificate
  <2>3. IssuedOf(k) = Unissued
    BY <2>1 DEF IssuedOf
  <2>4. IssuedOf(k)' = IssueOf(new)
    <3>1. (CHOOSE x \in Certificate(k)' : TRUE) = new
      BY <2>1, ChoiceOfOne
    <3> QED
      BY <2>1, <3>1 DEF IssuedOf, IssueOf
  <2>5. \A j \in Keys : j # k => IssuedOf(j)' = IssuedOf(j)
    BY <2>2 DEF IssuedOf
  <2>6. Issued[k] = Unissued /\ Issued'[k] = IssueOf(new)
    BY <1>1, <2>3, <2>4 DEF Issued
  <2>7. Issued' = [Issued EXCEPT ![k] = Issued'[k]]
    BY <1>1, <2>5 DEF Issued
  <2>8. Issued'[k] \in [request : Requests, result : Sealed]
    BY <1>1, <2>6, IssueType
  <2>9. Promise!Issue(k)
    BY <1>2, <2>6, <2>7, <2>8 DEF Promise!Issue, Issued, Answered, NamedBy, Refused
  <2> QED
    BY <1>1, <2>9 DEF Promise!Next
<1> QED
  BY <1>4, <1>5

\* So does a registration, whether its caller waits for it ...
LEMMA RegisterRefines ==
    ASSUME SealInv, NEW w \in Workers, Register(w)
    PROVE  Promise!Next \/ UNCHANGED <<Issued, Answered, Refused>>
<1>1. BundleOf(w) \in Bundle
  BY RegisteringBundle DEF Register, SealInv
<1>2. UNCHANGED <<Answered, Refused>>
  <2>1. CASE UNCHANGED replies
    BY <2>1 DEF Answered, NamedBy, Refused
  <2>2. CASE Finish(w, "error", {})
    BY <2>2, ErrorRefines
  <2> QED
    BY <2>1, <2>2 DEF Register
<1>3. /\ registered' = registered \union {BundleOf(w)}
      /\ \A d \in registered : d # BundleOf(w) => d.key # BundleOf(w).key
  BY DEF Register, Registry!Accept, Registry!Clash
<1> QED
  BY <1>1, <1>2, <1>3, AcceptRefines

\* ... or not.
LEMMA LateRegisterRefines ==
    ASSUME SealInv, NEW b \in pending, LateRegister(b)
    PROVE  Promise!Next \/ UNCHANGED <<Issued, Answered, Refused>>
<1>1. b \in Bundle
  BY DEF SealInv, TypeOK
<1>2. UNCHANGED <<Answered, Refused>>
  BY DEF LateRegister, Answered, NamedBy, Refused
<1>3. /\ registered' = registered \union {b}
      /\ \A d \in registered : d # b => d.key # b.key
  BY DEF LateRegister, Registry!Accept, Registry!Clash
<1> QED
  BY <1>1, <1>2, <1>3, AcceptRefines

\* Every step of the service is a step of the promise, or changes nothing there.
LEMMA StepRefines ==
    ASSUME SealInv, [Next]_vars
    PROVE  Promise!Next \/ UNCHANGED <<Issued, Answered, Refused>>
<1>0. ASSUME UNCHANGED <<registered, replies>>
      PROVE  UNCHANGED <<Issued, Answered, Refused>>
  BY <1>0, SameRegistry DEF Answered, NamedBy, Refused
<1>1. ASSUME NEW w, Finish(w, "error", {}), UNCHANGED registered
      PROVE  UNCHANGED <<Issued, Answered, Refused>>
  BY <1>1, SameRegistry, ErrorRefines
<1>r. UNCHANGED registryVars => UNCHANGED registered
  BY DEF registryVars
<1>2. ASSUME NEW w \in Workers, Compare(w)
      PROVE  Promise!Next
  <2>1. UNCHANGED registered /\ pc[w] = "compare"
    BY <1>2, <1>r DEF Compare
  <2>2. CASE \A b \in Certificate(key[w]) : b.body.request = request[w]
    <3>1. PICK b : b \in Certificate(key[w])
      BY <2>1 DEF SealInv, CallInv, Progress
    <3>2. Certificate(key[w]) = {b}
      BY <3>1, OneCertificate DEF SealInv
    <3>3. b.body.request = request[w]
      BY <2>2, <3>1
    <3>4. Finish(w, "completed", Certificate(key[w]))
      BY <1>2, <2>2 DEF Compare
    <3> QED
      BY <2>1, <3>2, <3>3, <3>4, AnswerRefines
  <2>3. CASE ~\A b \in Certificate(key[w]) : b.body.request = request[w]
    <3>1. PICK b \in Certificate(key[w]) : b.body.request # request[w]
      BY <2>3
    <3>2. Finish(w, "conflict", {})
      BY <1>2, <2>3 DEF Compare
    <3> QED
      BY <2>1, <3>1, <3>2, ConflictRefines
  <2> QED
    BY <2>2, <2>3
<1>3. ASSUME NEW w \in Workers, Reread(w)
      PROVE  Promise!Next
  <2>1. UNCHANGED registered /\ pc[w] = "reread"
    BY <1>3, <1>r DEF Reread
  <2>2. Certificate(key[w]) = {BundleOf(w)}
    BY <2>1, RereadAnswer
  <2>3. BundleOf(w).body.request = request[w]
    <3>1. BundleOf(w).body = [call |-> Call(w), request |-> request[w]]
      BY <2>1, CallType DEF SealInv, CallInv, Progress
    <3> QED
      BY <3>1
  <2>4. Finish(w, "completed", Certificate(key[w]))
    BY <1>3, <2>2 DEF Reread
  <2> QED
    BY <2>1, <2>2, <2>3, <2>4, AnswerRefines
<1>4. ASSUME NEW w \in Workers, Register(w)
      PROVE  Promise!Next \/ UNCHANGED <<Issued, Answered, Refused>>
  BY <1>4, RegisterRefines
<1>5. ASSUME NEW w \in Workers, Generate(w) \/ Upload(w) \/ GiveUp(w) \/ Fail(w)
      PROVE  UNCHANGED <<Issued, Answered, Refused>>
  <2>1. UNCHANGED registered
    BY <1>5, <1>r DEF Generate, Upload, GiveUp, Fail
  <2>2. UNCHANGED replies \/ Finish(w, "error", {})
    BY <1>5 DEF Generate, Upload, GiveUp, Fail
  <2> QED
    BY <1>0, <1>1, <2>1, <2>2
<1>6. ASSUME NEW w \in Workers,
             Receive(w) \/ Acquire(w) \/ Lookup(w) \/ Prepare(w) \/ TakeCustody(w)
      PROVE  UNCHANGED <<Issued, Answered, Refused>>
  <2>1. UNCHANGED <<registered, replies>>
    BY <1>6, <1>r DEF Receive, Acquire, Lookup, Prepare, TakeCustody
  <2> QED
    BY <1>0, <2>1
<1>7. ASSUME (\E p \in Processes : Crash(p)) \/ (\E k \in Keys : Revoke(k)) \/ UNCHANGED vars
      PROVE  UNCHANGED <<Issued, Answered, Refused>>
  <2>1. UNCHANGED <<registered, replies>>
    BY <1>7, <1>r DEF Crash, Revoke, Registry!RevokeBundle, vars
  <2> QED
    BY <1>0, <2>1
<1>8. ASSUME NEW b \in pending, LateRegister(b)
      PROVE  Promise!Next \/ UNCHANGED <<Issued, Answered, Refused>>
  BY <1>8, LateRegisterRefines
<1> QED
  BY <1>2, <1>3, <1>4, <1>5, <1>6, <1>7, <1>8 DEF Next, Step

\* For any number of threads, processes, keys, calls and faults, an idempotency key
\* names one certificate for ever, and only another request is refused for conflict.
THEOREM SealImplementsPromise == Spec => ImplementsPromise
<1>1. Init => Promise!Init
  <2> SUFFICES ASSUME Init
               PROVE  Promise!Init
    OBVIOUS
  <2>1. registered = {} /\ replies = {}
    BY DEF Init, Registry!Init
  <2>2. \A k \in Keys : IssuedOf(k) = Unissued
    BY <2>1 DEF IssuedOf, Certificate
  <2> QED
    BY <2>1, <2>2 DEF Promise!Init
<1>2. SealInv /\ [Next]_vars
         => [Promise!Next]_<<[k \in Keys |-> IssuedOf(k)],
                             UNION {{[key |-> r.key, request |-> r.request, result |-> b.sealed]
                                     : b \in r.bundles} : r \in replies},
                             {[key |-> r.key, request |-> r.request]
                              : r \in {x \in replies : x.outcome = "conflict"}}>>
  BY StepRefines DEF Issued, Answered, NamedBy, Refused
<1> QED
  BY <1>1, <1>2, SealInvariant, PTL DEF Spec, ImplementsPromise, Promise!Spec
===============================================================================
