--------------------------- MODULE RegisterRpcProofs ---------------------------
(***************************************************************************)
(* Proofs about RegisterRpc, for any callers, any bundles and any number   *)
(* of calls: the four tables never disagree, and the function implements   *)
(* BundleRegistry.                                                         *)
(***************************************************************************)
EXTENDS RegisterRpc, TLAPS

(***************************************************************************)
(* Why AllOrNothing is kept.  A transaction either has inserted into every *)
(* table it has passed, or into none because its bundle is registered      *)
(* already (Held).  The first is so because a row it inserted clashes with *)
(* no committed row (NoClash) and with no uncommitted one                  *)
(* (PendingDisjoint), so no other transaction can make it find the         *)
(* identifier taken half way.                                              *)
(***************************************************************************)
HeldBy(c) ==
    /\ pc[c] = "idle" => pending[c] = {}
    /\ pc[c] = "insert" => \/ pending[c] = 1..(table[c] - 1)
                           \/ pending[c] = {} /\ bundle[c] \in rows[Runs]
    /\ pc[c] = "check" => \/ pending[c] = 1..table[c]
                          \/ pending[c] = {} /\ (table[c] > 1 => bundle[c] \in rows[Runs])
    /\ pc[c] = "commit" => \/ pending[c] = Tables
                           \/ pending[c] = {} /\ bundle[c] \in rows[Runs]

Held == \A c \in Callers : HeldBy(c)

NoClash ==
    \A c \in Callers : \A i \in pending[c] : \A d \in rows[i] : ~SameUnique(i, bundle[c], d)

UniqueRows ==
    \A b, d \in rows[Certificates] : SameUnique(Certificates, b, d) => b = d

Answered == \A c \in Callers : answer[c] = "registered" => bundle[c] \in rows[Certificates]

RpcInv ==
    /\ TypeOK
    /\ AllOrNothing
    /\ PendingDisjoint
    /\ Held
    /\ NoClash
    /\ UniqueRows
    /\ Answered

\* Two bundles share a unique column whichever is named first.
LEMMA SameUniqueSymmetric ==
    ASSUME NEW i, NEW b, NEW d
    PROVE  SameUnique(i, b, d) <=> SameUnique(i, d, b)
BY DEF SameUnique, SameIdentifier

\* Empty tables satisfy the invariant.
LEMMA InitRpc == Init => RpcInv
BY RpcAssumption DEF Init, RpcInv, TypeOK, AllOrNothing, PendingDisjoint, Held, HeldBy, NoClash,
   UniqueRows, Answered, Tables, Runs, Certificates

\* An aborted transaction leaves nothing behind.
LEMMA AbortRpc ==
    ASSUME RpcInv, NEW c \in Callers, Abort(c)
    PROVE  RpcInv'
<1> USE DEF RpcInv
<1>1. TypeOK'
  BY DEF Abort, TypeOK
<1>2. AllOrNothing'
  BY DEF Abort, AllOrNothing
<1>3. PendingDisjoint'
  BY DEF Abort, TypeOK, PendingDisjoint
<1>4. Held'
  BY DEF Abort, TypeOK, Held, HeldBy
<1>5. NoClash'
  BY DEF Abort, TypeOK, NoClash
<1>6. UniqueRows'
  BY DEF Abort, UniqueRows
<1>7. Answered'
  BY DEF Abort, TypeOK, Answered
<1> QED
  BY <1>1, <1>2, <1>3, <1>4, <1>5, <1>6, <1>7

\* An insert that finds its identifier taken goes on holding what it held: it is the
\* first of its transaction, or the bundle was found registered by the first.
LEMMA InsertNothingRpc ==
    ASSUME RpcInv, NEW c \in Callers, pc[c] = "insert",
           NEW d \in rows[table[c]], SameIdentifier(bundle[c], d),
           pc' = [pc EXCEPT ![c] = "check"],
           UNCHANGED <<rows, revoked, table, bundle, pending, answer, calls>>
    PROVE  RpcInv'
<1> USE DEF RpcInv
<1>1. TypeOK'
  BY DEF TypeOK
<1>2. AllOrNothing' /\ UniqueRows' /\ Answered' /\ NoClash' /\ PendingDisjoint'
  BY DEF AllOrNothing, UniqueRows, Answered, NoClash, PendingDisjoint
<1>3. table[c] \in Tables /\ Runs \in Tables
  BY DEF TypeOK, Tables, Runs
<1>4. rows[table[c]] = rows[Runs]
  BY <1>3 DEF AllOrNothing
<1>5. Runs \notin pending[c]
  BY <1>4 DEF NoClash, SameUnique
<1>6. pending[c] = {} /\ (table[c] > 1 => bundle[c] \in rows[Runs])
  BY <1>3, <1>5 DEF Held, HeldBy, Tables, Runs
<1>7. Held'
  BY <1>6 DEF Held, HeldBy, TypeOK
<1> QED
  BY <1>1, <1>2, <1>7

\* An insert of a new row: nothing committed clashes with it, and it waited for
\* whatever is uncommitted and would.
LEMMA InsertRowRpc ==
    ASSUME RpcInv, NEW c \in Callers, pc[c] = "insert", ~Blocked(c, table[c]),
           \A d \in rows[table[c]] : ~SameUnique(table[c], bundle[c], d),
           pending' = [pending EXCEPT ![c] = @ \union {table[c]}],
           pc' = [pc EXCEPT ![c] = "check"],
           UNCHANGED <<rows, revoked, table, bundle, answer, calls>>
    PROVE  RpcInv'
<1> USE DEF RpcInv
<1>1. TypeOK'
  BY DEF TypeOK
<1>2. AllOrNothing' /\ UniqueRows' /\ Answered'
  BY DEF AllOrNothing, UniqueRows, Answered
<1>3. table[c] \in Tables /\ Runs \in Tables
  BY DEF TypeOK, Tables, Runs
<1>4. rows[table[c]] = rows[Runs]
  BY <1>3 DEF AllOrNothing
<1>5. pending[c] = 1..(table[c] - 1)
  BY <1>4 DEF Held, HeldBy, SameUnique, SameIdentifier
<1>6. pending'[c] = 1..table[c]
  BY <1>3, <1>5 DEF TypeOK, Tables
<1>7. Held'
  <2>1. HeldBy(c)'
    BY <1>6 DEF HeldBy, TypeOK
  <2>2. \A x \in Callers : x # c => HeldBy(x)'
    BY DEF Held, HeldBy, TypeOK
  <2> QED
    BY <2>1, <2>2 DEF Held
<1>8. NoClash'
  BY DEF NoClash, TypeOK
<1>9. PendingDisjoint'
  <2> SUFFICES ASSUME NEW x \in Callers, NEW y \in Callers, NEW i \in Tables,
                      x # y, i \in pending'[x], i \in pending'[y]
               PROVE  ~SameUnique(i, bundle[x], bundle[y])
    BY DEF PendingDisjoint
  <2>1. CASE x = c /\ i = table[c]
    BY <2>1 DEF Blocked, TypeOK
  <2>2. CASE y = c /\ i = table[c]
    <3>1. ~SameUnique(i, bundle[y], bundle[x])
      BY <2>2 DEF Blocked, TypeOK
    <3> QED
      BY <3>1, SameUniqueSymmetric
  <2>3. CASE ~(x = c /\ i = table[c]) /\ ~(y = c /\ i = table[c])
    BY <2>3 DEF PendingDisjoint, TypeOK
  <2> QED
    BY <2>1, <2>2, <2>3
<1> QED
  BY <1>1, <1>2, <1>7, <1>8, <1>9

\* A test that passes says the row is this transaction's own or is committed.
LEMMA CheckRpc ==
    ASSUME RpcInv, NEW c \in Callers, pc[c] = "check", RowMatches(c),
           IF table[c] = Certificates
           THEN pc' = [pc EXCEPT ![c] = "commit"] /\ UNCHANGED table
           ELSE pc' = [pc EXCEPT ![c] = "insert"] /\ table' = [table EXCEPT ![c] = @ + 1],
           UNCHANGED <<rows, revoked, bundle, pending, answer, calls>>
    PROVE  RpcInv'
<1> USE DEF RpcInv
<1>1. TypeOK'
  BY DEF TypeOK, Tables, Certificates
<1>2. AllOrNothing' /\ UniqueRows' /\ Answered' /\ NoClash' /\ PendingDisjoint'
  BY DEF AllOrNothing, UniqueRows, Answered, NoClash, PendingDisjoint
<1>3. table[c] \in Tables /\ Runs \in Tables
  BY DEF TypeOK, Tables, Runs
<1>4. pending[c] = 1..table[c] \/ (pending[c] = {} /\ bundle[c] \in rows[Runs])
  BY <1>3 DEF Held, HeldBy, RowMatches, AllOrNothing, Tables
<1>5. HeldBy(c)'
  BY <1>3, <1>4 DEF HeldBy, TypeOK, Tables, Certificates
<1>6. \A x \in Callers : x # c => HeldBy(x)'
  BY DEF Held, HeldBy, TypeOK
<1> QED
  BY <1>1, <1>2, <1>5, <1>6 DEF Held

\* A commit adds the rows of all four tables, or none.
LEMMA CommitRows ==
    ASSUME RpcInv, NEW c \in Callers, Commit(c)
    PROVE  \/ pending[c] = {} /\ rows' = rows /\ bundle[c] \in rows[Certificates]
           \/ /\ pending[c] = Tables
              /\ rows' = [i \in Tables |-> rows[i] \union {bundle[c]}]
              /\ \A d \in rows[Certificates] : ~SameUnique(Certificates, bundle[c], d)
<1> USE DEF RpcInv
<1>1. pending[c] = Tables \/ (pending[c] = {} /\ bundle[c] \in rows[Runs])
  BY DEF Commit, Held, HeldBy
<1>2. CASE pending[c] = Tables
  BY <1>2 DEF Commit, NoClash, Tables, Certificates
<1>3. CASE pending[c] = {} /\ bundle[c] \in rows[Runs]
  <2>1. rows' = rows
    BY <1>3 DEF Commit, TypeOK
  <2>2. rows[Runs] = rows[Certificates]
    BY DEF AllOrNothing, Tables, Runs, Certificates
  <2> QED
    BY <1>3, <2>1, <2>2
<1> QED
  BY <1>1, <1>2, <1>3

LEMMA CommitRpc ==
    ASSUME RpcInv, NEW c \in Callers, Commit(c)
    PROVE  RpcInv'
<1> USE DEF RpcInv
<1>0. bundle[c] \in Bundles /\ bundle' = bundle /\ table' = table /\ revoked' = revoked
  BY DEF Commit, TypeOK
<1>1. TypeOK'
  <2>1. rows' \in [Tables -> SUBSET Bundles]
    BY <1>0, CommitRows DEF TypeOK
  <2>2. answer' \in [Callers -> {"none", "registered", "error"}]
    BY DEF Commit, TypeOK
  <2> QED
    BY <2>1, <2>2 DEF Commit, TypeOK
<1>2. AllOrNothing'
  BY CommitRows DEF AllOrNothing
<1>3. UniqueRows'
  BY CommitRows, SameUniqueSymmetric DEF UniqueRows, Tables, Certificates
<1>4. bundle[c] \in rows'[Certificates] /\ \A i \in Tables : rows[i] \subseteq rows'[i]
  BY CommitRows DEF Tables, Certificates
<1>5. Answered'
  BY <1>0, <1>4 DEF Answered, Commit, TypeOK, Tables, Certificates
<1>6. PendingDisjoint'
  BY DEF PendingDisjoint, Commit, TypeOK
<1>7. Held'
  <2>1. HeldBy(c)'
    BY DEF HeldBy, Commit, TypeOK
  <2>2. ASSUME NEW x \in Callers, x # c
        PROVE  HeldBy(x)'
    <3>1. pc'[x] = pc[x] /\ pending'[x] = pending[x]
      BY <2>2 DEF Commit, TypeOK
    <3>2. bundle[x] \in rows[Runs] => bundle[x] \in rows'[Runs]
      BY <1>4 DEF Tables, Runs
    <3> QED
      BY <1>0, <3>1, <3>2 DEF Held, HeldBy
  <2> QED
    BY <2>1, <2>2 DEF Held
<1>8. NoClash'
  <2> SUFFICES ASSUME NEW x \in Callers, NEW i \in pending'[x], NEW d \in rows'[i]
               PROVE  ~SameUnique(i, bundle[x], d)
    BY <1>0 DEF NoClash
  <2>1. x # c /\ i \in pending[x] /\ i \in Tables
    BY DEF Commit, TypeOK
  <2>2. CASE d \in rows[i]
    BY <2>1, <2>2 DEF NoClash
  <2>3. CASE d \notin rows[i]
    <3>1. d = bundle[c] /\ i \in pending[c]
      BY <2>1, <2>3 DEF Commit
    <3> QED
      BY <2>1, <3>1 DEF PendingDisjoint
  <2> QED
    BY <2>2, <2>3
<1> QED
  BY <1>1, <1>2, <1>3, <1>5, <1>6, <1>7, <1>8

\* Every step keeps the invariant.
LEMMA StepRpc == RpcInv /\ [Next]_vars => RpcInv'
<1> SUFFICES ASSUME RpcInv, [Next]_vars
             PROVE  RpcInv'
  OBVIOUS
<1>1. ASSUME NEW c \in Callers, NEW b \in Bundles, Call(c, b)
      PROVE  RpcInv'
  <2> USE <1>1 DEF Call, RpcInv
  <2>0. pending[c] = {}
    BY DEF Held, HeldBy
  <2>1. TypeOK'
    BY DEF TypeOK, Tables, Runs
  <2>2. AllOrNothing' /\ UniqueRows'
    BY DEF AllOrNothing, UniqueRows
  <2>3. PendingDisjoint'
    BY <2>0 DEF PendingDisjoint, TypeOK
  <2>4. Held'
    <3>1. HeldBy(c)'
      BY <2>0 DEF HeldBy, TypeOK, Runs
    <3>2. \A x \in Callers : x # c => HeldBy(x)'
      BY DEF Held, HeldBy, TypeOK
    <3> QED
      BY <3>1, <3>2 DEF Held
  <2>5. NoClash'
    BY <2>0 DEF NoClash, TypeOK
  <2>6. Answered'
    BY DEF Answered, TypeOK
  <2> QED
    BY <2>1, <2>2, <2>3, <2>4, <2>5, <2>6
<1>2. ASSUME NEW c \in Callers, Insert(c)
      PROVE  RpcInv'
  BY <1>2, AbortRpc, InsertNothingRpc, InsertRowRpc DEF Insert
<1>3. ASSUME NEW c \in Callers, Check(c)
      PROVE  RpcInv'
  BY <1>3, AbortRpc, CheckRpc DEF Check
<1>4. ASSUME NEW c \in Callers, Commit(c)
      PROVE  RpcInv'
  BY <1>4, CommitRpc
<1>5. ASSUME NEW c \in Callers, Fail(c)
      PROVE  RpcInv'
  BY <1>5, AbortRpc DEF Fail
<1>6. ASSUME NEW b \in Bundles, Revoke(b)
      PROVE  RpcInv'
  BY <1>6 DEF Revoke, sessionVars, RpcInv, TypeOK, AllOrNothing, PendingDisjoint, Held, HeldBy,
     NoClash, UniqueRows, Answered
<1>7. CASE UNCHANGED vars
  BY <1>7 DEF vars, RpcInv, TypeOK, AllOrNothing, PendingDisjoint, Held, HeldBy,
     NoClash, UniqueRows, Answered
<1> QED
  BY <1>1, <1>2, <1>3, <1>4, <1>5, <1>6, <1>7 DEF Next, Run

\* The invariant holds in every behaviour of the function.
THEOREM RpcInvariant == Spec => []RpcInv
<1>1. Init => RpcInv
  BY InitRpc
<1>2. RpcInv /\ [Next]_vars => RpcInv'
  BY StepRpc
<1> QED
  BY <1>1, <1>2, PTL DEF Spec

\* The variables keep their types.
THEOREM RpcTypes == Spec => []TypeOK
<1>1. RpcInv => TypeOK
  BY DEF RpcInv
<1> QED
  BY <1>1, RpcInvariant, PTL

\* No interleaving of registrations, failures and revocations leaves a run, an asset or
\* a custody record without its certificate, or a certificate without them.
THEOREM RegistrationIsAtomic == Spec => []AllOrNothing
<1>1. RpcInv => AllOrNothing
  BY DEF RpcInv
<1> QED
  BY <1>1, RpcInvariant, PTL

\* Uncommitted rows of two transactions never clash.
THEOREM UncommittedNeverClash == Spec => []PendingDisjoint
<1>1. RpcInv => PendingDisjoint
  BY DEF RpcInv
<1> QED
  BY <1>1, RpcInvariant, PTL

\* Who is told that a bundle is registered can rely on it.
THEOREM AnswerIsTrue == Spec => []AnsweredIsRegistered
<1>1. RpcInv => AnsweredIsRegistered
  BY DEF RpcInv, Answered, UniqueRows, AnsweredIsRegistered
<1> QED
  BY <1>1, RpcInvariant, PTL

\* Every step of the function is a step of the abstract registry, or changes nothing
\* there: the registration happens at the commit.
LEMMA StepRefines ==
    ASSUME RpcInv, [Next]_vars
    PROVE  [Abstract!Next]_<<rows[Certificates], revoked>>
<1>1. ASSUME NEW c \in Callers, Commit(c)
      PROVE  [Abstract!Next]_<<rows[Certificates], revoked>>
  <2>0. bundle[c] \in Bundles /\ revoked' = revoked
    BY <1>1 DEF RpcInv, TypeOK, Commit
  <2>1. CASE rows' = rows
    BY <2>0, <2>1
  <2>2. CASE /\ rows' = [i \in Tables |-> rows[i] \union {bundle[c]}]
             /\ \A d \in rows[Certificates] : ~SameUnique(Certificates, bundle[c], d)
    <3>1. rows'[Certificates] = rows[Certificates] \union {bundle[c]}
      BY <2>2 DEF Tables, Certificates
    <3>2. \A d \in rows[Certificates] : ~Abstract!Clash(bundle[c], d)
      BY <2>2 DEF Abstract!Clash, SameUnique, SameIdentifier
    <3>3. Abstract!Accept(bundle[c])
      BY <2>0, <3>1, <3>2 DEF Abstract!Accept
    <3> QED
      BY <2>0, <3>3 DEF Abstract!Next
  <2> QED
    BY <1>1, <2>1, <2>2, CommitRows
<1>2. ASSUME NEW b \in Bundles, Revoke(b)
      PROVE  [Abstract!Next]_<<rows[Certificates], revoked>>
  <2>1. Abstract!RevokeBundle(b)
    BY <1>2 DEF Revoke, Abstract!RevokeBundle
  <2> QED
    BY <2>1 DEF Abstract!Next
<1>3. CASE UNCHANGED <<rows, revoked>>
  BY <1>3
<1>4. ASSUME NEW c \in Callers, NEW b \in Bundles,
             Call(c, b) \/ Insert(c) \/ Check(c) \/ Fail(c)
      PROVE  UNCHANGED <<rows, revoked>>
  BY <1>4 DEF Call, Insert, Check, Fail, Abort
<1>5. ASSUME NEW c \in Callers, Insert(c) \/ Check(c) \/ Fail(c)
      PROVE  UNCHANGED <<rows, revoked>>
  BY <1>5 DEF Insert, Check, Fail, Abort
<1>6. CASE UNCHANGED vars
  BY <1>3, <1>6 DEF vars
<1> QED
  BY <1>1, <1>2, <1>3, <1>4, <1>5, <1>6 DEF Next, Run

\* The four-table function implements the registry the rest of the system is written
\* against: bundles are accepted whole, keep their identity and are only ever revoked.
THEOREM RpcImplementsRegistry == Spec => ImplementsRegistry
<1>1. Init => Abstract!Init
  BY DEF Init, Abstract!Init, Tables, Certificates
<1>2. RpcInv /\ [Next]_vars => [Abstract!Next]_<<rows[Certificates], revoked>>
  BY StepRefines
<1> QED
  BY <1>1, <1>2, RpcInvariant, PTL DEF Spec, ImplementsRegistry, Abstract!Spec
===============================================================================
