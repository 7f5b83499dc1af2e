----------------------------- MODULE RegisterRpc ------------------------------
(***************************************************************************)
(* register_firemark_certificate_bundle: the PostgreSQL function behind    *)
(* SupabaseCertificateRepository.register_certificate_bundle.  Callers in  *)
(* several processes run it concurrently, each call one READ COMMITTED     *)
(* transaction that inserts into four tables in a fixed order.  Every      *)
(* insert is ON CONFLICT (identifier) DO NOTHING and is followed by a test *)
(* that the stored row is the row of this bundle.                          *)
(*                                                                         *)
(* The identifiers of a bundle (run, asset, certificate) are derived from  *)
(* one idempotency key, so a bundle is [key, sealed, body]: body stands    *)
(* for every other column (timestamps, versions, signatures).              *)
(***************************************************************************)
EXTENDS Naturals

CONSTANTS
    Callers,        \* database sessions that register bundles
    Bundles,        \* the bundles they may register
    MaxCalls        \* bound: calls of one caller

ASSUME RpcAssumption ==
    /\ \A b \in Bundles : DOMAIN b = {"key", "sealed", "body"}
    /\ MaxCalls \in Nat

Tables == 1..4
Runs == 1
Assets == 2
Custody == 3
Certificates == 4

VARIABLES
    rows,           \* committed rows of each table, named by their bundle
    revoked,        \* certificates whose status is revoked
    pc, table,      \* where the transaction of a caller is
    bundle,         \* the arguments of its call
    pending,        \* tables in which its transaction inserted a row
    answer,         \* what the caller was last told
    calls

sessionVars == <<pc, table, bundle, pending>>
vars == <<rows, revoked, pc, table, bundle, pending, answer, calls>>

TypeOK ==
    /\ rows \in [Tables -> SUBSET Bundles]
    /\ revoked \subseteq Bundles
    /\ pc \in [Callers -> {"idle", "insert", "check", "commit"}]
    /\ table \in [Callers -> Tables]
    /\ bundle \in [Callers -> Bundles]
    /\ pending \in [Callers -> SUBSET Tables]
    /\ answer \in [Callers -> {"none", "registered", "error"}]
    /\ calls \in [Callers -> Nat]

Init ==
    /\ rows = [i \in Tables |-> {}]
    /\ revoked = {}
    /\ pc = [c \in Callers |-> "idle"]
    /\ table = [c \in Callers |-> Runs]
    /\ bundle \in [Callers -> Bundles]
    /\ pending = [c \in Callers |-> {}]
    /\ answer = [c \in Callers |-> "none"]
    /\ calls = [c \in Callers |-> 0]

\* Faulty: sealed_sha256 is not declared unique.
SameUniqueNoSealed(i, b, d) == b.key = d.key

\* The unique columns of a table: the identifier the insert names in ON CONFLICT,
\* and, for assets and certificates, sealed_sha256.
SameIdentifier(b, d) == b.key = d.key
SameUnique(i, b, d) ==
    \/ SameIdentifier(b, d)
    \/ i \in {Assets, Certificates} /\ b.sealed = d.sealed

\* An insert waits for a transaction that holds an uncommitted row with a unique
\* value of its own row.
Blocked(c, i) ==
    \E d \in Callers \ {c} : i \in pending[d] /\ SameUnique(i, bundle[c], bundle[d])

-------------------------------------------------------------------------------
\* A service calls the repository with a bundle; a retry calls it with the same one.
Call(c, b) ==
    /\ pc[c] = "idle"
    /\ calls[c] < MaxCalls
    /\ calls' = [calls EXCEPT ![c] = @ + 1]
    /\ bundle' = [bundle EXCEPT ![c] = b]
    /\ answer' = [answer EXCEPT ![c] = "none"]
    /\ pc' = [pc EXCEPT ![c] = "insert"]
    /\ table' = [table EXCEPT ![c] = Runs]
    /\ UNCHANGED <<rows, revoked, pending>>

\* Faulty: the handler of an exception keeps the rows inserted so far.
AbortKeepingRows(c) ==
    /\ pc' = [pc EXCEPT ![c] = "idle"]
    /\ rows' = [i \in Tables |->
                  IF i \in pending[c] THEN rows[i] \union {bundle[c]} ELSE rows[i]]
    /\ pending' = [pending EXCEPT ![c] = {}]
    /\ answer' = [answer EXCEPT ![c] = "error"]
    /\ UNCHANGED <<revoked, table, bundle, calls>>

\* Faulty: the connection returns to its pool with its transaction open.
AbortLeavingOpen(c) ==
    /\ pc' = [pc EXCEPT ![c] = "idle"]
    /\ answer' = [answer EXCEPT ![c] = "error"]
    /\ UNCHANGED <<rows, revoked, table, bundle, pending, calls>>

\* An exception rolls the whole transaction back.
Abort(c) ==
    /\ pc' = [pc EXCEPT ![c] = "idle"]
    /\ pending' = [pending EXCEPT ![c] = {}]
    /\ answer' = [answer EXCEPT ![c] = "error"]
    /\ UNCHANGED <<rows, revoked, table, bundle, calls>>

\* insert ... on conflict (identifier) do nothing: nothing if the identifier is
\* taken, an exception if only sealed_sha256 is, a new row otherwise.
Insert(c) ==
    /\ pc[c] = "insert"
    /\ ~Blocked(c, table[c])
    /\ LET taken == {d \in rows[table[c]] : SameUnique(table[c], bundle[c], d)}
       IN  \/ /\ \E d \in taken : SameIdentifier(bundle[c], d)
              /\ pc' = [pc EXCEPT ![c] = "check"]
              /\ UNCHANGED <<rows, revoked, table, bundle, pending, answer, calls>>
           \/ /\ taken # {}
              /\ \A d \in taken : ~SameIdentifier(bundle[c], d)
              /\ Abort(c)
           \/ /\ taken = {}
              /\ pending' = [pending EXCEPT ![c] = @ \union {table[c]}]
              /\ pc' = [pc EXCEPT ![c] = "check"]
              /\ UNCHANGED <<rows, revoked, table, bundle, answer, calls>>

\* Faulty: on conflict do nothing, without the test of the stored row.
RowMatchesUnchecked(c) == TRUE

\* The stored row has the columns of this bundle; a certificate of a bundle is active.
RowMatches(c) ==
    \/ table[c] \in pending[c]
    \/ /\ bundle[c] \in rows[table[c]]
       /\ table[c] = Certificates => bundle[c] \notin revoked

Check(c) ==
    /\ pc[c] = "check"
    /\ \/ ~RowMatches(c) /\ Abort(c)
       \/ /\ RowMatches(c)
          /\ IF table[c] = Certificates
             THEN /\ pc' = [pc EXCEPT ![c] = "commit"]
                  /\ UNCHANGED table
             ELSE /\ pc' = [pc EXCEPT ![c] = "insert"]
                  /\ table' = [table EXCEPT ![c] = @ + 1]
          /\ UNCHANGED <<rows, revoked, bundle, pending, answer, calls>>

\* The transaction commits all its rows at once; its answer may be lost.
Commit(c) ==
    /\ pc[c] = "commit"
    /\ rows' = [i \in Tables |->
                  IF i \in pending[c] THEN rows[i] \union {bundle[c]} ELSE rows[i]]
    /\ pending' = [pending EXCEPT ![c] = {}]
    /\ pc' = [pc EXCEPT ![c] = "idle"]
    /\ \E a \in {"registered", "error"} : answer' = [answer EXCEPT ![c] = a]
    /\ UNCHANGED <<revoked, table, bundle, calls>>

\* The connection or the server fails before the commit.
Fail(c) == pc[c] # "idle" /\ Abort(c)

\* revoke_certificate: one update of the committed row.
Revoke(b) ==
    /\ b \in rows[Certificates]
    /\ revoked' = revoked \union {b}
    /\ UNCHANGED <<rows, sessionVars, answer, calls>>

-------------------------------------------------------------------------------
Run(c) == Insert(c) \/ Check(c) \/ Commit(c)

Next ==
    \/ \E c \in Callers :
          \/ \E b \in Bundles : Call(c, b)
          \/ Run(c)
          \/ Fail(c)
    \/ \E b \in Bundles : Revoke(b)

Spec == Init /\ [][Next]_vars

\* A transaction is executed by the server: it takes its next step when it can.
FairSpec == Spec /\ \A c \in Callers : WF_vars(Run(c))

-------------------------------------------------------------------------------
\* Whatever was committed, aborted or lost, the four tables hold the rows of the same
\* bundles: there is no certificate without its asset, custody record and run, and no
\* leftover of a failed registration.
AllOrNothing == \A i, j \in Tables : rows[i] = rows[j]

\* A caller that is told its bundle is registered can rely on it: that very bundle,
\* and no other with its identifiers or sealed digest, is in the tables.
AnsweredIsRegistered ==
    \A c \in Callers : answer[c] = "registered" =>
        /\ bundle[c] \in rows[Certificates]
        /\ \A d \in rows[Certificates] : SameUnique(Certificates, bundle[c], d) => d = bundle[c]

\* Two transactions never hold uncommitted rows that would clash on commit.
PendingDisjoint ==
    \A c, d \in Callers, i \in Tables :
        c # d /\ i \in pending[c] /\ i \in pending[d] => ~SameUnique(i, bundle[c], bundle[d])

\* No interleaving of registrations leaves one waiting for ever: every call returns.
EveryCallReturns == \A c \in Callers : (pc[c] # "idle") ~> (pc[c] = "idle")

\* The four-table transaction implements the abstract registry: a bundle is accepted
\* at the commit.
Abstract == INSTANCE BundleRegistry WITH registered <- rows[Certificates]

ImplementsRegistry == Abstract!Spec
===============================================================================
