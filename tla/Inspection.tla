------------------------------ MODULE Inspection ------------------------------
(***************************************************************************)
(* What scripts/inspect_b2_smoke_state.py concludes from the two buckets,  *)
(* and what scripts/resume_b2_custody_checkpoint.py asks of it before it   *)
(* deletes anything: two decisions over the same observation, written      *)
(* apart.                                                                  *)
(*                                                                         *)
(* An observation o has the records of each role and kind (o.found), what  *)
(* failed (o.failures), whether there are objects under a public key       *)
(* (o.public) or under a key the inspector does not know (o.unknown), and  *)
(* whether the vault has Object Lock enabled (o.lock).                     *)
(***************************************************************************)
EXTENDS Naturals, FiniteSets, FiniteSetsExt

Role == {"assets", "vault"}
Kind == {"source", "manifest"}

\* A record: the digest of the bytes, whether size, digest and metadata agree (sound), whether
\* the head named a version, a date and a content type (exact), and the retention the vault
\* reports.
Retention == {"COMPLIANCE", "GOVERNANCE", "EXPIRED", "MISSING", "UNKNOWN"}

\* "key" is an entry of a listing that has no key: a failure, and no record.
Failure == {"configuration", "transport", "assets", "vault", "retention", "key"}

\* _pair_correlation: exactly one record on either side, with equal digests.
Paired(o, kind) ==
    \E a \in o.found[<<"assets", kind>>], v \in o.found[<<"vault", kind>>] :
        /\ o.found[<<"assets", kind>>] = {a}
        /\ o.found[<<"vault", kind>>] = {v}
        /\ a.bytes = v.bytes

\* The conditions of _outcome, by the exit code each stands for.  It asks for no version and
\* no date, and a failure of "key" is no condition.
Code == {10, 20, 30, 40, 41, 50, 51, 52, 53, 60}

Applies(o, code) ==
    CASE code = 10 -> "configuration" \in o.failures
      [] code = 20 -> "transport" \in o.failures
      [] code = 30 -> "assets" \in o.failures
      [] code = 40 -> "vault" \in o.failures
      [] code = 41 -> "retention" \in o.failures
      [] code = 50 -> \E role \in Role, kind \in Kind : o.found[<<role, kind>>] = {}
      [] code = 51 -> \/ o.unknown
                      \/ \E role \in Role, kind \in Kind :
                            \E r \in o.found[<<role, kind>>] : ~r.sound
      [] code = 52 -> \E kind \in Kind : ~Paired(o, kind)
      [] code = 53 -> \/ ~o.lock
                      \/ \E kind \in Kind : \E r \in o.found[<<"vault", kind>>] :
                            r.retention # "COMPLIANCE"
      [] code = 60 -> o.public

\* The first that applies, and they are tried in the order of their codes; 0 says that all
\* is there, and that the cleanup is what is missing.
Verdict(o) ==
    LET codes == {code \in Code : Applies(o, code)}
    IN  IF codes = {} THEN 0 ELSE Min(codes)

\* Faulty: the mode of the retention is enough, also of one that is over.
RetainedByMode(r) == r.retention \in {"COMPLIANCE", "EXPIRED"}

Retained(r) == r.retention = "COMPLIANCE"

\* _checkpoint_objects: nothing failed, both pairs match, every record is sound and names its
\* exact version, and both locked ones are retained.  A key the inspector does not know
\* counts as a failure.
Accepts(o) ==
    /\ o.failures = {} /\ ~o.unknown
    /\ \A kind \in Kind :
         /\ Paired(o, kind)
         /\ \A role \in Role : \A r \in o.found[<<role, kind>>] : r.sound /\ r.exact
         /\ \A r \in o.found[<<"vault", kind>>] : Retained(r)

\* What the recovery asks for and the inspector does not, and the other way round.
Evident(o) ==
    /\ "key" \notin o.failures
    /\ \A role \in Role, kind \in Kind : \A r \in o.found[<<role, kind>>] : r.exact

Private(o) == o.lock /\ ~o.public
===============================================================================
