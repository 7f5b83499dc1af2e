---------------------------- MODULE ReadbackBudget -----------------------------
(***************************************************************************)
(* The exact-version readback of a locked object: the bytes are read back, *)
(* then the retention, both through _bounded_exact_readback and one budget *)
(* of attempts and time (_locked_receipt, verify_locked_object_exact).     *)
(* Time is a whole number of ticks since the budget was opened; a read     *)
(* takes any of ReadTimes.                                                 *)
(***************************************************************************)
EXTENDS Integers, Sequences

CONSTANTS
    MaxAttempts,    \* READBACK_MAX_ATTEMPTS
    MaxWait,        \* READBACK_MAX_WAIT_SECONDS, in ticks
    Backoff,        \* READBACK_BACKOFF_SECONDS, in ticks
    ReadTimes,      \* how long a read may take
    LongestRead

ASSUME BudgetAssumption ==
    /\ MaxAttempts \in Nat
    /\ MaxWait \in Nat
    /\ Backoff \in Seq(Nat)
    /\ Backoff # <<>>
    /\ LongestRead \in Nat
    /\ ReadTimes \subseteq 0..LongestRead

VARIABLES
    phase,          \* what is being read back, or how the readback ended
    attempts,       \* budget.attempts
    now,            \* monotonic() - budget.started_at
    slept,          \* the part of now spent asleep
    reads           \* operations called, in both phases

budgetVars == <<phase, attempts, now, slept, reads>>

Reading == {"hash", "retention"}

BudgetTypeOK ==
    /\ phase \in Reading \union {"verified", "rejected", "timeout"}
    /\ attempts \in 0..MaxAttempts
    /\ now \in Nat
    /\ slept \in Nat
    /\ reads \in Nat

BudgetInit ==
    /\ phase = "hash"
    /\ attempts = 0
    /\ now = 0
    /\ slept = 0
    /\ reads = 0

Least(a, b) == IF a <= b THEN a ELSE b

\* The delay after the n-th attempt; the last one is repeated.
Delay(n) == Backoff[Least(n, Len(Backoff))]

-------------------------------------------------------------------------------
\* The loop is entered while attempts are left, and the operation called.
Read ==
    /\ phase \in Reading
    /\ attempts < MaxAttempts
    /\ attempts' = attempts + 1
    /\ reads' = reads + 1

\* Faulty: each phase opens its own budget of attempts.
SucceedAfresh(d) ==
    /\ phase \in Reading
    /\ attempts < MaxAttempts
    /\ attempts' = 0
    /\ reads' = reads + 1
    /\ now' = now + d
    /\ phase' = IF phase = "hash" THEN "retention" ELSE "verified"
    /\ UNCHANGED slept

\* The bytes match and the retention is read next; or the retention covers the request.
Succeed(d) ==
    /\ Read
    /\ now' = now + d
    /\ phase' = IF phase = "hash" THEN "retention" ELSE "verified"
    /\ UNCHANGED slept

\* An error that is not retryable, or a retention that does not cover the request.
Reject(d) ==
    /\ Read
    /\ now' = now + d
    /\ phase' = "rejected"
    /\ UNCHANGED slept

\* Faulty: only the attempts are counted, not the time.
SpentAttempts(t) == attempts + 1 >= MaxAttempts

\* After a retryable error at time t: the budget is spent.
Spent(t) == attempts + 1 >= MaxAttempts \/ t >= MaxWait

GiveUp(d) ==
    /\ Read
    /\ Spent(now + d)
    /\ now' = now + d
    /\ phase' = "timeout"
    /\ UNCHANGED slept

\* sleep(min(delay, max(0, remaining))), and the loop goes round.
Retry(d) ==
    LET remaining == MaxWait - (now + d)
        pause == Least(Delay(attempts + 1), IF remaining > 0 THEN remaining ELSE 0)
    IN  /\ Read
        /\ ~Spent(now + d)
        /\ now' = now + d + pause
        /\ slept' = slept + pause
        /\ UNCHANGED phase

\* The loop of the retention phase is not entered: the bytes took the last attempt.
NoAttemptLeft ==
    /\ phase \in Reading
    /\ attempts >= MaxAttempts
    /\ phase' = "timeout"
    /\ UNCHANGED <<attempts, now, slept, reads>>

BudgetNext ==
    \/ \E d \in ReadTimes : Succeed(d) \/ Reject(d) \/ GiveUp(d) \/ Retry(d)
    \/ NoAttemptLeft

BudgetSpec == BudgetInit /\ [][BudgetNext]_budgetVars

-------------------------------------------------------------------------------
\* The two phases together call the service at most MaxAttempts times, and never sleep
\* for longer than MaxWait in all.
WithinBudget == reads <= MaxAttempts /\ slept <= MaxWait

\* The readback gives up only when there is nothing left to spend.
GivesUpOnlyWhenSpent == phase = "timeout" => attempts = MaxAttempts \/ now >= MaxWait

\* Time is only looked at after a read that failed: the readback may outlast MaxWait,
\* by a read of each phase at most.
EndsSoonAfterDeadline == now <= MaxWait + 2 * LongestRead

===============================================================================
