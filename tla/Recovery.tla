------------------------------ MODULE Recovery ------------------------------
(***************************************************************************)
(* Recovery routing of runner-core (recovery.rs): what a refusal advises   *)
(* the orchestrator to do, and the ledger of retry attempts per            *)
(* fingerprint that a transient kernel failure draws on.                   *)
(***************************************************************************)
EXTENDS Integers

CONSTANTS
    Fingerprint,    \* fingerprints of the jobs' semantics
    MaxRetries,     \* retries advised before escalating (FXRUN_MAX_RETRIES)
    BaseBackoff,    \* backoff of the first retry, in seconds
    MaxU64          \* the value at which a u64 multiplication saturates

VARIABLE attempts   \* [Fingerprint -> Nat]: transient failures since it last delivered

Retryable == {"KernelFailed", "DeadlineExceeded", "IdleTimeout"}

RecoveryTypeOK == attempts \in [Fingerprint -> Nat]

Directive == [action : {"retry", "escalate"}, attempt : Nat, backoff : Nat]
NoDirective == [action |-> "none", attempt |-> 0, backoff |-> 0]

\* backoff_for(): doubles with each attempt, up to 2^16 times the base, which
\* the constructor clamps to 1 or more.
base == IF BaseBackoff = 0 THEN 1 ELSE BaseBackoff
BackoffFor(attempt) ==
    LET shift == IF attempt > 17 THEN 16 ELSE attempt - 1
        backoff == base * 2 ^ shift
    IN  IF backoff > MaxU64 THEN MaxU64 ELSE backoff

Escalate(attempt) == [action |-> "escalate", attempt |-> attempt, backoff |-> 0]
Retry(attempt) == [action |-> "retry", attempt |-> attempt, backoff |-> BackoffFor(attempt)]

\* decide(): a failure that is not transient escalates at once; a transient one
\* is retried until it has happened more than MaxRetries times.
Decision(fp, kind) ==
    IF kind \notin Retryable THEN Escalate(0)
    ELSE IF attempts[fp] + 1 <= MaxRetries THEN Retry(attempts[fp] + 1)
    ELSE Escalate(attempts[fp] + 1)

\* Faulty variant: every refusal draws on the ledger.
DecideAlways(fp, kind) == attempts' = [attempts EXCEPT ![fp] = @ + 1]

\* decide(), its effect: only a transient failure draws on the ledger.
Decide(fp, kind) ==
    attempts' = IF kind \in Retryable THEN [attempts EXCEPT ![fp] = @ + 1] ELSE attempts

\* RetryLedger::clear(), after a clean delegation.
ClearAttempts(fp) == attempts' = [attempts EXCEPT ![fp] = 0]
=============================================================================
