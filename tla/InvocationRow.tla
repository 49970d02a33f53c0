---------------------------- MODULE InvocationRow ----------------------------
(***************************************************************************)
(* One row of scheduled_invocations and the updates the repositories and   *)
(* the domain entity make to it, as pure operators on records.             *)
(*                                                                         *)
(* Wall-clock instants are abstracted to the comparisons the code makes:   *)
(* `retryDue` stands for nextAttemptAt <= now and `expired` for            *)
(* claimExpiresAt < now.  Both turn TRUE as time passes and are reset by   *)
(* whatever writes the instant.  runAt <= now is a fact about the intent,  *)
(* since runAt never changes without the intent changing.                  *)
(***************************************************************************)
EXTENDS Naturals

CONSTANTS
    Intent,        \* the semantics an owner can ask for: one value per fingerprint
    MaxRetries,    \* retryPolicy.maxRetries of each intent
    RetryEnabled,  \* retryPolicy.enabled of each intent
    Store          \* "powersync" (desktop) or "prisma" (server)

ASSUME IntentAssumption == Intent # {}
ASSUME MaxRetriesAssumption == MaxRetries \in [Intent -> Nat]
ASSUME RetryEnabledAssumption == RetryEnabled \in [Intent -> BOOLEAN]
ASSUME StoreAssumption == Store \in {"powersync", "prisma"}

NoClaim == 0       \* claimToken = null; issued tokens are 1, 2, ...

Runnable == {"pending", "retry_wait"}
OutcomeTerminal == {"succeeded", "skipped", "failed", "dead_letter"}
Status == Runnable \cup OutcomeTerminal \cup {"absent", "running", "superseded"}

Row == [status: Status, intent: Intent, attemptCount: Nat, fencing: Nat,
        claim: Nat, expired: BOOLEAN, retryDue: BOOLEAN]

AnIntent == CHOOSE i \in Intent : TRUE

\* No row of this key yet.  "absent" is not a status of the code.
AbsentRow == [status |-> "absent", intent |-> AnIntent, attemptCount |-> 0,
              fencing |-> 0, claim |-> NoClaim, expired |-> FALSE,
              retryDue |-> FALSE]

----------------------------------------------------------------------------
(* The domain entity. *)

Created(i) == [AbsentRow EXCEPT !.status = "pending", !.intent = i]

\* A desired intent meets a row whose execution is over with other semantics.
Collides(r, i) == r.status \in OutcomeTerminal /\ r.intent # i

Unchanged(r, i) == r.status \notin {"absent", "superseded"} /\ r.intent = i

\* The plausible slip of rebuilding the row as if it were new.
AppliedDesiredFromScratch(r, i) == Created(i)

AppliedDesired(r, i) ==
    IF r.status = "running"
    THEN [r EXCEPT !.intent = i, !.retryDue = FALSE]
    ELSE [r EXCEPT !.intent = i, !.status = "pending", !.retryDue = FALSE,
                   !.claim = NoClaim, !.expired = FALSE]

----------------------------------------------------------------------------
(* The repositories' updates. *)

Superseded(r) ==
    IF r.status \in {"absent", "superseded"} THEN r
    ELSE [r EXCEPT !.status = "superseded", !.claim = NoClaim,
                   !.expired = FALSE, !.retryDue = FALSE]

Due(r, ripe) == \/ r.status = "pending" /\ r.intent \in ripe
                \/ r.status = "retry_wait" /\ r.retryDue

Claimed(r, token) ==
    [r EXCEPT !.status = "running", !.attemptCount = @ + 1, !.fencing = @ + 1,
              !.claim = token, !.expired = FALSE, !.retryDue = FALSE]

CompletedTo(r, s) ==
    [r EXCEPT !.status = s, !.claim = NoClaim, !.expired = FALSE,
              !.retryDue = FALSE]

\* maxRetries = 3 allows one initial attempt and three retries.
MayRetry(i, attemptNumber) ==
    RetryEnabled[i] /\ attemptNumber <= MaxRetries[i]

\* What recovery does to an expired claim: the row is due again at once, or
\* its execution is given up.
Rearmed(r) == [r EXCEPT !.status = "retry_wait", !.retryDue = TRUE,
                        !.claim = NoClaim, !.expired = FALSE]
DeadLettered(r) == [r EXCEPT !.status = "dead_letter", !.claim = NoClaim,
                             !.expired = FALSE]

\* Desktop: one UPDATE decides for each row.
Recovered(r) ==
    IF MayRetry(r.intent, r.attemptCount) THEN Rearmed(r) ELSE DeadLettered(r)

----------------------------------------------------------------------------
(* What the queue makes of a handler's result. *)

HandlerResult == {"succeeded", "skipped", "retryable", "failed", "dead_letter"}

CompletionStatus(result, i, attemptNumber) ==
    CASE result = "retryable" ->
            IF MayRetry(i, attemptNumber) THEN "retry_wait" ELSE "dead_letter"
      [] OTHER -> result

Outcome == {"succeeded", "skipped", "retryable_failure", "permanent_failure"}

CompletionOutcome(result) ==
    CASE result \in {"succeeded", "skipped"} -> result
      [] result = "retryable" -> "retryable_failure"
      [] OTHER -> "permanent_failure"
==============================================================================
