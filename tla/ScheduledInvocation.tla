------------------------- MODULE ScheduledInvocation -------------------------
(***************************************************************************)
(* The durable state of the scheduler: the scheduled_invocations and       *)
(* invocation_attempts tables of one owner, the processes that claim and   *)
(* execute rows, the recovery of expired claims, and the owner's reconcile *)
(* of its complete desired set.                                            *)
(*                                                                         *)
(* Each action is one database transaction.  The desktop store             *)
(* ("powersync") runs reconcile in an exclusive write transaction.  The    *)
(* server store ("prisma", READ COMMITTED) reads the owner's rows in one   *)
(* statement and writes whole rows back later, so other transactions       *)
(* commit in between: there a reconcile is a PlanReconcile step followed   *)
(* by a CommitReconcile step.                                              *)
(***************************************************************************)
EXTENDS InvocationRow, FiniteSets

CONSTANTS
    Key,            \* the stable scheduling keys of the owner
    Worker,         \* queues that execute claims, one at a time each
    Planner,        \* processes that reconcile the owner
    RecoverLimit,   \* rows one recoverExpiredClaims call may touch
    MaxReconciles,  \* bound: reconciles started
    MaxClaims       \* bound: claims issued per key

ASSUME LimitAssumption == RecoverLimit \in Nat \ {0}
ASSUME BoundAssumption == MaxReconciles \in Nat /\ MaxClaims \in Nat

VARIABLES
    ripe,        \* intents whose runAt has been reached
    row,         \* scheduled_invocations, by scheduling key
    attempts,    \* invocation_attempts
    executing,   \* claims whose handler is running, in some process
    tokens,      \* claim tokens issued for each key
    plans,       \* server reconciles between their read and their writes
    desired,     \* the desired set of the last reconcile that succeeded
    reconciles,  \* reconciles started
    recovering   \* server: each worker's recoverExpiredClaims call

vars == <<ripe, row, attempts, executing, tokens, plans, desired, reconciles, recovering>>

DesiredSet == UNION {[D -> Intent] : D \in SUBSET Key}
Attempt == [key: Key, number: Nat, claim: Nat, fencing: Nat,
            outcome: Outcome \cup {"open"}]
Execution == [worker: Worker, key: Key, number: Nat, claim: Nat,
              fencing: Nat, intent: Intent]
Plan == [planner: Planner, desired: DesiredSet, snapshot: [Key -> Row]]
RecoveryCall == [step: {"none", "selected", "lettered"}, keys: SUBSET Key]
NoRecovery == [step |-> "none", keys |-> {}]

Init ==
    /\ ripe = {}
    /\ row = [k \in Key |-> AbsentRow]
    /\ attempts = {}
    /\ executing = {}
    /\ tokens = [k \in Key |-> 0]
    /\ plans = {}
    /\ desired = [k \in {} |-> AnIntent]
    /\ reconciles = 0
    /\ recovering = [w \in Worker |-> NoRecovery]

----------------------------------------------------------------------------
(* Time passes. *)

RunAtReached(i) ==
    /\ i \notin ripe
    /\ ripe' = ripe \cup {i}
    /\ UNCHANGED <<row, attempts, executing, tokens, plans, desired, reconciles, recovering>>

RetryDelayElapses(k) ==
    /\ row[k].status = "retry_wait"
    /\ ~row[k].retryDue
    /\ row' = [row EXCEPT ![k].retryDue = TRUE]
    /\ UNCHANGED <<ripe, attempts, executing, tokens, plans, desired, reconciles, recovering>>

ClaimExpires(k) ==
    /\ row[k].status = "running"
    /\ ~row[k].expired
    /\ row' = [row EXCEPT ![k].expired = TRUE]
    /\ UNCHANGED <<ripe, attempts, executing, tokens, plans, desired, reconciles, recovering>>

----------------------------------------------------------------------------
(* claimAndStart: compare-and-set on status and due time, and the attempt  *)
(* fact, in one transaction.                                               *)

\* The server's unique index on (invocationId, attemptNumber): an attempt of
\* that number already stored rolls the whole claim back.
AttemptNumberFree(k) ==
    Store = "prisma" =>
        \A a \in attempts : ~(a.key = k /\ a.number = row[k].attemptCount + 1)

\* The read-then-write slip: start the handler without storing the attempt.
StartWithoutAttempt(w, k) ==
    /\ row' = [row EXCEPT ![k] = Claimed(@, tokens[k] + 1)]
    /\ tokens' = [tokens EXCEPT ![k] = @ + 1]
    /\ executing' = executing \cup
         {[worker |-> w, key |-> k, number |-> row[k].attemptCount + 1,
           claim |-> tokens[k] + 1, fencing |-> row[k].fencing + 1,
           intent |-> row[k].intent]}
    /\ UNCHANGED attempts

StartAttempt(w, k) ==
    LET token == tokens[k] + 1
        number == row[k].attemptCount + 1
        fencing == row[k].fencing + 1
    IN /\ row' = [row EXCEPT ![k] = Claimed(@, token)]
       /\ tokens' = [tokens EXCEPT ![k] = token]
       /\ attempts' = attempts \cup
            {[key |-> k, number |-> number, claim |-> token,
              fencing |-> fencing, outcome |-> "open"]}
       /\ executing' = executing \cup
            {[worker |-> w, key |-> k, number |-> number, claim |-> token,
              fencing |-> fencing, intent |-> row[k].intent]}

\* The slip of leaving the status out of the compare-and-set: a row being
\* executed is claimed again.
ClaimableWhileRunning(k) ==
    \/ Due(row[k], ripe)
    \/ row[k].status = "running"

Claimable(k) == Due(row[k], ripe)

ClaimAndStart(w, k) ==
    /\ \A e \in executing : e.worker # w
    /\ tokens[k] < MaxClaims
    /\ Claimable(k)
    /\ AttemptNumberFree(k)
    /\ StartAttempt(w, k)
    /\ UNCHANGED <<ripe, plans, desired, reconciles, recovering>>

----------------------------------------------------------------------------
(* completeAttempt: the handler returned `result`; the state change is     *)
(* accepted only from the holder of the row's current claim.               *)

\* The slip of a completion that trusts the status alone.
HoldsAnyClaim(e) == row[e.key].status = "running"

HoldsCurrentClaim(e) ==
    /\ row[e.key].status = "running"
    /\ row[e.key].claim = e.claim
    /\ row[e.key].fencing = e.fencing

IsAttemptOf(a, e) ==
    /\ a.key = e.key
    /\ a.number = e.number
    /\ a.claim = e.claim
    /\ a.fencing = e.fencing
    /\ a.outcome = "open"

\* The slip of updating the row and not the attempt.
LeaveAttemptsOpen(e, result) == attempts

\* The slip of closing every attempt of the invocation.
CloseAllAttempts(e, result) ==
    {IF a.key = e.key THEN [a EXCEPT !.outcome = CompletionOutcome(result)]
     ELSE a : a \in attempts}

CloseAttempt(e, result) ==
    {IF IsAttemptOf(a, e)
     THEN [a EXCEPT !.outcome = CompletionOutcome(result)] ELSE a : a \in attempts}

\* The slip of counting retries against the wrong number: one too many.
ReportedStatusOneMore(e, result) ==
    IF result = "retryable" /\ MayRetry(e.intent, e.number - 1) THEN "retry_wait"
    ELSE CompletionStatus(result, e.intent, e.number)

\* The slip of storing the handler's word instead of a row status.
ReportedStatusUnmapped(e, result) == result

ReportedStatus(e, result) == CompletionStatus(result, e.intent, e.number)

CompleteAttempt(e, result) ==
    /\ executing' = executing \ {e}
    /\ IF HoldsCurrentClaim(e) /\ \E a \in attempts : IsAttemptOf(a, e)
       THEN /\ row' = [row EXCEPT ![e.key] = CompletedTo(@, ReportedStatus(e, result))]
            /\ attempts' = CloseAttempt(e, result)
       ELSE UNCHANGED <<row, attempts>>
    /\ UNCHANGED <<ripe, tokens, plans, desired, reconciles, recovering>>

\* Storing the report fails: nothing retries it, the claim is left to expire.
AbandonExecution(e) ==
    /\ executing' = executing \ {e}
    /\ UNCHANGED <<ripe, row, attempts, tokens, plans, desired, reconciles, recovering>>

----------------------------------------------------------------------------
(* recoverExpiredClaims: every reload gives up expired claims, up to a     *)
(* limit and in no order of its own.                                       *)

\* The slip of recovering every running row instead of the expired ones.
RunningKeys == {k \in Key : row[k].status = "running"}

ExpiredKeys == {k \in Key : row[k].status = "running" /\ row[k].expired}

\* What LIMIT and `take` may return, when there is anything.
Selection ==
    {S \in SUBSET ExpiredKeys :
        /\ S # {}
        /\ Cardinality(S) <= RecoverLimit
        /\ S = ExpiredKeys \/ Cardinality(S) = RecoverLimit}

\* Desktop: one UPDATE.
RecoverExpiredClaims(S) ==
    /\ Store = "powersync"
    /\ row' = [k \in Key |-> IF k \in S THEN Recovered(row[k]) ELSE row[k]]
    /\ UNCHANGED <<ripe, attempts, executing, tokens, plans, desired, reconciles, recovering>>

\* Server: findMany, then two updateMany, each a transaction of its own.  The
\* updates look at the rows again.  The first takes rows with retries off,
\* the second whatever is still running, and neither looks at maxRetries.
\* (They compare with the instant the call began; a claim made and expired
\* since then counts here as expired too.)
SelectExpired(w, S) ==
    /\ Store = "prisma"
    /\ recovering[w].step = "none"
    /\ recovering' = [recovering EXCEPT ![w] = [step |-> "selected", keys |-> S]]
    /\ UNCHANGED <<ripe, row, attempts, executing, tokens, plans, desired, reconciles>>

\* The slip of updating by id alone: what was reported meanwhile comes too.
WasExpired(w) == recovering[w].keys

StillExpired(w) == recovering[w].keys \cap ExpiredKeys

DeadLetterSelected(w) ==
    /\ Store = "prisma"
    /\ recovering[w].step = "selected"
    /\ row' = [k \in Key |-> IF /\ k \in StillExpired(w)
                               /\ row[k].attemptCount >= 1
                               /\ ~RetryEnabled[row[k].intent]
                            THEN DeadLettered(row[k]) ELSE row[k]]
    /\ recovering' = [recovering EXCEPT ![w].step = "lettered"]
    /\ UNCHANGED <<ripe, attempts, executing, tokens, plans, desired, reconciles>>

RearmSelected(w) ==
    /\ Store = "prisma"
    /\ recovering[w].step = "lettered"
    /\ row' = [k \in Key |-> IF k \in StillExpired(w) THEN Rearmed(row[k]) ELSE row[k]]
    /\ recovering' = [recovering EXCEPT ![w] = NoRecovery]
    /\ UNCHANGED <<ripe, attempts, executing, tokens, plans, desired, reconciles>>

\* A statement of the call fails: what was committed stays.
AbandonRecovery(w) ==
    /\ recovering[w].step # "none"
    /\ recovering' = [recovering EXCEPT ![w] = NoRecovery]
    /\ UNCHANGED <<ripe, row, attempts, executing, tokens, plans, desired, reconciles>>

Recovery ==
    \/ \E S \in Selection : RecoverExpiredClaims(S)
    \/ \E w \in Worker, S \in Selection : SelectExpired(w, S)
    \/ \E w \in Worker : DeadLetterSelected(w)
    \/ \E w \in Worker : RearmSelected(w)
    \/ \E w \in Worker : AbandonRecovery(w)

\* The process dies, in the middle of a handler or of a recovery.
ProcessDies(w) ==
    /\ executing' = {e \in executing : e.worker # w}
    /\ recovering' = [recovering EXCEPT ![w] = NoRecovery]
    /\ UNCHANGED <<ripe, row, attempts, tokens, plans, desired, reconciles>>

----------------------------------------------------------------------------
(* SchedulingPort.reconcile: converge the owner's rows to the desired set. *)

Collision(d, snapshot) == \E k \in DOMAIN d : Collides(snapshot[k], d[k])

\* The slip of taking any row of a desired key for one that needs no write.
SavedUnlessPresent(d, snapshot, k) ==
    IF snapshot[k].status = "absent" THEN Created(d[k]) ELSE row[k]

\* The row a desired key ends with.  save() writes the whole row, computed
\* from the snapshot; an unchanged row is not written.
Saved(d, snapshot, k) ==
    CASE snapshot[k].status = "absent" -> Created(d[k])
      [] Unchanged(snapshot[k], d[k]) -> row[k]
      [] OTHER -> AppliedDesired(snapshot[k], d[k])

\* supersedeStale looks at the current rows, not at the snapshot.
Reconciled(d, snapshot) ==
    [k \in Key |-> IF k \in DOMAIN d THEN Saved(d, snapshot, k)
                   ELSE Superseded(row[k])]

\* Desktop: read and writes in one exclusive transaction.  A collision
\* rolls everything back and the caller gets a failed receipt.
Reconcile(d) ==
    /\ Store = "powersync"
    /\ reconciles < MaxReconciles
    /\ ~Collision(d, row)
    /\ row' = Reconciled(d, row)
    /\ desired' = d
    /\ reconciles' = reconciles + 1
    /\ UNCHANGED <<ripe, attempts, executing, tokens, plans, recovering>>

\* Server: findByOwner.  withOwnerSerialization admits one per process.
PlanReconcile(p, d) ==
    /\ Store = "prisma"
    /\ reconciles < MaxReconciles
    /\ \A plan \in plans : plan.planner # p
    /\ plans' = plans \cup {[planner |-> p, desired |-> d, snapshot |-> row]}
    /\ reconciles' = reconciles + 1
    /\ UNCHANGED <<ripe, row, attempts, executing, tokens, desired, recovering>>

\* Server: the saves, supersedeStale and COMMIT.
CommitReconcile(plan) ==
    /\ ~Collision(plan.desired, plan.snapshot)
    /\ row' = Reconciled(plan.desired, plan.snapshot)
    /\ desired' = plan.desired
    /\ plans' = plans \ {plan}
    /\ UNCHANGED <<ripe, attempts, executing, tokens, reconciles, recovering>>

\* Server: a collision, a database error or a crash before COMMIT.
RollBackReconcile(plan) ==
    /\ plans' = plans \ {plan}
    /\ UNCHANGED <<ripe, row, attempts, executing, tokens, desired, reconciles, recovering>>

----------------------------------------------------------------------------
Next ==
    \/ \E i \in Intent : RunAtReached(i)
    \/ \E k \in Key : RetryDelayElapses(k)
    \/ \E k \in Key : ClaimExpires(k)
    \/ \E w \in Worker, k \in Key : ClaimAndStart(w, k)
    \/ \E e \in executing, result \in HandlerResult : CompleteAttempt(e, result)
    \/ \E e \in executing : AbandonExecution(e)
    \/ Recovery
    \/ \E w \in Worker : ProcessDies(w)
    \/ \E d \in DesiredSet : Reconcile(d)
    \/ \E p \in Planner, d \in DesiredSet : PlanReconcile(p, d)
    \/ \E plan \in plans : CommitReconcile(plan)
    \/ \E plan \in plans : RollBackReconcile(plan)

Spec == Init /\ [][Next]_vars

----------------------------------------------------------------------------
(* Properties. *)

\* Type correctness.
TypeOK ==
    /\ ripe \in SUBSET Intent
    /\ row \in [Key -> Row]
    /\ attempts \in SUBSET Attempt
    /\ executing \in SUBSET Execution
    /\ tokens \in [Key -> Nat]
    /\ plans \in SUBSET Plan
    /\ desired \in DesiredSet
    /\ reconciles \in Nat
    /\ recovering \in [Worker -> RecoveryCall]

\* Every execution is on record, once: a key's attempts are numbered without
\* gap or repetition up to its attemptCount, whatever crashes, recoveries and
\* reconciles came between (claimAndStart; ADR-082 6).
AttemptsAccountForRow ==
    \A k \in Key :
        /\ \A n \in 1..row[k].attemptCount :
              \E a \in attempts : a.key = k /\ a.number = n
        /\ \A a \in attempts : a.key = k => a.number \in 1..row[k].attemptCount
        /\ \A a, b \in attempts :
              a.key = k /\ b.key = k /\ a.number = b.number => a = b

Agrees(r, a) ==
    CASE r.status = "running" -> /\ a.outcome = "open"
                                 /\ a.claim = r.claim
                                 /\ a.fencing = r.fencing
      [] r.status \in {"succeeded", "skipped"} -> a.outcome = r.status
      [] r.status = "failed" -> a.outcome = "permanent_failure"
      [] r.status = "retry_wait" -> a.outcome \in {"retryable_failure", "open"}
      [] r.status = "dead_letter" -> a.outcome \notin {"succeeded", "skipped"}
      [] OTHER -> TRUE

\* The two tables agree on the last execution: a running row's last attempt is
\* open and carries the row's claim, and a row that stopped running did so
\* with the outcome its last attempt records, or by recovery of an attempt
\* nobody reported (completeAttempt, recoverExpiredClaims).
RowAgreesWithLastAttempt ==
    \A k \in Key : \A a \in attempts :
        a.key = k /\ a.number = row[k].attemptCount => Agrees(row[k], a)

\* Of all the processes still executing a key after recoveries and re-claims,
\* at most one can have its report accepted (ADR-082 11: an old worker must
\* not commit a state transition after its claim is lost).
OneAcceptableReport ==
    \A e, f \in executing :
        e.key = f.key /\ HoldsCurrentClaim(e) /\ HoldsCurrentClaim(f) => e = f

\* A reconcile that succeeded leaves the owner's rows converged, and nothing
\* the queues do afterwards undoes it: exactly the desired keys have a row
\* that is not superseded, with the desired semantics (reconcileInternal).
OwnerConverged ==
    \A k \in Key :
        IF k \in DOMAIN desired
        THEN /\ row[k].status \notin {"absent", "superseded"}
             /\ row[k].intent = desired[k]
        ELSE row[k].status \in {"absent", "superseded"}

\* An execution-terminal outcome is final: a key whose last attempt settled it
\* is never runnable again (ADR-082 4; scheduled-invocation.ts:207-209).
SettledNeverRevived ==
    \A a \in attempts :
        /\ a.number = row[a.key].attemptCount
        /\ a.outcome \in {"succeeded", "skipped", "permanent_failure"}
        => row[a.key].status \notin Runnable \cup {"running"}

KeepsAttemptHistory ==
    \A k \in Key : /\ row'[k].attemptCount >= row[k].attemptCount
                   /\ row'[k].fencing >= row[k].fencing

\* No step loses execution history: attempt and fencing counters of a row
\* never go back, so a fencing token identifies one execution for ever.
AttemptHistoryPreserved == [][KeepsAttemptHistory]_vars

KeepsAttemptFacts ==
    \A a \in attempts :
        \E b \in attempts' : /\ b = [a EXCEPT !.outcome = b.outcome]
                             /\ a.outcome # "open" => b = a

\* Attempts are facts: none is removed or re-identified, and one that was
\* reported is never reported again (invocation-attempt.ts finish).
AttemptFactsStand == [][KeepsAttemptFacts]_vars

RespectsLiveClaims ==
    \A k \in Key :
        /\ row[k].status = "running"
        /\ ~row[k].expired
        /\ row'[k].status \notin {"running", "superseded"}
        => \E e \in executing \ executing' :
              e.key = k /\ HoldsCurrentClaim(e)

\* While a claim is live, a row leaves "running" only by the report of the
\* execution holding that claim, or because the owner withdraws the key.
LiveClaimEndsByHolder == [][RespectsLiveClaims]_vars

RetriesByPolicy ==
    \A k \in Key :
        row[k].status = "running" /\ row'[k].status = "retry_wait"
        => \/ MayRetry(row[k].intent, row[k].attemptCount)
           \/ \E e \in executing :
                 /\ e.key = k
                 /\ HoldsCurrentClaim(e)
                 /\ MayRetry(e.intent, row[k].attemptCount)

\* A row goes back to waiting only if the policy it was claimed under, or for
\* a recovered claim the policy it has now, leaves a retry: with maxRetries =
\* n no policy gives more than n + 1 attempts (ADR-082 8).
RetriesWithinBudget == [][RetriesByPolicy]_vars

\* What a row says besides the passing of time.
Written(r) == <<r.status, r.intent, r.attemptCount, r.fencing, r.claim>>

\* A server reconcile commits over a row it wants and that another transaction
\* has written since findByOwner read it: save() puts back what it read.
StaleCommit ==
    \E plan \in plans :
        /\ CommitReconcile(plan)
        /\ \E k \in DOMAIN plan.desired :
              Written(plan.snapshot[k]) # Written(row[k])

\* On either store a stale commit is the only way to turn a row's counters
\* back or to take a live claim from its holder: every other step, a reconcile
\* that commits over what it read included, does neither (save, reconcile).
LossesOnlyByStaleCommit ==
    [][StaleCommit \/ (KeepsAttemptHistory /\ RespectsLiveClaims)]_vars

\* The behaviours of either store in which no commit is stale.
UncontendedSpec == Init /\ [][Next /\ ~StaleCommit]_vars

----------------------------------------------------------------------------
(* Refinement of the scheduler's promise to owners. *)

PhaseOf(status) ==
    CASE status \in Runnable -> "armed"
      [] status \in OutcomeTerminal -> "settled"
      [] status = "superseded" -> "withdrawn"
      [] OTHER -> status

Contract == INSTANCE InvocationContract WITH
    phase <- [k \in Key |-> PhaseOf(row[k].status)],
    starts <- [k \in Key |-> row[k].attemptCount]

\* The tables and their transactions implement InvocationContract.
ImplementsContract == Contract!ContractSpec
==============================================================================
