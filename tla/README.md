# MemoFlow: TLA+ specifications

Specifications, model-checking runs and machine-checked proofs for the parts of
MemoFlow that run work later, elsewhere or again and must still do it as
promised: the scheduler (`src/packages/scheduler`), the reliable delivery of
notifications, the closure of an account, and the outbox that carries a task's
outcomes to a goal. Paths below are relative to `src/`;
`packages/scheduler/src/server` is abbreviated to `scheduler:`.

Contents: 1 the system, 2 modules, 3 runs, 4 fairness and bounds, 5 proofs,
6 what the models showed about the code, 7 what is not modelled, 8 plan.

## 1. The system

MemoFlow is a productivity workspace with a desktop app (Electron, SQLite behind
PowerSync), a web app and an API server (Postgres behind Prisma). Business
packages (task, goal, routine, notification, ...) share domain code between the
two kinds of store; what differs is the store's adapter and the number of
processes.

### Inventory

Modelled in this project:

| component | state | operations | interacts with | hard | correct means |
|---|---|---|---|---|---|
| invocation row, attempts, repositories (`scheduler:domain/entities`, `scheduler:infrastructure/adapters`) | `scheduled_invocations`, `invocation_attempts` | claimAndStart, completeAttempt, recoverExpiredClaims, supersedeStale, save, findRunnable | queue (claims, reports), port adapter (saves) | several workers, late reports, two stores with different transactions | one accepted report, retries within policy, history never rewritten, the two tables agree |
| scheduling port adapter (`scheduler:infrastructure/scheduling`) | per-owner promise chain; the owner's rows | reconcile, removeOwner | orchestration calls it, repositories below | reads rows and saves whole rows later; runs against the queues | the owner's rows converge to its desired set |
| scheduled invocation queue (`scheduler:application/scheduler`) | heap, one timer, `running`, `executing` | start, reload, add, executeNext, drain, stop | repositories, handlers, identity gate | awaits between check and use, failing calls, entries that went stale | one handler at a time, no lost wake-up, work settles |
| runtime and host lease (`scheduler:infrastructure/runtime`, `.../lease`) | `schedule_leases` row; `started`, `queueStarted`, timers, heartbeat | start, standby promotion, stop, acquire, renew, release | queue, database, other hosts | hosts racing, stop overtaking a promotion, lost replies, stalls | a queue opens only under a lease; no host is stranded or locked out |
| notification delivery (`packages/notification/src/server`) | shared outbox of intents, dispatch outbox rows with lease, fencing token and attempts, desktop acknowledgements and each process's copy of them | tick: claim, deliver, present, acknowledge, receipt, consume an intent; replay | database, desktop renderer, SSE subscribers, other processes | a batch under one lease without heartbeat; a delivered message whose receipt fails; a stale copy | a success was shown, one broadcast, shown again only for a fault, every request ends |
| account closure (`packages/account/src/server`, worker in `apps/api`) | closure operation (phase, status, lease), account, outbox message, consumers' receipts | execute, heartbeat, takeover, replay, profile edit, worker: claim, consume, dispatch | identity provider, database, consumers of `account:closed` | crash between phases; lease lost silently; phases read before the claim; whole-row saves | no phase ahead of its effect, nothing early, every consumer hears |
| task to goal outbox (`packages/task/src/server`, `packages/goal/src/server`) | `task_goal_outbox`, the goal's version, its records, the key result's progress | complete, uncomplete, claim, apply, revert, retry, dead letter, replay; the user's records and edits of the progress | goal's use cases, other dispatchers, the user | `available_at` is lease and order and has no owner; reads and writes of one transaction apart | progress is the sum of the records once recomputed, the goal counts what is completed, every event ends |

Not modelled (section 7 says why):

| component | state | operations | hard | correct means |
|---|---|---|---|---|
| schedule rebuild worker, event publisher (`packages/schedule/src/server`) | outbox items, lease | claim items, rebuild, mark | work between two `ensureHeld` calls | items marked by their claimer only |
| schedule orchestration (`packages/schedule-orchestration`) | none durable of its own | project owners to desired sets, repair | repair racing with changes | every owner is eventually reconciled |
| task, goal, routine domains | aggregates | commands on one aggregate | few | aggregate rules |
| routine runtimes | timers on the desktop | elapsed, active use, interventions | suspend and resume | at most one intervention at a time |
| knowledge repository | git working copies, delivery queue | commit, push, adopt, project | external service, retries | a note is delivered once, in order |
| AI workflows, local agents | Mastra runs, agent processes | start, suspend, resume, apply | external models and libraries | drafts applied once |
| cloud auth, agent gateway | sessions, tokens | request handling | third-party libraries | only permitted reads |
| PowerSync synchronisation | upload queue, CRUD batches | upload, apply | replication protocol | PowerSync's own |
| desktop host | profiles, windows, updates | switch profile, install update | transitions while modules run | one active profile |
| portability, import | archives | export, import | long, sequential | round trip |
| clients, UIs, contracts, tooling | none of interest | presentation | - | - |

### How the modelled parts work together

An owner (a task, a goal, a routine) declares the complete set of things it wants
done later. `reconcile` makes the owner's rows agree with it: creates, updates,
re-arms, supersedes. A queue per process caches runnable rows in a heap, sleeps
until the first is due, claims it (compare-and-set on status and due time, new
claim and fencing token, one attempt row), runs the handler, and reports with
its token. A claim not reported within 60 s expires and the next reload of any
queue gives it up. On a database shared by several hosts, only the host holding
a lease row is meant to run its queue.

The other three modelled parts share one pattern and no state: a row is written
with the change it is about, a poller claims it for a lease, does something the
claim does not cover (shows a notification, calls the identity provider, writes
the goal), and then records the outcome. What differs, and what each model is
about, is what guards that last write: owner and fencing token (notifications),
owner alone and not always (closure), nothing but the status (task to goal).

Every hazard of this code, with its line and the properties aimed at it, is in
`PROJECT.json` under `hazards`.

## 2. Modules

| module | models | state |
|---|---|---|
| `InvocationRow` | one row; entity and repository updates as pure operators | none |
| `ScheduledInvocation` | both tables of one owner, claims, reports, expiry, recovery, reconcile, on either store | `row`, `attempts`, `executing`, `tokens`, `plans`, `recovering`, `desired` |
| `InvocationContract` | abstract: what an owner may rely on | `phase`, `starts` |
| `InvocationQueue` | composition: the queues and runtimes that drive `ScheduledInvocation`'s transactions | its state and `queue`, `admitted`, `faults` |
| `SchedulerHost` | lease row, coordinator, runtime start, promotion and stop of several hosts | `lease`, `host`, `issued`, `lapsed` |
| `NotificationDelivery` | the notification loop of several processes over one database | `intent`, `fact`, `dispatch`, `ack`, `seen`, `worker` |
| `AccountClosure` | calls of the closure coordinator, profile edits, the `account:closed` message and its workers | `operation`, `call`, `revoked`, `account`, `editor`, `message`, `worker`, `receipts`, `replaying` |
| `TaskGoalOutbox` | the outbox, its dispatchers and the goal's consumer beside a user who keeps records and edits the progress | `toggles`, `outbox`, `dispatcher`, `record`, `manual`, `progress`, `version`, `edits` |
| `DeliveryContract` | abstract: what notification delivery promises requesters, users and subscribers | `stored`, `request`, `delivery`, `shown`, `told` |
| `ClosureContract` | abstract: what the closure promises the account's owner and the consumers | `phase`, `signedOut`, `account`, `told`, `confirmed`, `heard`, `finished` |
| `TaskGoalContract` | abstract: what the outbox promises task, goal and user | `sent`, `effective`, `delivery`, `counted`, `manual`, `progress`, `torn` |
| `MC...` | constants for TLC | |
| `...Proofs` | theorems, see section 5 | |

### ScheduledInvocation

One action is one database transaction. `Store` selects the adapter:

* `"powersync"`: the desktop. `withTransaction` is an exclusive SQLite write
  transaction, so `reconcile` is one action, `Reconcile`.
* `"prisma"`: the server. `reconcileInternal` runs in a READ COMMITTED
  transaction; `findByOwner` reads (`PlanReconcile`), and each `save` is an
  upsert of the whole row, written back with `supersedeStale` at
  `CommitReconcile`. Other transactions commit between. The saves of one
  transaction are put at its end; this loses no visible state, since nobody sees
  them before the commit, and a save that comes earlier only locks its row
  earlier. The unique index on (invocation, attempt number) is
  `AttemptNumberFree`. A recovery is three statements, each committed by itself:
  other transactions come between them too.

| action | code |
|---|---|
| `ClaimAndStart` | `claimAndStart` of both repositories |
| `CompleteAttempt` | `executeClaim` from the handler's return, and `completeAttempt` |
| `AbandonExecution` | `completeAttempt` throws: nobody reports the execution any more |
| `RecoverExpiredClaims` | `recoverExpiredClaims` on the desktop: one UPDATE, which decides row by row with `maxRetries` (`Recovered`) |
| `SelectExpired`, `DeadLetterSelected`, `RearmSelected` | the same on the server: `findMany`, the update of selected rows with retries off, the update of whatever is selected and still running and expired, which looks at no policy |
| `AbandonRecovery` | one of these statements throws; what was committed stays |
| `ProcessDies` | a process ends, in a handler or between two of these statements |
| `Reconcile`, `PlanReconcile`, `CommitReconcile`, `RollBackReconcile` | `reconcile`, `removeOwner` (an empty desired set) |
| `RunAtReached`, `RetryDelayElapses`, `ClaimExpires` | time |

Data: instants become the comparisons made with them (`ripe`, `retryDue`,
`expired`). An intent is a model value that stands for one fingerprint, with its
retry policy. A claim token (a UUID) is a number, fresh per key. A handler's
result is one of the five the registry may return; a handler that throws is
`retryable`, as in the code. `tokens` and `desired` are history.

`StaleCommit` names the one step in which the two stores differ in effect: a server
reconcile that commits over a row it wants and that was written since `findByOwner`
read it. `UncontendedSpec` is the specification without such steps, on either store.

The two server updates look at the rows when they run (`StillExpired`), so a row
reported since it was selected is left alone; a row whose retries were turned off between
them is not (section 6). They compare with the instant at which the call began; a claim
made and expired since then counts as expired in the model, which only adds behaviours.

Names ending in a slip (`CloseAllAttempts`, `SavedUnlessPresent`, ...) are the
mutants: plausible errors put in place of the definition below them, each of
which TLC must reject.

### InvocationQueue

Each action of a queue is the code between two awaits. `executeNext` is
`TimerFires` (extract), `Ask` (identity gate), `Claim`, `Report`, with
`ClaimCollides`, `ClaimFails`, `ReportFails` for what throws; the `finally` block
is `Finished`. `reload` is `Recover`, `Find`, `AddFound`; a `Recover` is one statement of
the recovery, so the server's takes three, and `ReloadFails` abandons it between two; between `Find` and
`AddFound` the rows read may change. The runtime is `Start`, `Rescan`, `Stop`,
`Drain`, `Stopped`; `Crash` loses the process.

A heap entry carries whether its time has come. It comes due when it likes, and
not only when the row does: the entry may be stale, and a timer delay above 2^31
ms fires at once. `skipped` is history: `start` found `running` still set by a
failed start and returned without loading.

### SchedulerHost

`op` is where the host is in an acquire (by start or by a promotion), `stop` where
it is in stop. `Grant` and `Refuse` are `tryAcquire` in the database, `GrantReturns`
and `RefusalReturns` its answer; `AcquireFails` is an exception before or after the
commit. `RenewalEnds` is the heartbeat finding its lease gone, or throwing: `held`
stays false from then on. A successful renewal changes nothing that is compared,
so it has no action; instead a tended lease expires only by a fault (a host that
stalls). `start` and `stop` of one host are called one after the other, as
`apps/desktop/src/main/lifecycle/window-manager.ts` (`isTransitioning`) and the
API's bootstrap do; hosts read the same clock.

### NotificationDelivery

A step is one database statement or transaction, or one call of the desktop
renderer, with the code that follows it up to the next.

| action | code |
|---|---|
| `Tick`, `TurnToIntents`, `EndTick` | `tick` of `notification-dispatch-loop.ts`: the candidates of `claimOutboxDispatch`, then those of `claimSharedOutboxIntents` |
| `ClaimRow`, `ClaimIntent` | the update per candidate, on its fencing token, with the re-read of the row that follows it |
| `Deliver`, `Present` | `processClaimedDispatch` up to the transport; the desktop transport's `getAck`, then the renderer |
| `AckUnread` | the query of `getAck` fails: the error is swallowed and the answer is that there is no acknowledgement, so an operation already shown is presented again |
| `Ack`, `AckFails` | `saveAck`, or its exception |
| `Record`, `SuccessLost` | `recordDeliveryReceipt` with its contract validation, the broadcast after it, or its exception |
| `Consume`, `Mark`, `MarkLost` | `CreateNotificationUseCase.execute` with the plan's rows in one transaction; `updateSharedOutboxStatus` |
| `Replay` | `replayDeadLetter` |
| `DispatchRunsOut`, `IntentRunsOut`, `DispatchDue`, `IntentDue` | time |
| `DispatchLapses`, `IntentLapses`, `Interrupted` | a stall past the lease, the end of a process |

`SuccessRejected` is the success receipt that validation refuses (section 6).
`seen` is the per-process map the transport asks before the table. `presented` and
`announced` are history. Two processes are real for the API; on the desktop the
single-instance lock is taken on packaged Windows only
(`apps/desktop/src/main/lifecycle/windows-instance.ts:12`).

### AccountClosure

A call is one run of `execute` and names its owner token. `Find`, `Create`,
`FindCompetitor`, `Claim` are its prologue; `Begin` to `Succeed` are its phases, with
`CheckOwner` for each inline `heartbeat()`; `StepFails` and `MarkFailed` are the catch
block; `Renew` is the heartbeat timer, whose failure stops it silently. A call keeps
the phase it read before its claim, as the code does. `ReplayRead` and `ReplayWrite`
are the two statements of `resetForReplayWithAudit`, `EditRead` and `EditSave` those of
a profile edit, which saves the whole account. The worker's `Take`, `Look`, `Handle`,
`Dispatch`, `Release` are `processPendingMessages`; each consumer's effect and inbox
receipt are one transaction.

### TaskGoalOutbox

`Toggle` completes or uncompletes an occurrence and adds its event, in one
transaction. `Claim`, `Mark` are the dispatch store's, `Handle` is what the handler
decides and the reads of the goal, `ReadRecords` the second read of a revert, `Write`
the transaction's writes with the optimistic version check, `HandlerFails` an
exception before them. Conflicts are retries of the event. `SkipsGoal` is the early way
out of the revert (section 6).

The user saves the same goal in two ways. `RecordByHand` is the creation, correction or
deletion of a record of the user's own (`CreateGoalRecordUseCase`,
`UpdateGoalRecordUseCase`, `DeleteGoalRecordUseCase`), each of which recomputes the
progress from all records; `manual` is what these records add up to. `EditKeyResult` is
`UpdateGoalKeyResultProgressUseCase`, `UpdateGoalKeyResultUseCase` and `UpdateGoalUseCase`,
which save a value the caller gives, or none, and advance the version. Each is one step
(`SaveByHand`), although it reads and writes in several statements: it carries the version
the user saw and saves the goal with that version in any case, so whatever another writer
commits between its reads and its save makes it fail, except the removal that compares no
version, after which the model claims nothing more (`unchecked`). `handled`,
`outOfOrder`, `unchecked` and `overwritten` (the progress was set by hand and not
recomputed since) are history.

### The contracts

Each of the four contracts says what a part promises to those who cannot see its
claims, leases, attempts and processes, in a few atomic steps; `ImplementsContract` in
the detailed module states the refinement, with these mappings.

| contract | what the code's state maps to |
|---|---|
| `InvocationContract` | a row's status to absent, armed (`pending`, `retry_wait`), running, settled, withdrawn (`superseded`); `attemptCount` to `starts` |
| `DeliveryContract` | `fact` to `stored`; an intent's status to open, stored, dead; a dispatch row's to absent, open, delivered, skipped, dead, whoever holds its lease; `presented`, `announced` to `shown`, `told` |
| `ClosureContract` | the operation row's phase; `revoked`, `account`; the message's existence to `told`, its dispatch to `finished`, receipts to `heard`; calls that reported success to `confirmed` |
| `TaskGoalContract` | `toggles` to `sent`, `handled` to `effective`; an event's status to open, delivered, dead; the occurrences with a record to `counted`; `unchecked` to `torn` |

## 3. Runs

| run | instance | states | shows |
|---|---|---|---|
| `desktop` | 2 keys, 2 workers, 2 intents (1 retry; retries off), 3 reconciles, 6 claims a key | 305,198 | type, five table invariants and step properties, refinement of the contract |
| `server` | 2 keys, 1 worker, 1 planner, 2 reconciles, 2 claims a key | 1,414,229 | convergence, and that a stale commit is the only loss, under the server's weaker transactions and split recoveries |
| `queue_desktop` | 1 key, 1 queue, 2 reconciles, 8 claims, 2 faults | 110,762 | queue invariants and `WorkSettles` |
| `queue_server` | 1 key, 1 queue, 2 reconciles, 4 claims, 1 fault | 875,916 | no lost wake-up when claims collide and reconciles roll back |
| `host_lease` | 2 hosts, 6 grants, 3 faults | 22,096 | lease safety, `SomeHostServes` |
| `notification` | 2 processes, 1 request, the desktop channel, 2 attempts before the dead letters, 2 replays, 2 faults | 437,197 | receipts tell the truth, one broadcast, repeated presentations are paid for by faults, `EveryRequestSettles`, refinement |
| `closure` | 1 operation, 2 calls, 2 workers, 2 consumers, 1 replay, 1 edit, 2 faults | 799,125 | order of the saga, `ClosureIsHeard`, refinement |
| `task_goal` | 1 occurrence, 2 dispatchers, 3 toggles, 2 attempts, 2 saves by the user, own records of at most 1, progress set to 0, 1 replay, 1 fault | 1,315,015 | progress, agreement, `EveryEventSettles`, refinement |
| `revived`, `lost_update`, `beyond_budget`, `host_lapse` | minimal | - | violations, section 6 |

The properties, and why they are not obvious:

* `AttemptsAccountForRow`, `RowAgreesWithLastAttempt`: two tables written by four
  operations in any order stay consistent.
* `OneAcceptableReport`: after expiry and re-claim two processes run one key; only
  one report can pass the claim and fencing check. Holds on the server even when a
  lost update turns the counters back, because the claim token is fresh.
* `OwnerConverged`: nothing a queue does after a reconcile, and no late save,
  undoes it. It is stated, checked and proved for one planner process.
  `withOwnerSerialization` orders the reconciles of one process only: with two
  planners and three reconciles TLC refutes it (one supersedes a row that the other
  had read as unchanged; section 6). Several API processes reconciling one owner at
  the same time converge only as long as none of them commits over a row it wants
  and that another has written since (`UncontendedConverges`).
* `AttemptHistoryPreserved`, `AttemptFactsStand`: counters never go back; a reported
  attempt is never reported again.
* `LiveClaimEndsByHolder`: recovery by another queue never touches a live claim.
* `RetriesWithinBudget`: reports and recoveries count the same budget.
* `LossesOnlyByStaleCommit`: on the server the two properties before can fail (run
  `lost_update`), but by no other step than a commit over a row written since it was
  read; every other step, late reports and recoveries after such a commit included,
  keeps counters and live claims. A recovery's updates meet rows that were reported,
  claimed again or withdrawn since they were selected.
* `ImplementsContract` (in four runs): every transaction, statement or call of the
  detailed module is one step of its contract or none, under the mapping of section 2.
  What makes it hard is that the contract's steps are atomic: a delivery recorded by a
  worker whose lease had passed to another, a phase recorded by a call that was
  overtaken, a write computed from an older read must each still look like one step
  taken at one time.
* `OneHandlerPerQueue`: `executeNext` does not test `executing`; that it is never
  entered twice rests on every path that arms the timer.
* `NoLostWakeUp`: an idle running queue with entries has its timer set, except after
  a start that returned early (then the rescan must help).
* `OneEntryPerKey`, `StoppedIsQuiet`: stale reports re-add entries; a stop races with
  an execution.
* `WorkSettles`: after finitely many faults everything armed settles or is withdrawn.
* `ServesUnderLease`, `HeartbeatServes`, `StandbyKeepsTrying`, `LiveLeaseEndsByOwner`,
  `SomeHostServes`: a stop that overtakes a promotion, a start that fails after its
  grant, a grant whose reply is lost, an ignored release error.
* `SuccessWasShown`: the ack is written after the presentation and the receipt after
  the ack, each may fail, and another process or a replay may take over in between.
* `AnnouncedOnce`: two processes can deliver one row after a lease ran out; only the
  one whose receipt matches owner and fencing token may broadcast.
* `ShownAgainOnlyAfterFault`: the interesting half is `faults = 0`: leases nobody works
  on that run out, rejected receipts and replays alone never show a notification twice
  (the lapse of a lease in use is a fault, and so is an acknowledgement that cannot be
  read). With faults the bound is one more presentation per process and fault, and TLC
  reaches repeated presentations. Two faults let a process fail to read what another one
  acknowledged before it died.
* `ClosureInOrder`: no phase is recorded before its effect, no sign-out before its
  phase, no message before the phase `closed`, no dispatch before every consumer's
  receipt, and an account reopens only through an edit that read it before. It must
  survive two calls that both believe to own the operation, since a failed heartbeat
  only stops the timer.
* `ProgressIsSum`: the user and two dispatchers write progress from what each read.
  Two writes leave it apart from the records, and the property names both: a value the
  user sets by hand, until any later write recomputes the sum, and a removal that compares
  no version. Nothing else does, though a dispatcher may hold what it read before the
  user's edit.
* `AgreesInOrder`: with no owner in the lease an event may be applied by two
  dispatchers; the settlement source makes an apply idempotent, and only order is left
  to break agreement.
* `EveryRequestSettles`, `ClosureIsHeard`, `EveryEventSettles`: everything claimed is
  finished, dead-lettered or claimed again.

All actions of each module fire in its passing runs.

## 4. Bounds and fairness

`MaxReconciles`, `MaxClaims`, `RecoverLimit`, `MaxFaults` and `MaxGrants` bound the
instances. Two workers suffice for every pair of holders and two keys for a
reconcile that treats keys differently; three reconciles allow want, withdraw,
want again; six claims per key exceed the retry budgets in use, so budgets and not
bounds end the retries; `RecoverLimit` = 1 with two keys leaves an expired row for
a later pass (the code's 1000), which the safety properties of `desktop` and
`server` allow for; no liveness run has two keys, so that every row is reached in
some pass is not checked. In `queue_desktop` the `MaxClaims` of 8 is never reached (TLC finds
`tokens[k] < MaxClaims` invariant): two claims per arming, two reconciles and two
faults run out first, so `WorkSettles` is not cut off by the bound. Likewise the six
claims of `desktop` and the six grants of `host_lease` are never used up. In `server`
and `queue_server` the claim bound is reached, which restricts safety properties only.

`QueueSpec` assumes (weak fairness unless said otherwise): instants are reached;
timers and the rescan interval fire; repository calls and handlers return; a host
that is down is started again; the user returns to the profile. Handlers returning
is an assumption about handlers: the code does not enforce `timeoutMs`. The timer
needs strong fairness: each rescan re-arms it, so it is not continuously pending, yet
a due timer has delay 0 and rescans are 5 s apart. Nothing is assumed about stops,
failures, crashes, leaving the profile, or reconciles; at most `MaxFaults` happen.

In the three later modules `MaxFaults` counts stalls, crashes and failed calls together,
`MaxReplays`, `MaxEdits`, `MaxToggles` and `MaxManual` bound people, and `HandValues` is
what a user may set a progress to: one value is enough, since 0 differs from the sum
whenever there is a record. `notification` has the desktop channel only: a delivery in the
app is the desktop's with its acknowledgement found (`Deliver`), so a second channel adds
rows but no behaviour of a row; the proofs are for any set of channels. One request, one
operation and one occurrence are enough because no statement relates two of them but
the queries that select candidates, which treat them alike (two closure operations of
one identity, and several requests, occur in the proofs); two processes give every
pair of an owner and its successor. Three toggles allow apply, revert, apply. A
threshold of 2 attempts allows a retry before the dead letters (the code's 3 and 10).

`NotificationDelivery` assumes that a process takes its own next step (the interval
ticks, awaited calls return or throw, a process that died is started again), that a
lease nobody works on runs out and that a retry delay elapses; `AccountClosure` the
same of the workers and the message's lease, and nothing of the calls: no code runs
`execute` again. `TaskGoalOutbox` assumes it of the dispatchers and `available_at`.
Faults, replays, edits, toggles and lapses of a lease in use are never assumed to
happen. All is weak fairness.

`SchedulerHost` assumes each host's own next step is taken and that a lease nobody
renews runs out. It does not assume that hosts are started, or that a faulty step
happens.

## 5. Proofs

All theorems hold for every value of the constants that satisfies the named
assumptions (`IntentAssumption`, `MaxRetriesAssumption`, `RetryEnabledAssumption`,
`StoreAssumption`, `LimitAssumption`, `BoundAssumption`, `HostBoundAssumption`,
`FaultAssumption`, `DeliveryAssumption`, `ClosureAssumption`, `OutboxAssumption`).

| module | theorem | property | extra assumption |
|---|---|---|---|
| `ScheduledInvocationProofs` | `TypeCorrect` | `TypeOK` | |
| | `SingleAcceptableReport` | `OneAcceptableReport` | |
| | `AttemptsAreFacts` | `AttemptFactsStand` | |
| | `OwnerStaysConverged` | `OwnerConverged` | at most one planner |
| `DesktopInvocationProofs` | `StaleCommitsAlone` | `LossesOnlyByStaleCommit` | |
| | `UncontendedHistory` | `AttemptsAccountForRow`, `RowAgreesWithLastAttempt` | no stale commit |
| | `UncontendedConverges` | `OwnerConverged` | no stale commit, any number of planners |
| | `SettledOnlyWithdrawn` | (a settled row changes only by withdrawal or a stale commit) | |
| | `OnlyRecoveryExceedsBudget` | (only the server's re-arming update exceeds the budget) | no stale commit |
| | `HistoryComplete` | `AttemptsAccountForRow` | `Store = "powersync"` |
| | `TablesAgree` | `RowAgreesWithLastAttempt` | same |
| | `HistoryNeverRegresses` | `AttemptHistoryPreserved` | same |
| | `LiveClaimsRespected` | `LiveClaimEndsByHolder` | same |
| | `RetriesStayWithinBudget` | `RetriesWithinBudget` | same |
| `ContractRefinementProofs` | `DesktopImplementsContract` | `ImplementsContract` | same |
| | `UncontendedImplementsContract` | `ImplementsContract` | no stale commit |
| `SchedulerHostProofs` | `HostTypeCorrect`, `QueuesRunUnderLease`, `HeartbeatsServe`, `StandbysKeepTrying`, `LiveLeasesEndByOwner` | `TypeOK`, `ServesUnderLease`, `HeartbeatServes`, `StandbyKeepsTrying`, `LiveLeaseEndsByOwner` | |
| | `TwoServeOnlyAfterLapse` | (two queues run at once only after one's lease ran out) | |
| `InvocationQueueProofs` | `QueuesImplementTables` | (`QueueSpec => Spec`) | |
| | `QueuesImplementContract` | `ImplementsContract` | `Store = "powersync"` |
| | `UncontendedQueuesImplementContract` | `ImplementsContract` | no stale commit |
| | `QueueTypeCorrect`, `HandlersDoNotOverlap`, `WakeUpsAreKept`, `EntriesStayUnique`, `StoppedStaysQuiet` | `QueueTypeOK`, `OneHandlerPerQueue`, `NoLostWakeUp`, `OneEntryPerKey`, `StoppedIsQuiet` | |
| `NotificationDeliveryProofs` | `TypeCorrect`, `SuccessIsTrue`, `BroadcastsAreUnique`, `ShownAgainIsBounded`, `DeliveryImplementsContract` | `TypeOK`, `SuccessWasShown`, `AnnouncedOnce`, `ShownAgainOnlyAfterFault`, `ImplementsContract` | |
| `AccountClosureProofs` | `TypeCorrect`, `ClosureStaysInOrder`, `ClosureImplementsContract` | `TypeOK`, `ClosureInOrder`, `ImplementsContract` | |
| `TaskGoalOutboxProofs` | `TypeCorrect`, `ProgressStaysSum`, `AgreementInOrder`, `OutboxImplementsContract` | `TypeOK`, `ProgressIsSum`, `AgreesInOrder`, `ImplementsContract` | |

The arguments:

* `OneAcceptableReport` follows from `ClaimsUnique`: executions of a key carry
  different tokens, none above the number issued. It does not need the fencing
  counters, which is why it survives the server's lost updates.
* `OwnerConverged` is not inductive: a late server save is computed from an old
  snapshot. `PlansCurrent` adds that the snapshot and the row of each key agree on
  intent and on being absent or superseded, which no queue step changes and one
  planner's commits cannot disturb.
* `HistoryInv` says the row's two counters and the number of tokens issued are one
  number, that attempts and executions carry that number, and adds the two table
  invariants. It is inductive on either store as long as no commit is stale: a
  reconcile is then computed from rows that are, time aside, the present ones
  (`Declares`), so it neither resets a counter nor moves a row that is running or
  settled. The step properties and the refinement follow. The desktop never has a
  reconcile between read and writes (`DesktopInv`), so there they hold without a
  proviso; on the server with stale commits `HistoryInv` is false: that is the run
  `lost_update`. That counters and live claims are lost by the stale commit itself and
  by no later step (`StaleCommitsAlone`) needs no history, only that a key without a row
  has no counters (`BlankWhenAbsent`).
* `OnlyRecoveryExceedsBudget`: `GivenUp` and `RecoveryStep` say what each statement of a
  recovery does to a row it takes: the desktop's grants a retry by the row's policy, the
  server's first grants none, its second (`ServerRearms`) one to any selected row whose
  claim is still expired, whatever the policy has become since the first. A report is
  accepted from the holder only, by the policy of its claim.
* `HostInv` adds to the three host invariants how the fields of one host agree
  (`Coherent`), that no two hosts hold one token, and that from the grant on a token
  that has not lapsed is the live owner of the row (`Backed`).
* `QueuesImplementTables` lets every theorem about `ScheduledInvocation` be used for the
  queues. `QInv` says, queue by queue, that the timer is set only while the step is
  idle, that the step and the executions in hand determine each other, and how mode,
  step and heap go together; an execution belongs to one queue, so what the others do
  leaves it alone.
* `SuccessWasShown` and `AnnouncedOnce` follow from facts about a row and the worker
  that holds it (`WorkersInv`, `RowFacts`): a matching worker past the acknowledgement
  has shown the operation, and a row not yet succeeded was not announced.
* `ShownAgainOnlyAfterFault` needs a count. `Counted` bounds the presentations made
  plus the processes that could still present without a further fault (`Risk`) by one
  plus the processes times the faults; a fault pays for every process at once. While
  no fault has happened `ExclusiveInv` and `AcksInv` say that one process works on a row and that
  acknowledgements were kept, so the first presentation is the only one.
* `ClosureInOrder`: for a call past its claim, `CallsInv` says what its place in the
  saga and the phase it read imply about the row, and that phases only grow;
  `WorkersInv` says which receipts a worker's turn implies.
* `ProgressIsSum`: `SumInv` adds to it what a dispatcher that holds an unchanged
  version has read, so a write that passes the check writes the sum. `AgreesInOrder`:
  `EventsInv` and `TopInv` say that the last event handled in turn decides whether the
  record exists.

* The contracts. A refinement proof has one lemma per action, which names the
  contract's step or shows that nothing the contract sees has moved, from the invariants
  above and a few facts the safety properties did not need:
  * `DeliveringInv`: a worker past its claim knows that its row exists and, when it
    presents or skips, that the channel is the desktop's; and no row is ever removed
    (`RowsStay`).
  * `EditorSeesClosed`, `WorkersTold`: an edit that closes an account read it closed, and
    it still is; a worker's message exists.
  * `TargetInv`: a revert between its reads and its write has a record to remove. That
    the removal is one step of the contract although two dispatchers may be at it rests
    on the version check, or on `unchecked` where the code has none.
* `QueuesImplementContract` composes two refinements: the queues implement the tables,
  the tables the contract.

Each inductive invariant was checked with TLC on the run's instance first.

Model-checked only: the liveness properties `WorkSettles`, `SomeHostServes`,
`EveryRequestSettles`, `ClosureIsHeard` and `EveryEventSettles`: liveness under fairness
is outside the proof system. Every other property of a passing run is a theorem. The
contracts are safety only: that a request, an event or a closure ends is left to these
properties.

## 6. What the models showed about the code

Where code and documents disagree; each is a run whose counterexample is a behaviour
of the code.

* `revived`: a settled row that leaves the desired set is superseded like any other
  and is armed again when it comes back; ADR-082 and the entity's own comment say
  settled outcomes stay.
* `lost_update`: a server reconcile overwrites a claim made since it read the row,
  turning back attempt count and fencing token. Later claims of that row then
  violate the attempt table's unique index and roll back (`ClaimCollides`).
* `beyond_budget`: the server's re-arming update ignores `maxRetries`; the desktop's
  recovery counts. It ignores `retryEnabled` too, which only the update before it tests:
  a reconcile that turns retries off between the two does not keep the row out of
  `retry_wait`.
* `host_lapse`: a host whose renewal failed once keeps its queue running for ever
  beside the host that took the lease. Row claims still fence their reports.

For each of them a theorem says that nothing else does the same: a settled row leaves
its outcome only by withdrawal or a stale commit (`SettledOnlyWithdrawn`), counters and
live claims are lost only by a stale commit (`StaleCommitsAlone`), and so is convergence
with several planners (`UncontendedConverges`); without one the budget is exceeded, or the
switch ignored, only by the re-arming update of the server's recovery
(`OnlyRecoveryExceedsBudget`), and two queues run at once only after a lapse
(`TwoServeOnlyAfterLapse`).

Behaviours of the code that the models had to admit, each as an action, a bound on a
constant or a history variable that the property allows for by name:

* Two API processes that reconcile one owner at once may both succeed while one takes
  effect in part: k1 has a row; one process reads it for the set {k1, k2}; the other commits
  the empty set, which supersedes k1; the first finds k1 unchanged, creates k2 and commits.
  The rows are those of {k2}, which nobody declared, though
  `packages/schedule-contracts/src/scheduling.ts:52` speaks of "atomically reconciling" and
  ADR-082 section 16 protects owner-level atomicity. `OwnerConverged` is therefore for one
  planner.
* After one recorded failure `lastError` stays on a notification's dispatch row, and
  every later success receipt carries it and is refused by contract validation
  (`notification-dispatch-loop.ts:143`, `operation-receipt.ts:162`): the operation is
  delivered again until it is dead-lettered (`SuccessRejected`). The test
  `notification.runtime.spec.ts:106` passes because the in-memory adapter does not
  validate.
* Nothing orders the events of one occurrence: a retried or redelivered apply may
  follow the revert (`outOfOrder`). `AgreesInOrder` says this is the only way for task
  and goal to part.
* `claimOwnership` without an expected status, which the inline `heartbeat()` uses, does
  not exclude a succeeded closure operation, and success does not clear the lease: a
  stalled owner can take a finished operation back to running or failed
  (`account-closure-operation-prisma.repository.ts:268`). The message is published all
  the same.
* A profile edit that read the account before it was closed saves it back as active
  (`reopened`; `update-account-profile.use-case.ts:43`), while the operation says closed.
* The progress of a key result can be set without a record
  (`update-goal-key-result-progress.use-case.ts:37`, and its test at
  `__tests__/update-goal-key-result-progress.test.ts:60-78` means it;
  `update-goal-key-result.use-case.ts:51`, `update-goal.use-case.ts:93`). It then differs
  from the sum of the records (`overwritten`) until a record is next added, corrected or
  removed, by the user or by a task, which drops the value the user set.
* `getAck` swallows a failed read and answers that there is no acknowledgement
  (`powersync.ts:203-207`): an operation the user has seen is presented again. It is a
  fault like the others (`AckUnread`), and the bound of `ShownAgainOnlyAfterFault` holds
  with it.
* A revert whose computed progress equals the progress it read saves no goal and
  checks no version (`remove-task-goal-contribution.use-case.ts:47`): a record added
  between its two reads leaves the progress different from the sum (`unchecked`), which
  `create-goal-record.use-case.ts:141` says cannot be. This is the server's READ
  COMMITTED; the desktop's write transactions are serial.

Smaller ones, not in a property: the notification consumer of `account:closed` cancels
statuses the loop never writes; a row whose receipt cannot be mapped fails every tick
before anything is claimed; a replay keeps the attempt count; `stop` does not await the
tick in progress.

## 7. Not modelled, and why

* Reconcile receipts, payload snapshots, validation of intents, ids: they do not
  influence the state above.
* The lease coordinator's `execute` path and its users; see the plan.
* Notifications: `heartbeatLease` (nothing calls it), queries, the limit of 50 per batch,
  preferences (they choose a plan; every plan is admitted), channels' own transports
  but the desktop's, and the direct `dispatchOutbox` entry, which writes the rows a
  plan would.
* Account closure: what consumers do to their own tables, audit rows, the identity
  provider's internals.
* Task to goal: settlement of whole plans, measured values, aggregations other than
  Sum with one unit, a change of aggregation, the removal of the key result or the goal.
* Two pairs of statements are one step because no property tells their halves apart.
  `ClaimRow` is the conditional update and the re-read of the row after it
  (`notification-reliable-operation-prisma.adapter.ts:268-296` and `:299`); a process that
  dies between them leaves the lease behind, as `Interrupted` after `ClaimRow` does.
  `Revoke` is the revocation of all sessions and the disabling of the user
  (`cloud-auth-revocation.adapter.ts:24` and `:36`); a failure between them leaves sessions
  ended and the operation in the phase before, where a retry does both again.
* Knowledge repository, routine runtimes, schedule rebuild worker, orchestration: not
  reached; see the plan. The share of the repository's lines that is mapped is small
  because most of it is user interface, generated clients, contracts and single-row
  use cases, where there is no state machine to check.
* Clock skew between hosts, overlapping `start` and `stop` calls of one host, the
  rescan interval that survives a stop overtaking a promotion.
* Other owners' rows: every operation but recovery and findRunnable is per owner or
  per row, and those treat rows alike.
* Devices of one account sharing scheduler rows through PowerSync.
* Aggregates, portability, AI, authentication, clients and tooling: sequential,
  external or presentation.

## 8. Plan

Done: `InvocationRow`, `ScheduledInvocation`, `InvocationContract`, `InvocationQueue`,
`SchedulerHost`, `NotificationDelivery`, `AccountClosure`, `TaskGoalOutbox`, the four
contracts, and the proofs of section 5.

Next, in this order:

1. `LeaseExecute`: the lease coordinator's `execute` with `ensureHeld`, and the rebuild
   worker's items with their claim token.
2. `AccountClosure` composed with the consumers' tables, first the notification
   dispatch rows and the statuses the consumer cancels.
3. The knowledge delivery queue: a note delivered once and in order over an external
   service.
4. The routine runtimes: one intervention at a time through suspend and resume.
