------------------------ MODULE NotificationDelivery ------------------------
(***************************************************************************)
(* The notification dispatch loop: notification.requested intents are      *)
(* turned into a notification and one dispatch row per channel, and the    *)
(* rows are claimed, delivered and given a receipt, by processes that      *)
(* share one database.                                                     *)
(*                                                                         *)
(* A step is one database statement or transaction, or one call of the     *)
(* desktop renderer, and the code that follows it up to the next.  A tick  *)
(* that finds nothing to claim changes nothing and is left out.            *)
(***************************************************************************)
EXTENDS Naturals, FiniteSets

CONSTANTS
    Worker,              \* processes running the loop
    NoWorker,            \* ownerToken null
    Request,             \* notification.requested intents
    Channel,
    DesktopChannel,      \* the channels shown by the desktop transport
    DeadLetterThreshold,
    MaxReplays,          \* bound: replays of dead letters
    MaxFaults            \* bound: stalls, crashes, failed calls, declined renderings

ASSUME DeliveryAssumption ==
    /\ IsFiniteSet(Worker) /\ NoWorker \notin Worker
    /\ DesktopChannel \subseteq Channel
    /\ DeadLetterThreshold \in Nat \ {0}
    /\ MaxReplays \in Nat /\ MaxFaults \in Nat

Op == Request \X Channel

VARIABLES
    intent,      \* the shared outbox rows
    fact,        \* the requests with a stored notification
    dispatch,    \* the dispatch outbox rows
    ack,         \* the desktop transport's acknowledgement table
    seen,        \* each process's copy of it
    worker,
    presented,   \* history: times an operation was shown on the desktop
    announced,   \* history: times its delivery was broadcast over SSE
    replays, faults

vars == <<intent, fact, dispatch, ack, seen, worker, presented, announced, replays, faults>>

RowStatus == {"absent", "pending", "retryable", "running",
              "succeeded", "skipped", "dead_letter"}
Final == {"succeeded", "skipped", "dead_letter"}

OutboxRow ==
    [status: RowStatus,
     attempt: Nat,
     fence: Nat,
     owner: Worker \cup {NoWorker},
     expired: BOOLEAN,    \* leaseExpiresAt has passed
     due: BOOLEAN,        \* nextRetryAt, or availableAt, has passed
     failed: BOOLEAN]     \* lastError is set

\* "open": delivering or failed.
AckStatus == {"none", "open", "delivered", "suppressed"}

\* A candidate read, or a claim made: the row as the worker knows it.
Claim == [row: Op \cup Request, fence: Nat, attempt: Nat, failed: BOOLEAN]
NoClaim == [row |-> << >>, fence |-> 0, attempt |-> 0, failed |-> FALSE]

WorkerState ==
    [at: {"idle", "dispatches", "presenting", "acking", "recording", "intents", "marking"},
     found: SUBSET Claim,    \* candidates not yet claimed
     batch: SUBSET Claim,    \* claims not yet processed
     claim: Claim \cup {NoClaim},
     outcome: {"none", "succeeded", "skipped", "failed"}]
Idle == [at |-> "idle", found |-> {}, batch |-> {}, claim |-> NoClaim, outcome |-> "none"]

NewRow(status, due) ==
    [status |-> status, attempt |-> 0, fence |-> 0, owner |-> NoWorker,
     expired |-> FALSE, due |-> due, failed |-> FALSE]

Init ==
    /\ intent = [r \in Request |-> NewRow("pending", TRUE)]
    /\ fact = {}
    /\ dispatch = [o \in Op |-> NewRow("absent", FALSE)]
    /\ ack = [o \in Op |-> "none"]
    /\ seen = [w \in Worker |-> [o \in Op |-> "none"]]
    /\ worker = [w \in Worker |-> Idle]
    /\ presented = [o \in Op |-> 0]
    /\ announced = [o \in Op |-> 0]
    /\ replays = 0
    /\ faults = 0

Fault == faults < MaxFaults /\ faults' = faults + 1

Update(w, s) == worker' = [worker EXCEPT ![w] = s]

----------------------------------------------------------------------------
(* Claims and leases. *)

\* The slip of leaving a claim to the worker that made it.
ClaimableWhileFree(row) ==
    row.status = "pending" \/ (row.status = "retryable" /\ row.due)

Claimable(row) ==
    \/ row.status = "pending"
    \/ row.status = "retryable" /\ row.due
    \/ row.status = "running" /\ row.expired

Candidates(rows) ==
    {[row |-> x, fence |-> rows[x].fence, attempt |-> rows[x].attempt, failed |-> rows[x].failed] :
        x \in {y \in DOMAIN rows : Claimable(rows[y])}}

\* The row a claim leaves: claimed by w, its lastError kept.
Claimed(row, w) ==
    [row EXCEPT !.status = "running", !.owner = w, !.fence = @ + 1, !.attempt = @ + 1,
                !.expired = FALSE, !.due = FALSE]

Taken(c) == [c EXCEPT !.fence = @ + 1, !.attempt = @ + 1]

\* A receipt is applied to the running row of its owner and fencing token.
Matches(row, w, c) == row.status = "running" /\ row.owner = w /\ row.fence = c.fence

Holds(w, x, row) ==
    \E c \in worker[w].batch \cup {worker[w].claim} : c.row = x /\ Matches(row, w, c)

Held(x, row) == \E w \in Worker : Holds(w, x, row)

\* 30 seconds pass on a claim nobody works on any more ...
LeaseRunsOut(rows, x) ==
    /\ rows[x].status = "running" /\ ~rows[x].expired /\ ~Held(x, rows[x])

\* ... or on one of a worker that stalls, or is still busy with the claims
\* before it: nothing renews a claim.
LeaseLapses(rows, x) ==
    /\ rows[x].status = "running" /\ ~rows[x].expired /\ Held(x, rows[x])
    /\ Fault

DispatchRunsOut(o) ==
    /\ LeaseRunsOut(dispatch, o)
    /\ dispatch' = [dispatch EXCEPT ![o].expired = TRUE]
    /\ UNCHANGED <<intent, fact, ack, seen, worker, presented, announced, replays, faults>>

DispatchLapses(o) ==
    /\ LeaseLapses(dispatch, o)
    /\ dispatch' = [dispatch EXCEPT ![o].expired = TRUE]
    /\ UNCHANGED <<intent, fact, ack, seen, worker, presented, announced, replays>>

IntentRunsOut(r) ==
    /\ LeaseRunsOut(intent, r)
    /\ intent' = [intent EXCEPT ![r].expired = TRUE]
    /\ UNCHANGED <<fact, dispatch, ack, seen, worker, presented, announced, replays, faults>>

IntentLapses(r) ==
    /\ LeaseLapses(intent, r)
    /\ intent' = [intent EXCEPT ![r].expired = TRUE]
    /\ UNCHANGED <<fact, dispatch, ack, seen, worker, presented, announced, replays>>

DispatchDue(o) ==
    /\ dispatch[o].status = "retryable" /\ ~dispatch[o].due
    /\ dispatch' = [dispatch EXCEPT ![o].due = TRUE]
    /\ UNCHANGED <<intent, fact, ack, seen, worker, presented, announced, replays, faults>>

IntentDue(r) ==
    /\ intent[r].status = "retryable" /\ ~intent[r].due
    /\ intent' = [intent EXCEPT ![r].due = TRUE]
    /\ UNCHANGED <<fact, dispatch, ack, seen, worker, presented, announced, replays, faults>>

----------------------------------------------------------------------------
(* A tick: the dispatch rows first. *)

Tick(w) ==
    /\ worker[w].at = "idle"
    /\ Candidates(dispatch) # {} \/ Candidates(intent) # {}
    /\ Update(w, [Idle EXCEPT !.at = "dispatches", !.found = Candidates(dispatch)])
    /\ UNCHANGED <<intent, fact, dispatch, ack, seen, presented, announced, replays, faults>>

\* One candidate is claimed, unless another worker was faster.
ClaimRow(w) ==
    /\ worker[w].at = "dispatches"
    /\ \E c \in worker[w].found :
          LET row == dispatch[c.row]
              left == [worker[w] EXCEPT !.found = @ \ {c}]
          IN IF row.fence = c.fence /\ Claimable(row)
             THEN /\ dispatch' = [dispatch EXCEPT ![c.row] = Claimed(row, w)]
                  /\ Update(w, [left EXCEPT !.batch = @ \cup {Taken(c)}])
             ELSE Update(w, left) /\ UNCHANGED dispatch
    /\ UNCHANGED <<intent, fact, ack, seen, presented, announced, replays, faults>>

Known(w, o) == IF seen[w][o] = "none" THEN ack[o] ELSE seen[w][o]

\* The slip of taking any acknowledgement for a delivery.
AnyAckCounts(a) == CASE a = "suppressed" -> "skipped" [] a = "none" -> "none"
                     [] OTHER -> "succeeded"

\* The slip of looking for a suppression only.
OnlySuppressionCounts(a) == IF a = "suppressed" THEN "skipped" ELSE "none"

\* What an acknowledgement found before showing anything settles.
Acknowledged(a) == CASE a = "suppressed" -> "skipped" [] a = "delivered" -> "succeeded"
                     [] OTHER -> "none"

\* processClaimedDispatch up to the deliverer: nothing to do in the app, and on
\* the desktop nothing when the operation is acknowledged already.
Deliver(w) ==
    /\ worker[w].at = "dispatches" /\ worker[w].found = {}
    /\ \E c \in worker[w].batch :
          LET desktop == c.row[2] \in DesktopChannel
              outcome == IF desktop THEN Acknowledged(Known(w, c.row)) ELSE "succeeded"
          IN /\ Update(w, [worker[w] EXCEPT !.batch = @ \ {c}, !.claim = c, !.outcome = outcome,
                              !.at = IF outcome = "none" THEN "presenting" ELSE "recording"])
             /\ seen' = IF desktop THEN [seen EXCEPT ![w][c.row] = Known(w, c.row)] ELSE seen
    /\ UNCHANGED <<intent, fact, dispatch, ack, presented, announced, replays, faults>>

\* The query of an acknowledgement that the process has no copy of fails:
\* getAck answers that there is none, whatever the table says.
AckUnread(w) ==
    /\ worker[w].at = "dispatches" /\ worker[w].found = {}
    /\ \E c \in worker[w].batch :
          /\ c.row[2] \in DesktopChannel
          /\ seen[w][c.row] = "none"
          /\ Update(w, [worker[w] EXCEPT !.batch = @ \ {c}, !.claim = c, !.at = "presenting"])
    /\ Fault
    /\ UNCHANGED <<intent, fact, dispatch, ack, seen, presented, announced, replays>>

\* The transport saves "delivering" and calls the renderer.
Present(w) ==
    LET o == worker[w].claim.row
    IN /\ worker[w].at = "presenting"
       /\ ack' = [ack EXCEPT ![o] = "open"]
       /\ seen' = [seen EXCEPT ![w][o] = "open"]
       /\ \/ /\ presented' = [presented EXCEPT ![o] = @ + 1]
             /\ Update(w, [worker[w] EXCEPT !.at = "acking", !.outcome = "succeeded"])
             /\ UNCHANGED faults
          \/ /\ Update(w, [worker[w] EXCEPT !.at = "acking", !.outcome = "skipped"])
             /\ UNCHANGED <<presented, faults>>
          \/ /\ Update(w, [worker[w] EXCEPT !.at = "recording", !.outcome = "failed"])
             /\ Fault
             /\ UNCHANGED presented
       /\ UNCHANGED <<intent, fact, dispatch, announced, replays>>

AckOf(outcome) == IF outcome = "succeeded" THEN "delivered" ELSE "suppressed"

Ack(w) ==
    LET o == worker[w].claim.row
        a == AckOf(worker[w].outcome)
    IN /\ worker[w].at = "acking"
       /\ ack' = [ack EXCEPT ![o] = a]
       /\ seen' = [seen EXCEPT ![w][o] = a]
       /\ Update(w, [worker[w] EXCEPT !.at = "recording"])
       /\ UNCHANGED <<intent, fact, dispatch, presented, announced, replays, faults>>

\* saveAck throws, its write stored or not: what was shown counts as a failed
\* delivery.
AckFails(w) ==
    LET o == worker[w].claim.row
    IN /\ worker[w].at = "acking"
       /\ \E a \in {"open", AckOf(worker[w].outcome)} : ack' = [ack EXCEPT ![o] = a]
       /\ Update(w, [worker[w] EXCEPT !.at = "recording", !.outcome = "failed"])
       /\ Fault
       /\ UNCHANGED <<intent, fact, dispatch, seen, presented, announced, replays>>

----------------------------------------------------------------------------
(* Receipts. *)

NextClaim(w) == [worker[w] EXCEPT !.at = "dispatches", !.claim = NoClaim, !.outcome = "none"]

DeadLettered(c) == c.attempt >= DeadLetterThreshold

\* The slip of giving up at the first failure.
FailedForGood(c, outcome) == IF DeadLettered(c) /\ outcome = "failed" THEN "dead_letter" ELSE outcome

StatusOf(c, outcome) ==
    IF outcome # "failed" THEN outcome
    ELSE IF DeadLettered(c) THEN "dead_letter" ELSE "retryable"

\* The row a receipt leaves: its owner goes, unless it is to be tried again.
Receipted(row, c, outcome) ==
    LET status == StatusOf(c, outcome)
    IN [row EXCEPT !.status = status, !.attempt = c.attempt, !.failed = outcome = "failed",
                   !.owner = IF status = "retryable" THEN @ ELSE NoWorker, !.expired = FALSE]

\* The receipt of a success carries the lastError of the row it was claimed
\* from, and a success with an error is not a valid receipt.
ValidReceipt(c, outcome) == ~(outcome = "succeeded" /\ c.failed)

\* The slip of broadcasting whatever was recorded.
AlwaysBroadcast(applied, outcome) == outcome = "succeeded"

\* SSE hears only of the delivery that was recorded.
Broadcast(applied, outcome) == applied /\ outcome = "succeeded"

Record(w) ==
    LET c == worker[w].claim
        o == c.row
        outcome == worker[w].outcome
        applied == Matches(dispatch[o], w, c)
    IN /\ worker[w].at = "recording"
       /\ ValidReceipt(c, outcome)
       /\ dispatch' = IF applied THEN [dispatch EXCEPT ![o] = Receipted(@, c, outcome)]
                      ELSE dispatch
       /\ announced' = IF Broadcast(applied, outcome) THEN [announced EXCEPT ![o] = @ + 1]
                       ELSE announced
       /\ Update(w, NextClaim(w))
       /\ UNCHANGED <<intent, fact, ack, seen, presented, replays, faults>>

\* A success that cannot be recorded is treated as a failed delivery.
SuccessRejected(w) ==
    /\ worker[w].at = "recording"
    /\ ~ValidReceipt(worker[w].claim, worker[w].outcome)
    /\ Update(w, [worker[w] EXCEPT !.outcome = "failed"])
    /\ UNCHANGED <<intent, fact, dispatch, ack, seen, presented, announced, replays, faults>>

\* And so is one whose statement throws, committed or not.
SuccessLost(w) ==
    LET c == worker[w].claim
        o == c.row
    IN /\ worker[w].at = "recording" /\ worker[w].outcome = "succeeded"
       /\ ValidReceipt(c, "succeeded")
       /\ \/ UNCHANGED dispatch
          \/ /\ Matches(dispatch[o], w, c)
             /\ dispatch' = [dispatch EXCEPT ![o] = Receipted(@, c, "succeeded")]
       /\ Update(w, [worker[w] EXCEPT !.outcome = "failed"])
       /\ Fault
       /\ UNCHANGED <<intent, fact, ack, seen, presented, announced, replays>>

----------------------------------------------------------------------------
(* Then the intents. *)

TurnToIntents(w) ==
    /\ worker[w].at = "dispatches" /\ worker[w].found = {} /\ worker[w].batch = {}
    /\ Update(w, [worker[w] EXCEPT !.at = "intents", !.found = Candidates(intent)])
    /\ UNCHANGED <<intent, fact, dispatch, ack, seen, presented, announced, replays, faults>>

\* The claim is a write on the status and attempts that were read.
ClaimIntent(w) ==
    /\ worker[w].at = "intents"
    /\ \E c \in worker[w].found :
          LET row == intent[c.row]
              left == [worker[w] EXCEPT !.found = @ \ {c}]
          IN IF row.attempt = c.attempt /\ Claimable(row)
             THEN /\ intent' = [intent EXCEPT ![c.row] = Claimed(row, w)]
                  /\ Update(w, [left EXCEPT !.batch = @ \cup {Taken(c)}])
             ELSE Update(w, left) /\ UNCHANGED intent
    /\ UNCHANGED <<fact, dispatch, ack, seen, presented, announced, replays, faults>>

\* CreateNotificationUseCase: the notification and the rows of its plan in one
\* transaction, and nothing when the request is stored already.
Materialised(r, plan) ==
    [o \in Op |-> IF r \notin fact /\ o[1] = r /\ plan[o[2]] # "none"
                  THEN NewRow(IF plan[o[2]] = "enqueued" THEN "pending" ELSE "retryable", FALSE)
                  ELSE dispatch[o]]

\* The consumer succeeds, or throws before its transaction or after it.
Consume(w) ==
    /\ worker[w].at = "intents" /\ worker[w].found = {}
    /\ \E c \in worker[w].batch :
          LET stop == [worker[w] EXCEPT !.at = "marking", !.batch = @ \ {c}, !.claim = c]
          IN \/ /\ \E plan \in [Channel -> {"enqueued", "deferred", "none"}] :
                      dispatch' = Materialised(c.row, plan)
                /\ fact' = fact \cup {c.row}
                /\ \E outcome \in {"succeeded", "failed"} : Update(w, [stop EXCEPT !.outcome = outcome])
             \/ /\ Update(w, [stop EXCEPT !.outcome = "failed"])
                /\ UNCHANGED <<fact, dispatch>>
    /\ UNCHANGED <<intent, ack, seen, presented, announced, replays, faults>>

NextIntent(w) == [worker[w] EXCEPT !.at = "intents", !.claim = NoClaim, !.outcome = "none"]

\* updateSharedOutboxStatus, with the success or by markSharedFailed.
Mark(w) ==
    LET c == worker[w].claim
        r == c.row
    IN /\ worker[w].at = "marking"
       /\ intent' = IF Matches(intent[r], w, c)
                    THEN [intent EXCEPT ![r].status = StatusOf(c, worker[w].outcome),
                                        ![r].owner = NoWorker, ![r].expired = FALSE]
                    ELSE intent
       /\ Update(w, NextIntent(w))
       /\ UNCHANGED <<fact, dispatch, ack, seen, presented, announced, replays, faults>>

\* The success cannot be marked, or was and the call throws: markSharedFailed.
MarkLost(w) ==
    LET c == worker[w].claim
        r == c.row
    IN /\ worker[w].at = "marking" /\ worker[w].outcome = "succeeded"
       /\ \/ UNCHANGED intent
          \/ /\ Matches(intent[r], w, c)
             /\ intent' = [intent EXCEPT ![r].status = "succeeded", ![r].owner = NoWorker,
                                         ![r].expired = FALSE]
       /\ Update(w, [worker[w] EXCEPT !.outcome = "failed"])
       /\ Fault
       /\ UNCHANGED <<fact, dispatch, ack, seen, presented, announced, replays>>

EndTick(w) ==
    /\ worker[w].at = "intents" /\ worker[w].found = {} /\ worker[w].batch = {}
    /\ Update(w, Idle)
    /\ UNCHANGED <<intent, fact, dispatch, ack, seen, presented, announced, replays, faults>>

\* A statement whose error nothing catches ends the tick, and its claims are
\* left to their leases; a process that dies forgets its acknowledgements too.
Interrupted(w) ==
    /\ worker[w].at # "idle"
    /\ Update(w, Idle)
    /\ \E process \in {"lives", "dies"} :
          seen' = IF process = "lives" THEN seen ELSE [seen EXCEPT ![w] = [o \in Op |-> "none"]]
    /\ Fault
    /\ UNCHANGED <<intent, fact, dispatch, ack, presented, announced, replays>>

\* replayDeadLetter: due at once under a new fencing token.
Replay(o) ==
    /\ dispatch[o].status = "dead_letter"
    /\ replays < MaxReplays
    /\ replays' = replays + 1
    /\ dispatch' = [dispatch EXCEPT ![o].status = "retryable", ![o].due = TRUE,
                                    ![o].fence = @ + 1]
    /\ UNCHANGED <<intent, fact, ack, seen, worker, presented, announced, faults>>

----------------------------------------------------------------------------
Step(w) ==
    \/ Tick(w) \/ ClaimRow(w) \/ Deliver(w) \/ Present(w) \/ Ack(w)
    \/ Record(w) \/ SuccessRejected(w)
    \/ TurnToIntents(w) \/ ClaimIntent(w) \/ Consume(w) \/ Mark(w) \/ EndTick(w)

Failure(w) == AckUnread(w) \/ AckFails(w) \/ SuccessLost(w) \/ MarkLost(w) \/ Interrupted(w)

Next ==
    \/ \E w \in Worker : Step(w) \/ Failure(w)
    \/ \E o \in Op : DispatchRunsOut(o) \/ DispatchLapses(o) \/ DispatchDue(o) \/ Replay(o)
    \/ \E r \in Request : IntentRunsOut(r) \/ IntentLapses(r) \/ IntentDue(r)

\* The interval timer ticks, awaited calls return, and time passes.  Neither a
\* fault nor a replay has to happen.
Fairness ==
    /\ \A w \in Worker : WF_vars(Step(w))
    /\ \A o \in Op : WF_vars(DispatchRunsOut(o)) /\ WF_vars(DispatchDue(o))
    /\ \A r \in Request : WF_vars(IntentRunsOut(r)) /\ WF_vars(IntentDue(r))

Spec == Init /\ [][Next]_vars /\ Fairness

----------------------------------------------------------------------------
(* Types: the rows, the workers and the histories have the shapes the loop *)
(* and its adapters give them.                                             *)
TypeOK ==
    /\ intent \in [Request -> OutboxRow]
    /\ fact \subseteq Request
    /\ dispatch \in [Op -> OutboxRow]
    /\ ack \in [Op -> AckStatus]
    /\ seen \in [Worker -> [Op -> AckStatus]]
    /\ worker \in [Worker -> WorkerState]
    /\ presented \in [Op -> Nat]
    /\ announced \in [Op -> Nat]
    /\ replays \in 0..MaxReplays
    /\ faults \in 0..MaxFaults

\* A receipt tells the truth: an intent marked succeeded has its notification
\* (claimSharedOutboxIntents, processNotificationRequested), and a desktop row
\* recorded as succeeded was shown to the user, whatever mixture of processes,
\* copies of the acknowledgements and retries led there.
SuccessWasShown ==
    /\ \A r \in Request : intent[r].status = "succeeded" => r \in fact
    /\ \A o \in Op : dispatch[o].status = "succeeded" /\ o[2] \in DesktopChannel => presented[o] > 0

\* SSE subscribers hear of a delivery at most once, and only of one that is
\* recorded: processClaimedDispatch broadcasts what recordDeliveryReceipt
\* applied, so a worker that lost its claim stays silent.
AnnouncedOnce ==
    \A o \in Op : announced[o] <= 1 /\ (announced[o] = 1 => dispatch[o].status = "succeeded")

\* The user sees an operation again only after a fault: a stall, a crash, a
\* failed call -- a query of the acknowledgements that fails, and is taken for
\* none, among them -- or a declined rendering costs at most one presentation
\* in each process.  Claims, retries, rejected receipts and replays alone show
\* nothing twice (createDefaultElectronDesktopTransport, getAck and saveAck).
ShownAgainOnlyAfterFault ==
    \A o \in Op : presented[o] <= 1 + Cardinality(Worker) * faults

Settled(r) ==
    /\ intent[r].status \in Final
    /\ \A c \in Channel : dispatch[<<r, c>>].status \in Final \cup {"absent"}

\* Every request ends: its intent and every row planned for it reach a receipt
\* or the dead letters, whatever crashed or was retried on the way.
EveryRequestSettles == \A r \in Request : []<>Settled(r)

----------------------------------------------------------------------------
(* What of this reaches the user, the subscribers and the requesters.      *)
RequestOf(status) ==
    CASE status = "succeeded" -> "stored" [] status = "dead_letter" -> "dead" [] OTHER -> "open"

DeliveryOf(status) ==
    CASE status = "succeeded" -> "delivered" [] status = "dead_letter" -> "dead"
      [] status \in {"absent", "skipped"} -> status [] OTHER -> "open"

Requests == [r \in Request |-> RequestOf(intent[r].status)]
Deliveries == [o \in Op |-> DeliveryOf(dispatch[o].status)]
Shown == {o \in Op : presented[o] > 0}
Told == {o \in Op : announced[o] > 0}

Contract == INSTANCE DeliveryContract WITH
    stored <- fact,
    request <- Requests,
    delivery <- Deliveries,
    shown <- Shown,
    told <- Told

\* Claimed, lapsed, claimed again and recorded by whoever still owns the row,
\* each delivery moves as if one worker had taken it once: what is delivered or
\* skipped stays so, and a receipt that comes late changes nothing
\* (processClaimedDispatch, recordDeliveryReceipt, processNotificationRequested,
\* replayDeadLetter).
ImplementsContract == Contract!ContractSpec

=============================================================================
