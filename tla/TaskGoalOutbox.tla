--------------------------- MODULE TaskGoalOutbox ---------------------------
(***************************************************************************)
(* What completing and uncompleting an occurrence of a task does to the    *)
(* key result its plan is bound to: the task_goal_outbox rows, the         *)
(* dispatchers that claim them, and the goal's consumer, which keeps one   *)
(* record per settlement source and recomputes the progress as the sum of  *)
(* the records.  The user writes the same goal: records of their own, and  *)
(* the progress itself.                                                    *)
(*                                                                         *)
(* A step is one statement or transaction.  The consumer's transactions    *)
(* run at read committed, so they are several: what they read, and their   *)
(* writes.  A revert reads the goal and then the records; an apply checks  *)
(* the version of what it read first in any case, so one step reads all.   *)
(* The rule is Fixed and EachCompletion on a Sum key result, one unit each.*)
(***************************************************************************)
EXTENDS Naturals, FiniteSets

CONSTANTS
    Occurrence,
    Dispatcher,    \* processes polling the outbox
    MaxAttempts,
    MaxToggles,    \* bound: completions and uncompletions of an occurrence
    MaxManual,     \* bound: what the user's own records add up to
    HandValues,    \* bound: values the user sets the progress to
    MaxEdits,      \* bound: the user's saves of the goal
    MaxReplays,    \* bound: replays of dead letters
    MaxFaults      \* bound: stalls, crashes and failed calls

ASSUME OutboxAssumption ==
    /\ IsFiniteSet(Occurrence)
    /\ MaxAttempts \in Nat \ {0}
    /\ MaxToggles \in Nat /\ MaxManual \in Nat /\ MaxEdits \in Nat
    /\ HandValues \subseteq Nat
    /\ MaxReplays \in Nat /\ MaxFaults \in Nat

VARIABLES
    toggles,      \* how often each occurrence was completed or uncompleted
    outbox,
    dispatcher,
    record,       \* each occurrence's goal record, by the version that made it
    manual,       \* the sum of the records the user keeps by hand
    progress,     \* the key result's currentValue
    version,      \* the goal's
    edits,        \* the user's saves of the goal so far
    handled,      \* history: the events whose effect is in the goal
    outOfOrder,   \* history: occurrences with an event handled out of turn
    unchecked,    \* history: a record was removed without a look at the version
    overwritten,  \* history: the progress was set by hand, and not recomputed since
    replays, faults

goal == <<record, manual, progress, version, edits>>
history == <<handled, outOfOrder, unchecked, overwritten>>
vars == <<toggles, outbox, dispatcher, goal, history, replays, faults>>

NoRecord == 0
Recorded == {k \in Occurrence : record[k] # NoRecord}

\* The n-th change of an occurrence: apply when it is completed, revert when
\* it is uncompleted again.
Event == Occurrence \X (1..MaxToggles)
Applies(e) == e[2] % 2 = 1

Completed(k) == toggles[k] % 2 = 1

OutboxRow ==
    [status: {"absent", "PENDING", "PROCESSING", "DELIVERED", "DEAD_LETTER"},
     attempts: 0..MaxAttempts,
     available: BOOLEAN]    \* available_at, the lease's end, has passed

DispatcherState ==
    [at: {"idle", "handling", "reading", "writing", "marking"},
     batch: SUBSET Event,
     event: SUBSET Event,    \* the one being handled, if any
     expected: Nat,          \* the goal version its transaction read
     current: Nat,           \* and its progress
     target: Nat,            \* the record it removes
     next: Nat,              \* the progress it computed from the records it read
     outcome: {"none", "done", "failed"}]
Idle == [at |-> "idle", batch |-> {}, event |-> {}, expected |-> 0, current |-> 0,
         target |-> NoRecord, next |-> 0, outcome |-> "none"]

Init ==
    /\ toggles = [k \in Occurrence |-> 0]
    /\ outbox = [e \in Event |-> [status |-> "absent", attempts |-> 0, available |-> FALSE]]
    /\ dispatcher = [d \in Dispatcher |-> Idle]
    /\ record = [k \in Occurrence |-> NoRecord]
    /\ manual = 0
    /\ progress = 0
    /\ version = 0
    /\ edits = 0
    /\ handled = {}
    /\ outOfOrder = {}
    /\ unchecked = FALSE
    /\ overwritten = FALSE
    /\ replays = 0
    /\ faults = 0

Fault == faults < MaxFaults /\ faults' = faults + 1

Update(d, s) == dispatcher' = [dispatcher EXCEPT ![d] = s]

----------------------------------------------------------------------------
(* The task, the user and time. *)

\* The occurrence is saved and its event appended in one transaction.
Toggle(k) ==
    /\ toggles[k] < MaxToggles
    /\ toggles' = [toggles EXCEPT ![k] = @ + 1]
    /\ outbox' = [outbox EXCEPT ![<<k, toggles[k] + 1>>].status = "PENDING",
                                ![<<k, toggles[k] + 1>>].available = TRUE]
    /\ UNCHANGED <<dispatcher, goal, history, replays, faults>>

\* The user's requests carry the version the user saw and conflict unless it
\* is the goal's: a save that succeeds is one step.
SaveByHand ==
    /\ edits < MaxEdits
    /\ edits' = edits + 1
    /\ version' = version + 1
    /\ UNCHANGED <<toggles, outbox, dispatcher, record, handled, outOfOrder, unchecked,
                   replays, faults>>

\* A record of the user's own is created, corrected or deleted; each time the
\* progress is recomputed from all records.
RecordByHand ==
    /\ SaveByHand
    /\ \E m \in 0..MaxManual :
          /\ manual + m > 0
          /\ manual' = m
          /\ progress' = Cardinality(Recorded) + m
    /\ overwritten' = FALSE

\* The key result, or the whole goal, is edited: with a value for the progress,
\* which no record explains, or without one.
EditKeyResult ==
    /\ SaveByHand
    /\ \/ progress' \in HandValues /\ overwritten' = TRUE
       \/ UNCHANGED <<progress, overwritten>>
    /\ UNCHANGED manual

Held(e) == \E d \in Dispatcher : e \in dispatcher[d].batch \cup dispatcher[d].event

Waiting(e) == outbox[e].status \in {"PENDING", "PROCESSING"} /\ ~outbox[e].available

\* A backoff ends, or the 60 seconds of a claim nobody works on any more.
BecomesAvailable(e) ==
    /\ Waiting(e)
    /\ outbox[e].status = "PROCESSING" => ~Held(e)
    /\ outbox' = [outbox EXCEPT ![e].available = TRUE]
    /\ UNCHANGED <<toggles, dispatcher, goal, history, replays, faults>>

\* A dispatcher stalls: its claim runs out while it holds it.
LeaseLapses(e) ==
    /\ Waiting(e) /\ outbox[e].status = "PROCESSING" /\ Held(e)
    /\ outbox' = [outbox EXCEPT ![e].available = TRUE]
    /\ Fault
    /\ UNCHANGED <<toggles, dispatcher, goal, history, replays>>

----------------------------------------------------------------------------
(* dispatchPending *)

\* The slip of never taking a claim back.
OnlyPending(e) == outbox[e].status = "PENDING" /\ outbox[e].available

Claimable(e) == outbox[e].status \in {"PENDING", "PROCESSING"} /\ outbox[e].available

\* claimPending.  UPDATE ... RETURNING gives the batch in no promised order.
Claim(d) ==
    LET claimed == {e \in Event : Claimable(e)}
    IN /\ dispatcher[d].at = "idle"
       /\ claimed # {}
       /\ outbox' = [e \in Event |-> IF e \in claimed
                                     THEN [outbox[e] EXCEPT !.status = "PROCESSING",
                                                            !.available = FALSE]
                                     ELSE outbox[e]]
       /\ Update(d, [Idle EXCEPT !.at = "handling", !.batch = claimed])
       /\ UNCHANGED <<toggles, goal, history, replays, faults>>

\* The goal has nothing to do: the record is there already, or there is none.
Settled(e) == Applies(e) <=> e[1] \in Recorded

\* The event takes effect now: is an earlier one of its occurrence not in the
\* goal yet, or a later one in it already?
OutOfTurn(e) ==
    \E n \in 1..MaxToggles : (n < e[2] /\ <<e[1], n>> \notin handled) \/ (n > e[2] /\ <<e[1], n>> \in handled)

Handled(e) ==
    /\ handled' = handled \cup {e}
    /\ outOfOrder' = IF OutOfTurn(e) THEN outOfOrder \cup {e[1]} ELSE outOfOrder

\* GoalTaskProgressHandler finds the record of the event's source and reads
\* the goal; an apply reads the records of the key result with them.
Handle(d) ==
    /\ dispatcher[d].at = "handling"
    /\ \E e \in dispatcher[d].batch :
          LET s == [dispatcher[d] EXCEPT !.batch = @ \ {e}, !.event = {e}]
              base == [s EXCEPT !.expected = version, !.current = progress]
          IN \/ /\ Settled(e)
                /\ Update(d, [s EXCEPT !.at = "marking", !.outcome = "done"])
                /\ Handled(e)
             \/ /\ ~Settled(e)
                /\ Update(d, IF Applies(e)
                             THEN [base EXCEPT !.at = "writing", !.next = Cardinality(Recorded) + manual + 1]
                             ELSE [base EXCEPT !.at = "reading", !.target = record[e[1]]])
                /\ UNCHANGED <<handled, outOfOrder>>
    /\ UNCHANGED <<toggles, outbox, goal, unchecked, overwritten, replays, faults>>

\* A revert reads the records, in a later statement: the sum without its own.
ReadRecords(d) ==
    /\ dispatcher[d].at = "reading"
    /\ \E e \in dispatcher[d].event :
          LET remaining == {k \in Recorded : <<k, record[k]>> # <<e[1], dispatcher[d].target>>}
          IN Update(d, [dispatcher[d] EXCEPT !.at = "writing", !.next = Cardinality(remaining) + manual])
    /\ UNCHANGED <<toggles, outbox, goal, history, replays, faults>>

Marking(d, outcome) ==
    [Idle EXCEPT !.at = "marking", !.batch = dispatcher[d].batch,
                 !.event = dispatcher[d].event, !.outcome = outcome]

\* The slip of saving the goal whatever its version.
AnyVersion(d) == TRUE

\* saveRootWithExpectedVersion
Current(d) == dispatcher[d].expected = version

\* A revert that computes the progress it already read saves no goal, and
\* compares no version.
SkipsGoal(d) == dispatcher[d].next = dispatcher[d].current

\* delete throws unless it removed the very record that was found.
Removable(d, k) == record[k] = dispatcher[d].target

\* CreateGoalRecordUseCase: the record and the new sum, with the version.
Contribute(d, e) ==
    /\ Applies(e) /\ Current(d)
    /\ record' = [record EXCEPT ![e[1]] = version + 1]
    /\ progress' = dispatcher[d].next
    /\ version' = version + 1
    /\ overwritten' = FALSE
    /\ Handled(e)
    /\ UNCHANGED <<manual, edits, unchecked>>

\* RemoveTaskGoalContributionUseCase: the new sum, if it is one, with the
\* version; and the record.
Withdraw(d, e) ==
    /\ ~Applies(e) /\ Removable(d, e[1])
    /\ \/ /\ SkipsGoal(d)
          /\ unchecked' = TRUE
          /\ UNCHANGED <<progress, version, overwritten>>
       \/ /\ ~SkipsGoal(d) /\ Current(d)
          /\ progress' = dispatcher[d].next
          /\ version' = version + 1
          /\ overwritten' = FALSE
          /\ UNCHANGED unchecked
    /\ record' = [record EXCEPT ![e[1]] = NoRecord]
    /\ Handled(e)
    /\ UNCHANGED <<manual, edits>>

\* The version has moved on, or the record is gone: everything rolls back.
Conflicts(d, e) ==
    IF Applies(e) THEN ~Current(d)
    ELSE ~Removable(d, e[1]) \/ (~SkipsGoal(d) /\ ~Current(d))

\* The transaction's writes commit, or none of them does.
Write(d) ==
    /\ dispatcher[d].at = "writing"
    /\ \E e \in dispatcher[d].event :
          \/ (Contribute(d, e) \/ Withdraw(d, e)) /\ Update(d, Marking(d, "done"))
          \/ Conflicts(d, e) /\ Update(d, Marking(d, "failed")) /\ UNCHANGED <<goal, history>>
    /\ UNCHANGED <<toggles, outbox, replays, faults>>

\* The handler throws, before its transaction or after it, or markDelivered
\* does, stored or not: the catch marks the event for a retry.
HandlerFails(d) ==
    /\ \/ dispatcher[d].at \in {"reading", "writing"} /\ UNCHANGED outbox
       \/ /\ dispatcher[d].at = "marking" /\ dispatcher[d].outcome = "done"
          /\ \E e \in dispatcher[d].event :
                \/ UNCHANGED outbox
                \/ /\ outbox[e].status = "PROCESSING"
                   /\ outbox' = [outbox EXCEPT ![e].status = "DELIVERED", ![e].available = FALSE]
    /\ Update(d, Marking(d, "failed"))
    /\ Fault
    /\ UNCHANGED <<toggles, goal, history, replays>>

NextEvent(d) ==
    IF dispatcher[d].batch = {} THEN Idle
    ELSE [Idle EXCEPT !.at = "handling", !.batch = dispatcher[d].batch]

\* The slip of giving up as if it had been delivered.
GivenUp(row) ==
    [row EXCEPT !.attempts = @ + 1, !.available = FALSE,
                !.status = IF row.attempts + 1 >= MaxAttempts THEN "DELIVERED" ELSE "PENDING"]

\* The slip of one attempt too many.
OneMore(row) ==
    [row EXCEPT !.attempts = @ + 1, !.available = FALSE,
                !.status = IF row.attempts >= MaxAttempts THEN "DEAD_LETTER" ELSE "PENDING"]

\* The row of an event whose handling failed, by whoever's claim.
Retried(row) ==
    [row EXCEPT !.attempts = @ + 1, !.available = FALSE,
                !.status = IF row.attempts + 1 >= MaxAttempts THEN "DEAD_LETTER" ELSE "PENDING"]

\* markDelivered and markRetry touch a row in PROCESSING only.
Mark(d) ==
    /\ dispatcher[d].at = "marking"
    /\ \E e \in dispatcher[d].event :
          outbox' = IF outbox[e].status # "PROCESSING" THEN outbox
                    ELSE IF dispatcher[d].outcome = "failed"
                         THEN [outbox EXCEPT ![e] = Retried(@)]
                         ELSE [outbox EXCEPT ![e].status = "DELIVERED", ![e].available = FALSE]
    /\ Update(d, NextEvent(d))
    /\ UNCHANGED <<toggles, goal, history, replays, faults>>

\* The process dies, or markRetry throws and the rest of the batch is left to
\* its lease.
Interrupted(d) ==
    /\ dispatcher[d].at # "idle"
    /\ Update(d, Idle)
    /\ Fault
    /\ UNCHANGED <<toggles, outbox, goal, history, replays>>

\* replayDeadLetter
Replay(e) ==
    /\ outbox[e].status = "DEAD_LETTER"
    /\ replays < MaxReplays
    /\ replays' = replays + 1
    /\ outbox' = [outbox EXCEPT ![e] = [status |-> "PENDING", attempts |-> 0, available |-> TRUE]]
    /\ UNCHANGED <<toggles, dispatcher, goal, history, faults>>

----------------------------------------------------------------------------
Step(d) == Claim(d) \/ Handle(d) \/ ReadRecords(d) \/ Write(d) \/ Mark(d)

Next ==
    \/ \E k \in Occurrence : Toggle(k)
    \/ RecordByHand
    \/ EditKeyResult
    \/ \E e \in Event : BecomesAvailable(e) \/ LeaseLapses(e) \/ Replay(e)
    \/ \E d \in Dispatcher : Step(d) \/ HandlerFails(d) \/ Interrupted(d)

\* The polling timer ticks, awaited calls return, and time passes.
Fairness ==
    /\ \A d \in Dispatcher : WF_vars(Step(d))
    /\ \A e \in Event : WF_vars(BecomesAvailable(e))

Spec == Init /\ [][Next]_vars /\ Fairness

----------------------------------------------------------------------------
\* The rows, the dispatchers and the goal have the shapes the code gives them.
TypeOK ==
    /\ toggles \in [Occurrence -> 0..MaxToggles]
    /\ outbox \in [Event -> OutboxRow]
    /\ dispatcher \in [Dispatcher -> DispatcherState]
    /\ record \in [Occurrence -> Nat]
    /\ manual \in 0..MaxManual
    /\ progress \in Nat
    /\ version \in Nat
    /\ edits \in 0..MaxEdits
    /\ handled \subseteq Event
    /\ outOfOrder \subseteq Occurrence
    /\ unchecked \in BOOLEAN
    /\ overwritten \in BOOLEAN
    /\ replays \in 0..MaxReplays
    /\ faults \in 0..MaxFaults

\* The key result's progress is the sum of its records whenever it was last
\* recomputed, though several dispatchers and the user write it from what each
\* of them read earlier.  Two writes do not recompute it: the user setting the
\* progress itself (UpdateGoalKeyResultProgressUseCase and the two updates that
\* carry a currentValue), until the next create, correction or removal of a
\* record puts it right; and a revert that removes its record without a look at
\* the goal's version (RemoveTaskGoalContributionUseCase), for good.
ProgressIsSum == unchecked \/ overwritten \/ progress = Cardinality(Recorded) + manual

\* Every event delivered: nothing of the occurrence is on its way.
AllDelivered(k) == \A n \in 1..toggles[k] : outbox[<<k, n>>].status = "DELIVERED"

\* Once every event of an occurrence is delivered the goal counts it exactly
\* when it is completed -- however often an event was retried, redelivered or
\* handled by two dispatchers, as long as none took effect out of turn.  The
\* outbox does not promise turns: nothing orders a retried apply before the
\* revert that follows it.
AgreesInOrder ==
    \A k \in Occurrence :
        AllDelivered(k) /\ k \notin outOfOrder => (k \in Recorded <=> Completed(k))

\* Every event is delivered or ends in the dead letters
\* (createTaskGoalOutboxRuntime, markRetry).
EveryEventSettles ==
    \A e \in Event : []<>(outbox[e].status \in {"absent", "DELIVERED", "DEAD_LETTER"})

----------------------------------------------------------------------------
(* What is left of this for the task, the goal and the user.               *)
DeliveryOf(status) ==
    CASE status = "DELIVERED" -> "delivered" [] status = "DEAD_LETTER" -> "dead" [] OTHER -> "open"

Deliveries == [e \in Event |-> DeliveryOf(outbox[e].status)]

Contract == INSTANCE TaskGoalContract WITH
    sent <- toggles,
    effective <- handled,
    delivery <- Deliveries,
    counted <- Recorded,
    torn <- unchecked

\* The transactions of dispatchers and user, which read at one time and write
\* at another, look as if each took effect at once; and what is delivered took
\* effect and stays delivered, though a claim has no owner
\* (GoalTaskProgressHandler, markDelivered, markRetry).
ImplementsContract == Contract!ContractSpec

=============================================================================
