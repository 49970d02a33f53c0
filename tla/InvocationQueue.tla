--------------------------- MODULE InvocationQueue ---------------------------
(***************************************************************************)
(* The in-memory queues that work off the tables of ScheduledInvocation:   *)
(* per worker a heap of due times, one timer, one execution at a time, and *)
(* the reloads that keep the heap a cache of the database.  Each action is *)
(* the code between two awaits; an action that awaits a repository call    *)
(* includes that call's transaction.                                       *)
(*                                                                         *)
(* Heap entries carry only whether their due time has come.  An entry may  *)
(* be stale (its row moved on) or fire early (a timer delay beyond 2^31 ms *)
(* fires at once), so it comes due whenever it likes.                      *)
(***************************************************************************)
EXTENDS ScheduledInvocation

CONSTANT MaxFaults   \* bound: crashes, stops, failed calls and profile switches

ASSUME FaultAssumption == MaxFaults \in Nat

VARIABLES
    queue,      \* ScheduledInvocationQueue and its runtime, per worker
    admitted,   \* shouldExecuteIdentity: the owner's profile is the active one
    faults      \* faults so far

queueVars == <<queue, admitted, faults>>
allVars == <<vars, queueVars>>

HeapItem == [key: Key, due: BOOLEAN]
QueueState ==
    [mode: {"down", "starting", "up", "stopping", "draining"},  \* the runtime
     running: BOOLEAN,        \* queue.running
     heap: SUBSET HeapItem,
     timer: BOOLEAN,          \* currentTimer is pending
     step: {"idle", "asking", "claiming", "handling"},  \* executeNext; executing unless idle
     item: SUBSET Key,        \* the entry executeNext extracted
     reload: {"none", "recovering", "finding", "adding"},
     found: SUBSET HeapItem,  \* what findRunnable returned
     skipped: BOOLEAN]        \* history: start() did nothing, and no schedule() since

FreshQueue == [mode |-> "down", running |-> FALSE, heap |-> {}, timer |-> FALSE,
               step |-> "idle", item |-> {}, reload |-> "none", found |-> {}, skipped |-> FALSE]

QueueInit ==
    /\ Init
    /\ queue = [w \in Worker |-> FreshQueue]
    /\ admitted = TRUE
    /\ faults = 0

Update(w, q) == queue' = [queue EXCEPT ![w] = q]

Fault == faults < MaxFaults /\ faults' = faults + 1

----------------------------------------------------------------------------
(* Heap and timer. *)

\* The slip of inserting without removing the invocation's old entry.
InsertOnly(heap, items) == heap \cup items

Insert(heap, items) ==
    {i \in heap : \A j \in items : j.key # i.key} \cup items

\* schedule(): point the one timer at the top of the heap.
Scheduled(q) ==
    IF q.running THEN [q EXCEPT !.timer = (q.heap # {}), !.skipped = FALSE] ELSE q

\* The slip of scheduling although an execution is under way.
AddAndSchedule(q, items) == Scheduled([q EXCEPT !.heap = Insert(@, items)])

\* add() of each item, in one go.
Add(q, items) ==
    LET r == [q EXCEPT !.heap = Insert(@, items)]
    IN IF items # {} /\ q.step = "idle" THEN Scheduled(r) ELSE r

\* The slip of leaving the extracted entry behind.
FinishedWithEntry(q) == Scheduled([q EXCEPT !.step = "idle"])

\* The slip of leaving schedule() out of executeNext's finally block.
FinishedUnscheduled(q) == [q EXCEPT !.step = "idle", !.item = {}]

\* executeNext's finally block.
Finished(q) == Scheduled([q EXCEPT !.step = "idle", !.item = {}])

\* Time passes for an entry.
EntryComesDue(w, k) ==
    LET early == [key |-> k, due |-> FALSE]
    IN /\ early \in queue[w].heap
       /\ Update(w, [queue[w] EXCEPT !.heap = Insert(@, {[early EXCEPT !.due = TRUE]})])
       /\ UNCHANGED <<vars, admitted, faults>>

----------------------------------------------------------------------------
(* executeNext. *)

\* The timer fires once the entry it points at is due.
TimerFires(w, k) ==
    LET q == queue[w]
        top == [key |-> k, due |-> TRUE]
    IN /\ q.timer /\ q.running /\ top \in q.heap
       /\ Update(w, [q EXCEPT !.timer = FALSE, !.heap = @ \ {top},
                              !.step = "asking", !.item = {k}])
       /\ UNCHANGED <<vars, admitted, faults>>

\* It fires into a queue that is draining.
TimerFiresLate(w) ==
    /\ queue[w].timer /\ ~queue[w].running
    /\ Update(w, [queue[w] EXCEPT !.timer = FALSE])
    /\ UNCHANGED <<vars, admitted, faults>>

\* shouldExecuteIdentity; an entry that is refused is dropped from the heap.
Ask(w) ==
    LET q == queue[w]
    IN /\ q.step = "asking"
       /\ Update(w, IF admitted THEN [q EXCEPT !.step = "claiming"] ELSE Finished(q))
       /\ UNCHANGED <<vars, admitted, faults>>

\* claimAndStart returns a claim, or null for a row that is not due.
Claim(w, k) ==
    LET q == queue[w]
    IN /\ q.step = "claiming" /\ k \in q.item
       /\ IF Claimable(k)
          THEN ClaimAndStart(w, k) /\ Update(w, [q EXCEPT !.step = "handling", !.item = {}])
          ELSE UNCHANGED vars /\ Update(w, Finished(q))
       /\ UNCHANGED <<admitted, faults>>

\* On the server the attempt of that number may already exist: claimAndStart
\* throws and rolls back, however often it is tried.
ClaimCollides(w, k) ==
    /\ queue[w].step = "claiming" /\ k \in queue[w].item
    /\ Claimable(k) /\ ~AttemptNumberFree(k)
    /\ Update(w, Finished(queue[w]))
    /\ UNCHANGED <<vars, admitted, faults>>

\* claimAndStart, or the identity check, throws: the rejection is only logged.
ClaimFails(w) ==
    /\ queue[w].step \in {"asking", "claiming"}
    /\ Update(w, Finished(queue[w]))
    /\ Fault
    /\ UNCHANGED <<vars, admitted>>

\* The handler returns and completeAttempt runs.  Whether the report was
\* accepted is ignored: what looked retryable goes back into the heap.
Report(w, e, result) ==
    LET again == IF ReportedStatus(e, result) = "retry_wait"
                 THEN {[key |-> e.key, due |-> FALSE]} ELSE {}
    IN /\ queue[w].step = "handling" /\ e.worker = w
       /\ CompleteAttempt(e, result)
       /\ Update(w, Finished(Add(queue[w], again)))
       /\ UNCHANGED <<admitted, faults>>

\* completeAttempt throws; again the rejection is only logged.
ReportFails(w, e) ==
    /\ queue[w].step = "handling" /\ e.worker = w
    /\ AbandonExecution(e)
    /\ Update(w, Finished(queue[w]))
    /\ Fault
    /\ UNCHANGED admitted

----------------------------------------------------------------------------
(* reload: recoverExpiredClaims, findRunnable, add. *)

\* The next statement of the call.  The desktop needs one; the server selects
\* and updates twice, and the call returns after the last update.
Recover(w) ==
    /\ queue[w].reload = "recovering"
    /\ \/ /\ \/ ExpiredKeys = {} /\ recovering[w].step = "none" /\ UNCHANGED vars
             \/ \E S \in Selection : RecoverExpiredClaims(S)
             \/ RearmSelected(w)
          /\ Update(w, [queue[w] EXCEPT !.reload = "finding"])
       \/ /\ \/ \E S \in Selection : SelectExpired(w, S)
             \/ DeadLetterSelected(w)
          /\ UNCHANGED queue
    /\ UNCHANGED <<admitted, faults>>

\* The slip of looking for pending rows only, not for waiting retries.
FoundPending == {[key |-> k, due |-> Due(row[k], ripe)] :
                    k \in {j \in Key : row[j].status = "pending"}}

Found == {[key |-> k, due |-> Due(row[k], ripe)] :
             k \in {j \in Key : row[j].status \in Runnable}}

Find(w) ==
    /\ queue[w].reload = "finding"
    /\ Update(w, [queue[w] EXCEPT !.reload = "adding", !.found = Found])
    /\ UNCHANGED <<vars, admitted, faults>>

\* The loop of add(), and the schedule() that ends start().
AddFound(w) ==
    LET q == [Add(queue[w], queue[w].found) EXCEPT !.reload = "none", !.found = {}]
    IN /\ queue[w].reload = "adding"
       /\ Update(w, IF q.mode = "starting" THEN Scheduled([q EXCEPT !.mode = "up"]) ELSE q)
       /\ UNCHANGED <<vars, admitted, faults>>

\* A repository call throws: a rescan is logged; a start fails and is retried,
\* but the queue already counts itself as running.
ReloadFails(w) ==
    /\ queue[w].reload \in {"recovering", "finding"}
    /\ IF recovering[w].step = "none" THEN UNCHANGED vars ELSE AbandonRecovery(w)
    /\ Update(w, [queue[w] EXCEPT !.reload = "none",
                     !.mode = IF @ = "starting" THEN "down" ELSE @])
    /\ Fault
    /\ UNCHANGED admitted

----------------------------------------------------------------------------
(* The runtime. *)

\* queue.start() does nothing in a queue that still counts itself as running.
Start(w) ==
    /\ queue[w].mode = "down"
    /\ Update(w, IF queue[w].running
                 THEN [queue[w] EXCEPT !.mode = "up", !.skipped = TRUE]
                 ELSE [queue[w] EXCEPT !.mode = "starting", !.running = TRUE,
                                       !.reload = "recovering"])
    /\ UNCHANGED <<vars, admitted, faults>>

\* The rescan interval; one rescan at a time.
Rescan(w) ==
    /\ queue[w].mode = "up" /\ queue[w].reload = "none"
    /\ Update(w, [queue[w] EXCEPT !.reload = "recovering"])
    /\ UNCHANGED <<vars, admitted, faults>>

Stop(w) ==
    /\ queue[w].mode = "up"
    /\ Update(w, [queue[w] EXCEPT !.mode = "stopping"])
    /\ Fault
    /\ UNCHANGED <<vars, admitted>>

\* drain() begins once the rescan in flight has ended.
Drain(w) ==
    /\ queue[w].mode = "stopping" /\ queue[w].reload = "none"
    /\ Update(w, [queue[w] EXCEPT !.mode = "draining", !.running = FALSE])
    /\ UNCHANGED <<vars, admitted, faults>>

\* The slip of stopping without waiting for the handler.
DrainedAtOnce(q) == q.mode = "draining"

Drained(q) == q.mode = "draining" /\ q.step = "idle"

Stopped(w) ==
    /\ Drained(queue[w])
    /\ Update(w, [queue[w] EXCEPT !.mode = "down", !.timer = FALSE])
    /\ UNCHANGED <<vars, admitted, faults>>

Crash(w) ==
    /\ queue[w].mode # "down"
    /\ ProcessDies(w)
    /\ Update(w, FreshQueue)
    /\ Fault
    /\ UNCHANGED admitted

LeaveProfile ==
    /\ admitted
    /\ admitted' = FALSE
    /\ Fault
    /\ UNCHANGED <<vars, queue>>

ReturnToProfile ==
    /\ ~admitted
    /\ admitted' = TRUE
    /\ UNCHANGED <<vars, queue, faults>>

----------------------------------------------------------------------------
\* Time and the owner's reconciles, as in ScheduledInvocation.
Elsewhere ==
    /\ \/ \E i \in Intent : RunAtReached(i)
       \/ \E k \in Key : RetryDelayElapses(k)
       \/ \E k \in Key : ClaimExpires(k)
       \/ \E d \in DesiredSet : Reconcile(d)
       \/ \E p \in Planner, d \in DesiredSet : PlanReconcile(p, d)
       \/ \E plan \in plans : CommitReconcile(plan)
       \/ \E plan \in plans : RollBackReconcile(plan)
    /\ UNCHANGED queueVars

QueueNext ==
    \/ Elsewhere
    \/ \E w \in Worker, k \in Key : EntryComesDue(w, k)
    \/ \E w \in Worker, k \in Key : TimerFires(w, k)
    \/ \E w \in Worker : TimerFiresLate(w)
    \/ \E w \in Worker : Ask(w)
    \/ \E w \in Worker, k \in Key : Claim(w, k)
    \/ \E w \in Worker, k \in Key : ClaimCollides(w, k)
    \/ \E w \in Worker : ClaimFails(w)
    \/ \E w \in Worker, e \in executing, result \in HandlerResult : Report(w, e, result)
    \/ \E w \in Worker, e \in executing : ReportFails(w, e)
    \/ \E w \in Worker : Recover(w)
    \/ \E w \in Worker : Find(w)
    \/ \E w \in Worker : AddFound(w)
    \/ \E w \in Worker : ReloadFails(w)
    \/ \E w \in Worker : Start(w)
    \/ \E w \in Worker : Rescan(w)
    \/ \E w \in Worker : Stop(w)
    \/ \E w \in Worker : Drain(w)
    \/ \E w \in Worker : Stopped(w)
    \/ \E w \in Worker : Crash(w)
    \/ LeaveProfile
    \/ ReturnToProfile

\* Time passes, timers and intervals fire, calls return, handlers return, a
\* host that went down is started again, and the user comes back.
Fairness ==
    /\ WF_allVars(\E i \in Intent : RunAtReached(i) /\ UNCHANGED queueVars)
    /\ \A k \in Key :
          /\ WF_allVars(RetryDelayElapses(k) /\ UNCHANGED queueVars)
          /\ WF_allVars(ClaimExpires(k) /\ UNCHANGED queueVars)
    /\ \A w \in Worker :
          /\ \A k \in Key : /\ WF_allVars(EntryComesDue(w, k))
                            /\ SF_allVars(TimerFires(w, k))
                            /\ WF_allVars(Claim(w, k))
          /\ WF_allVars(Ask(w))
          /\ WF_allVars(\E e \in executing, result \in HandlerResult : Report(w, e, result))
          /\ WF_allVars(Recover(w))
          /\ WF_allVars(Find(w))
          /\ WF_allVars(AddFound(w))
          /\ WF_allVars(Start(w))
          /\ WF_allVars(Rescan(w))
          /\ WF_allVars(Drain(w))
          /\ WF_allVars(Stopped(w))
    /\ WF_allVars(ReturnToProfile)

QueueSpec == QueueInit /\ [][QueueNext]_allVars /\ Fairness

----------------------------------------------------------------------------
(* Properties. *)

\* Type correctness of the queues: an entry is in hand exactly between its
\* extraction and its claim.
QueueTypeOK ==
    /\ queue \in [Worker -> QueueState]
    /\ \A w \in Worker :
          Cardinality(queue[w].item)
              = IF queue[w].step \in {"asking", "claiming"} THEN 1 ELSE 0
    /\ admitted \in BOOLEAN
    /\ faults \in 0..MaxFaults

\* Executions never overlap within a queue, although executeNext itself does
\* not look at `executing`: a worker has a handler running exactly when its
\* queue is in executeClaim (add, schedule, executeNext).
OneHandlerPerQueue ==
    \A w \in Worker :
        Cardinality({e \in executing : e.worker = w})
            = IF queue[w].step = "handling" THEN 1 ELSE 0

\* No lost wake-up: an idle queue that is up has its timer set whenever its
\* heap has anything in it (schedule in add, start and finally).  The one
\* exception is a start that took the queue for running and did nothing: what
\* an earlier life left in the heap then waits for the next rescan.
NoLostWakeUp ==
    \A w \in Worker :
        LET q == queue[w]
        IN q.mode = "up" /\ q.step = "idle" /\ q.heap # {} => q.timer \/ q.skipped

\* An invocation has one place in a heap, however reloads, retries and stale
\* reports interleave (MinHeap.remove before insert).
OneEntryPerKey ==
    \A w \in Worker : \A i, j \in queue[w].heap : i.key = j.key => i = j

\* A host that stopped left nothing behind: no timer that could still fire and
\* no handler that could still report (drain, stop).
StoppedIsQuiet ==
    \A w \in Worker :
        queue[w].mode = "down" =>
            /\ ~queue[w].timer
            /\ queue[w].step = "idle"
            /\ \A e \in executing : e.worker # w

\* Work is never forgotten: whatever crashes, stops, failed calls, dropped heap
\* entries and profile switches, an invocation that is armed or running is in
\* the end settled or withdrawn (reload, rescan; ADR-082 12).
WorkSettles ==
    \A k \in Key :
        (row[k].status \in Runnable \cup {"running"})
            ~> (row[k].status \in OutcomeTerminal \cup {"superseded"})
==============================================================================
