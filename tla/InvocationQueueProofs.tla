------------------------ MODULE InvocationQueueProofs ------------------------
(***************************************************************************)
(* The safety of the in-memory queues over the tables they work off, for   *)
(* any number of workers, keys and faults, and for either store.  The      *)
(* invariant says which of a queue's fields may be set in which mode of    *)
(* its runtime, and ties its step to the executions the tables know of.    *)
(***************************************************************************)
EXTENDS InvocationQueue, ContractRefinementProofs, FiniteSetTheorems

\* No two entries of one invocation.
Keyed(items) == \A i, j \in items : i.key = j.key => i = j

QueueOK(q) ==
    /\ q.step \in {"asking", "claiming"} => \E k \in Key : q.item = {k}
    /\ q.step \notin {"asking", "claiming"} => q.item = {}
    /\ q.mode = "down" => q.step = "idle" /\ ~q.timer /\ q.reload = "none"
    /\ q.mode = "starting" => q.running /\ q.step = "idle" /\ ~q.timer /\ q.reload # "none"
    /\ q.mode \in {"up", "stopping"} => q.running
    /\ q.mode = "draining" => ~q.running /\ q.reload = "none"
    /\ q.timer => q.step = "idle"
    /\ Keyed(q.heap) /\ Keyed(q.found)
    /\ q.mode = "up" /\ q.step = "idle" /\ q.heap # {} => q.timer \/ q.skipped

\* A worker that handles has one execution under way, any other none.
Handling(step, w, executions) ==
    IF step = "handling"
    THEN \E e \in executions : \A f \in executions : f.worker = w <=> f = e
    ELSE \A f \in executions : f.worker # w

QInv ==
    /\ TypeOK
    /\ queue \in [Worker -> QueueState]
    /\ admitted \in BOOLEAN
    /\ faults \in 0..MaxFaults
    /\ \A w \in Worker : QueueOK(queue[w])
    /\ \A w \in Worker : Handling(queue[w].step, w, executing)

----------------------------------------------------------------------------
(* Heap and timer. *)

\* Inserting keeps one entry per invocation.
LEMMA InsertKeeps ==
    ASSUME NEW heap \in SUBSET HeapItem, NEW items \in SUBSET HeapItem, Keyed(heap), Keyed(items)
    PROVE  /\ Insert(heap, items) \in SUBSET HeapItem /\ Keyed(Insert(heap, items))
           /\ items = {} => Insert(heap, items) = heap
           /\ items # {} => Insert(heap, items) # {}
BY DEF Insert, Keyed

\* schedule() sets the timer of a running queue, and nothing else.
LEMMA ScheduledFields ==
    ASSUME NEW q \in QueueState
    PROVE  /\ Scheduled(q) \in QueueState
           /\ Scheduled(q).mode = q.mode /\ Scheduled(q).running = q.running
           /\ Scheduled(q).heap = q.heap /\ Scheduled(q).step = q.step /\ Scheduled(q).item = q.item
           /\ Scheduled(q).reload = q.reload /\ Scheduled(q).found = q.found
           /\ ~q.running => Scheduled(q) = q
           /\ q.running => (Scheduled(q).timer <=> q.heap # {})
<1>1. CASE ~q.running
  BY <1>1 DEF Scheduled
<1>2. CASE q.running /\ q.heap = {}
  <2>1. Scheduled(q) = [q EXCEPT !.timer = FALSE, !.skipped = FALSE]
    BY <1>2 DEF Scheduled
  <2>2. QED
    BY <1>2, <2>1 DEF QueueState
<1>3. CASE q.running /\ q.heap # {}
  <2>1. Scheduled(q) = [q EXCEPT !.timer = TRUE, !.skipped = FALSE]
    BY <1>3 DEF Scheduled
  <2>2. QED
    BY <1>3, <2>1 DEF QueueState
<1>4. QED
  BY <1>1, <1>2, <1>3 DEF QueueState

LEMMA AddFields ==
    ASSUME NEW q \in QueueState, NEW items \in SUBSET HeapItem, Keyed(q.heap), Keyed(items)
    PROVE  /\ Add(q, items) \in QueueState
           /\ Add(q, items).mode = q.mode /\ Add(q, items).running = q.running
           /\ Add(q, items).step = q.step /\ Add(q, items).item = q.item
           /\ Add(q, items).reload = q.reload /\ Add(q, items).found = q.found
           /\ Keyed(Add(q, items).heap)
           /\ \/ Add(q, items) = q
              \/ q.step # "idle" \/ ~q.running \/ Add(q, items).timer
           /\ ~q.running => Add(q, items).timer = q.timer
           /\ Add(q, items).timer => q.timer \/ q.step = "idle"
<1> DEFINE r == [q EXCEPT !.heap = Insert(@, items)]
<1>1. /\ Insert(q.heap, items) \in SUBSET HeapItem /\ Keyed(Insert(q.heap, items))
      /\ items = {} => Insert(q.heap, items) = q.heap
      /\ items # {} => Insert(q.heap, items) # {}
  BY InsertKeeps DEF QueueState
<1>2. /\ r \in QueueState /\ r.heap = Insert(q.heap, items)
      /\ r.mode = q.mode /\ r.running = q.running /\ r.step = q.step /\ r.item = q.item
      /\ r.reload = q.reload /\ r.found = q.found /\ r.timer = q.timer
  BY <1>1 DEF QueueState
<1>3. items = {} => r = q
  BY <1>1 DEF QueueState
<1>4. Add(q, items) = IF items # {} /\ q.step = "idle" THEN Scheduled(r) ELSE r
  BY DEF Add
<1> HIDE DEF r
<1>5. CASE items # {} /\ q.step = "idle"
  BY <1>1, <1>2, <1>4, <1>5, ScheduledFields
<1>6. CASE ~(items # {} /\ q.step = "idle")
  BY <1>1, <1>2, <1>3, <1>4, <1>6
<1>7. QED
  BY <1>5, <1>6

\* executeNext's finally block leaves a queue in order.
LEMMA FinishedKeeps ==
    ASSUME NEW q \in QueueState,
           q.mode \in {"up", "stopping"} => q.running,
           q.mode = "draining" => ~q.running /\ q.reload = "none",
           q.mode \notin {"down", "starting"}, Keyed(q.heap), Keyed(q.found)
    PROVE  Finished(q) \in QueueState /\ QueueOK(Finished(q)) /\ Finished(q).step = "idle"
<1> DEFINE r == [q EXCEPT !.step = "idle", !.item = {}]
<1>1. /\ r \in QueueState /\ r.step = "idle" /\ r.item = {} /\ r.heap = q.heap /\ r.found = q.found
      /\ r.mode = q.mode /\ r.running = q.running /\ r.reload = q.reload
  BY DEF QueueState
<1>2. Finished(q) = Scheduled(r)
  BY DEF Finished
<1> HIDE DEF r
<1>3. QED
  BY <1>1, <1>2, ScheduledFields DEF QueueOK

----------------------------------------------------------------------------
(* What a step has to show. *)

\* The steps of the tables.
LEMMA TablesStep == QInv /\ [QueueNext]_allVars => TypeOK' /\ [Next]_vars
<1> SUFFICES ASSUME QInv, [QueueNext]_allVars PROVE TypeOK' /\ [Next]_vars
  OBVIOUS
<1>1. [Next]_vars
  <2>1. CASE Elsewhere
    BY <2>1 DEF Elsewhere, Next
  <2>2. ASSUME NEW w \in Worker, NEW k \in Key, Claim(w, k) PROVE [Next]_vars
    BY <2>2 DEF Claim, Next
  <2>3. ASSUME NEW w \in Worker, NEW e \in executing, NEW result \in HandlerResult, Report(w, e, result)
        PROVE [Next]_vars
    BY <2>3 DEF Report, Next
  <2>4. ASSUME NEW w \in Worker, NEW e \in executing, ReportFails(w, e) PROVE [Next]_vars
    BY <2>4 DEF ReportFails, Next
  <2>5. ASSUME NEW w \in Worker, Recover(w) PROVE [Next]_vars
    BY <2>5 DEF Recover, Recovery, Next
  <2>6. ASSUME NEW w \in Worker, Crash(w) PROVE [Next]_vars
    BY <2>6 DEF Crash, Next
  <2>7. ASSUME NEW w \in Worker, ReloadFails(w) PROVE [Next]_vars
    BY <2>7 DEF ReloadFails, Recovery, Next
  <2>8. ASSUME \/ \E w \in Worker, k \in Key : EntryComesDue(w, k) \/ TimerFires(w, k) \/ ClaimCollides(w, k)
               \/ \E w \in Worker : \/ TimerFiresLate(w) \/ Ask(w) \/ ClaimFails(w) \/ Find(w)
                                    \/ AddFound(w) \/ Start(w) \/ Rescan(w)
                                    \/ Stop(w) \/ Drain(w) \/ Stopped(w)
               \/ LeaveProfile \/ ReturnToProfile \/ UNCHANGED allVars
        PROVE UNCHANGED vars
    BY <2>8 DEF EntryComesDue, TimerFires, ClaimCollides, TimerFiresLate, Ask, ClaimFails, Find, AddFound,
                Start, Rescan, Stop, Drain, Stopped, LeaveProfile, ReturnToProfile, allVars
  <2>9. QED
    BY <2>1, <2>2, <2>3, <2>4, <2>5, <2>6, <2>7, <2>8 DEF QueueNext
<1>2. TypeOK'
  BY <1>1, NextType DEF QInv
<1>3. QED
  BY <1>1, <1>2

\* A queue goes to state q, its worker's executions with it.
LEMMA QueueMoves ==
    ASSUME QInv, TypeOK', NEW w \in Worker, NEW q \in QueueState, Update(w, q), QueueOK(q),
           admitted' \in BOOLEAN, faults' \in 0..MaxFaults,
           \A e : e.worker # w => (e \in executing' <=> e \in executing),
           Handling(q.step, w, executing')
    PROVE  QInv'
<1>1. /\ queue' \in [Worker -> QueueState]
      /\ \A v \in Worker : queue'[v] = IF v = w THEN q ELSE queue[v]
  BY DEF QInv, Update
<1>2. ASSUME NEW v \in Worker PROVE QueueOK(queue'[v]) /\ Handling(queue'[v].step, v, executing')
  <2>1. CASE v = w
    BY <1>1, <2>1
  <2>2. CASE v # w
    <3>1. QueueOK(queue[v]) /\ Handling(queue[v].step, v, executing) /\ queue'[v] = queue[v]
      BY <1>1, <2>2 DEF QInv
    <3>2. \A e : e.worker = v => (e \in executing' <=> e \in executing)
      BY <2>2
    <3>3. QED
      BY <3>1, <3>2 DEF Handling
  <2>3. QED
    BY <2>1, <2>2
<1>3. \A v \in Worker : QueueOK(queue[v])'
  BY <1>2 DEF QueueOK, Keyed
<1>4. \A v \in Worker : Handling(queue[v].step, v, executing)'
  BY <1>2 DEF Handling
<1>5. QED
  BY <1>1, <1>3, <1>4 DEF QInv

\* A step inside the queue, no execution begun or ended.
LEMMA QueueSteps ==
    ASSUME QInv, TypeOK', UNCHANGED executing, NEW w \in Worker, NEW q \in QueueState, Update(w, q),
           QueueOK(q), admitted' \in BOOLEAN, faults' \in 0..MaxFaults,
           q.step = "handling" <=> queue[w].step = "handling"
    PROVE  QInv'
<1>1. Handling(q.step, w, executing')
  BY DEF QInv, Handling
<1>2. QED
  BY <1>1, QueueMoves

LEMMA QueueHas ==
    ASSUME QInv, NEW w \in Worker
    PROVE  queue[w] \in QueueState /\ QueueOK(queue[w]) /\ Handling(queue[w].step, w, executing)
BY DEF QInv

LEMMA FaultKeeps == QInv /\ Fault => faults' \in 0..MaxFaults
BY FaultAssumption DEF QInv, Fault

----------------------------------------------------------------------------
(* executeNext. *)

\* A step that changes only the queue of w and, it may be, the fault count.
QueueOnly == UNCHANGED <<vars, admitted>> /\ (Fault \/ UNCHANGED faults)

LEMMA QueueOnlyKeeps ==
    ASSUME QInv, QueueOnly
    PROVE  TypeOK' /\ UNCHANGED executing /\ admitted' \in BOOLEAN /\ faults' \in 0..MaxFaults
<1>1. TypeOK'
  BY NextType DEF QInv, QueueOnly
<1>2. QED
  BY <1>1, FaultKeeps DEF QueueOnly, QInv, vars

LEMMA TimerKeeps ==
    ASSUME QInv, NEW w \in Worker,
           TimerFiresLate(w) \/ \E k \in Key : EntryComesDue(w, k) \/ TimerFires(w, k)
    PROVE  QInv'
<1>0. QueueOnly /\ queue[w] \in QueueState /\ QueueOK(queue[w])
  BY QueueHas DEF QueueOnly, TimerFiresLate, EntryComesDue, TimerFires
<1>1. ASSUME NEW k \in Key, EntryComesDue(w, k) PROVE QInv'
  <2> DEFINE early == [key |-> k, due |-> FALSE]
             late == [early EXCEPT !.due = TRUE]
             q == [queue[w] EXCEPT !.heap = Insert(@, {late})]
  <2>1. early \in queue[w].heap /\ Update(w, q)
    BY <1>1 DEF EntryComesDue
  <2>2. late \in HeapItem /\ {late} \in SUBSET HeapItem /\ Keyed({late})
    BY DEF HeapItem, Keyed
  <2>3. Insert(queue[w].heap, {late}) \in SUBSET HeapItem /\ Keyed(Insert(queue[w].heap, {late}))
    BY <1>0, <2>2, InsertKeeps DEF QueueState, QueueOK
  <2>4. /\ q \in QueueState /\ q.heap = Insert(queue[w].heap, {late})
        /\ q.mode = queue[w].mode /\ q.running = queue[w].running /\ q.step = queue[w].step
        /\ q.item = queue[w].item /\ q.reload = queue[w].reload /\ q.found = queue[w].found
        /\ q.timer = queue[w].timer /\ q.skipped = queue[w].skipped
    BY <1>0, <2>3 DEF QueueState
  <2> HIDE DEF q
  <2>5. QueueOK(q)
    BY <1>0, <2>1, <2>3, <2>4 DEF QueueOK
  <2>6. QED
    BY <1>0, <2>1, <2>4, <2>5, QueueOnlyKeeps, QueueSteps
<1>2. ASSUME NEW k \in Key, TimerFires(w, k) PROVE QInv'
  <2> DEFINE top == [key |-> k, due |-> TRUE]
             q == [queue[w] EXCEPT !.timer = FALSE, !.heap = @ \ {top}, !.step = "asking", !.item = {k}]
  <2>1. queue[w].timer /\ queue[w].running /\ Update(w, q) /\ UNCHANGED faults
    BY <1>2 DEF TimerFires
  <2>2. queue[w].step # "handling"
    BY <1>0, <2>1 DEF QueueOK
  <2>3. /\ q \in QueueState /\ q.heap = queue[w].heap \ {top} /\ q.mode = queue[w].mode
        /\ q.running = queue[w].running /\ q.step = "asking" /\ q.item = {k}
        /\ q.reload = queue[w].reload /\ q.found = queue[w].found /\ ~q.timer
    BY <1>0 DEF QueueState
  <2> HIDE DEF q
  <2>4. QueueOK(q)
    BY <1>0, <2>1, <2>3 DEF QueueOK, Keyed
  <2>5. QED
    BY <1>0, <2>1, <2>2, <2>3, <2>4, QueueOnlyKeeps, QueueSteps
<1>3. ASSUME TimerFiresLate(w) PROVE QInv'
  <2> DEFINE q == [queue[w] EXCEPT !.timer = FALSE]
  <2>1. ~queue[w].running /\ Update(w, q)
    BY <1>3 DEF TimerFiresLate
  <2>2. /\ q \in QueueState /\ q.heap = queue[w].heap /\ q.mode = queue[w].mode
        /\ q.running = queue[w].running /\ q.step = queue[w].step /\ q.item = queue[w].item
        /\ q.reload = queue[w].reload /\ q.found = queue[w].found /\ ~q.timer
    BY <1>0 DEF QueueState
  <2> HIDE DEF q
  <2>3. QueueOK(q)
    BY <1>0, <2>1, <2>2 DEF QueueOK
  <2>4. QED
    BY <1>0, <2>1, <2>2, <2>3, QueueOnlyKeeps, QueueSteps
<1>4. QED
  BY <1>1, <1>2, <1>3

\* Finishing an execution that never began.
LEMMA GiveUpKeeps ==
    ASSUME QInv, NEW w \in Worker, queue[w].step \in {"asking", "claiming"}, QueueOnly,
           Update(w, Finished(queue[w]))
    PROVE  QInv'
<1>1. Finished(queue[w]) \in QueueState /\ QueueOK(Finished(queue[w])) /\ Finished(queue[w]).step = "idle"
  BY QueueHas, FinishedKeeps DEF QueueOK, QueueState
<1>2. QED
  BY <1>1, QueueOnlyKeeps, QueueSteps

LEMMA AskKeeps ==
    ASSUME QInv, NEW w \in Worker, Ask(w) \/ ClaimFails(w) \/ \E k \in Key : ClaimCollides(w, k)
    PROVE  QInv'
<1>0. QueueOnly /\ queue[w].step \in {"asking", "claiming"}
  BY DEF QueueOnly, Ask, ClaimFails, ClaimCollides
<1>1. CASE Update(w, Finished(queue[w]))
  BY <1>0, <1>1, GiveUpKeeps
<1>2. CASE Ask(w) /\ Update(w, [queue[w] EXCEPT !.step = "claiming"])
  <2> DEFINE q == [queue[w] EXCEPT !.step = "claiming"]
  <2>1. queue[w] \in QueueState /\ QueueOK(queue[w]) /\ queue[w].step = "asking"
    BY <1>2, QueueHas DEF Ask
  <2>2. /\ q \in QueueState /\ q.step = "claiming" /\ q.item = queue[w].item /\ q.mode = queue[w].mode
        /\ q.running = queue[w].running /\ q.reload = queue[w].reload
        /\ q.heap = queue[w].heap /\ q.found = queue[w].found /\ q.timer = queue[w].timer
    BY <2>1 DEF QueueState
  <2>3. Update(w, q)
    BY <1>2
  <2> HIDE DEF q
  <2>4. QueueOK(q)
    BY <2>1, <2>2 DEF QueueOK
  <2>5. QED
    BY <1>0, <2>1, <2>2, <2>3, <2>4, QueueOnlyKeeps, QueueSteps
<1>3. QED
  BY <1>1, <1>2 DEF Ask, ClaimFails, ClaimCollides

LEMMA ClaimKeeps ==
    ASSUME QInv, NEW w \in Worker, NEW k \in Key, Claim(w, k)
    PROVE  QInv'
<1>1. queue[w] \in QueueState /\ QueueOK(queue[w]) /\ queue[w].step = "claiming"
  BY QueueHas DEF Claim
<1>2. CASE ~Claimable(k)
  <2>1. QueueOnly /\ Update(w, Finished(queue[w]))
    BY <1>2 DEF Claim, QueueOnly
  <2>2. QED
    BY <1>1, <2>1, GiveUpKeeps
<1>3. CASE Claimable(k)
  <2> DEFINE q == [queue[w] EXCEPT !.step = "handling", !.item = {}]
  <2>1. ClaimAndStart(w, k) /\ Update(w, q) /\ UNCHANGED <<admitted, faults>>
    BY <1>3 DEF Claim
  <2>2. /\ q \in QueueState /\ q.step = "handling" /\ q.item = {} /\ q.mode = queue[w].mode
        /\ q.running = queue[w].running /\ q.reload = queue[w].reload
        /\ q.heap = queue[w].heap /\ q.found = queue[w].found /\ q.timer = queue[w].timer
    BY <1>1 DEF QueueState
  <2> HIDE DEF q
  <2>3. QueueOK(q)
    BY <1>1, <2>2 DEF QueueOK
  <2>4. PICK e : e.worker = w /\ executing' = executing \cup {e}
    BY <2>1 DEF ClaimAndStart, StartAttempt
  <2>5. \A f \in executing : f.worker # w
    BY <1>1, QueueHas DEF Handling
  <2>6. Handling(q.step, w, executing')
    BY <2>2, <2>4, <2>5 DEF Handling
  <2>7. TypeOK'
    BY <2>1, ClaimType DEF QInv
  <2>8. QED
    BY <2>1, <2>2, <2>3, <2>4, <2>6, <2>7, QueueMoves DEF QInv
<1>4. QED
  BY <1>2, <1>3

\* The queue's one execution ends.
LEMMA ExecutionEnds ==
    ASSUME QInv, NEW w \in Worker, NEW e \in executing, e.worker = w, queue[w].step = "handling",
           executing' = executing \ {e}
    PROVE  (\A f \in executing' : f.worker # w) /\ \A f : f.worker # w => (f \in executing' <=> f \in executing)
BY QueueHas DEF Handling

LEMMA ReportKeeps ==
    ASSUME QInv, NEW w \in Worker, NEW e \in executing, NEW result \in HandlerResult, Report(w, e, result)
    PROVE  QInv'
<1> DEFINE again == IF ReportedStatus(e, result) = "retry_wait"
                    THEN {[key |-> e.key, due |-> FALSE]} ELSE {}
           q == Add(queue[w], again)
<1>1. /\ queue[w] \in QueueState /\ QueueOK(queue[w]) /\ queue[w].step = "handling" /\ e.worker = w
      /\ CompleteAttempt(e, result) /\ Update(w, Finished(q)) /\ UNCHANGED <<admitted, faults>>
  BY QueueHas DEF Report
<1>2. again \in SUBSET HeapItem /\ Keyed(again)
  <2>1. e.key \in Key
    BY DEF QInv, TypeOK, Execution
  <2>2. {[key |-> e.key, due |-> FALSE]} \subseteq HeapItem
    BY <2>1 DEF HeapItem
  <2>3. again = {[key |-> e.key, due |-> FALSE]} \/ again = {}
    OBVIOUS
  <2> HIDE DEF again
  <2>4. QED
    BY <2>2, <2>3 DEF Keyed
<1> HIDE DEF again
<1>3. /\ q \in QueueState /\ q.mode = queue[w].mode /\ q.running = queue[w].running
      /\ q.reload = queue[w].reload /\ q.found = queue[w].found /\ Keyed(q.heap)
  BY <1>1, <1>2, AddFields DEF QueueOK
<1> HIDE DEF q
<1>4. Finished(q) \in QueueState /\ QueueOK(Finished(q)) /\ Finished(q).step = "idle"
  BY <1>1, <1>3, FinishedKeeps DEF QueueOK
<1>5. executing' = executing \ {e}
  BY <1>1 DEF CompleteAttempt
<1>6. Handling(Finished(q).step, w, executing')
  BY <1>1, <1>4, <1>5, ExecutionEnds DEF Handling
<1>7. TypeOK'
  BY <1>1, CompleteType DEF QInv
<1>8. QED
  BY <1>1, <1>4, <1>5, <1>6, <1>7, ExecutionEnds, QueueMoves DEF QInv

LEMMA ReportFailsKeeps ==
    ASSUME QInv, NEW w \in Worker, NEW e \in executing, ReportFails(w, e)
    PROVE  QInv'
<1>1. /\ queue[w] \in QueueState /\ QueueOK(queue[w]) /\ queue[w].step = "handling" /\ e.worker = w
      /\ AbandonExecution(e) /\ Update(w, Finished(queue[w])) /\ Fault /\ UNCHANGED admitted
  BY QueueHas DEF ReportFails
<1>2. /\ Finished(queue[w]) \in QueueState /\ QueueOK(Finished(queue[w]))
      /\ Finished(queue[w]).step = "idle"
  BY <1>1, FinishedKeeps DEF QueueOK
<1>3. executing' = executing \ {e}
  BY <1>1 DEF AbandonExecution
<1>4. Handling(Finished(queue[w]).step, w, executing')
  BY <1>1, <1>2, <1>3, ExecutionEnds DEF Handling
<1>5. TypeOK'
  BY <1>1, EnvironmentType DEF QInv
<1>6. QED
  BY <1>1, <1>2, <1>3, <1>4, <1>5, ExecutionEnds, FaultKeeps, QueueMoves DEF QInv

----------------------------------------------------------------------------
(* Reloads. *)

\* What findRunnable returns has one entry per row.
LEMMA FoundOK == ASSUME QInv PROVE Found \in SUBSET HeapItem /\ Keyed(Found)
<1>1. \A k \in Key : row[k].retryDue \in BOOLEAN
  BY DEF QInv, TypeOK, Row
<1>2. ASSUME NEW k \in Key PROVE Due(row[k], ripe) \in BOOLEAN
  BY <1>1 DEF Due
<1>3. QED
  BY <1>2 DEF Found, HeapItem, Keyed

LEMMA ReloadKeeps ==
    ASSUME QInv, NEW w \in Worker, Recover(w) \/ Find(w) \/ ReloadFails(w)
    PROVE  QInv'
<1>1. queue[w] \in QueueState /\ QueueOK(queue[w])
  BY QueueHas
<1>2. CASE Recover(w)
  <2> DEFINE q == [queue[w] EXCEPT !.reload = "finding"]
  <2>1. /\ UNCHANGED vars \/ Recovery
        /\ UNCHANGED <<admitted, faults>> /\ queue[w].reload = "recovering"
        /\ Update(w, q) \/ UNCHANGED queue
    BY <1>2 DEF Recover, Recovery
  <2>2. TypeOK' /\ UNCHANGED executing
    <3>1. TypeOK
      BY DEF QInv
    <3>2. CASE UNCHANGED vars
      BY <3>1, <3>2, NextType DEF vars
    <3>3. CASE Recovery
      BY <3>1, <3>3, RecoveryStep, EnvironmentType
    <3> QED
      BY <2>1, <3>2, <3>3
  <2>3. /\ q \in QueueState /\ q.reload = "finding" /\ q.mode = queue[w].mode /\ q.running = queue[w].running
        /\ q.step = queue[w].step /\ q.item = queue[w].item /\ q.timer = queue[w].timer
        /\ q.heap = queue[w].heap /\ q.found = queue[w].found /\ q.skipped = queue[w].skipped
    BY <1>1 DEF QueueState
  <2> HIDE DEF q
  <2>4. QueueOK(q)
    BY <1>1, <2>1, <2>3 DEF QueueOK
  <2>5. CASE Update(w, q)
    BY <2>1, <2>2, <2>3, <2>4, <2>5, QueueSteps DEF QInv
  <2>6. CASE UNCHANGED queue
    BY <2>1, <2>2, <2>6 DEF QInv, Handling
  <2>7. QED
    BY <2>1, <2>5, <2>6
<1>3. CASE Find(w)
  <2> DEFINE q == [queue[w] EXCEPT !.reload = "adding", !.found = Found]
  <2>1. Update(w, q) /\ QueueOnly /\ queue[w].reload = "finding"
    BY <1>3 DEF Find, QueueOnly
  <2>2. /\ q \in QueueState /\ q.reload = "adding" /\ q.mode = queue[w].mode /\ q.running = queue[w].running
        /\ q.step = queue[w].step /\ q.item = queue[w].item /\ q.timer = queue[w].timer
        /\ q.heap = queue[w].heap /\ q.found = Found /\ q.skipped = queue[w].skipped
    BY <1>1, FoundOK DEF QueueState
  <2> HIDE DEF q
  <2>3. QueueOK(q)
    BY <1>1, <2>1, <2>2, FoundOK DEF QueueOK
  <2>4. QED
    BY <2>1, <2>2, <2>3, QueueOnlyKeeps, QueueSteps
<1>4. CASE ReloadFails(w)
  <2> DEFINE m == IF queue[w].mode = "starting" THEN "down" ELSE queue[w].mode
             q == [queue[w] EXCEPT !.reload = "none", !.mode = m]
  <2>1. /\ Update(w, q) /\ Fault /\ UNCHANGED admitted
        /\ UNCHANGED vars \/ (AbandonRecovery(w) /\ UNCHANGED executing)
        /\ queue[w].reload \in {"recovering", "finding"}
    BY <1>1, <1>4 DEF ReloadFails, AbandonRecovery
  <2>2. /\ q \in QueueState /\ q.reload = "none" /\ q.mode = m /\ q.running = queue[w].running
        /\ q.step = queue[w].step /\ q.item = queue[w].item /\ q.timer = queue[w].timer
        /\ q.heap = queue[w].heap /\ q.found = queue[w].found /\ q.skipped = queue[w].skipped
    BY <1>1 DEF QueueState
  <2> HIDE DEF q
  <2>3. QueueOK(q)
    BY <1>1, <2>1, <2>2 DEF QueueOK
  <2>4. TypeOK' /\ UNCHANGED executing
    <3>1. TypeOK
      BY DEF QInv
    <3>2. CASE UNCHANGED vars
      BY <3>1, <3>2, NextType DEF vars
    <3>3. CASE AbandonRecovery(w) /\ UNCHANGED executing
      BY <3>1, <3>3, EnvironmentType DEF Recovery
    <3> QED
      BY <2>1, <3>2, <3>3
  <2>5. QED
    BY <2>1, <2>2, <2>3, <2>4, FaultKeeps, QueueSteps DEF QInv
<1>5. QED
  BY <1>2, <1>3, <1>4

LEMMA AddFoundKeeps ==
    ASSUME QInv, NEW w \in Worker, AddFound(w)
    PROVE  QInv'
<1> DEFINE a == Add(queue[w], queue[w].found)
           r == [a EXCEPT !.reload = "none", !.found = {}]
           u == [r EXCEPT !.mode = "up"]
           q == IF r.mode = "starting" THEN Scheduled(u) ELSE r
<1>1. /\ queue[w] \in QueueState /\ QueueOK(queue[w]) /\ queue[w].reload = "adding"
      /\ Update(w, q) /\ QueueOnly
  BY QueueHas DEF AddFound, QueueOnly
<1>2. /\ a \in QueueState /\ a.mode = queue[w].mode /\ a.running = queue[w].running
      /\ a.step = queue[w].step /\ a.item = queue[w].item /\ Keyed(a.heap)
      /\ a = queue[w] \/ a.step # "idle" \/ ~a.running \/ a.timer
      /\ ~a.running => a.timer = queue[w].timer
      /\ a.timer => queue[w].timer \/ a.step = "idle"
  BY <1>1, AddFields DEF QueueState, QueueOK
<1> HIDE DEF a
<1>3. /\ r \in QueueState /\ r.mode = a.mode /\ r.running = a.running /\ r.step = a.step
      /\ r.item = a.item /\ r.heap = a.heap /\ r.timer = a.timer /\ r.skipped = a.skipped
      /\ r.reload = "none" /\ r.found = {}
  BY <1>2 DEF QueueState
<1> HIDE DEF r
<1>4. CASE r.mode = "starting"
  <2>1. /\ u \in QueueState /\ u.mode = "up" /\ u.running = r.running /\ u.step = r.step
        /\ u.item = r.item /\ u.heap = r.heap /\ u.reload = "none" /\ u.found = {}
    BY <1>3 DEF QueueState
  <2> HIDE DEF u
  <2>2. /\ Scheduled(u) \in QueueState /\ QueueOK(Scheduled(u)) /\ Scheduled(u).step = queue[w].step
    BY <1>1, <1>2, <1>3, <1>4, <2>1, ScheduledFields DEF QueueOK, Keyed
  <2>3. QED
    BY <1>1, <1>4, <2>2, QueueOnlyKeeps, QueueSteps
<1>5. CASE r.mode # "starting"
  <2>1. QueueOK(r)
    BY <1>1, <1>2, <1>3, <1>5 DEF QueueOK, Keyed
  <2>2. Update(w, r)
    BY <1>1, <1>5
  <2>3. QED
    BY <1>1, <1>2, <1>3, <2>1, <2>2, QueueOnlyKeeps, QueueSteps
<1>6. QED
  BY <1>4, <1>5

----------------------------------------------------------------------------
(* The runtime. *)

LEMMA FreshOK == FreshQueue \in QueueState /\ QueueOK(FreshQueue) /\ FreshQueue.step = "idle"
BY DEF FreshQueue, QueueState, QueueOK, Keyed

LEMMA RuntimeKeeps ==
    ASSUME QInv, NEW w \in Worker, Start(w) \/ Rescan(w) \/ Stop(w) \/ Drain(w) \/ Stopped(w)
    PROVE  QInv'
<1> DEFINE Changed(q, r) ==
               /\ r \in QueueState /\ r.step = q.step /\ r.item = q.item /\ r.heap = q.heap
               /\ r.found = q.found
<1>1. queue[w] \in QueueState /\ QueueOK(queue[w]) /\ QueueOnly
  BY QueueHas DEF Start, Rescan, Stop, Drain, Stopped, QueueOnly
<1>2. ASSUME NEW q, Update(w, q), Changed(queue[w], q), QueueOK(q) PROVE QInv'
  BY <1>1, <1>2, QueueOnlyKeeps, QueueSteps
<1>3. CASE Start(w) /\ queue[w].running
  <2> DEFINE q == [queue[w] EXCEPT !.mode = "up", !.skipped = TRUE]
  <2>1. /\ Changed(queue[w], q) /\ q.mode = "up" /\ q.skipped /\ q.running /\ q.timer = queue[w].timer
        /\ Update(w, q) /\ queue[w].mode = "down"
    BY <1>1, <1>3 DEF Start, QueueState
  <2> HIDE DEF q
  <2>2. QueueOK(q)
    BY <1>1, <2>1 DEF QueueOK
  <2>3. QED
    BY <1>2, <2>1, <2>2
<1>4. CASE Start(w) /\ ~queue[w].running
  <2> DEFINE q == [queue[w] EXCEPT !.mode = "starting", !.running = TRUE, !.reload = "recovering"]
  <2>1. /\ Changed(queue[w], q) /\ q.mode = "starting" /\ q.reload = "recovering" /\ q.running
        /\ q.timer = queue[w].timer /\ Update(w, q) /\ queue[w].mode = "down"
    BY <1>1, <1>4 DEF Start, QueueState
  <2> HIDE DEF q
  <2>2. QueueOK(q)
    BY <1>1, <2>1 DEF QueueOK
  <2>3. QED
    BY <1>2, <2>1, <2>2
<1>5. CASE Rescan(w)
  <2> DEFINE q == [queue[w] EXCEPT !.reload = "recovering"]
  <2>1. /\ Changed(queue[w], q) /\ q.mode = "up" /\ q.running = queue[w].running
        /\ q.timer = queue[w].timer /\ q.skipped = queue[w].skipped /\ Update(w, q) /\ queue[w].mode = "up"
    BY <1>1, <1>5 DEF Rescan, QueueState
  <2> HIDE DEF q
  <2>2. QueueOK(q)
    BY <1>1, <2>1 DEF QueueOK
  <2>3. QED
    BY <1>2, <2>1, <2>2
<1>6. CASE Stop(w)
  <2> DEFINE q == [queue[w] EXCEPT !.mode = "stopping"]
  <2>1. /\ Changed(queue[w], q) /\ q.mode = "stopping" /\ q.running = queue[w].running
        /\ q.timer = queue[w].timer /\ q.reload = queue[w].reload /\ Update(w, q) /\ queue[w].mode = "up"
    BY <1>1, <1>6 DEF Stop, QueueState
  <2> HIDE DEF q
  <2>2. QueueOK(q)
    BY <1>1, <2>1 DEF QueueOK
  <2>3. QED
    BY <1>2, <2>1, <2>2
<1>7. CASE Drain(w)
  <2> DEFINE q == [queue[w] EXCEPT !.mode = "draining", !.running = FALSE]
  <2>1. /\ Changed(queue[w], q) /\ q.mode = "draining" /\ ~q.running /\ q.reload = "none"
        /\ q.timer = queue[w].timer /\ Update(w, q) /\ queue[w].mode = "stopping"
    BY <1>1, <1>7 DEF Drain, QueueState
  <2> HIDE DEF q
  <2>2. QueueOK(q)
    BY <1>1, <2>1 DEF QueueOK
  <2>3. QED
    BY <1>2, <2>1, <2>2
<1>8. CASE Stopped(w)
  <2> DEFINE q == [queue[w] EXCEPT !.mode = "down", !.timer = FALSE]
  <2>1. /\ Changed(queue[w], q) /\ q.mode = "down" /\ ~q.timer /\ q.reload = queue[w].reload
        /\ Update(w, q) /\ queue[w].mode = "draining" /\ queue[w].step = "idle"
    BY <1>1, <1>8 DEF Stopped, Drained, QueueState
  <2> HIDE DEF q
  <2>2. QueueOK(q)
    BY <1>1, <2>1 DEF QueueOK
  <2>3. QED
    BY <1>2, <2>1, <2>2
<1>9. QED
  BY <1>3, <1>4, <1>5, <1>6, <1>7, <1>8

\* A crash takes the queue's one execution with it.
LEMMA CrashKeeps ==
    ASSUME QInv, NEW w \in Worker, Crash(w)
    PROVE  QInv'
<1>1. Update(w, FreshQueue) /\ Fault /\ UNCHANGED admitted
  BY DEF Crash
<1>2. executing' = {e \in executing : e.worker # w}
  BY DEF Crash, ProcessDies
<1>3. Handling(FreshQueue.step, w, executing')
  BY <1>2, FreshOK DEF Handling
<1>4. TypeOK'
  BY EnvironmentType DEF Crash, QInv
<1>5. QED
  BY <1>1, <1>2, <1>3, <1>4, FaultKeeps, FreshOK, QueueMoves DEF QInv

LEMMA ElsewhereKeeps ==
    ASSUME QInv, [QueueNext]_allVars,
           Elsewhere \/ LeaveProfile \/ ReturnToProfile \/ UNCHANGED allVars
    PROVE  QInv'
<1>1. TypeOK' /\ UNCHANGED queue /\ admitted' \in BOOLEAN /\ faults' \in 0..MaxFaults
  BY TablesStep, FaultKeeps DEF QInv, Elsewhere, LeaveProfile, ReturnToProfile, allVars, queueVars
<1>2. UNCHANGED executing
  BY DEF Elsewhere, LeaveProfile, ReturnToProfile, allVars, vars, RunAtReached, RetryDelayElapses,
         ClaimExpires, Reconcile, PlanReconcile, CommitReconcile, RollBackReconcile
<1>3. \A w \in Worker : QueueOK(queue[w])'
  BY <1>1 DEF QInv, QueueOK, Keyed
<1>4. \A w \in Worker : Handling(queue[w].step, w, executing)'
  BY <1>1, <1>2 DEF QInv, Handling
<1>5. QED
  BY <1>1, <1>3, <1>4 DEF QInv

----------------------------------------------------------------------------
(* The theorems. *)

LEMMA QInvInit == QueueInit => QInv
<1> SUFFICES ASSUME QueueInit PROVE QInv
  OBVIOUS
<1>1. TypeOK
  BY InitType DEF QueueInit
<1>2. queue \in [Worker -> QueueState] /\ \A w \in Worker : QueueOK(queue[w])
  BY FreshOK DEF QueueInit
<1>3. \A w \in Worker : Handling(queue[w].step, w, executing)
  BY FreshOK DEF QueueInit, Init, Handling
<1>4. QED
  BY <1>1, <1>2, <1>3, FaultAssumption DEF QueueInit, QInv

LEMMA QInvNext == QInv /\ [QueueNext]_allVars => QInv'
<1> SUFFICES ASSUME QInv, [QueueNext]_allVars PROVE QInv'
  OBVIOUS
<1>1. CASE Elsewhere \/ LeaveProfile \/ ReturnToProfile \/ UNCHANGED allVars
  BY <1>1, ElsewhereKeeps
<1>2. QED
  BY <1>1, TimerKeeps, AskKeeps, ClaimKeeps, ReportKeeps, ReportFailsKeeps, ReloadKeeps, AddFoundKeeps,
     RuntimeKeeps, CrashKeeps DEF QueueNext

LEMMA QueueInvariant == QueueSpec => []QInv
BY QInvInit, QInvNext, PTL DEF QueueSpec

\* The queues add nothing the tables do not allow: whatever is proved of every
\* behaviour of ScheduledInvocation holds under the queues too.
THEOREM QueuesImplementTables == QueueSpec => Spec
<1>1. QueueInit => Init
  BY DEF QueueInit
<1>2. QInv /\ [QueueNext]_allVars => [Next]_vars
  BY TablesStep
<1>3. QED
  BY <1>1, <1>2, QueueInvariant, PTL DEF QueueSpec, Spec

\* ImplementsContract: with the queues, their timers, rescans, drains and
\* crashes in front of it, the desktop scheduler still implements the contract
\* with its owners (ScheduledInvocationQueue over the repository).
THEOREM QueuesImplementContract ==
    ASSUME Store = "powersync"
    PROVE  QueueSpec => ImplementsContract
BY QueuesImplementTables, DesktopImplementsContract

\* ImplementsContract: so does the scheduler on either store, with its queues,
\* in every behaviour in which no reconcile commits over a row written since it
\* was read.
THEOREM UncontendedQueuesImplementContract ==
    QueueSpec /\ [][~StaleCommit]_vars => ImplementsContract
<1>1. [Next]_vars /\ [~StaleCommit]_vars => [Next /\ ~StaleCommit]_vars
  OBVIOUS
<1>2. QueueSpec /\ [][~StaleCommit]_vars => UncontendedSpec
  BY <1>1, QueuesImplementTables, PTL DEF Spec, UncontendedSpec
<1> QED
  BY <1>2, UncontendedImplementsContract

\* A queue's fields keep their shapes, and an entry is in hand exactly between
\* its extraction and its claim (QueueTypeOK).
THEOREM QueueTypeCorrect == QueueSpec => []QueueTypeOK
<1>1. ASSUME QInv PROVE QueueTypeOK
  <2>1. ASSUME NEW w \in Worker
        PROVE  Cardinality(queue[w].item) = IF queue[w].step \in {"asking", "claiming"} THEN 1 ELSE 0
    <3>1. QueueOK(queue[w])
      BY <1>1, QueueHas
    <3>2. CASE queue[w].step \in {"asking", "claiming"}
      <4>1. PICK k \in Key : queue[w].item = {k}
        BY <3>1, <3>2 DEF QueueOK
      <4>2. Cardinality({k}) = 1
        BY FS_Singleton
      <4>3. QED
        BY <3>2, <4>1, <4>2
    <3>3. CASE queue[w].step \notin {"asking", "claiming"}
      BY <3>1, <3>3, FS_EmptySet DEF QueueOK
    <3>4. QED
      BY <3>2, <3>3
  <2>2. QED
    BY <1>1, <2>1 DEF QInv, QueueTypeOK
<1>2. QInv => QueueTypeOK
  BY <1>1
<1>3. QED
  BY <1>2, QueueInvariant, PTL

\* Executions never overlap within a queue: exactly one while its step is
\* handling, none otherwise (OneHandlerPerQueue).
THEOREM HandlersDoNotOverlap == QueueSpec => []OneHandlerPerQueue
<1>1. ASSUME QInv PROVE OneHandlerPerQueue
  <2> SUFFICES ASSUME NEW w \in Worker
               PROVE  Cardinality({e \in executing : e.worker = w})
                         = IF queue[w].step = "handling" THEN 1 ELSE 0
    BY DEF OneHandlerPerQueue
  <2>1. CASE queue[w].step = "handling"
    <3>1. PICK e \in executing : \A f \in executing : f.worker = w <=> f = e
      BY <1>1, <2>1, QueueHas DEF Handling
    <3>2. {f \in executing : f.worker = w} = {e}
      BY <3>1
    <3>3. QED
      BY <2>1, <3>2, FS_Singleton
  <2>2. CASE queue[w].step # "handling"
    <3>1. {f \in executing : f.worker = w} = {}
      BY <1>1, <2>2, QueueHas DEF Handling
    <3>2. QED
      BY <2>2, <3>1, FS_EmptySet
  <2>3. QED
    BY <2>1, <2>2
<1>2. QInv => OneHandlerPerQueue
  BY <1>1
<1>3. QED
  BY <1>2, QueueInvariant, PTL

\* An idle queue that is up and has entries has its timer set, unless its
\* start did nothing (NoLostWakeUp).
THEOREM WakeUpsAreKept == QueueSpec => []NoLostWakeUp
<1>1. QInv => NoLostWakeUp
  BY DEF QInv, QueueOK, NoLostWakeUp
<1>2. QED
  BY <1>1, QueueInvariant, PTL

\* An invocation has one place in a heap (OneEntryPerKey).
THEOREM EntriesStayUnique == QueueSpec => []OneEntryPerKey
<1>1. QInv => OneEntryPerKey
  BY DEF QInv, QueueOK, Keyed, OneEntryPerKey
<1>2. QED
  BY <1>1, QueueInvariant, PTL

\* A host that stopped left no timer and no handler behind (StoppedIsQuiet).
THEOREM StoppedStaysQuiet == QueueSpec => []StoppedIsQuiet
<1>1. QInv => StoppedIsQuiet
  BY DEF QInv, QueueOK, Handling, StoppedIsQuiet
<1>2. QED
  BY <1>1, QueueInvariant, PTL
==============================================================================
