---------------------- MODULE NotificationDeliveryProofs ----------------------
(***************************************************************************)
(* The safety of the notification dispatch loop, for any number of         *)
(* processes, requests, channels, replays and faults.  Two invariants: Inv *)
(* says what a process and a row may rely on; Presentations counts how     *)
(* often an operation has been shown, and which processes could still show *)
(* it before the next fault.                                               *)
(***************************************************************************)
EXTENDS NotificationDelivery, FiniteSetTheorems, TLAPS

\* What a process in state s knows of the stored requests and of what was shown.
WorkerFacts(s, facts, shown) ==
    /\ s.at \in {"dispatches", "presenting", "acking", "recording"} =>
          \A c \in s.found \cup s.batch : c.row \in Op
    /\ s.at \in {"intents", "marking"} => \A c \in s.found \cup s.batch : c.row \in Request
    /\ s.at \in {"presenting", "acking", "recording"} => s.claim \in Claim /\ s.claim.row \in Op
    /\ s.at = "marking" =>
          /\ s.claim \in Claim /\ s.claim.row \in Request
          /\ s.outcome \in {"failed", "succeeded"}
          /\ s.outcome = "succeeded" => s.claim.row \in facts
    /\ s.at = "acking" =>
          /\ s.outcome \in {"skipped", "succeeded"}
          /\ s.outcome = "succeeded" => shown[s.claim.row] > 0
    /\ s.at = "recording" =>
          /\ s.outcome # "none"
          /\ s.outcome = "succeeded" /\ s.claim.row[2] \in DesktopChannel => shown[s.claim.row] > 0

WorkersInv == \A w \in Worker : WorkerFacts(worker[w], fact, presented)

RowFacts ==
    /\ \A r \in Request : intent[r].status = "succeeded" => r \in fact
    /\ \A o \in Op :
          /\ dispatch[o].status # "absent" => o[1] \in fact
          /\ dispatch[o].status = "succeeded" /\ o[2] \in DesktopChannel => presented[o] > 0
          /\ announced[o] = 0 \/ (announced[o] = 1 /\ dispatch[o].status = "succeeded")
          /\ ack[o] = "delivered" => presented[o] > 0
          /\ \A w \in Worker : seen[w][o] = "delivered" => presented[o] > 0

Inv == TypeOK /\ WorkersInv /\ RowFacts

----------------------------------------------------------------------------
(* What a step has to show. *)

\* TypeOK without the processes.
RestTyped ==
    /\ intent \in [Request -> OutboxRow]
    /\ fact \subseteq Request
    /\ dispatch \in [Op -> OutboxRow]
    /\ ack \in [Op -> AckStatus]
    /\ seen \in [Worker -> [Op -> AckStatus]]
    /\ presented \in [Op -> Nat]
    /\ announced \in [Op -> Nat]
    /\ replays \in 0..MaxReplays
    /\ faults \in 0..MaxFaults

\* No request is forgotten, and nothing shown is taken back.
Grows ==
    /\ fact \subseteq fact'
    /\ \A o \in Op : presented[o] > 0 => presented'[o] > 0

\* A process goes to state s.
LEMMA MoveKeeps ==
    ASSUME Inv, RestTyped', Grows, RowFacts',
           NEW w \in Worker, NEW s \in WorkerState, Update(w, s), WorkerFacts(s, fact', presented')
    PROVE  Inv'
<1>1. /\ worker' \in [Worker -> WorkerState]
      /\ \A v \in Worker : worker'[v] = IF v = w THEN s ELSE worker[v]
  BY DEF Inv, TypeOK, Update
<1>2. ASSUME NEW v \in Worker PROVE WorkerFacts(worker'[v], fact', presented')
  <2>1. CASE v = w
    BY <1>1, <2>1
  <2>2. CASE v # w
    <3>1. worker'[v] = worker[v] /\ WorkerFacts(worker[v], fact, presented)
      BY <1>1, <2>2 DEF Inv, WorkersInv
    <3>2. QED
      BY <3>1 DEF WorkerFacts, Grows
  <2>3. QED
    BY <2>1, <2>2
<1>3. TypeOK'
  BY <1>1 DEF TypeOK, RestTyped
<1>4. QED
  BY <1>2, <1>3 DEF Inv, WorkersInv

\* A step of no process.
LEMMA OutsideKeeps ==
    ASSUME Inv, RestTyped', RowFacts', UNCHANGED <<worker, fact, presented>>
    PROVE  Inv'
BY DEF Inv, TypeOK, RestTyped, WorkersInv

\* The rows and histories a step may leave as they are.
rest == <<intent, fact, dispatch, ack, seen, presented, announced, replays>>

LEMMA FaultTyped == ASSUME Inv, Fault \/ UNCHANGED faults PROVE faults' \in 0..MaxFaults
BY DeliveryAssumption DEF Fault, Inv, TypeOK

\* A step that changes one process only.
LEMMA MoveOnlyKeeps ==
    ASSUME Inv, UNCHANGED rest, Fault \/ UNCHANGED faults,
           NEW w \in Worker, NEW s \in WorkerState, Update(w, s), WorkerFacts(s, fact, presented)
    PROVE  Inv'
<1>1. RestTyped' /\ Grows /\ RowFacts'
  BY FaultTyped DEF rest, RestTyped, Grows, RowFacts, Inv, TypeOK
<1>2. WorkerFacts(s, fact', presented')
  BY DEF rest
<1>3. QED
  BY <1>1, <1>2, MoveKeeps

\* What is known of a process.
LEMMA WorkerHas ==
    ASSUME Inv, NEW w \in Worker
    PROVE  /\ worker[w] \in WorkerState
           /\ worker[w].found \subseteq Claim /\ worker[w].batch \subseteq Claim
           /\ WorkerFacts(worker[w], fact, presented)
BY DEF Inv, TypeOK, WorkerState, WorkersInv

LEMMA IdleState == Idle \in WorkerState
BY DEF Idle, WorkerState

\* The candidates of a table are claims of its rows.
LEMMA CandidatesTyped ==
    ASSUME NEW S \in SUBSET (Op \cup Request), NEW rows \in [S -> OutboxRow]
    PROVE  Candidates(rows) \subseteq Claim /\ \A c \in Candidates(rows) : c.row \in S
BY DEF Candidates, Claim, OutboxRow

LEMMA TakenTyped ==
    ASSUME NEW c \in Claim
    PROVE  /\ Taken(c) \in Claim /\ Taken(c).row = c.row /\ Taken(c).fence = c.fence + 1
           /\ c.row \in Op \cup Request /\ c.fence \in Nat /\ c.attempt \in Nat /\ c.failed \in BOOLEAN
<1>1. c.row \in Op \cup Request /\ c.fence \in Nat /\ c.attempt \in Nat /\ c.failed \in BOOLEAN
  BY DEF Claim
<1>2. /\ c.fence + 1 \in Nat /\ c.attempt + 1 \in Nat
      /\ Taken(c) = [c EXCEPT !.fence = c.fence + 1, !.attempt = c.attempt + 1]
  BY <1>1 DEF Taken
<1>3. QED
  BY <1>1, <1>2 DEF Claim

LEMMA ClaimedTyped ==
    ASSUME NEW row \in OutboxRow, NEW w \in Worker
    PROVE  /\ Claimed(row, w) \in OutboxRow /\ Claimed(row, w).status = "running"
           /\ Claimed(row, w).owner = w /\ Claimed(row, w).fence = row.fence + 1
           /\ ~Claimed(row, w).expired
<1>1. row.fence + 1 \in Nat /\ row.attempt + 1 \in Nat
  BY DEF OutboxRow
<1>2. QED
  BY <1>1 DEF Claimed, OutboxRow, RowStatus

LEMMA ReceiptedTyped ==
    ASSUME NEW row \in OutboxRow, NEW c \in Claim, NEW outcome \in {"succeeded", "skipped", "failed"}
    PROVE  /\ Receipted(row, c, outcome) \in OutboxRow
           /\ Receipted(row, c, outcome).status = StatusOf(c, outcome)
           /\ StatusOf(c, outcome) \in RowStatus
           /\ StatusOf(c, outcome) # "absent" /\ StatusOf(c, outcome) # "running"
           /\ StatusOf(c, outcome) = "succeeded" <=> outcome = "succeeded"
<1>1. /\ StatusOf(c, outcome) \in RowStatus
      /\ StatusOf(c, outcome) # "absent" /\ StatusOf(c, outcome) # "running"
      /\ StatusOf(c, outcome) = "succeeded" <=> outcome = "succeeded"
  BY DEF StatusOf, RowStatus
<1>2. c.attempt \in Nat
  BY DEF Claim
<1>3. QED
  BY <1>1, <1>2 DEF Receipted, OutboxRow

----------------------------------------------------------------------------
(* Leases and delays. *)

\* A row of the dispatch table that keeps its status.
LEMMA DispatchTouched ==
    ASSUME Inv, NEW o \in Op, NEW row \in OutboxRow, dispatch' = [dispatch EXCEPT ![o] = row],
           \/ row.status = dispatch[o].status
           \/ dispatch[o].status \notin {"absent", "succeeded"} /\ row.status # "succeeded",
           UNCHANGED <<intent, fact, ack, seen, worker, presented, announced>>,
           replays' \in 0..MaxReplays, faults' \in 0..MaxFaults
    PROVE  Inv'
<1>1. /\ dispatch' \in [Op -> OutboxRow]
      /\ \A p \in Op : dispatch'[p] = IF p = o THEN row ELSE dispatch[p]
  BY DEF Inv, TypeOK
<1>2. RestTyped'
  BY <1>1 DEF RestTyped, Inv, TypeOK
<1>3. RowFacts'
  BY <1>1 DEF Inv, RowFacts
<1>4. QED
  BY <1>2, <1>3, OutsideKeeps

LEMMA IntentTouched ==
    ASSUME Inv, NEW r \in Request, NEW row \in OutboxRow, intent' = [intent EXCEPT ![r] = row],
           row.status = intent[r].status,
           UNCHANGED <<fact, dispatch, ack, seen, worker, presented, announced, replays>>,
           faults' \in 0..MaxFaults
    PROVE  Inv'
<1>1. /\ intent' \in [Request -> OutboxRow]
      /\ \A p \in Request : intent'[p] = IF p = r THEN row ELSE intent[p]
  BY DEF Inv, TypeOK
<1>2. RestTyped'
  BY <1>1 DEF RestTyped, Inv, TypeOK
<1>3. RowFacts'
  BY <1>1 DEF Inv, RowFacts
<1>4. QED
  BY <1>2, <1>3, OutsideKeeps

LEMMA DispatchTimeKeeps ==
    ASSUME Inv, NEW o \in Op, DispatchRunsOut(o) \/ DispatchLapses(o) \/ DispatchDue(o) \/ Replay(o)
    PROVE  Inv'
<1>1. /\ dispatch[o] \in OutboxRow /\ dispatch \in [Op -> OutboxRow]
      /\ UNCHANGED <<intent, fact, ack, seen, worker, presented, announced>>
      /\ faults' \in 0..MaxFaults
  BY FaultTyped DEF Inv, TypeOK, DispatchRunsOut, DispatchLapses, DispatchDue, Replay, LeaseLapses
<1>2. CASE DispatchRunsOut(o) \/ DispatchLapses(o)
  <2> DEFINE row == [dispatch[o] EXCEPT !.expired = TRUE]
  <2>1. row \in OutboxRow /\ row.status = dispatch[o].status
    BY <1>1 DEF OutboxRow
  <2>2. dispatch' = [dispatch EXCEPT ![o] = row] /\ replays' \in 0..MaxReplays
    BY <1>1, <1>2 DEF DispatchRunsOut, DispatchLapses, Inv, TypeOK
  <2> HIDE DEF row
  <2>3. QED
    BY <1>1, <2>1, <2>2, DispatchTouched
<1>3. CASE DispatchDue(o)
  <2> DEFINE row == [dispatch[o] EXCEPT !.due = TRUE]
  <2>1. row \in OutboxRow /\ row.status = dispatch[o].status
    BY <1>1 DEF OutboxRow
  <2>2. dispatch' = [dispatch EXCEPT ![o] = row] /\ replays' \in 0..MaxReplays
    BY <1>1, <1>3 DEF DispatchDue, Inv, TypeOK
  <2> HIDE DEF row
  <2>3. QED
    BY <1>1, <2>1, <2>2, DispatchTouched
<1>4. CASE Replay(o)
  <2> DEFINE row == [dispatch[o] EXCEPT !.status = "retryable", !.due = TRUE, !.fence = @ + 1]
  <2>1. row \in OutboxRow /\ row.status = "retryable" /\ dispatch[o].status = "dead_letter"
    BY <1>1, <1>4 DEF OutboxRow, RowStatus, Replay
  <2>2. replays' \in 0..MaxReplays
    BY <1>4, DeliveryAssumption DEF Replay, Inv, TypeOK
  <2>3. dispatch' = [dispatch EXCEPT ![o] = row]
    BY <1>1, <1>4 DEF Replay
  <2> HIDE DEF row
  <2>4. QED
    BY <1>1, <2>1, <2>2, <2>3, DispatchTouched
<1>5. QED
  BY <1>2, <1>3, <1>4

LEMMA IntentTimeKeeps ==
    ASSUME Inv, NEW r \in Request, IntentRunsOut(r) \/ IntentLapses(r) \/ IntentDue(r)
    PROVE  Inv'
<1>1. /\ intent[r] \in OutboxRow /\ intent \in [Request -> OutboxRow]
      /\ UNCHANGED <<fact, dispatch, ack, seen, worker, presented, announced, replays>>
      /\ faults' \in 0..MaxFaults
  BY FaultTyped DEF Inv, TypeOK, IntentRunsOut, IntentLapses, IntentDue, LeaseLapses
<1>2. CASE IntentRunsOut(r) \/ IntentLapses(r)
  <2> DEFINE row == [intent[r] EXCEPT !.expired = TRUE]
  <2>1. row \in OutboxRow /\ row.status = intent[r].status
    BY <1>1 DEF OutboxRow
  <2>2. intent' = [intent EXCEPT ![r] = row]
    BY <1>1, <1>2 DEF IntentRunsOut, IntentLapses
  <2> HIDE DEF row
  <2>3. QED
    BY <1>1, <2>1, <2>2, IntentTouched
<1>3. CASE IntentDue(r)
  <2> DEFINE row == [intent[r] EXCEPT !.due = TRUE]
  <2>1. row \in OutboxRow /\ row.status = intent[r].status
    BY <1>1 DEF OutboxRow
  <2>2. intent' = [intent EXCEPT ![r] = row]
    BY <1>1, <1>3 DEF IntentDue
  <2> HIDE DEF row
  <2>3. QED
    BY <1>1, <2>1, <2>2, IntentTouched
<1>4. QED
  BY <1>2, <1>3
----------------------------------------------------------------------------
(* A process at the dispatch rows. *)

LEMMA StartsKeep ==
    ASSUME Inv, NEW w \in Worker, Tick(w) \/ TurnToIntents(w) \/ EndTick(w) \/ Interrupted(w)
    PROVE  Inv'
<1>1. CASE Tick(w)
  <2> DEFINE s == [Idle EXCEPT !.at = "dispatches", !.found = Candidates(dispatch)]
  <2>1. Candidates(dispatch) \subseteq Claim /\ \A c \in Candidates(dispatch) : c.row \in Op
    BY CandidatesTyped DEF Inv, TypeOK
  <2>2. s \in WorkerState /\ s.at = "dispatches" /\ s.found = Candidates(dispatch) /\ s.batch = {}
    BY <2>1, IdleState DEF Idle, WorkerState
  <2>3. Update(w, s) /\ UNCHANGED <<rest, faults>>
    BY <1>1 DEF Tick, rest
  <2> HIDE DEF s
  <2>4. WorkerFacts(s, fact, presented)
    BY <2>1, <2>2 DEF WorkerFacts
  <2>5. QED
    BY <2>2, <2>3, <2>4, MoveOnlyKeeps
<1>2. CASE TurnToIntents(w)
  <2> DEFINE s == [worker[w] EXCEPT !.at = "intents", !.found = Candidates(intent)]
  <2>1. Candidates(intent) \subseteq Claim /\ \A c \in Candidates(intent) : c.row \in Request
    BY CandidatesTyped DEF Inv, TypeOK
  <2>2. s \in WorkerState /\ s.at = "intents" /\ s.found = Candidates(intent) /\ s.batch = {}
    BY <1>2, <2>1, WorkerHas DEF WorkerState, TurnToIntents
  <2>3. Update(w, s) /\ UNCHANGED <<rest, faults>>
    BY <1>2 DEF TurnToIntents, rest
  <2> HIDE DEF s
  <2>4. WorkerFacts(s, fact, presented)
    BY <2>1, <2>2 DEF WorkerFacts
  <2>5. QED
    BY <2>2, <2>3, <2>4, MoveOnlyKeeps
<1>3. WorkerFacts(Idle, fact, presented)
  BY DEF WorkerFacts, Idle
<1>4. CASE EndTick(w)
  <2>1. Update(w, Idle) /\ UNCHANGED <<rest, faults>>
    BY <1>4 DEF EndTick, rest
  <2>2. QED
    BY <1>3, <2>1, IdleState, MoveOnlyKeeps
<1>5. CASE Interrupted(w)
  <2>1. /\ Update(w, Idle) /\ Fault
        /\ UNCHANGED <<intent, fact, dispatch, ack, presented, announced, replays>>
        /\ seen' = seen \/ seen' = [seen EXCEPT ![w] = [o \in Op |-> "none"]]
    BY <1>5 DEF Interrupted
  <2>2. [o \in Op |-> "none"] \in [Op -> AckStatus]
    BY DEF AckStatus
  <2>3. seen' \in [Worker -> [Op -> AckStatus]]
    BY <2>1, <2>2 DEF Inv, TypeOK
  <2>4. \A v \in Worker, o \in Op : seen'[v][o] = seen[v][o] \/ seen'[v][o] = "none"
    BY <2>1 DEF Inv, TypeOK
  <2>5. RestTyped' /\ Grows /\ RowFacts'
    BY <2>1, <2>3, <2>4, FaultTyped DEF RestTyped, Grows, RowFacts, Inv, TypeOK
  <2>6. WorkerFacts(Idle, fact', presented')
    BY <1>3, <2>1
  <2>7. QED
    BY <2>1, <2>5, <2>6, IdleState, MoveKeeps
<1>6. QED
  BY <1>1, <1>2, <1>4, <1>5

LEMMA ClaimRowKeeps ==
    ASSUME Inv, NEW w \in Worker, ClaimRow(w)
    PROVE  Inv'
<1> PICK c \in worker[w].found :
       LET row == dispatch[c.row]
           left == [worker[w] EXCEPT !.found = @ \ {c}]
       IN IF row.fence = c.fence /\ Claimable(row)
          THEN /\ dispatch' = [dispatch EXCEPT ![c.row] = Claimed(row, w)]
               /\ Update(w, [left EXCEPT !.batch = @ \cup {Taken(c)}])
          ELSE Update(w, left) /\ UNCHANGED dispatch
  BY DEF ClaimRow
<1> DEFINE row == dispatch[c.row]
           left == [worker[w] EXCEPT !.found = @ \ {c}]
           s == [left EXCEPT !.batch = @ \cup {Taken(c)}]
<1>1. /\ worker[w] \in WorkerState /\ worker[w].at = "dispatches" /\ c \in Claim /\ c.row \in Op
      /\ \A d \in worker[w].found \cup worker[w].batch : d.row \in Op
      /\ UNCHANGED <<intent, fact, ack, seen, presented, announced, replays, faults>>
  BY WorkerHas DEF ClaimRow, WorkerFacts
<1>2. /\ left \in WorkerState /\ left.at = "dispatches" /\ left.found \subseteq worker[w].found
      /\ left.batch = worker[w].batch
  BY <1>1 DEF WorkerState
<1>3. CASE ~(row.fence = c.fence /\ Claimable(row))
  <2>1. Update(w, left) /\ UNCHANGED <<rest, faults>>
    BY <1>1, <1>3 DEF rest
  <2> HIDE DEF left
  <2>2. WorkerFacts(left, fact, presented)
    BY <1>1, <1>2 DEF WorkerFacts
  <2>3. QED
    BY <1>2, <2>1, <2>2, MoveOnlyKeeps
<1>4. CASE row.fence = c.fence /\ Claimable(row)
  <2>1. Update(w, s) /\ dispatch' = [dispatch EXCEPT ![c.row] = Claimed(row, w)]
    BY <1>4
  <2>2. row \in OutboxRow /\ Claimed(row, w) \in OutboxRow /\ Claimed(row, w).status = "running"
    BY <1>1, ClaimedTyped DEF Inv, TypeOK
  <2>3. row.status \notin {"absent", "succeeded"}
    BY <1>4 DEF Claimable
  <2>4. /\ dispatch' \in [Op -> OutboxRow]
        /\ \A o \in Op : dispatch'[o] = IF o = c.row THEN Claimed(row, w) ELSE dispatch[o]
    BY <1>1, <2>1, <2>2 DEF Inv, TypeOK
  <2>5. RestTyped' /\ Grows
    BY <1>1, <2>4 DEF RestTyped, Grows, Inv, TypeOK
  <2>6. RowFacts'
    BY <1>1, <2>2, <2>3, <2>4 DEF Inv, RowFacts
  <2>7. /\ s \in WorkerState /\ s.at = "dispatches" /\ s.found = left.found
        /\ s.batch = left.batch \cup {Taken(c)}
    BY <1>1, <1>2, TakenTyped DEF WorkerState
  <2>8. Taken(c).row \in Op
    BY <1>1, TakenTyped
  <2> HIDE DEF left, s
  <2>9. WorkerFacts(s, fact', presented')
    BY <1>1, <1>2, <2>7, <2>8 DEF WorkerFacts
  <2>10. QED
    BY <2>1, <2>5, <2>6, <2>7, <2>9, MoveKeeps
<1>5. QED
  BY <1>3, <1>4

LEMMA DeliverKeeps ==
    ASSUME Inv, NEW w \in Worker, Deliver(w)
    PROVE  Inv'
<1>1. PICK c \in worker[w].batch :
         LET desktop == c.row[2] \in DesktopChannel
             outcome == IF desktop THEN Acknowledged(Known(w, c.row)) ELSE "succeeded"
         IN /\ Update(w, [worker[w] EXCEPT !.batch = @ \ {c}, !.claim = c, !.outcome = outcome,
                             !.at = IF outcome = "none" THEN "presenting" ELSE "recording"])
            /\ seen' = IF desktop THEN [seen EXCEPT ![w][c.row] = Known(w, c.row)] ELSE seen
  BY DEF Deliver
<1> DEFINE o == c.row
           desktop == o[2] \in DesktopChannel
           outcome == IF desktop THEN Acknowledged(Known(w, o)) ELSE "succeeded"
           at == IF outcome = "none" THEN "presenting" ELSE "recording"
           s == [worker[w] EXCEPT !.batch = @ \ {c}, !.claim = c, !.outcome = outcome, !.at = at]
<1>2. /\ worker[w] \in WorkerState /\ worker[w].at = "dispatches" /\ c \in Claim /\ o \in Op
      /\ \A d \in worker[w].found \cup worker[w].batch : d.row \in Op
      /\ UNCHANGED <<intent, fact, dispatch, ack, presented, announced, replays, faults>>
      /\ seen \in [Worker -> [Op -> AckStatus]] /\ ack \in [Op -> AckStatus]
  BY WorkerHas DEF Deliver, WorkerFacts, Inv, TypeOK
<1>3. Known(w, o) \in AckStatus /\ (Known(w, o) = "delivered" => presented[o] > 0)
  BY <1>2 DEF Known, Inv, RowFacts
<1>4. /\ outcome \in {"none", "succeeded", "skipped"}
      /\ outcome = "succeeded" /\ desktop => Known(w, o) = "delivered"
  BY <1>3 DEF Acknowledged, AckStatus
<1>5. /\ seen' \in [Worker -> [Op -> AckStatus]]
      /\ \A v \in Worker, p \in Op : seen'[v][p] = seen[v][p] \/ (p = o /\ seen'[v][p] = Known(w, o))
  BY <1>1, <1>2, <1>3
<1>6. Update(w, s)
  BY <1>1
<1> HIDE DEF outcome
<1>7. /\ at \in {"presenting", "recording"} /\ (at = "recording" => outcome # "none")
  OBVIOUS
<1> HIDE DEF at
<1>8. /\ s \in WorkerState /\ s.at = at /\ s.found = worker[w].found /\ s.batch \subseteq worker[w].batch
      /\ s.claim = c /\ s.outcome = outcome
  BY <1>2, <1>4, <1>7 DEF WorkerState
<1> HIDE DEF s
<1>9. RestTyped' /\ Grows /\ RowFacts'
  BY <1>2, <1>3, <1>5 DEF RestTyped, Grows, Inv, TypeOK, RowFacts
<1>10. WorkerFacts(s, fact', presented')
  BY <1>2, <1>3, <1>4, <1>7, <1>8 DEF WorkerFacts
<1>11. QED
  BY <1>6, <1>8, <1>9, <1>10, MoveKeeps

\* The state of a process that goes on to present claim c of its batch unread.
Unread(w, c) == [worker[w] EXCEPT !.batch = @ \ {c}, !.claim = c, !.at = "presenting"]

LEMMA UnreadState ==
    ASSUME Inv, NEW w \in Worker, NEW c \in worker[w].batch
    PROVE  /\ Unread(w, c) \in WorkerState /\ Unread(w, c).at = "presenting"
           /\ Unread(w, c).found = worker[w].found /\ Unread(w, c).batch = worker[w].batch \ {c}
           /\ Unread(w, c).claim = c /\ c \in Claim
<1>1. worker[w] \in WorkerState /\ c \in Claim
  BY WorkerHas DEF WorkerState
<1>2. QED
  BY <1>1 DEF Unread, WorkerState

LEMMA UnreadKeeps ==
    ASSUME Inv, NEW w \in Worker, AckUnread(w)
    PROVE  Inv'
<1>1. PICK c \in worker[w].batch : Update(w, Unread(w, c))
  BY DEF AckUnread, Unread
<1>2. /\ worker[w].at = "dispatches" /\ c.row \in Op
      /\ \A d \in worker[w].found \cup worker[w].batch : d.row \in Op
      /\ UNCHANGED <<intent, fact, dispatch, ack, seen, presented, announced, replays>> /\ Fault
  BY WorkerHas DEF AckUnread, WorkerFacts
<1>3. RestTyped' /\ Grows /\ RowFacts'
  BY <1>2, FaultTyped DEF RestTyped, Grows, Inv, TypeOK, RowFacts
<1>4. WorkerFacts(Unread(w, c), fact', presented')
  BY <1>2, UnreadState DEF WorkerFacts
<1>5. QED
  BY <1>1, <1>3, <1>4, UnreadState, MoveKeeps

\* A process at work on operation o writes its acknowledgement, a in the table
\* and b in its own copy, and goes to a later stage.
LEMMA AckKeeps ==
    ASSUME Inv, NEW w \in Worker, worker[w].at \in {"presenting", "acking"},
           NEW a \in AckStatus, NEW b \in AckStatus, NEW n \in Nat,
           NEW at \in {"acking", "recording"}, NEW outcome \in {"succeeded", "skipped", "failed"},
           ack' = [ack EXCEPT ![worker[w].claim.row] = a],
           seen' = [seen EXCEPT ![w][worker[w].claim.row] = b],
           presented' = [presented EXCEPT ![worker[w].claim.row] = n],
           n >= presented[worker[w].claim.row],
           Update(w, [worker[w] EXCEPT !.at = at, !.outcome = outcome]),
           a = "delivered" \/ b = "delivered" \/ outcome = "succeeded" => n > 0,
           at = "acking" => outcome # "failed",
           UNCHANGED <<intent, fact, dispatch, announced, replays>>, Fault \/ UNCHANGED faults
    PROVE  Inv'
<1> DEFINE o == worker[w].claim.row
           s == [worker[w] EXCEPT !.at = at, !.outcome = outcome]
<1>1. /\ worker[w] \in WorkerState /\ worker[w].claim \in Claim /\ o \in Op
      /\ \A d \in worker[w].found \cup worker[w].batch : d.row \in Op
  BY WorkerHas DEF WorkerFacts
<1>2. /\ ack' \in [Op -> AckStatus] /\ \A p \in Op : ack'[p] = IF p = o THEN a ELSE ack[p]
      /\ presented' \in [Op -> Nat]
      /\ \A p \in Op : presented'[p] = IF p = o THEN n ELSE presented[p]
  BY <1>1 DEF Inv, TypeOK
<1>3. /\ seen' \in [Worker -> [Op -> AckStatus]]
      /\ \A v \in Worker, p \in Op : seen'[v][p] = IF v = w /\ p = o THEN b ELSE seen[v][p]
  BY <1>1 DEF Inv, TypeOK
<1>4. /\ s \in WorkerState /\ s.at = at /\ s.found = worker[w].found /\ s.batch = worker[w].batch
      /\ s.claim = worker[w].claim /\ s.outcome = outcome
  BY <1>1 DEF WorkerState
<1>5. Grows
  BY <1>1, <1>2 DEF Grows, Inv, TypeOK
<1>6. RestTyped'
  BY <1>2, <1>3, FaultTyped DEF RestTyped, Inv, TypeOK
<1>7. RowFacts'
  BY <1>1, <1>2, <1>3, <1>5 DEF RowFacts, Grows, Inv
<1> HIDE DEF s
<1>8. WorkerFacts(s, fact', presented')
  BY <1>1, <1>2, <1>4 DEF WorkerFacts
<1>9. Update(w, s)
  BY DEF s
<1>10. QED
  BY <1>4, <1>5, <1>6, <1>7, <1>8, <1>9, MoveKeeps

LEMMA PresentKeeps ==
    ASSUME Inv, NEW w \in Worker, Present(w) \/ Ack(w) \/ AckFails(w)
    PROVE  Inv'
<1> DEFINE o == worker[w].claim.row
<1>1. /\ worker[w].at \in {"presenting", "acking"} /\ o \in Op
      /\ presented[o] \in Nat /\ presented[o] + 1 \in Nat /\ presented \in [Op -> Nat]
      /\ ack[o] \in AckStatus /\ seen[w][o] \in AckStatus
      /\ seen \in [Worker -> [Op -> AckStatus]]
      /\ UNCHANGED <<intent, fact, dispatch, announced, replays>>
  BY WorkerHas DEF Present, Ack, AckFails, WorkerFacts, Inv, TypeOK
<1>2. presented = [presented EXCEPT ![o] = presented[o]]
  BY <1>1
<1>3. CASE Present(w)
  <2>1. /\ ack' = [ack EXCEPT ![o] = "open"] /\ seen' = [seen EXCEPT ![w][o] = "open"]
        /\ "open" \in AckStatus /\ "open" # "delivered"
    BY <1>3 DEF Present, AckStatus
  <2>2. CASE presented' = [presented EXCEPT ![o] = @ + 1]
             /\ Update(w, [worker[w] EXCEPT !.at = "acking", !.outcome = "succeeded"])
             /\ UNCHANGED faults
    <3>1. presented' = [presented EXCEPT ![o] = presented[o] + 1]
      BY <2>2
    <3>2. presented[o] + 1 >= presented[o] /\ presented[o] + 1 > 0
      BY <1>1
    <3>3. QED
      BY <1>1, <2>1, <2>2, <3>1, <3>2, AckKeeps
  <2>3. CASE Update(w, [worker[w] EXCEPT !.at = "acking", !.outcome = "skipped"])
             /\ UNCHANGED <<presented, faults>>
    <3>1. presented' = [presented EXCEPT ![o] = presented[o]] /\ presented[o] >= presented[o]
      BY <1>1, <1>2, <2>3
    <3>2. QED
      BY <1>1, <2>1, <2>3, <3>1, AckKeeps
  <2>4. CASE Update(w, [worker[w] EXCEPT !.at = "recording", !.outcome = "failed"])
             /\ Fault /\ UNCHANGED presented
    <3>1. presented' = [presented EXCEPT ![o] = presented[o]] /\ presented[o] >= presented[o]
      BY <1>1, <1>2, <2>4
    <3>2. QED
      BY <1>1, <2>1, <2>4, <3>1, AckKeeps
  <2>5. QED
    BY <1>3, <2>2, <2>3, <2>4 DEF Present
<1>4. ASSUME worker[w].at = "acking", UNCHANGED presented
      PROVE  /\ presented' = [presented EXCEPT ![o] = presented[o]] /\ presented[o] >= presented[o]
             /\ worker[w] \in WorkerState /\ worker[w].outcome \in {"succeeded", "skipped", "failed"}
             /\ AckOf(worker[w].outcome) \in AckStatus
             /\ AckOf(worker[w].outcome) = "delivered" \/ worker[w].outcome = "succeeded" =>
                   presented[o] > 0
  BY <1>1, <1>2, <1>4, WorkerHas DEF WorkerFacts, AckOf, AckStatus
<1>5. CASE Ack(w)
  <2> DEFINE outcome == worker[w].outcome
             a == AckOf(outcome)
  <2>1. /\ worker[w].at = "acking" /\ ack' = [ack EXCEPT ![o] = a]
        /\ seen' = [seen EXCEPT ![w][o] = a] /\ Update(w, [worker[w] EXCEPT !.at = "recording"])
        /\ UNCHANGED <<presented, faults>>
    BY <1>5 DEF Ack
  <2>2. [worker[w] EXCEPT !.at = "recording"]
           = [worker[w] EXCEPT !.at = "recording", !.outcome = outcome]
    BY <1>4, <2>1 DEF WorkerState
  <2>3. Update(w, [worker[w] EXCEPT !.at = "recording", !.outcome = outcome])
    BY <2>1, <2>2
  <2>4. /\ presented' = [presented EXCEPT ![o] = presented[o]] /\ presented[o] >= presented[o]
        /\ outcome \in {"succeeded", "skipped", "failed"} /\ a \in AckStatus
        /\ a = "delivered" \/ outcome = "succeeded" => presented[o] > 0
    BY <1>4, <2>1
  <2> HIDE DEF a, outcome
  <2>5. QED
    BY <1>1, <2>1, <2>3, <2>4, AckKeeps
<1>6. CASE AckFails(w)
  <2>1. PICK a \in {"open", AckOf(worker[w].outcome)} : ack' = [ack EXCEPT ![o] = a]
    BY <1>6 DEF AckFails
  <2>2. /\ worker[w].at = "acking" /\ Fault /\ UNCHANGED <<presented, seen>>
        /\ Update(w, [worker[w] EXCEPT !.at = "recording", !.outcome = "failed"])
    BY <1>6 DEF AckFails
  <2>3. /\ presented' = [presented EXCEPT ![o] = presented[o]] /\ presented[o] >= presented[o]
        /\ a \in AckStatus /\ (a = "delivered" => presented[o] > 0)
    BY <1>4, <2>1, <2>2 DEF AckStatus
  <2>4. seen' = [seen EXCEPT ![w][o] = seen[w][o]] /\ (seen[w][o] = "delivered" => presented[o] > 0)
    BY <1>1, <2>2 DEF Inv, RowFacts
  <2>5. QED
    BY <1>1, <2>1, <2>2, <2>3, <2>4, AckKeeps
<1>7. QED
  BY <1>3, <1>5, <1>6

----------------------------------------------------------------------------
(* Receipts. *)

LEMMA NextClaimState ==
    ASSUME Inv, NEW w \in Worker, worker[w].at = "recording"
    PROVE  NextClaim(w) \in WorkerState /\ WorkerFacts(NextClaim(w), fact, presented)
<1>1. /\ worker[w] \in WorkerState
      /\ \A d \in worker[w].found \cup worker[w].batch : d.row \in Op
  BY WorkerHas DEF WorkerFacts
<1>2. /\ NextClaim(w) \in WorkerState /\ NextClaim(w).at = "dispatches"
      /\ NextClaim(w).found = worker[w].found /\ NextClaim(w).batch = worker[w].batch
  BY <1>1 DEF NextClaim, WorkerState
<1>3. QED
  BY <1>1, <1>2 DEF WorkerFacts

\* A receipt that applies is written, announced at most then.
LEMMA ReceiptKeeps ==
    ASSUME Inv, NEW w \in Worker, worker[w].at = "recording",
           NEW s \in WorkerState, Update(w, s), WorkerFacts(s, fact, presented),
           \/ UNCHANGED <<dispatch, announced>>
           \/ /\ Matches(dispatch[worker[w].claim.row], w, worker[w].claim)
              /\ dispatch' = [dispatch EXCEPT ![worker[w].claim.row]
                                 = Receipted(@, worker[w].claim, worker[w].outcome)]
              /\ \/ UNCHANGED announced
                 \/ /\ worker[w].outcome = "succeeded"
                    /\ announced' = [announced EXCEPT ![worker[w].claim.row] = @ + 1],
           UNCHANGED <<intent, fact, ack, seen, presented, replays>>, Fault \/ UNCHANGED faults
    PROVE  Inv'
<1> DEFINE c == worker[w].claim
           o == c.row
           outcome == worker[w].outcome
           row == Receipted(dispatch[o], c, outcome)
<1>1. /\ worker[w] \in WorkerState /\ c \in Claim /\ o \in Op
      /\ outcome \in {"succeeded", "skipped", "failed"}
      /\ outcome = "succeeded" /\ o[2] \in DesktopChannel => presented[o] > 0
  BY WorkerHas DEF WorkerFacts, WorkerState
<1>2. dispatch[o] \in OutboxRow /\ announced[o] \in Nat
  BY <1>1 DEF Inv, TypeOK
<1>3. /\ row \in OutboxRow /\ row.status # "absent" /\ row.status = StatusOf(c, outcome)
      /\ row.status = "succeeded" <=> outcome = "succeeded"
  <2> DEFINE old == dispatch[o]
  <2>1. old \in OutboxRow
    BY <1>2
  <2> HIDE DEF c, outcome, old
  <2>2. /\ Receipted(old, c, outcome) \in OutboxRow
        /\ Receipted(old, c, outcome).status = StatusOf(c, outcome)
        /\ StatusOf(c, outcome) # "absent"
        /\ StatusOf(c, outcome) = "succeeded" <=> outcome = "succeeded"
    BY <1>1, <2>1, ReceiptedTyped
  <2>3. QED
    BY <2>2 DEF old
<1>4. CASE UNCHANGED <<dispatch, announced>>
  <2>1. UNCHANGED rest
    BY <1>4 DEF rest
  <2>2. QED
    BY <2>1, MoveOnlyKeeps
<1>5. CASE /\ Matches(dispatch[o], w, c)
           /\ dispatch' = [dispatch EXCEPT ![o] = Receipted(@, c, outcome)]
           /\ \/ UNCHANGED announced
              \/ outcome = "succeeded" /\ announced' = [announced EXCEPT ![o] = @ + 1]
  <2>1. dispatch[o].status = "running" /\ announced[o] = 0
    BY <1>1, <1>5 DEF Matches, Inv, RowFacts
  <2>2. /\ dispatch' \in [Op -> OutboxRow]
        /\ \A p \in Op : dispatch'[p] = IF p = o THEN row ELSE dispatch[p]
    BY <1>1, <1>3, <1>5 DEF Inv, TypeOK
  <2>3. /\ announced' \in [Op -> Nat]
        /\ \A p \in Op : announced'[p] = announced[p] \/ (p = o /\ announced'[p] = 1 /\ outcome = "succeeded")
    BY <1>1, <1>2, <1>5, <2>1 DEF Inv, TypeOK
  <2> HIDE DEF row
  <2>4. RestTyped' /\ Grows
    BY <2>2, <2>3, FaultTyped DEF RestTyped, Grows, Inv, TypeOK
  <2>5. RowFacts'
    BY <1>1, <1>3, <2>1, <2>2, <2>3 DEF RowFacts, Inv
  <2>6. WorkerFacts(s, fact', presented')
    OBVIOUS
  <2>7. QED
    BY <2>4, <2>5, <2>6, MoveKeeps
<1>6. QED
  BY <1>4, <1>5

LEMMA RecordKeeps ==
    ASSUME Inv, NEW w \in Worker, Record(w) \/ SuccessRejected(w) \/ SuccessLost(w)
    PROVE  Inv'
<1>1. /\ worker[w].at = "recording" /\ worker[w] \in WorkerState
      /\ WorkerFacts(worker[w], fact, presented)
  BY WorkerHas DEF Record, SuccessRejected, SuccessLost
<1>2. CASE Record(w)
  <2>1. NextClaim(w) \in WorkerState /\ WorkerFacts(NextClaim(w), fact, presented)
    BY <1>1, NextClaimState
  <2>2. Update(w, NextClaim(w)) /\ UNCHANGED <<intent, fact, ack, seen, presented, replays, faults>>
    BY <1>2 DEF Record
  <2>3. CASE Matches(dispatch[worker[w].claim.row], w, worker[w].claim)
    <3>1. /\ dispatch' = [dispatch EXCEPT ![worker[w].claim.row]
                             = Receipted(@, worker[w].claim, worker[w].outcome)]
          /\ \/ UNCHANGED announced
             \/ /\ worker[w].outcome = "succeeded"
                /\ announced' = [announced EXCEPT ![worker[w].claim.row] = @ + 1]
      BY <1>2, <2>3 DEF Record, Broadcast
    <3>2. QED
      BY <1>1, <2>1, <2>2, <2>3, <3>1, ReceiptKeeps
  <2>4. CASE ~Matches(dispatch[worker[w].claim.row], w, worker[w].claim)
    <3>1. UNCHANGED <<dispatch, announced>>
      BY <1>2, <2>4 DEF Record, Broadcast
    <3>2. QED
      BY <1>1, <2>1, <2>2, <3>1, ReceiptKeeps
  <2>5. QED
    BY <2>3, <2>4
<1>3. CASE SuccessRejected(w) \/ SuccessLost(w)
  <2> DEFINE s == [worker[w] EXCEPT !.outcome = "failed"]
  <2>1. /\ s \in WorkerState /\ s.at = "recording" /\ s.found = worker[w].found
        /\ s.batch = worker[w].batch /\ s.claim = worker[w].claim /\ s.outcome = "failed"
    BY <1>1 DEF WorkerState
  <2>2. /\ Update(w, s) /\ UNCHANGED <<intent, fact, ack, seen, presented, announced, replays>>
        /\ Fault \/ UNCHANGED faults
    BY <1>3 DEF SuccessRejected, SuccessLost
  <2> HIDE DEF s
  <2>3. WorkerFacts(s, fact, presented)
    BY <1>1, <2>1 DEF WorkerFacts
  <2>4. CASE UNCHANGED dispatch
    BY <1>1, <2>1, <2>2, <2>3, <2>4, ReceiptKeeps
  <2>5. CASE /\ Matches(dispatch[worker[w].claim.row], w, worker[w].claim)
             /\ worker[w].outcome = "succeeded"
             /\ dispatch' = [dispatch EXCEPT ![worker[w].claim.row]
                                = Receipted(@, worker[w].claim, "succeeded")]
    BY <1>1, <2>1, <2>2, <2>3, <2>5, ReceiptKeeps
  <2>6. QED
    BY <1>3, <2>4, <2>5 DEF SuccessRejected, SuccessLost
<1>4. QED
  BY <1>2, <1>3

----------------------------------------------------------------------------
(* A process at the intents. *)

LEMMA ClaimIntentKeeps ==
    ASSUME Inv, NEW w \in Worker, ClaimIntent(w)
    PROVE  Inv'
<1> PICK c \in worker[w].found :
       LET row == intent[c.row]
           left == [worker[w] EXCEPT !.found = @ \ {c}]
       IN IF row.attempt = c.attempt /\ Claimable(row)
          THEN /\ intent' = [intent EXCEPT ![c.row] = Claimed(row, w)]
               /\ Update(w, [left EXCEPT !.batch = @ \cup {Taken(c)}])
          ELSE Update(w, left) /\ UNCHANGED intent
  BY DEF ClaimIntent
<1> DEFINE row == intent[c.row]
           left == [worker[w] EXCEPT !.found = @ \ {c}]
           s == [left EXCEPT !.batch = @ \cup {Taken(c)}]
<1>1. /\ worker[w] \in WorkerState /\ worker[w].at = "intents" /\ c \in Claim /\ c.row \in Request
      /\ \A d \in worker[w].found \cup worker[w].batch : d.row \in Request
      /\ UNCHANGED <<fact, dispatch, ack, seen, presented, announced, replays, faults>>
  BY WorkerHas DEF ClaimIntent, WorkerFacts
<1>2. /\ left \in WorkerState /\ left.at = "intents" /\ left.found \subseteq worker[w].found
      /\ left.batch = worker[w].batch
  BY <1>1 DEF WorkerState
<1>3. CASE ~(row.attempt = c.attempt /\ Claimable(row))
  <2>1. Update(w, left) /\ UNCHANGED <<rest, faults>>
    BY <1>1, <1>3 DEF rest
  <2> HIDE DEF left
  <2>2. WorkerFacts(left, fact, presented)
    BY <1>1, <1>2 DEF WorkerFacts
  <2>3. QED
    BY <1>2, <2>1, <2>2, MoveOnlyKeeps
<1>4. CASE row.attempt = c.attempt /\ Claimable(row)
  <2>1. Update(w, s) /\ intent' = [intent EXCEPT ![c.row] = Claimed(row, w)]
    BY <1>4
  <2>2. row \in OutboxRow /\ Claimed(row, w) \in OutboxRow /\ Claimed(row, w).status = "running"
    BY <1>1, ClaimedTyped DEF Inv, TypeOK
  <2>3. /\ intent' \in [Request -> OutboxRow]
        /\ \A r \in Request : intent'[r] = IF r = c.row THEN Claimed(row, w) ELSE intent[r]
    BY <1>1, <2>1, <2>2 DEF Inv, TypeOK
  <2>4. RestTyped' /\ Grows
    BY <1>1, <2>3 DEF RestTyped, Grows, Inv, TypeOK
  <2>5. RowFacts'
    BY <1>1, <2>2, <2>3 DEF Inv, RowFacts
  <2>6. /\ s \in WorkerState /\ s.at = "intents" /\ s.found = left.found
        /\ s.batch = left.batch \cup {Taken(c)}
    BY <1>1, <1>2, TakenTyped DEF WorkerState
  <2>7. Taken(c).row \in Request
    BY <1>1, TakenTyped
  <2> HIDE DEF left, s
  <2>8. WorkerFacts(s, fact', presented')
    BY <1>1, <1>2, <2>6, <2>7 DEF WorkerFacts
  <2>9. QED
    BY <2>1, <2>4, <2>5, <2>6, <2>8, MoveKeeps
<1>5. QED
  BY <1>3, <1>4

\* The transaction stores a request once, with rows nobody has worked on.
LEMMA MaterialisedTyped ==
    ASSUME Inv, NEW r \in Request, NEW plan \in [Channel -> {"enqueued", "deferred", "none"}]
    PROVE  /\ Materialised(r, plan) \in [Op -> OutboxRow]
           /\ \A o \in Op : \/ Materialised(r, plan)[o] = dispatch[o]
                            \/ /\ o[1] = r /\ o[1] \notin fact
                               /\ Materialised(r, plan)[o].status \in {"pending", "retryable"}
<1>1. ASSUME NEW status \in {"pending", "retryable"}
      PROVE  NewRow(status, FALSE) \in OutboxRow /\ NewRow(status, FALSE).status = status
  BY DEF NewRow, OutboxRow, RowStatus
<1>2. QED
  BY <1>1 DEF Materialised, Inv, TypeOK

LEMMA ConsumeKeeps ==
    ASSUME Inv, NEW w \in Worker, Consume(w)
    PROVE  Inv'
<1>1. PICK c \in worker[w].batch :
         LET stop == [worker[w] EXCEPT !.at = "marking", !.batch = @ \ {c}, !.claim = c]
         IN \/ /\ \E plan \in [Channel -> {"enqueued", "deferred", "none"}] :
                     dispatch' = Materialised(c.row, plan)
               /\ fact' = fact \cup {c.row}
               /\ \E outcome \in {"succeeded", "failed"} : Update(w, [stop EXCEPT !.outcome = outcome])
            \/ /\ Update(w, [stop EXCEPT !.outcome = "failed"])
               /\ UNCHANGED <<fact, dispatch>>
  BY DEF Consume
<1> DEFINE stop == [worker[w] EXCEPT !.at = "marking", !.batch = @ \ {c}, !.claim = c]
           s(outcome) == [stop EXCEPT !.outcome = outcome]
<1>2. /\ worker[w] \in WorkerState /\ c \in Claim /\ c.row \in Request
      /\ \A d \in worker[w].found \cup worker[w].batch : d.row \in Request
      /\ UNCHANGED <<intent, ack, seen, presented, announced, replays, faults>>
  BY WorkerHas DEF Consume, WorkerFacts
<1>3. ASSUME NEW outcome \in {"succeeded", "failed"}, NEW facts, outcome = "succeeded" => c.row \in facts
      PROVE  s(outcome) \in WorkerState /\ WorkerFacts(s(outcome), facts, presented)
  <2>1. /\ s(outcome) \in WorkerState /\ s(outcome).at = "marking" /\ s(outcome).outcome = outcome
        /\ s(outcome).found = worker[w].found /\ s(outcome).batch \subseteq worker[w].batch
        /\ s(outcome).claim = c
    BY <1>2 DEF WorkerState
  <2> HIDE DEF s
  <2>2. QED
    BY <1>2, <1>3, <2>1 DEF WorkerFacts
<1>4. CASE UNCHANGED <<fact, dispatch>> /\ Update(w, s("failed"))
  <2>1. UNCHANGED rest
    BY <1>2, <1>4 DEF rest
  <2>2. s("failed") \in WorkerState /\ WorkerFacts(s("failed"), fact, presented)
    BY <1>3
  <2> HIDE DEF s
  <2>3. QED
    BY <1>2, <1>4, <2>1, <2>2, MoveOnlyKeeps
<1>5. ASSUME NEW plan \in [Channel -> {"enqueued", "deferred", "none"}],
             dispatch' = Materialised(c.row, plan), fact' = fact \cup {c.row},
             NEW outcome \in {"succeeded", "failed"}, Update(w, s(outcome))
      PROVE  Inv'
  <2>1. /\ dispatch' \in [Op -> OutboxRow]
        /\ \A o \in Op : \/ dispatch'[o] = dispatch[o]
                         \/ /\ o[1] = c.row /\ o[1] \notin fact
                            /\ dispatch'[o].status \in {"pending", "retryable"}
    BY <1>2, <1>5, MaterialisedTyped
  <2>2. RestTyped' /\ Grows
    BY <1>2, <1>5, <2>1 DEF RestTyped, Grows, Inv, TypeOK
  <2>3. \A o \in Op : o[1] \notin fact => dispatch[o].status = "absent" /\ announced[o] = 0
    BY DEF Inv, RowFacts
  <2>4. RowFacts'
    BY <1>2, <1>5, <2>1, <2>3 DEF RowFacts, Inv
  <2>5. s(outcome) \in WorkerState /\ WorkerFacts(s(outcome), fact', presented)
    BY <1>3, <1>5
  <2> HIDE DEF s
  <2>6. WorkerFacts(s(outcome), fact', presented')
    BY <1>2, <2>5
  <2>7. QED
    BY <1>5, <2>2, <2>4, <2>5, <2>6, MoveKeeps
<1>6. QED
  BY <1>1, <1>4, <1>5

\* An intent is marked, or left as it is.
LEMMA MarkedKeeps ==
    ASSUME Inv, NEW w \in Worker, worker[w].at = "marking",
           NEW s \in WorkerState, Update(w, s), WorkerFacts(s, fact, presented),
           NEW status \in RowStatus, status = "succeeded" => worker[w].claim.row \in fact,
           \/ UNCHANGED intent
           \/ intent' = [intent EXCEPT ![worker[w].claim.row].status = status,
                                       ![worker[w].claim.row].owner = NoWorker,
                                       ![worker[w].claim.row].expired = FALSE],
           UNCHANGED <<fact, dispatch, ack, seen, presented, announced, replays>>,
           Fault \/ UNCHANGED faults
    PROVE  Inv'
<1> DEFINE r == worker[w].claim.row
           row == [intent[r] EXCEPT !.status = status, !.owner = NoWorker, !.expired = FALSE]
<1>1. r \in Request
  BY WorkerHas DEF WorkerFacts
<1>2. intent[r] \in OutboxRow /\ intent \in [Request -> OutboxRow]
  BY <1>1 DEF Inv, TypeOK
<1>3. row \in OutboxRow /\ row.status = status
  BY <1>2 DEF OutboxRow
<1>4. CASE UNCHANGED intent
  <2>1. UNCHANGED rest
    BY <1>4 DEF rest
  <2>2. QED
    BY <2>1, MoveOnlyKeeps
<1>5. CASE intent' = [intent EXCEPT ![r].status = status, ![r].owner = NoWorker, ![r].expired = FALSE]
  <2>1. intent' = [intent EXCEPT ![r] = row]
    BY <1>1, <1>2, <1>5
  <2> HIDE DEF row
  <2>2. /\ intent' \in [Request -> OutboxRow]
        /\ \A p \in Request : intent'[p] = IF p = r THEN row ELSE intent[p]
    BY <1>1, <1>2, <1>3, <2>1
  <2>3. RestTyped' /\ Grows
    BY <2>2, FaultTyped DEF RestTyped, Grows, Inv, TypeOK
  <2>4. RowFacts'
    BY <1>1, <1>3, <2>2 DEF RowFacts, Inv
  <2>5. QED
    BY <2>3, <2>4, MoveKeeps
<1>6. QED
  BY <1>4, <1>5

LEMMA MarkKeeps ==
    ASSUME Inv, NEW w \in Worker, Mark(w) \/ MarkLost(w)
    PROVE  Inv'
<1>1. /\ worker[w].at = "marking" /\ worker[w] \in WorkerState
      /\ WorkerFacts(worker[w], fact, presented)
      /\ worker[w].outcome \in {"succeeded", "failed"} /\ worker[w].claim \in Claim
      /\ \A d \in worker[w].found \cup worker[w].batch : d.row \in Request
      /\ UNCHANGED <<fact, dispatch, ack, seen, presented, announced, replays>>
      /\ Fault \/ UNCHANGED faults
  BY WorkerHas DEF Mark, MarkLost, WorkerFacts
<1>2. CASE Mark(w)
  <2> DEFINE status == StatusOf(worker[w].claim, worker[w].outcome)
             s == NextIntent(w)
  <2>1. status \in RowStatus /\ (status = "succeeded" => worker[w].claim.row \in fact)
    BY <1>1 DEF StatusOf, RowStatus, WorkerFacts
  <2>2. /\ s \in WorkerState /\ s.at = "intents" /\ s.found = worker[w].found
        /\ s.batch = worker[w].batch /\ Update(w, s)
    BY <1>1, <1>2 DEF NextIntent, WorkerState, Mark
  <2>3. \/ UNCHANGED intent
        \/ intent' = [intent EXCEPT ![worker[w].claim.row].status = status,
                                    ![worker[w].claim.row].owner = NoWorker,
                                    ![worker[w].claim.row].expired = FALSE]
    BY <1>2 DEF Mark
  <2> HIDE DEF s, status
  <2>4. WorkerFacts(s, fact, presented)
    BY <1>1, <2>2 DEF WorkerFacts
  <2>5. QED
    BY <1>1, <2>1, <2>2, <2>3, <2>4, MarkedKeeps
<1>3. CASE MarkLost(w)
  <2> DEFINE s == [worker[w] EXCEPT !.outcome = "failed"]
  <2>1. /\ s \in WorkerState /\ s.at = "marking" /\ s.found = worker[w].found
        /\ s.batch = worker[w].batch /\ s.claim = worker[w].claim /\ s.outcome = "failed"
        /\ Update(w, s)
    BY <1>1, <1>3 DEF WorkerState, MarkLost
  <2> HIDE DEF s
  <2>2. WorkerFacts(s, fact, presented)
    BY <1>1, <2>1 DEF WorkerFacts
  <2>3. "succeeded" \in RowStatus /\ worker[w].claim.row \in fact
    BY <1>1, <1>3 DEF RowStatus, MarkLost, WorkerFacts
  <2>4. \/ UNCHANGED intent
        \/ intent' = [intent EXCEPT ![worker[w].claim.row].status = "succeeded",
                                    ![worker[w].claim.row].owner = NoWorker,
                                    ![worker[w].claim.row].expired = FALSE]
    BY <1>3 DEF MarkLost
  <2>5. QED
    BY <1>1, <2>1, <2>2, <2>3, <2>4, MarkedKeeps
<1>4. QED
  BY <1>2, <1>3

----------------------------------------------------------------------------
(* The first invariant. *)

LEMMA InvInit == Init => Inv
<1> SUFFICES ASSUME Init PROVE Inv
  OBVIOUS
<1>1. /\ NewRow("pending", TRUE) \in OutboxRow /\ NewRow("pending", TRUE).status = "pending"
      /\ NewRow("absent", FALSE) \in OutboxRow /\ NewRow("absent", FALSE).status = "absent"
  BY DEF NewRow, OutboxRow, RowStatus
<1>2. TypeOK
  <2>1. /\ intent \in [Request -> OutboxRow] /\ dispatch \in [Op -> OutboxRow]
        /\ worker \in [Worker -> WorkerState]
    BY <1>1, IdleState DEF Init
  <2>2. ack \in [Op -> AckStatus] /\ seen \in [Worker -> [Op -> AckStatus]]
    BY DEF Init, AckStatus
  <2>3. presented \in [Op -> Nat] /\ announced \in [Op -> Nat] /\ fact \subseteq Request
    BY DEF Init
  <2>4. replays \in 0..MaxReplays /\ faults \in 0..MaxFaults
    BY DeliveryAssumption DEF Init
  <2>5. QED
    BY <2>1, <2>2, <2>3, <2>4 DEF TypeOK
<1>3. WorkerFacts(Idle, fact, presented)
  BY DEF WorkerFacts, Idle
<1>4. WorkersInv
  BY <1>3 DEF Init, WorkersInv
<1>5. RowFacts
  BY <1>1 DEF Init, RowFacts
<1>6. QED
  BY <1>2, <1>4, <1>5 DEF Inv

LEMMA InvNext == Inv /\ [Next]_vars => Inv'
<1> SUFFICES ASSUME Inv, [Next]_vars PROVE Inv'
  OBVIOUS
<1>1. CASE UNCHANGED vars
  BY <1>1 DEF vars, Inv, TypeOK, WorkersInv, RowFacts
<1>2. CASE Next
  BY <1>2, StartsKeep, ClaimRowKeeps, DeliverKeeps, UnreadKeeps, PresentKeeps, RecordKeeps, ClaimIntentKeeps,
     ConsumeKeeps, MarkKeeps, DispatchTimeKeeps, IntentTimeKeeps DEF Next, Step, Failure
<1>3. QED
  BY <1>1, <1>2

LEMMA Invariant == Spec => []Inv
BY InvInit, InvNext, PTL DEF Spec

\* The rows, the processes and the histories keep their shapes (TypeOK).
THEOREM TypeCorrect == Spec => []TypeOK
<1>1. Inv => TypeOK
  BY DEF Inv
<1>2. QED
  BY <1>1, Invariant, PTL

\* A receipt tells the truth: a request marked succeeded is stored, and a
\* desktop row recorded as succeeded was shown (SuccessWasShown).
THEOREM SuccessIsTrue == Spec => []SuccessWasShown
<1>1. Inv => SuccessWasShown
  BY DEF Inv, RowFacts, SuccessWasShown
<1>2. QED
  BY <1>1, Invariant, PTL

\* A delivery is broadcast at most once, and only when it is recorded
\* (AnnouncedOnce).
THEOREM BroadcastsAreUnique == Spec => []AnnouncedOnce
<1>1. Inv => AnnouncedOnce
  BY DEF Inv, RowFacts, AnnouncedOnce
<1>2. QED
  BY <1>1, Invariant, PTL

----------------------------------------------------------------------------
(* Who may show an operation. *)

\* While nothing has gone wrong a process has its claims to itself.
Working(row, w, c) == Matches(row, w, c) /\ ~row.expired

Exclusive(w, s, rows) ==
    /\ s.at \in {"dispatches", "presenting", "acking", "recording"} =>
          /\ \A c \in s.batch : Working(rows[c.row], w, c)
          /\ \A c, d \in s.batch : c.row = d.row => c = d
    /\ s.at \in {"presenting", "acking", "recording"} =>
          /\ Working(rows[s.claim.row], w, s.claim)
          /\ \A c \in s.batch : c.row # s.claim.row

Acking(s, o) == s.at = "acking" /\ s.claim.row = o

ExclusiveInv == \A w \in Worker : Exclusive(w, worker[w], dispatch)

\* An operation is shown by the first process that finds it unacknowledged,
\* and acknowledged before any other looks.
AcksInv ==
    /\ \A w \in Worker :
          /\ worker[w].at = "presenting" => ack[worker[w].claim.row] = "none"
          /\ worker[w].at = "acking" => ack[worker[w].claim.row] = "open"
    /\ \A o \in Op :
          /\ \A w \in Worker :
                /\ seen[w][o] = "none" \/ seen[w][o] = ack[o]
                /\ seen[w][o] = "open" => Acking(worker[w], o)
          /\ ack[o] = "open" => \E w \in Worker : Acking(worker[w], o)
          /\ presented[o] = 0 \/ (presented[o] = 1 /\ ack[o] # "none")

\* The processes that could show o, or show it again, with no further fault.
Risk(o) ==
    {w \in Worker : seen[w][o] \notin {"delivered", "suppressed"} /\ ~Acking(worker[w], o)}

\* A process that presents has not seen the operation settled.
PresentingInv ==
    \A w \in Worker :
        worker[w].at = "presenting" => seen[w][worker[w].claim.row] \notin {"delivered", "suppressed"}

Counted ==
    faults > 0 => \A o \in Op : presented[o] + Cardinality(Risk(o)) <= 1 + Cardinality(Worker) * faults

Presentations ==
    /\ PresentingInv
    /\ faults = 0 => ExclusiveInv /\ AcksInv
    /\ Counted

----------------------------------------------------------------------------
(* The counts. *)

\* A step of process w leaves the others alone.
Local(w) ==
    /\ \A v \in Worker : v # w => worker'[v] = worker[v] /\ \A o \in Op : seen'[v][o] = seen[v][o]
    /\ worker'[w] \in WorkerState

LEMMA StepsAreLocal ==
    ASSUME Inv, Inv', NEW w \in Worker, Step(w) \/ Failure(w)
    PROVE  Local(w)
<1>1. /\ worker \in [Worker -> WorkerState] /\ seen \in [Worker -> [Op -> AckStatus]]
      /\ worker' \in [Worker -> WorkerState]
  BY DEF Inv, TypeOK
<1>2. \A v \in Worker : v # w => worker'[v] = worker[v]
  BY <1>1 DEF Step, Failure, Tick, ClaimRow, Deliver, Present, Ack, Record, SuccessRejected,
     TurnToIntents, ClaimIntent, Consume, Mark, EndTick, AckUnread, AckFails, SuccessLost, MarkLost,
     Interrupted, Update
<1>3. ASSUME NEW x, NEW y, seen' = [seen EXCEPT ![w][x] = y]
      PROVE  \A v \in Worker : v # w => seen'[v] = seen[v]
  BY <1>1, <1>3
<1>4. ASSUME NEW x, seen' = [seen EXCEPT ![w] = x]
      PROVE  \A v \in Worker : v # w => seen'[v] = seen[v]
  BY <1>1, <1>4
<1>5. \A v \in Worker : v # w => seen'[v] = seen[v]
  BY <1>3, <1>4 DEF Step, Failure, Tick, ClaimRow, Deliver, Present, Ack, Record, SuccessRejected,
     TurnToIntents, ClaimIntent, Consume, Mark, EndTick, AckUnread, AckFails, SuccessLost, MarkLost, Interrupted
<1>6. QED
  BY <1>1, <1>2, <1>5 DEF Local

\* A step of process w away from the desktop.
Quiet(w) ==
    /\ UNCHANGED <<ack, seen, presented>>
    /\ worker[w].at \notin {"presenting", "acking"}
    /\ worker'[w].at \notin {"presenting", "acking"}

LEMMA QuietSteps ==
    ASSUME Inv, NEW w \in Worker,
           \/ Tick(w) \/ ClaimRow(w) \/ Record(w) \/ SuccessRejected(w)
           \/ TurnToIntents(w) \/ ClaimIntent(w) \/ Consume(w) \/ Mark(w) \/ EndTick(w)
    PROVE  Quiet(w) /\ UNCHANGED faults
<1>1. worker \in [Worker -> WorkerState] /\ worker[w] \in WorkerState
  BY DEF Inv, TypeOK
<1>2. UNCHANGED <<ack, seen, presented, faults>> /\ worker[w].at \notin {"presenting", "acking"}
  BY DEF Tick, ClaimRow, Record, SuccessRejected, TurnToIntents, ClaimIntent, Consume, Mark, EndTick
<1>3. worker'[w].at \notin {"presenting", "acking"}
  <2>1. ASSUME NEW s, Update(w, s) PROVE worker'[w] = s
    BY <1>1, <2>1 DEF Update
  <2>2. CASE Tick(w) \/ EndTick(w) \/ TurnToIntents(w)
    <3>1. /\ [Idle EXCEPT !.at = "dispatches", !.found = Candidates(dispatch)].at = "dispatches"
          /\ Idle.at = "idle"
          /\ [worker[w] EXCEPT !.at = "intents", !.found = Candidates(intent)].at = "intents"
      BY <1>1 DEF Idle, WorkerState
    <3>2. QED
      BY <2>1, <2>2, <3>1 DEF Tick, EndTick, TurnToIntents
  <2>3. CASE ClaimRow(w)
    <3>1. PICK c \in worker[w].found :
             LET left == [worker[w] EXCEPT !.found = @ \ {c}]
             IN \/ Update(w, left) \/ Update(w, [left EXCEPT !.batch = @ \cup {Taken(c)}])
      BY <2>3 DEF ClaimRow
    <3>2. QED
      BY <1>1, <1>2, <2>1, <3>1 DEF WorkerState
  <2>4. CASE ClaimIntent(w)
    <3>1. PICK c \in worker[w].found :
             LET left == [worker[w] EXCEPT !.found = @ \ {c}]
             IN \/ Update(w, left) \/ Update(w, [left EXCEPT !.batch = @ \cup {Taken(c)}])
      BY <2>4 DEF ClaimIntent
    <3>2. QED
      BY <1>1, <1>2, <2>1, <3>1 DEF WorkerState
  <2>5. CASE Record(w) \/ SuccessRejected(w) \/ Mark(w)
    <3>1. /\ NextClaim(w).at = "dispatches" /\ NextIntent(w).at = "intents"
          /\ [worker[w] EXCEPT !.outcome = "failed"].at = worker[w].at
      BY <1>1 DEF NextClaim, NextIntent, WorkerState
    <3>2. QED
      BY <1>2, <2>1, <2>5, <3>1 DEF Record, SuccessRejected, Mark
  <2>6. CASE Consume(w)
    <3>1. PICK c \in worker[w].batch :
             LET stop == [worker[w] EXCEPT !.at = "marking", !.batch = @ \ {c}, !.claim = c]
             IN \E outcome \in {"succeeded", "failed"} : Update(w, [stop EXCEPT !.outcome = outcome])
      BY <2>6 DEF Consume
    <3>2. QED
      BY <1>1, <2>1, <3>1 DEF WorkerState
  <2>7. QED
    BY <2>2, <2>3, <2>4, <2>5, <2>6
<1>4. QED
  BY <1>2, <1>3 DEF Quiet

\* The desktop steps, with what they do to process w's work.
Delivers(w, c) ==
    /\ worker[w].at = "dispatches" /\ c.row \in Op
    /\ worker'[w].at \in {"presenting", "recording"}
    /\ worker'[w].claim = c /\ worker'[w].batch = worker[w].batch \ {c}
    /\ \A o \in Op : seen'[w][o] = seen[w][o] \/ (o = c.row /\ seen'[w][o] = Known(w, o))
    /\ worker'[w].at = "presenting" =>
          Known(w, c.row) \in {"none", "open"} /\ seen'[w][c.row] = Known(w, c.row)
    /\ UNCHANGED <<dispatch, ack, presented, faults>>

Presents(w, o) ==
    /\ worker[w].at = "presenting" /\ o \in Op /\ worker[w].claim.row = o
    /\ worker'[w].at = "acking"
    /\ worker'[w].claim = worker[w].claim /\ worker'[w].batch = worker[w].batch
    /\ \A p \in Op : /\ ack'[p] = IF p = o THEN "open" ELSE ack[p]
                     /\ seen'[w][p] = IF p = o THEN "open" ELSE seen[w][p]
                     /\ presented'[p] = presented[p] \/ (p = o /\ presented'[p] = presented[p] + 1)
    /\ UNCHANGED <<dispatch, faults>>

Acknowledges(w, o) ==
    /\ worker[w].at = "acking" /\ o \in Op /\ worker[w].claim.row = o
    /\ worker'[w].at = "recording"
    /\ worker'[w].claim = worker[w].claim /\ worker'[w].batch = worker[w].batch
    /\ \E a \in {"delivered", "suppressed"} :
          \A p \in Op : /\ ack'[p] = IF p = o THEN a ELSE ack[p]
                        /\ seen'[w][p] = IF p = o THEN a ELSE seen[w][p]
    /\ UNCHANGED <<dispatch, presented, faults>>

LEMMA DeliverSteps ==
    ASSUME Inv, NEW w \in Worker, Deliver(w)
    PROVE  \E c \in worker[w].batch : Delivers(w, c)
<1>1. PICK c \in worker[w].batch :
         LET desktop == c.row[2] \in DesktopChannel
             outcome == IF desktop THEN Acknowledged(Known(w, c.row)) ELSE "succeeded"
         IN /\ Update(w, [worker[w] EXCEPT !.batch = @ \ {c}, !.claim = c, !.outcome = outcome,
                             !.at = IF outcome = "none" THEN "presenting" ELSE "recording"])
            /\ seen' = IF desktop THEN [seen EXCEPT ![w][c.row] = Known(w, c.row)] ELSE seen
  BY DEF Deliver
<1> DEFINE o == c.row
           desktop == o[2] \in DesktopChannel
           outcome == IF desktop THEN Acknowledged(Known(w, o)) ELSE "succeeded"
           at == IF outcome = "none" THEN "presenting" ELSE "recording"
           s == [worker[w] EXCEPT !.batch = @ \ {c}, !.claim = c, !.outcome = outcome, !.at = at]
<1>2. /\ worker[w] \in WorkerState /\ worker[w].at = "dispatches" /\ c \in Claim /\ o \in Op
      /\ UNCHANGED <<dispatch, ack, presented, faults>>
      /\ seen \in [Worker -> [Op -> AckStatus]] /\ ack \in [Op -> AckStatus]
      /\ worker \in [Worker -> WorkerState]
  BY WorkerHas DEF Deliver, WorkerFacts, Inv, TypeOK
<1>3. Known(w, o) \in AckStatus
  BY <1>2 DEF Known
<1>4. outcome = "none" => desktop /\ Known(w, o) \in {"none", "open"}
  BY <1>3 DEF Acknowledged, AckStatus
<1>5. /\ \A p \in Op : seen'[w][p] = seen[w][p] \/ (p = o /\ seen'[w][p] = Known(w, p))
      /\ desktop => seen'[w][o] = Known(w, o)
  BY <1>1, <1>2
<1>6. Update(w, s)
  BY <1>1
<1> HIDE DEF outcome
<1>7. at \in {"presenting", "recording"} /\ (at = "presenting" => outcome = "none")
  OBVIOUS
<1> HIDE DEF at
<1>8. s.at = at /\ s.claim = c /\ s.batch = worker[w].batch \ {c}
  BY <1>2 DEF WorkerState
<1> HIDE DEF s
<1>9. worker'[w] = s
  BY <1>2, <1>6 DEF Update
<1>10. Delivers(w, c)
  BY <1>2, <1>4, <1>5, <1>7, <1>8, <1>9 DEF Delivers
<1>11. QED
  BY <1>10

LEMMA PresentSteps ==
    ASSUME Inv, NEW w \in Worker, Present(w), UNCHANGED faults
    PROVE  Presents(w, worker[w].claim.row)
<1> DEFINE o == worker[w].claim.row
<1>1. /\ worker[w] \in WorkerState /\ worker[w].at = "presenting" /\ o \in Op
      /\ worker \in [Worker -> WorkerState] /\ seen \in [Worker -> [Op -> AckStatus]]
      /\ ack \in [Op -> AckStatus] /\ presented \in [Op -> Nat] /\ faults \in Nat
  BY WorkerHas DEF Present, WorkerFacts, Inv, TypeOK
<1>2. ~Fault
  BY <1>1 DEF Fault
<1>3. \A p \in Op : /\ ack'[p] = IF p = o THEN "open" ELSE ack[p]
                    /\ seen'[w][p] = IF p = o THEN "open" ELSE seen[w][p]
  BY <1>1 DEF Present
<1>4. \A p \in Op : presented'[p] = presented[p] \/ (p = o /\ presented'[p] = presented[p] + 1)
  BY <1>1, <1>2 DEF Present
<1>5. PICK outcome \in {"succeeded", "skipped"} :
         Update(w, [worker[w] EXCEPT !.at = "acking", !.outcome = outcome])
  BY <1>2 DEF Present
<1>6. /\ worker'[w].at = "acking" /\ worker'[w].claim = worker[w].claim
      /\ worker'[w].batch = worker[w].batch
  BY <1>1, <1>5 DEF Update, WorkerState
<1>7. UNCHANGED dispatch
  BY DEF Present
<1>8. QED
  BY <1>1, <1>3, <1>4, <1>6, <1>7 DEF Presents

LEMMA AckSteps ==
    ASSUME Inv, NEW w \in Worker, Ack(w)
    PROVE  Acknowledges(w, worker[w].claim.row)
<1> DEFINE o == worker[w].claim.row
           a == AckOf(worker[w].outcome)
<1>1. /\ worker[w] \in WorkerState /\ worker[w].at = "acking" /\ o \in Op
      /\ worker \in [Worker -> WorkerState] /\ seen \in [Worker -> [Op -> AckStatus]]
      /\ ack \in [Op -> AckStatus] /\ UNCHANGED <<dispatch, presented, faults>>
  BY WorkerHas DEF Ack, WorkerFacts, Inv, TypeOK
<1>2. a \in {"delivered", "suppressed"}
  BY DEF AckOf
<1>3. ack' = [ack EXCEPT ![o] = a] /\ seen' = [seen EXCEPT ![w][o] = a]
  BY DEF Ack
<1> HIDE DEF a
<1>4. \A p \in Op : /\ ack'[p] = IF p = o THEN a ELSE ack[p]
                    /\ seen'[w][p] = IF p = o THEN a ELSE seen[w][p]
  BY <1>1, <1>3
<1>5. Update(w, [worker[w] EXCEPT !.at = "recording"])
  BY DEF Ack
<1>6. /\ worker'[w].at = "recording" /\ worker'[w].claim = worker[w].claim
      /\ worker'[w].batch = worker[w].batch
  BY <1>1, <1>5 DEF Update, WorkerState
<1>7. QED
  BY <1>1, <1>2, <1>4, <1>6 DEF Acknowledges

\* A fault shows nothing, and makes a process present only what it has no
\* acknowledgement of.
LEMMA FailureSteps ==
    ASSUME Inv, NEW w \in Worker, Failure(w) \/ (Present(w) /\ Fault)
    PROVE  /\ Fault /\ UNCHANGED presented
           /\ worker'[w].at = "presenting" => seen'[w][worker'[w].claim.row] = "none"
<1>1. worker[w] \in WorkerState /\ worker \in [Worker -> WorkerState] /\ faults \in Nat
  BY DEF Inv, TypeOK
<1>2. ASSUME NEW s, Update(w, s) PROVE worker'[w] = s
  BY <1>1, <1>2 DEF Update
<1>3. /\ [worker[w] EXCEPT !.at = "recording", !.outcome = "failed"].at = "recording"
      /\ [worker[w] EXCEPT !.outcome = "failed"].at = worker[w].at
      /\ Idle.at = "idle"
  BY <1>1 DEF WorkerState, Idle
<1>4. CASE AckUnread(w)
  <2>1. PICK c \in worker[w].batch : Update(w, Unread(w, c)) /\ seen[w][c.row] = "none"
    BY <1>4 DEF AckUnread, Unread
  <2>2. worker'[w].claim = c
    BY <1>2, <2>1, UnreadState
  <2>3. QED
    BY <1>4, <2>1, <2>2 DEF AckUnread
<1>5. CASE Failure(w) /\ ~AckUnread(w)
  BY <1>2, <1>3, <1>5 DEF Failure, AckFails, SuccessLost, MarkLost, Interrupted
<1>6. CASE Present(w) /\ Fault
  <2>1. faults' # faults
    BY <1>1, <1>6 DEF Fault
  <2>2. QED
    BY <1>2, <1>3, <1>6, <2>1 DEF Present
<1>7. QED
  BY <1>4, <1>5, <1>6

\* Steps outside the processes.
Outside ==
    \/ \E o \in Op : DispatchRunsOut(o) \/ DispatchLapses(o) \/ DispatchDue(o) \/ Replay(o)
    \/ \E r \in Request : IntentRunsOut(r) \/ IntentLapses(r) \/ IntentDue(r)
    \/ UNCHANGED vars

LEMMA OutsideSteps ==
    ASSUME Outside
    PROVE  UNCHANGED <<worker, seen, ack, presented>> /\ (Fault \/ UNCHANGED faults)
BY DEF Outside, DispatchRunsOut, DispatchLapses, DispatchDue, Replay, IntentRunsOut, IntentLapses,
   IntentDue, LeaseLapses, vars

\* What a step is.
QuietStep(w) ==
    \/ Tick(w) \/ ClaimRow(w) \/ Record(w) \/ SuccessRejected(w)
    \/ TurnToIntents(w) \/ ClaimIntent(w) \/ Consume(w) \/ Mark(w) \/ EndTick(w)

LEMMA StepKinds ==
    ASSUME Inv, Inv', [Next]_vars
    PROVE  \/ Outside
           \/ \E w \in Worker : Local(w) /\ Failure(w)
           \/ \E w \in Worker : Local(w) /\ Present(w) /\ Fault
           \/ \E w \in Worker : Local(w) /\ QuietStep(w)
           \/ \E w \in Worker : Local(w) /\ \E c \in worker[w].batch : Delivers(w, c)
           \/ \E w \in Worker : Local(w) /\ Presents(w, worker[w].claim.row)
           \/ \E w \in Worker : Local(w) /\ Acknowledges(w, worker[w].claim.row)
<1>1. CASE Outside
  BY <1>1
<1>2. CASE \E w \in Worker : Step(w) \/ Failure(w)
  <2>1. PICK w \in Worker : Step(w) \/ Failure(w)
    BY <1>2
  <2>2. Local(w)
    BY <2>1, StepsAreLocal
  <2>3. Step(w) => QuietStep(w) \/ Deliver(w) \/ Present(w) \/ Ack(w)
    BY DEF Step, QuietStep
  <2>4. Present(w) => Fault \/ UNCHANGED faults
    BY DEF Present
  <2>5. QED
    BY <2>1, <2>2, <2>3, <2>4, DeliverSteps, PresentSteps, AckSteps
<1>3. QED
  BY <1>1, <1>2 DEF Next, Outside

LEMMA PresentingKeeps ==
    ASSUME Inv, Inv', PresentingInv, [Next]_vars
    PROVE  PresentingInv'
<1>1. ASSUME NEW w \in Worker, Local(w),
             worker'[w].at = "presenting" =>
                 seen'[w][worker'[w].claim.row] \notin {"delivered", "suppressed"}
      PROVE  PresentingInv'
  <2>1. ASSUME NEW v \in Worker, worker'[v].at = "presenting"
        PROVE  seen'[v][worker'[v].claim.row] \notin {"delivered", "suppressed"}
    <3>1. CASE v = w
      BY <1>1, <2>1, <3>1
    <3>2. CASE v # w
      <4>1. worker'[v] = worker[v] /\ \A o \in Op : seen'[v][o] = seen[v][o]
        BY <1>1, <3>2 DEF Local
      <4>2. worker[v].claim.row \in Op
        BY <2>1, <4>1, WorkerHas DEF WorkerFacts
      <4>3. QED
        BY <2>1, <4>1, <4>2 DEF PresentingInv
    <3>3. QED
      BY <3>1, <3>2
  <2>2. QED
    BY <2>1 DEF PresentingInv
<1>2. CASE Outside
  BY <1>2, OutsideSteps DEF PresentingInv
<1>3. ASSUME NEW w \in Worker, Local(w), Failure(w) \/ (Present(w) /\ Fault) PROVE PresentingInv'
  BY <1>1, <1>3, FailureSteps
<1>4. ASSUME NEW w \in Worker, Local(w), QuietStep(w) PROVE PresentingInv'
  BY <1>1, <1>4, QuietSteps DEF QuietStep, Quiet
<1>5. ASSUME NEW w \in Worker, Local(w), NEW c \in worker[w].batch, Delivers(w, c) PROVE PresentingInv'
  BY <1>1, <1>5 DEF Delivers
<1>6. ASSUME NEW w \in Worker, Local(w), NEW o, Presents(w, o) \/ Acknowledges(w, o) PROVE PresentingInv'
  BY <1>1, <1>6 DEF Presents, Acknowledges
<1>7. QED
  BY <1>2, <1>3, <1>4, <1>5, <1>6, StepKinds

\* Short of a fault, a process that shows an operation uses up its own risk.
Spends(o) ==
    \/ presented'[o] = presented[o] /\ Risk(o)' \subseteq Risk(o)
    \/ \E w \in Risk(o) : presented'[o] = presented[o] + 1 /\ Risk(o)' \subseteq Risk(o) \ {w}

LEMMA RiskIsSpent ==
    ASSUME Inv, Inv', PresentingInv, [Next]_vars, UNCHANGED faults, NEW o \in Op
    PROVE  Spends(o)
<1> DEFINE settled == {"delivered", "suppressed"}
<1>1. ASSUME NEW w \in Worker, Local(w),
             w \in Risk(o)' => w \in Risk(o)
      PROVE  Risk(o)' \subseteq Risk(o)
  <2>1. ASSUME NEW v \in Risk(o)' PROVE v \in Risk(o)
    <3>1. CASE v = w
      BY <1>1, <2>1, <3>1
    <3>2. CASE v # w
      BY <1>1, <2>1, <3>2 DEF Risk, Local, Acking
    <3>3. QED
      BY <3>1, <3>2
  <2>2. QED
    BY <2>1
<1>2. CASE Outside
  BY <1>2, OutsideSteps DEF Spends, Risk, Acking
<1>3. faults \in Nat /\ ~Fault
  BY DEF Inv, TypeOK, Fault
<1>4. ASSUME NEW w \in Worker, Local(w), QuietStep(w) PROVE Spends(o)
  <2>1. Quiet(w)
    BY <1>4, QuietSteps DEF QuietStep
  <2>2. w \in Risk(o)' => w \in Risk(o)
    BY <2>1 DEF Quiet, Risk, Acking
  <2>3. Risk(o)' \subseteq Risk(o)
    BY <1>1, <1>4, <2>2
  <2>4. QED
    BY <2>1, <2>3 DEF Spends, Quiet
<1>5. ASSUME NEW w \in Worker, Local(w), NEW c \in worker[w].batch, Delivers(w, c) PROVE Spends(o)
  <2>1. seen[w][o] \in settled => seen'[w][o] \in settled
    BY <1>5 DEF Delivers, Known
  <2>2. w \in Risk(o)' => w \in Risk(o)
    BY <1>5, <2>1 DEF Delivers, Risk, Acking
  <2>3. Risk(o)' \subseteq Risk(o)
    BY <1>1, <1>5, <2>2
  <2>4. QED
    BY <1>5, <2>3 DEF Spends, Delivers
<1>6. ASSUME NEW w \in Worker, Local(w), Presents(w, worker[w].claim.row) PROVE Spends(o)
  <2>1. CASE worker[w].claim.row = o
    <3>1. w \in Risk(o) /\ w \notin Risk(o)'
      BY <1>6, <2>1 DEF Presents, PresentingInv, Risk, Acking
    <3>2. Risk(o)' \subseteq Risk(o) \ {w}
      BY <1>1, <1>6, <3>1
    <3>3. QED
      BY <1>6, <3>1, <3>2 DEF Spends, Presents
  <2>2. CASE worker[w].claim.row # o
    <3>1. w \in Risk(o)' => w \in Risk(o)
      BY <1>6, <2>2 DEF Presents, Risk, Acking
    <3>2. Risk(o)' \subseteq Risk(o)
      BY <1>1, <1>6, <3>1
    <3>3. QED
      BY <1>6, <2>2, <3>2 DEF Spends, Presents
  <2>3. QED
    BY <2>1, <2>2
<1>7. ASSUME NEW w \in Worker, Local(w), Acknowledges(w, worker[w].claim.row) PROVE Spends(o)
  <2>1. w \in Risk(o)' => w \in Risk(o)
    BY <1>7 DEF Acknowledges, Risk, Acking
  <2>2. Risk(o)' \subseteq Risk(o)
    BY <1>1, <1>7, <2>1
  <2>3. QED
    BY <1>7, <2>2 DEF Spends, Acknowledges
<1>8. QED
  BY <1>2, <1>3, <1>4, <1>5, <1>6, <1>7, FailureSteps, StepKinds

\* A fault shows nothing.
LEMMA FaultsShowNothing ==
    ASSUME Inv, Inv', [Next]_vars, faults' # faults
    PROVE  Fault /\ UNCHANGED presented
<1>1. CASE Outside
  BY <1>1, OutsideSteps
<1>2. ASSUME NEW w \in Worker, QuietStep(w) PROVE FALSE
  BY <1>2, QuietSteps DEF QuietStep
<1>3. QED
  BY <1>1, <1>2, FailureSteps, StepKinds DEF Delivers, Presents, Acknowledges

LEMMA RiskSize ==
    ASSUME NEW o \in Op
    PROVE  /\ IsFiniteSet(Risk(o)) /\ Cardinality(Risk(o)) \in Nat
           /\ Cardinality(Worker) \in Nat /\ Cardinality(Risk(o)) <= Cardinality(Worker)
<1>1. Risk(o) \subseteq Worker
  BY DEF Risk
<1>2. QED
  BY <1>1, DeliveryAssumption, FS_Subset, FS_CardinalityType

Bound == \A o \in Op : presented[o] <= 1 + Cardinality(Worker) * faults

LEMMA CountKeeps ==
    ASSUME Inv, Inv', PresentingInv, Counted, Bound, [Next]_vars
    PROVE  Counted'
<1> SUFFICES ASSUME faults' > 0, NEW o \in Op
             PROVE  presented'[o] + Cardinality(Risk(o)') <= 1 + Cardinality(Worker) * faults'
  BY DEF Counted
<1> DEFINE N == Cardinality(Worker)
<1>1. /\ presented[o] \in Nat /\ presented'[o] \in Nat /\ faults \in Nat /\ faults' \in Nat
  BY DEF Inv, TypeOK
<1>2. /\ IsFiniteSet(Risk(o)) /\ Cardinality(Risk(o)) \in Nat /\ N \in Nat
      /\ Cardinality(Risk(o)) <= N
  BY RiskSize
<1>3. Cardinality(Risk(o)') \in Nat /\ Cardinality(Risk(o)') <= N
  <2>1. Risk(o)' \subseteq Worker
    BY DEF Risk
  <2>2. QED
    BY <2>1, DeliveryAssumption, FS_Subset, FS_CardinalityType
<1> HIDE DEF N
<1>4. N * faults \in Nat
  BY <1>1, <1>2
<1>5. CASE faults' = faults
  <2>1. Spends(o)
    BY <1>5, RiskIsSpent
  <2>2. presented[o] + Cardinality(Risk(o)) <= 1 + N * faults
    BY <1>5 DEF Counted, N
  <2>3. CASE presented'[o] = presented[o] /\ Risk(o)' \subseteq Risk(o)
    <3>1. Cardinality(Risk(o)') <= Cardinality(Risk(o))
      BY <1>2, <2>3, FS_Subset
    <3>2. QED
      BY <1>1, <1>2, <1>3, <1>4, <1>5, <2>2, <2>3, <3>1 DEF N
  <2>4. ASSUME NEW w \in Risk(o), presented'[o] = presented[o] + 1, Risk(o)' \subseteq Risk(o) \ {w}
        PROVE  presented'[o] + Cardinality(Risk(o)') <= 1 + N * faults
    <3>1. IsFiniteSet(Risk(o) \ {w}) /\ Cardinality(Risk(o) \ {w}) = Cardinality(Risk(o)) - 1
      BY <1>2, <2>4, FS_RemoveElement
    <3>2. Cardinality(Risk(o)') <= Cardinality(Risk(o) \ {w})
      BY <2>4, <3>1, FS_Subset
    <3>3. QED
      BY <1>1, <1>2, <1>3, <1>4, <2>2, <2>4, <3>1, <3>2
  <2>5. QED
    BY <1>5, <2>1, <2>3, <2>4 DEF Spends, N
<1>6. CASE faults' # faults
  <2>1. faults' = faults + 1 /\ presented'[o] = presented[o]
    BY <1>6, FaultsShowNothing DEF Fault
  <2>2. presented[o] <= 1 + N * faults
    BY DEF Bound, N
  <2>3. N * (faults + 1) = N * faults + N
    BY <1>1, <1>2
  <2>4. presented[o] + Cardinality(Risk(o)') <= 1 + (N * faults + N)
    BY <1>1, <1>2, <1>3, <1>4, <2>2
  <2>5. QED
    BY <2>1, <2>3, <2>4 DEF N
<1>7. QED
  BY <1>5, <1>6

----------------------------------------------------------------------------
(* Before the first fault. *)

Hands(s) == s.batch \cup {s.claim}

\* Rows that change do not take a claim from the process that works on it.
LEMMA RowsKeepExclusive ==
    ASSUME NEW w \in Worker, NEW s, NEW old, NEW new, Exclusive(w, s, old),
           s.at \in {"dispatches", "presenting", "acking", "recording"} =>
              \A c \in s.batch : Working(old[c.row], w, c) => Working(new[c.row], w, c),
           s.at \in {"presenting", "acking", "recording"} =>
              (Working(old[s.claim.row], w, s.claim) => Working(new[s.claim.row], w, s.claim))
    PROVE  Exclusive(w, s, new)
BY DEF Exclusive

\* A row that is not being worked on may change at will.
LEMMA FreeRowChanges ==
    ASSUME Inv, NEW w \in Worker, Exclusive(w, worker[w], dispatch),
           \A o \in Op : \/ dispatch'[o] = dispatch[o]
                         \/ \A c \in Hands(worker[w]) : c.row = o => ~Working(dispatch[o], w, c)
    PROVE  Exclusive(w, worker[w], dispatch')
<1>1. /\ worker[w].at \in {"dispatches", "presenting", "acking", "recording"} =>
            \A c \in worker[w].batch : c.row \in Op
      /\ worker[w].at \in {"presenting", "acking", "recording"} => worker[w].claim.row \in Op
  BY WorkerHas DEF WorkerFacts
<1>2. QED
  BY <1>1, RowsKeepExclusive DEF Hands

\* What is worked on by w is running, and w's own.
LEMMA WorkingRow ==
    ASSUME NEW row, NEW w, NEW c, Working(row, w, c)
    PROVE  row.status = "running" /\ row.owner = w /\ row.fence = c.fence /\ ~row.expired /\ ~Claimable(row)
BY DEF Working, Matches, Claimable

LEMMA OutsideKeepsExclusive ==
    ASSUME Inv, ExclusiveInv, Outside, UNCHANGED faults
    PROVE  ExclusiveInv'
<1>1. faults \in Nat /\ ~Fault /\ UNCHANGED worker
  BY OutsideSteps DEF Inv, TypeOK, Fault
<1>2. ASSUME NEW w \in Worker, NEW o \in Op
      PROVE  \/ dispatch'[o] = dispatch[o]
             \/ \A c \in Hands(worker[w]) : c.row = o => ~Working(dispatch[o], w, c)
  <2>1. CASE UNCHANGED dispatch
    BY <2>1
  <2>2. ASSUME NEW p \in Op, DispatchRunsOut(p)
        PROVE  \/ dispatch'[o] = dispatch[o]
               \/ \A c \in Hands(worker[w]) : c.row = o => ~Working(dispatch[o], w, c)
    <3>1. CASE o = p
      BY <2>2, <3>1 DEF DispatchRunsOut, LeaseRunsOut, Held, Holds, Hands, Working
    <3>2. CASE o # p
      BY <2>2, <3>2 DEF DispatchRunsOut, Inv, TypeOK
    <3>3. QED
      BY <3>1, <3>2
  <2>3. ASSUME NEW p \in Op, DispatchDue(p) \/ Replay(p)
        PROVE  \/ dispatch'[o] = dispatch[o]
               \/ \A c \in Hands(worker[w]) : c.row = o => ~Working(dispatch[o], w, c)
    <3>1. CASE o = p
      BY <2>3, <3>1, WorkingRow DEF DispatchDue, Replay
    <3>2. CASE o # p
      BY <2>3, <3>2 DEF DispatchDue, Replay, Inv, TypeOK
    <3>3. QED
      BY <3>1, <3>2
  <2>4. QED
    BY <1>1, <2>1, <2>2, <2>3 DEF Outside, DispatchLapses, IntentRunsOut, IntentLapses, IntentDue,
       LeaseLapses, vars
<1>3. ASSUME NEW w \in Worker PROVE Exclusive(w, worker[w], dispatch')
  BY <1>2, FreeRowChanges DEF ExclusiveInv
<1>4. QED
  BY <1>1, <1>3 DEF ExclusiveInv

\* It is enough to look at the process that moves, and at the rows of others.
LEMMA MoveKeepsExclusive ==
    ASSUME Inv, ExclusiveInv, NEW w \in Worker, Local(w), Exclusive(w, worker'[w], dispatch'),
           \A v \in Worker : v # w =>
              \A o \in Op : \/ dispatch'[o] = dispatch[o]
                            \/ \A c \in Hands(worker[v]) : c.row = o => ~Working(dispatch[o], v, c)
    PROVE  ExclusiveInv'
<1>1. ASSUME NEW v \in Worker PROVE Exclusive(v, worker'[v], dispatch')
  <2>1. CASE v = w
    BY <2>1
  <2>2. CASE v # w
    <3>1. Exclusive(v, worker[v], dispatch')
      BY <2>2, FreeRowChanges DEF ExclusiveInv
    <3>2. QED
      BY <2>2, <3>1 DEF Local
  <2>3. QED
    BY <2>1, <2>2
<1>2. QED
  BY <1>1 DEF ExclusiveInv

LEMMA ClaimKeepsExclusive ==
    ASSUME Inv, ExclusiveInv, NEW w \in Worker, Local(w), ClaimRow(w)
    PROVE  ExclusiveInv'
<1> PICK c \in worker[w].found :
       LET row == dispatch[c.row]
           left == [worker[w] EXCEPT !.found = @ \ {c}]
       IN IF row.fence = c.fence /\ Claimable(row)
          THEN /\ dispatch' = [dispatch EXCEPT ![c.row] = Claimed(row, w)]
               /\ Update(w, [left EXCEPT !.batch = @ \cup {Taken(c)}])
          ELSE Update(w, left) /\ UNCHANGED dispatch
  BY DEF ClaimRow
<1> DEFINE row == dispatch[c.row]
           left == [worker[w] EXCEPT !.found = @ \ {c}]
           s == [left EXCEPT !.batch = @ \cup {Taken(c)}]
<1>1. /\ worker[w] \in WorkerState /\ worker[w].at = "dispatches" /\ c \in Claim /\ c.row \in Op
      /\ worker \in [Worker -> WorkerState] /\ dispatch \in [Op -> OutboxRow]
      /\ \A d \in worker[w].batch : d.row \in Op
  BY WorkerHas DEF ClaimRow, WorkerFacts, Inv, TypeOK
<1>2. /\ left.at = "dispatches" /\ left.batch = worker[w].batch
      /\ s.at = "dispatches" /\ s.batch = worker[w].batch \cup {Taken(c)}
  BY <1>1 DEF WorkerState
<1>3. Exclusive(w, worker[w], dispatch)
  BY DEF ExclusiveInv
<1>4. CASE ~(row.fence = c.fence /\ Claimable(row))
  <2>1. Update(w, left) /\ UNCHANGED dispatch
    BY <1>4
  <2> HIDE DEF left
  <2>2. worker'[w] = left
    BY <1>1, <2>1 DEF Update
  <2>3. Exclusive(w, left, dispatch)
    BY <1>1, <1>2, <1>3 DEF Exclusive
  <2>4. QED
    BY <2>1, <2>2, <2>3, MoveKeepsExclusive
<1>5. CASE row.fence = c.fence /\ Claimable(row)
  <2>1. Update(w, s) /\ dispatch' = [dispatch EXCEPT ![c.row] = Claimed(row, w)]
    BY <1>5
  <2>2. /\ row \in OutboxRow /\ row.fence \in Nat
        /\ \A o \in Op : dispatch'[o] = IF o = c.row THEN Claimed(row, w) ELSE dispatch[o]
    BY <1>1, <2>1 DEF OutboxRow
  <2> HIDE DEF left, s
  <2>3. worker'[w] = s
    BY <1>1, <2>1 DEF Update
  <2>4. Taken(c).row = c.row /\ Working(Claimed(row, w), w, Taken(c))
    BY <1>1, <1>5, <2>2, TakenTyped, ClaimedTyped DEF Working, Matches
  <2>5. \A v \in Worker : \A d : ~Working(row, v, d)
    BY <1>5, WorkingRow
  <2>6. \A d \in worker[w].batch : Working(dispatch[d.row], w, d) /\ d.row # c.row
    BY <1>1, <1>3, <2>5 DEF Exclusive
  <2>7. Exclusive(w, s, dispatch')
    BY <1>1, <1>2, <1>3, <2>2, <2>4, <2>6 DEF Exclusive
  <2>8. \A v \in Worker : \A o \in Op : \/ dispatch'[o] = dispatch[o]
                                        \/ \A d \in Hands(worker[v]) : d.row = o => ~Working(dispatch[o], v, d)
    BY <2>2, <2>5
  <2>9. QED
    BY <2>3, <2>7, <2>8, MoveKeepsExclusive
<1>6. QED
  BY <1>4, <1>5

LEMMA RecordKeepsExclusive ==
    ASSUME Inv, ExclusiveInv, NEW w \in Worker, Local(w), Record(w)
    PROVE  ExclusiveInv'
<1> DEFINE c == worker[w].claim
           o == c.row
<1>1. /\ worker[w] \in WorkerState /\ worker[w].at = "recording" /\ o \in Op
      /\ worker \in [Worker -> WorkerState] /\ dispatch \in [Op -> OutboxRow]
      /\ \A d \in worker[w].batch : d.row \in Op
  BY WorkerHas DEF Record, WorkerFacts, Inv, TypeOK
<1>2. /\ Working(dispatch[o], w, c) /\ \A d \in worker[w].batch : d.row # o
      /\ \A d \in worker[w].batch : Working(dispatch[d.row], w, d)
      /\ \A d, e \in worker[w].batch : d.row = e.row => d = e
  BY <1>1 DEF ExclusiveInv, Exclusive
<1>3. /\ worker'[w] = NextClaim(w)
      /\ NextClaim(w).at = "dispatches" /\ NextClaim(w).batch = worker[w].batch
  BY <1>1 DEF Record, Update, NextClaim, WorkerState
<1>4. \A p \in Op : p # o => dispatch'[p] = dispatch[p]
  BY <1>1 DEF Record
<1>5. Exclusive(w, NextClaim(w), dispatch')
  BY <1>1, <1>2, <1>3, <1>4 DEF Exclusive
<1>6. \A v \in Worker : \A d : v # w => ~Working(dispatch[o], v, d)
  BY <1>2, WorkingRow
<1>7. \A v \in Worker : v # w =>
         \A p \in Op : \/ dispatch'[p] = dispatch[p]
                       \/ \A d \in Hands(worker[v]) : d.row = p => ~Working(dispatch[p], v, d)
  BY <1>4, <1>6
<1>8. QED
  BY <1>3, <1>5, <1>7, MoveKeepsExclusive

\* A process that is not at the dispatch rows.
LEMMA ConsumeKeepsExclusive ==
    ASSUME Inv, ExclusiveInv, NEW w \in Worker, Local(w), Consume(w)
    PROVE  ExclusiveInv'
<1>1. PICK c \in worker[w].batch :
         /\ \/ \E plan \in [Channel -> {"enqueued", "deferred", "none"}] :
                  dispatch' = Materialised(c.row, plan)
            \/ UNCHANGED dispatch
         /\ \E outcome \in {"succeeded", "failed"} :
               Update(w, [[worker[w] EXCEPT !.at = "marking", !.batch = @ \ {c}, !.claim = c]
                             EXCEPT !.outcome = outcome])
  BY DEF Consume
<1>2. /\ worker[w] \in WorkerState /\ c.row \in Request /\ worker \in [Worker -> WorkerState]
  BY WorkerHas DEF Consume, WorkerFacts, Inv, TypeOK
<1>3. worker'[w].at = "marking"
  BY <1>1, <1>2 DEF Update, WorkerState
<1>4. Exclusive(w, worker'[w], dispatch')
  BY <1>3 DEF Exclusive
<1>5. \A o \in Op : dispatch'[o] = dispatch[o] \/ dispatch[o].status = "absent"
  BY <1>1, <1>2, MaterialisedTyped DEF Inv, RowFacts
<1>6. QED
  BY <1>4, <1>5, WorkingRow, MoveKeepsExclusive

LEMMA ExclusiveKeeps ==
    ASSUME Inv, Inv', ExclusiveInv, [Next]_vars, UNCHANGED faults
    PROVE  ExclusiveInv'
<1>1. faults \in Nat /\ ~Fault
  BY DEF Inv, TypeOK, Fault
<1>2. ASSUME NEW w \in Worker, Local(w), UNCHANGED dispatch, Exclusive(w, worker'[w], dispatch)
      PROVE  ExclusiveInv'
  BY <1>2, MoveKeepsExclusive
<1>3. ASSUME NEW w \in Worker, Local(w), SuccessRejected(w) PROVE ExclusiveInv'
  <2>1. /\ worker[w] \in WorkerState /\ worker \in [Worker -> WorkerState]
        /\ Exclusive(w, worker[w], dispatch)
    BY DEF ExclusiveInv, Inv, TypeOK
  <2>2. /\ worker'[w].at = worker[w].at /\ worker'[w].batch = worker[w].batch
        /\ worker'[w].claim = worker[w].claim /\ UNCHANGED dispatch
    BY <1>3, <2>1 DEF SuccessRejected, Update, WorkerState
  <2>3. Exclusive(w, worker'[w], dispatch)
    BY <2>1, <2>2 DEF Exclusive
  <2>4. QED
    BY <1>2, <1>3, <2>2, <2>3
<1>4. ASSUME NEW w \in Worker, Local(w),
             Tick(w) \/ TurnToIntents(w) \/ ClaimIntent(w) \/ Mark(w) \/ EndTick(w)
      PROVE  ExclusiveInv'
  <2>1. /\ worker[w] \in WorkerState /\ worker \in [Worker -> WorkerState] /\ UNCHANGED dispatch
    BY <1>4 DEF Inv, TypeOK, Tick, TurnToIntents, ClaimIntent, Mark, EndTick
  <2>2. ASSUME NEW s, Update(w, s) PROVE worker'[w] = s
    BY <2>1, <2>2 DEF Update
  <2>3. CASE Tick(w)
    <3>1. /\ [Idle EXCEPT !.at = "dispatches", !.found = Candidates(dispatch)].at = "dispatches"
          /\ [Idle EXCEPT !.at = "dispatches", !.found = Candidates(dispatch)].batch = {}
      BY DEF Idle
    <3>2. worker'[w].at = "dispatches" /\ worker'[w].batch = {}
      BY <2>2, <2>3, <3>1 DEF Tick
    <3>3. QED
      BY <1>2, <1>4, <2>1, <3>2 DEF Exclusive
  <2>4. CASE ClaimIntent(w)
    <3>1. PICK c \in worker[w].found :
             LET left == [worker[w] EXCEPT !.found = @ \ {c}]
             IN \/ Update(w, left) \/ Update(w, [left EXCEPT !.batch = @ \cup {Taken(c)}])
      BY <2>4 DEF ClaimIntent
    <3>2. worker[w].at = "intents"
      BY <2>4 DEF ClaimIntent
    <3>3. worker'[w].at = "intents"
      BY <2>1, <2>2, <3>1, <3>2 DEF WorkerState
    <3>4. QED
      BY <1>2, <1>4, <2>1, <3>3 DEF Exclusive
  <2>5. CASE TurnToIntents(w) \/ Mark(w) \/ EndTick(w)
    <3>1. /\ [worker[w] EXCEPT !.at = "intents", !.found = Candidates(intent)].at = "intents"
          /\ NextIntent(w).at = "intents" /\ Idle.at = "idle"
      BY <2>1 DEF NextIntent, Idle, WorkerState
    <3>2. worker'[w].at \in {"intents", "idle"}
      BY <2>2, <2>5, <3>1 DEF TurnToIntents, Mark, EndTick
    <3>3. QED
      BY <1>2, <1>4, <2>1, <3>2 DEF Exclusive
  <2>6. QED
    BY <1>4, <2>3, <2>4, <2>5
<1>5. ASSUME NEW w \in Worker, Local(w), NEW c \in worker[w].batch, Delivers(w, c) PROVE ExclusiveInv'
  <2>1. Exclusive(w, worker[w], dispatch)
    BY DEF ExclusiveInv
  <2>2. Exclusive(w, worker'[w], dispatch)
    BY <1>5, <2>1 DEF Delivers, Exclusive
  <2>3. QED
    BY <1>2, <1>5, <2>2 DEF Delivers
<1>6. ASSUME NEW w \in Worker, Local(w), NEW o, Presents(w, o) \/ Acknowledges(w, o) PROVE ExclusiveInv'
  <2>1. Exclusive(w, worker[w], dispatch)
    BY DEF ExclusiveInv
  <2>2. Exclusive(w, worker'[w], dispatch) /\ UNCHANGED dispatch
    BY <1>6, <2>1 DEF Presents, Acknowledges, Exclusive
  <2>3. QED
    BY <1>2, <1>6, <2>2
<1>7. QED
  BY <1>1, <1>3, <1>4, <1>5, <1>6, OutsideKeepsExclusive, ClaimKeepsExclusive, RecordKeepsExclusive,
     ConsumeKeepsExclusive, FailureSteps, StepKinds DEF QuietStep

\* Two processes do not work on one operation.
LEMMA OneAtWork ==
    ASSUME Inv, ExclusiveInv, NEW v \in Worker, NEW w \in Worker,
           worker[v].at \in {"presenting", "acking"},
           worker[w].at \in {"presenting", "acking"}, worker[v].claim.row = worker[w].claim.row
    PROVE  v = w
BY WorkingRow DEF ExclusiveInv, Exclusive

LEMMA AcksHas ==
    ASSUME AcksInv, NEW w \in Worker, NEW o \in Op
    PROVE  /\ seen[w][o] = "none" \/ seen[w][o] = ack[o]
           /\ seen[w][o] = "open" => Acking(worker[w], o)
BY DEF AcksInv

LEMMA AcksKeep ==
    ASSUME Inv, Inv', PresentingInv, ExclusiveInv, AcksInv, [Next]_vars, UNCHANGED faults
    PROVE  AcksInv'
<1>1. faults \in Nat /\ ~Fault
  BY DEF Inv, TypeOK, Fault
<1>2. \A o \in Op : ack[o] \in AckStatus /\ presented[o] \in Nat
  BY DEF Inv, TypeOK
<1>3. CASE Outside
  BY <1>3, OutsideSteps DEF AcksInv, Acking
<1>4. ASSUME NEW w \in Worker, Local(w), QuietStep(w) PROVE AcksInv'
  <2>1. Quiet(w)
    BY <1>4, QuietSteps DEF QuietStep
  <2>2. \A v \in Worker, o \in Op : Acking(worker'[v], o) <=> Acking(worker[v], o)
    BY <1>4, <2>1 DEF Local, Quiet, Acking
  <2>3. \A v \in Worker : worker'[v].at \in {"presenting", "acking"} => worker'[v] = worker[v]
    BY <1>4, <2>1 DEF Local, Quiet
  <2>4. QED
    BY <2>1, <2>2, <2>3 DEF AcksInv, Quiet
<1>5. ASSUME NEW w \in Worker, Local(w), NEW c \in worker[w].batch, Delivers(w, c) PROVE AcksInv'
  <2> DEFINE o == c.row
  <2>1. o \in Op /\ worker[w].at = "dispatches" /\ UNCHANGED <<ack, presented>>
    BY <1>5 DEF Delivers
  <2>2. ack[o] # "open"
    <3>1. ASSUME NEW v \in Worker, Acking(worker[v], o) PROVE FALSE
      <4>1. Working(dispatch[o], v, worker[v].claim)
        BY <3>1 DEF ExclusiveInv, Exclusive, Acking
      <4>2. Working(dispatch[o], w, c)
        BY <1>5, <2>1 DEF ExclusiveInv, Exclusive
      <4>3. v = w
        BY <4>1, <4>2, WorkingRow
      <4>4. QED
        BY <2>1, <3>1, <4>3 DEF Acking
    <3>2. QED
      BY <2>1, <3>1 DEF AcksInv
  <2>3. seen[w][o] \in {"none", ack[o]} /\ Known(w, o) = ack[o]
    BY <2>1, AcksHas DEF Known
  <2>4. worker'[w].at = "presenting" => ack[o] = "none" /\ worker'[w].claim.row = o
    BY <1>5, <2>2, <2>3 DEF Delivers
  <2>5. \A v \in Worker : /\ worker'[v].at = "presenting" => ack'[worker'[v].claim.row] = "none"
                          /\ worker'[v].at = "acking" => ack'[worker'[v].claim.row] = "open"
    BY <1>5, <2>1, <2>4 DEF AcksInv, Local, Delivers
  <2>6. \A v \in Worker, p \in Op : Acking(worker'[v], p) <=> Acking(worker[v], p)
    BY <1>5 DEF Delivers, Local, Acking
  <2>7. \A v \in Worker, p \in Op : seen'[v][p] = seen[v][p] \/ (p = o /\ seen'[v][p] = ack[o])
    BY <1>5, <2>3 DEF Delivers, Local
  <2>8. QED
    BY <2>1, <2>2, <2>5, <2>6, <2>7 DEF AcksInv
<1>6. ASSUME NEW w \in Worker, Local(w), Presents(w, worker[w].claim.row) PROVE AcksInv'
  <2> DEFINE o == worker[w].claim.row
  <2>1. o \in Op /\ worker[w].at = "presenting" /\ ack[o] = "none" /\ presented[o] = 0
    BY <1>6 DEF Presents, AcksInv
  <2>2. \A v \in Worker : v # w /\ worker'[v].at \in {"presenting", "acking"} =>
           worker[v].claim.row \in Op /\ worker[v].claim.row # o /\ worker'[v] = worker[v]
    BY <1>6, <2>1, OneAtWork, WorkerHas DEF Local, WorkerFacts
  <2>3. \A v \in Worker : /\ worker'[v].at = "presenting" => ack'[worker'[v].claim.row] = "none"
                          /\ worker'[v].at = "acking" => ack'[worker'[v].claim.row] = "open"
    BY <1>6, <2>2 DEF AcksInv, Presents
  <2>4. /\ Acking(worker'[w], o)
        /\ \A v \in Worker, p \in Op : Acking(worker[v], p) => Acking(worker'[v], p)
    BY <1>6, <2>1 DEF Presents, Local, Acking
  <2>5. \A v \in Worker, p \in Op :
           \/ v = w /\ p = o /\ seen'[v][p] = "open"
           \/ seen'[v][p] = seen[v][p] /\ (p = o => seen[v][p] = "none")
    <3>1. \A v \in Worker : seen[v][o] = "none"
      BY <2>1, AcksHas
    <3>2. QED
      BY <1>6, <2>1, <3>1 DEF Presents, Local
  <2>6. QED
    BY <1>6, <2>1, <2>3, <2>4, <2>5 DEF Presents, AcksInv
<1>7. ASSUME NEW w \in Worker, Local(w), Acknowledges(w, worker[w].claim.row) PROVE AcksInv'
  <2> DEFINE o == worker[w].claim.row
  <2>1. PICK a \in {"delivered", "suppressed"} :
           \A p \in Op : /\ ack'[p] = IF p = o THEN a ELSE ack[p]
                         /\ seen'[w][p] = IF p = o THEN a ELSE seen[w][p]
    BY <1>7 DEF Acknowledges
  <2>2. o \in Op /\ worker[w].at = "acking" /\ worker'[w].at = "recording" /\ UNCHANGED presented
    BY <1>7 DEF Acknowledges
  <2>3. \A v \in Worker : v # w /\ worker'[v].at \in {"presenting", "acking"} =>
           worker[v].claim.row \in Op /\ worker[v].claim.row # o /\ worker'[v] = worker[v]
    BY <1>7, <2>2, OneAtWork, WorkerHas DEF Local, WorkerFacts
  <2>4. \A v \in Worker : /\ worker'[v].at = "presenting" => ack'[worker'[v].claim.row] = "none"
                          /\ worker'[v].at = "acking" => ack'[worker'[v].claim.row] = "open"
    BY <2>1, <2>2, <2>3 DEF AcksInv
  <2>5. \A v \in Worker, p \in Op : p # o => (Acking(worker[v], p) <=> Acking(worker'[v], p))
    BY <1>7, <2>2 DEF Local, Acking
  <2>6. \A v \in Worker : v # w => ~Acking(worker[v], o)
    BY <2>2, OneAtWork DEF Acking
  <2>7. \A v \in Worker : v # w => seen'[v][o] = "none"
    <3>1. ASSUME NEW v \in Worker, v # w PROVE seen[v][o] = "none"
      <4>1. seen[v][o] \in {"none", ack[o]} /\ seen[v][o] # "open"
        BY <2>2, <2>6, <3>1, AcksHas
      <4>2. ack[o] = "open"
        BY <2>2 DEF AcksInv
      <4>3. QED
        BY <4>1, <4>2
    <3>2. QED
      BY <1>7, <2>2, <3>1 DEF Local
  <2>8. QED
    BY <1>7, <2>1, <2>2, <2>4, <2>5, <2>7 DEF AcksInv, Local
<1>8. QED
  BY <1>1, <1>3, <1>4, <1>5, <1>6, <1>7, FailureSteps, StepKinds

----------------------------------------------------------------------------
(* The second invariant. *)

LEMMA PresentationsInit == Init => Presentations
<1> SUFFICES ASSUME Init PROVE Presentations
  OBVIOUS
<1>1. /\ \A w \in Worker : worker[w] = Idle /\ \A o \in Op : seen[w][o] = "none"
      /\ \A o \in Op : ack[o] = "none" /\ presented[o] = 0
      /\ faults = 0 /\ Idle.at = "idle"
  BY DEF Init, Idle
<1>2. QED
  BY <1>1 DEF Presentations, PresentingInv, ExclusiveInv, Exclusive, AcksInv, Counted

LEMMA PresentationsBound == ASSUME Inv, Presentations PROVE Bound
<1> SUFFICES ASSUME NEW o \in Op PROVE presented[o] <= 1 + Cardinality(Worker) * faults
  BY DEF Bound
<1> DEFINE N == Cardinality(Worker)
<1>1. N \in Nat /\ Cardinality(Risk(o)) \in Nat
  BY RiskSize
<1>2. presented[o] \in Nat /\ faults \in Nat
  BY DEF Inv, TypeOK
<1> HIDE DEF N
<1>3. N * faults \in Nat
  BY <1>1, <1>2
<1>4. CASE faults = 0
  BY <1>2, <1>3, <1>4 DEF Presentations, AcksInv, N
<1>5. CASE faults > 0
  <2>1. presented[o] + Cardinality(Risk(o)) <= 1 + N * faults
    BY <1>5 DEF Presentations, Counted, N
  <2>2. QED
    BY <1>1, <1>2, <1>3, <2>1 DEF N
<1>6. QED
  BY <1>2, <1>4, <1>5

LEMMA PresentationsNext == Inv /\ Presentations /\ [Next]_vars => Presentations'
<1> SUFFICES ASSUME Inv, Presentations, [Next]_vars PROVE Presentations'
  OBVIOUS
<1>1. Inv'
  BY InvNext
<1>2. PresentingInv'
  BY <1>1, PresentingKeeps DEF Presentations
<1>3. Counted'
  BY <1>1, CountKeeps, PresentationsBound DEF Presentations
<1>4. ASSUME faults' = 0 PROVE ExclusiveInv' /\ AcksInv'
  <2>1. faults = 0
    <3>1. CASE faults' # faults
      BY <1>1, <1>4, <3>1, FaultsShowNothing DEF Fault, Inv, TypeOK
    <3>2. QED
      BY <1>4, <3>1
  <2>2. QED
    BY <1>1, <1>4, <2>1, ExclusiveKeeps, AcksKeep DEF Presentations
<1>5. QED
  BY <1>2, <1>3, <1>4 DEF Presentations

\* The user sees an operation again only after a fault, which costs at most one
\* presentation in each process (ShownAgainOnlyAfterFault).
THEOREM ShownAgainIsBounded == Spec => []ShownAgainOnlyAfterFault
<1>1. Inv /\ Presentations => ShownAgainOnlyAfterFault
  BY PresentationsBound DEF Bound, ShownAgainOnlyAfterFault
<1>2. QED
  BY <1>1, Invariant, PresentationsInit, PresentationsNext, PTL DEF Spec

----------------------------------------------------------------------------
(* What a process works on. *)

\* Rows that exist; and only the desktop is presented to, or declines.
Delivering(s, rows) ==
    /\ s.at \in {"dispatches", "presenting", "acking", "recording"} =>
          \A c \in s.found \cup s.batch : rows[c.row].status # "absent"
    /\ s.at = "presenting" => rows[s.claim.row].status # "absent"
    /\ s.at \in {"presenting", "acking"} => s.claim.row[2] \in DesktopChannel
    /\ s.at = "recording" /\ s.outcome = "skipped" => s.claim.row[2] \in DesktopChannel

DeliveringInv == \A w \in Worker : Delivering(worker[w], dispatch)

\* No row goes.
RowsStay == \A o \in Op : dispatch[o].status # "absent" => dispatch'[o].status # "absent"

LEMMA DeliveringInit == Init => DeliveringInv
<1>1. Idle.at = "idle" /\ (Init => \A w \in Worker : worker[w] = Idle)
  BY DEF Init, Idle
<1>2. QED
  BY <1>1 DEF DeliveringInv, Delivering

LEMMA IntentChange ==
    ASSUME Inv, NEW r \in Request, NEW row, intent' = [intent EXCEPT ![r] = row]
    PROVE  \A q \in Request : intent'[q] = IF q = r THEN row ELSE intent[q]
BY DEF Inv, TypeOK

\* What a claim and a receipt do to the dispatch row of process w's claim.
LEMMA ClaimRowChanges ==
    ASSUME Inv, NEW w \in Worker, ClaimRow(w)
    PROVE  \/ UNCHANGED dispatch
           \/ \E o \in Op : /\ dispatch[o].status \in {"pending", "retryable", "running"}
                            /\ \A p \in Op : dispatch'[p].status =
                                  IF p = o THEN "running" ELSE dispatch[p].status
<1>1. PICK c \in worker[w].found :
         \/ UNCHANGED dispatch
         \/ Claimable(dispatch[c.row]) /\ dispatch' = [dispatch EXCEPT ![c.row] = Claimed(dispatch[c.row], w)]
  BY DEF ClaimRow
<1>2. c.row \in Op /\ dispatch[c.row] \in OutboxRow
  BY WorkerHas DEF ClaimRow, WorkerFacts, Inv, TypeOK
<1>3. Claimed(dispatch[c.row], w).status = "running"
  BY <1>2, ClaimedTyped
<1>4. ASSUME Claimable(dispatch[c.row]), dispatch' = [dispatch EXCEPT ![c.row] = Claimed(dispatch[c.row], w)]
      PROVE  /\ dispatch[c.row].status \in {"pending", "retryable", "running"}
             /\ \A p \in Op : dispatch'[p].status = IF p = c.row THEN "running" ELSE dispatch[p].status
  BY <1>2, <1>3, <1>4 DEF Claimable, Inv, TypeOK
<1>5. QED
  BY <1>1, <1>2, <1>4

LEMMA ReceiptChanges ==
    ASSUME Inv, NEW w \in Worker, Record(w) \/ SuccessLost(w)
    PROVE  LET c == worker[w].claim
               o == c.row
               outcome == worker[w].outcome
           IN /\ worker[w].at = "recording" /\ o \in Op /\ outcome \in {"succeeded", "skipped", "failed"}
              /\ \/ UNCHANGED <<dispatch, announced>>
                 \/ /\ dispatch[o].status = "running"
                    /\ \A p \in Op : dispatch'[p].status =
                          IF p = o THEN StatusOf(c, outcome) ELSE dispatch[p].status
                    /\ announced' = announced \/ (outcome = "succeeded" /\ announced' = [announced EXCEPT ![o] = @ + 1])
<1> DEFINE c == worker[w].claim
           o == c.row
           outcome == worker[w].outcome
<1>1. /\ worker[w].at = "recording" /\ worker[w] \in WorkerState /\ c \in Claim /\ o \in Op
      /\ outcome \in {"succeeded", "skipped", "failed"}
  BY WorkerHas DEF Record, SuccessLost, WorkerFacts, WorkerState
<1>2. dispatch[o] \in OutboxRow
  BY <1>1 DEF Inv, TypeOK
<1>3. Receipted(dispatch[o], c, outcome).status = StatusOf(c, outcome)
  BY <1>1, <1>2, ReceiptedTyped
<1>4. \/ UNCHANGED <<dispatch, announced>>
      \/ /\ Matches(dispatch[o], w, c)
         /\ dispatch' = [dispatch EXCEPT ![o] = Receipted(dispatch[o], c, outcome)]
         /\ announced' = announced \/ (outcome = "succeeded" /\ announced' = [announced EXCEPT ![o] = @ + 1])
  BY DEF Record, SuccessLost, Broadcast
<1> HIDE DEF c, o, outcome
<1>5. CASE /\ Matches(dispatch[o], w, c)
           /\ dispatch' = [dispatch EXCEPT ![o] = Receipted(dispatch[o], c, outcome)]
  <2>1. \A p \in Op : dispatch'[p].status = IF p = o THEN StatusOf(c, outcome) ELSE dispatch[p].status
    BY <1>1, <1>3, <1>5 DEF Inv, TypeOK
  <2>2. QED
    BY <1>1, <1>4, <1>5, <2>1 DEF Matches, c, o, outcome
<1>6. CASE UNCHANGED <<dispatch, announced>>
  BY <1>1, <1>6 DEF c, o, outcome
<1>7. QED
  BY <1>4, <1>5, <1>6

\* What time and a replay do.
LEMMA TimeChanges ==
    ASSUME Inv, NEW o \in Op, DispatchRunsOut(o) \/ DispatchLapses(o) \/ DispatchDue(o) \/ Replay(o)
    PROVE  \/ \A p \in Op : dispatch'[p].status = dispatch[p].status
           \/ /\ dispatch[o].status = "dead_letter"
              /\ \A p \in Op : dispatch'[p].status = IF p = o THEN "retryable" ELSE dispatch[p].status
<1>1. dispatch \in [Op -> OutboxRow]
  BY DEF Inv, TypeOK
<1>2. CASE DispatchRunsOut(o) \/ DispatchLapses(o) \/ DispatchDue(o)
  BY <1>1, <1>2 DEF DispatchRunsOut, DispatchLapses, DispatchDue, OutboxRow
<1>3. CASE Replay(o)
  BY <1>1, <1>3 DEF Replay, OutboxRow
<1>4. QED
  BY <1>2, <1>3

LEMMA RowsStayNext == Inv /\ [Next]_vars => RowsStay
<1> SUFFICES ASSUME Inv, [Next]_vars PROVE RowsStay
  OBVIOUS
<1>1. CASE UNCHANGED dispatch
  BY <1>1 DEF RowsStay
<1>2. ASSUME NEW o \in Op, NEW status, status # "absent",
             \A p \in Op : dispatch'[p].status = IF p = o THEN status ELSE dispatch[p].status
      PROVE  RowsStay
  BY <1>2 DEF RowsStay
<1>3. ASSUME NEW w \in Worker, ClaimRow(w) PROVE RowsStay
  BY <1>1, <1>2, <1>3, ClaimRowChanges
<1>4. ASSUME NEW w \in Worker, Record(w) \/ SuccessLost(w) PROVE RowsStay
  <2> DEFINE c == worker[w].claim
  <2>1. worker[w].at = "recording"
    BY <1>4 DEF Record, SuccessLost
  <2>2. c \in Claim /\ worker[w].outcome \in {"succeeded", "skipped", "failed"}
    BY <1>4, <2>1, WorkerHas, ReceiptChanges DEF WorkerFacts
  <2>3. StatusOf(c, worker[w].outcome) # "absent"
    BY <2>2 DEF StatusOf
  <2>4. QED
    BY <1>1, <1>2, <1>4, <2>3, ReceiptChanges
<1>5. ASSUME NEW w \in Worker, Consume(w) PROVE RowsStay
  <2>1. PICK c \in worker[w].batch :
           \/ UNCHANGED dispatch
           \/ \E plan \in [Channel -> {"enqueued", "deferred", "none"}] : dispatch' = Materialised(c.row, plan)
    BY <1>5 DEF Consume
  <2>2. c.row \in Request
    BY <1>5, WorkerHas DEF Consume, WorkerFacts
  <2>3. QED
    BY <2>1, <2>2, MaterialisedTyped DEF RowsStay
<1>6. ASSUME NEW o \in Op, DispatchRunsOut(o) \/ DispatchLapses(o) \/ DispatchDue(o) \/ Replay(o)
      PROVE  RowsStay
  BY <1>2, <1>6, TimeChanges DEF RowsStay
<1>7. QED
  BY <1>1, <1>3, <1>4, <1>5, <1>6
  DEF Next, Step, Failure, Tick, Deliver, Present, Ack, SuccessRejected, TurnToIntents, ClaimIntent, Mark,
      EndTick, AckUnread, AckFails, MarkLost, Interrupted, IntentRunsOut, IntentLapses, IntentDue, vars

LEMMA DeliveringKeeps ==
    ASSUME Inv, DeliveringInv, RowsStay, NEW w \in Worker, NEW s, Update(w, s), Delivering(s, dispatch')
    PROVE  DeliveringInv'
<1>1. \A v \in Worker : worker'[v] = IF v = w THEN s ELSE worker[v]
  BY DEF Update, Inv, TypeOK
<1>2. ASSUME NEW v \in Worker PROVE Delivering(worker[v], dispatch')
  <2>1. Delivering(worker[v], dispatch) /\ WorkerFacts(worker[v], fact, presented)
    BY WorkerHas DEF DeliveringInv
  <2>2. QED
    BY <2>1 DEF Delivering, WorkerFacts, RowsStay
<1>3. QED
  BY <1>1, <1>2 DEF DeliveringInv

\* At the intents, or at rest.
LEMMA AwayKeeps ==
    ASSUME Inv, DeliveringInv, RowsStay, NEW w \in Worker, NEW s, Update(w, s),
           s.at \in {"idle", "intents", "marking"}
    PROVE  DeliveringInv'
BY DeliveringKeeps DEF Delivering

\* With the same claims as before: from state s of the process.
LEMMA SameClaims ==
    ASSUME Inv, DeliveringInv, RowsStay, NEW w \in Worker, NEW s, Update(w, s),
           worker[w].at \in {"dispatches", "presenting", "acking", "recording"},
           \A c \in s.found \cup s.batch : \E b \in worker[w].found \cup worker[w].batch : c.row = b.row,
           \/ s.at = "dispatches"
           \/ /\ worker[w].at \in {"presenting", "acking"} /\ s.at \in {"acking", "recording"}
              /\ s.claim = worker[w].claim
           \/ s.at = "recording" /\ s.outcome # "skipped"
    PROVE  DeliveringInv'
<1>1. Delivering(worker[w], dispatch) /\ WorkerFacts(worker[w], fact, presented)
  BY WorkerHas DEF DeliveringInv
<1>2. \A c \in s.found \cup s.batch : dispatch'[c.row].status # "absent"
  BY <1>1 DEF Delivering, WorkerFacts, RowsStay
<1>3. Delivering(s, dispatch')
  BY <1>1, <1>2 DEF Delivering
<1>4. QED
  BY <1>3, DeliveringKeeps

LEMMA DeliverKeepsDelivering ==
    ASSUME Inv, DeliveringInv, RowsStay, NEW w \in Worker, Deliver(w)
    PROVE  DeliveringInv'
<1>1. PICK c \in worker[w].batch :
         LET desktop == c.row[2] \in DesktopChannel
             outcome == IF desktop THEN Acknowledged(Known(w, c.row)) ELSE "succeeded"
         IN Update(w, [worker[w] EXCEPT !.batch = @ \ {c}, !.claim = c, !.outcome = outcome,
                          !.at = IF outcome = "none" THEN "presenting" ELSE "recording"])
  BY DEF Deliver
<1> DEFINE desktop == c.row[2] \in DesktopChannel
           outcome == IF desktop THEN Acknowledged(Known(w, c.row)) ELSE "succeeded"
           at == IF outcome = "none" THEN "presenting" ELSE "recording"
           s == [worker[w] EXCEPT !.batch = @ \ {c}, !.claim = c, !.outcome = outcome, !.at = at]
<1>2. /\ worker[w] \in WorkerState /\ worker[w].at = "dispatches"
      /\ Delivering(worker[w], dispatch) /\ WorkerFacts(worker[w], fact, presented)
  BY WorkerHas DEF Deliver, DeliveringInv
<1>3. Update(w, s)
  BY <1>1
<1>4. outcome \in {"none", "skipped"} => desktop
  OBVIOUS
<1> HIDE DEF desktop, outcome
<1>5. /\ at \in {"presenting", "recording"} /\ (at = "presenting" => outcome = "none")
  OBVIOUS
<1> HIDE DEF at
<1>6. /\ s.at = at /\ s.claim = c /\ s.outcome = outcome
      /\ s.found = worker[w].found /\ s.batch = worker[w].batch \ {c}
  BY <1>2 DEF WorkerState
<1> HIDE DEF s
<1>7. \A b \in worker[w].found \cup worker[w].batch : dispatch'[b.row].status # "absent"
  BY <1>2 DEF Delivering, WorkerFacts, RowsStay
<1>8. Delivering(s, dispatch')
  BY <1>4, <1>5, <1>6, <1>7 DEF Delivering, desktop
<1>9. QED
  BY <1>3, <1>8, DeliveringKeeps

LEMMA UnreadKeepsDelivering ==
    ASSUME Inv, DeliveringInv, RowsStay, NEW w \in Worker, AckUnread(w)
    PROVE  DeliveringInv'
<1>1. PICK c \in worker[w].batch : Update(w, Unread(w, c)) /\ c.row[2] \in DesktopChannel
  BY DEF AckUnread, Unread
<1>2. /\ worker[w].at = "dispatches"
      /\ Delivering(worker[w], dispatch) /\ WorkerFacts(worker[w], fact, presented)
  BY WorkerHas DEF AckUnread, DeliveringInv
<1>3. \A b \in worker[w].found \cup worker[w].batch : dispatch'[b.row].status # "absent"
  BY <1>2 DEF Delivering, WorkerFacts, RowsStay
<1>4. Delivering(Unread(w, c), dispatch')
  BY <1>1, <1>3, UnreadState DEF Delivering
<1>5. QED
  BY <1>1, <1>4, DeliveringKeeps

LEMMA DeliveringNext == Inv /\ DeliveringInv /\ [Next]_vars => DeliveringInv'
<1> SUFFICES ASSUME Inv, DeliveringInv, [Next]_vars PROVE DeliveringInv'
  OBVIOUS
<1>0. RowsStay /\ \A w \in Worker : worker[w] \in WorkerState
  BY RowsStayNext, WorkerHas
<1>1. CASE UNCHANGED worker
  <2>1. \A w \in Worker : WorkerFacts(worker[w], fact, presented)
    BY WorkerHas
  <2>2. QED
    BY <1>0, <1>1, <2>1 DEF DeliveringInv, Delivering, WorkerFacts, RowsStay
<1>2. ASSUME NEW w \in Worker, Tick(w) PROVE DeliveringInv'
  <2> DEFINE s == [Idle EXCEPT !.at = "dispatches", !.found = Candidates(dispatch)]
  <2>1. s.at = "dispatches" /\ s.found = Candidates(dispatch) /\ s.batch = {} /\ Update(w, s)
    BY <1>2 DEF Tick, Idle
  <2>2. DOMAIN dispatch = Op /\ UNCHANGED dispatch
    BY <1>2 DEF Tick, Inv, TypeOK
  <2>3. \A c \in Candidates(dispatch) : dispatch'[c.row].status # "absent"
    BY <2>2 DEF Candidates, Claimable
  <2> HIDE DEF s
  <2>4. Delivering(s, dispatch')
    BY <2>1, <2>3 DEF Delivering
  <2>5. QED
    BY <1>0, <2>1, <2>4, DeliveringKeeps
<1>3. ASSUME NEW w \in Worker, ClaimRow(w) PROVE DeliveringInv'
  <2>1. PICK c \in worker[w].found :
           LET left == [worker[w] EXCEPT !.found = @ \ {c}]
           IN \/ Update(w, left) \/ Update(w, [left EXCEPT !.batch = @ \cup {Taken(c)}])
    BY <1>3 DEF ClaimRow
  <2> DEFINE left == [worker[w] EXCEPT !.found = @ \ {c}]
             more == [left EXCEPT !.batch = @ \cup {Taken(c)}]
  <2>2. Taken(c).row = c.row /\ worker[w].at = "dispatches"
    BY <1>3, WorkerHas, TakenTyped DEF ClaimRow
  <2>3. /\ left.at = "dispatches" /\ left.found = worker[w].found \ {c} /\ left.batch = worker[w].batch
        /\ more.at = "dispatches" /\ more.found = worker[w].found \ {c}
        /\ more.batch = worker[w].batch \cup {Taken(c)}
    BY <1>0, <2>2 DEF WorkerState
  <2>4. Update(w, left) \/ Update(w, more)
    BY <2>1
  <2> HIDE DEF left, more
  <2>5. QED
    BY <1>0, <2>2, <2>3, <2>4, SameClaims
<1>4. ASSUME NEW w \in Worker, Present(w) \/ Ack(w) \/ AckFails(w) PROVE DeliveringInv'
  <2>1. worker[w].at \in {"presenting", "acking"}
    BY <1>4 DEF Present, Ack, AckFails
  <2>2. ASSUME NEW s, Update(w, s), s.found = worker[w].found, s.batch = worker[w].batch,
               s.claim = worker[w].claim, s.at \in {"acking", "recording"}
        PROVE  DeliveringInv'
    BY <1>0, <2>1, <2>2, SameClaims
  <2>3. ASSUME NEW at \in {"acking", "recording"}, NEW outcome,
               Update(w, [worker[w] EXCEPT !.at = at, !.outcome = outcome])
        PROVE  DeliveringInv'
    <3> DEFINE s == [worker[w] EXCEPT !.at = at, !.outcome = outcome]
    <3>1. /\ s.found = worker[w].found /\ s.batch = worker[w].batch
          /\ s.claim = worker[w].claim /\ s.at = at /\ Update(w, s)
      BY <1>0, <2>3 DEF WorkerState
    <3> HIDE DEF s
    <3>2. QED
      BY <2>2, <3>1
  <2>4. ASSUME Update(w, [worker[w] EXCEPT !.at = "recording"]) PROVE DeliveringInv'
    <3> DEFINE s == [worker[w] EXCEPT !.at = "recording"]
    <3>1. /\ s.found = worker[w].found /\ s.batch = worker[w].batch
          /\ s.claim = worker[w].claim /\ s.at = "recording" /\ Update(w, s)
      BY <1>0, <2>4 DEF WorkerState
    <3> HIDE DEF s
    <3>2. QED
      BY <2>2, <3>1
  <2>5. QED
    BY <1>4, <2>3, <2>4 DEF Present, Ack, AckFails
<1>5. ASSUME NEW w \in Worker, Record(w) PROVE DeliveringInv'
  <2>1. /\ Update(w, NextClaim(w)) /\ worker[w].at = "recording" /\ NextClaim(w).at = "dispatches"
        /\ NextClaim(w).found = worker[w].found /\ NextClaim(w).batch = worker[w].batch
    BY <1>0, <1>5 DEF Record, NextClaim, WorkerState
  <2>2. QED
    BY <1>0, <2>1, SameClaims
<1>6. ASSUME NEW w \in Worker, SuccessRejected(w) \/ SuccessLost(w) PROVE DeliveringInv'
  <2> DEFINE s == [worker[w] EXCEPT !.outcome = "failed"]
  <2>1. /\ Update(w, s) /\ worker[w].at = "recording" /\ s.at = worker[w].at /\ s.outcome = "failed"
        /\ s.found = worker[w].found /\ s.batch = worker[w].batch
    BY <1>0, <1>6 DEF SuccessRejected, SuccessLost, WorkerState
  <2> HIDE DEF s
  <2>2. QED
    BY <1>0, <2>1, SameClaims
<1>7. ASSUME NEW w \in Worker,
             \/ TurnToIntents(w) \/ ClaimIntent(w) \/ Consume(w) \/ Mark(w) \/ EndTick(w)
             \/ MarkLost(w) \/ Interrupted(w)
      PROVE  DeliveringInv'
  <2>1. ASSUME NEW s, Update(w, s), s.at \in {"idle", "intents", "marking"} PROVE DeliveringInv'
    BY <1>0, <2>1, AwayKeeps
  <2>2. CASE EndTick(w) \/ Interrupted(w) \/ Mark(w)
    <3>1. Idle.at = "idle" /\ NextIntent(w).at = "intents"
      BY <1>0 DEF Idle, NextIntent, WorkerState
    <3>2. QED
      BY <2>1, <2>2, <3>1 DEF EndTick, Interrupted, Mark
  <2>3. CASE TurnToIntents(w)
    <3> DEFINE s == [worker[w] EXCEPT !.at = "intents", !.found = Candidates(intent)]
    <3>1. Update(w, s) /\ s.at = "intents"
      BY <1>0, <2>3 DEF TurnToIntents, WorkerState
    <3> HIDE DEF s
    <3>2. QED
      BY <2>1, <3>1
  <2>4. CASE MarkLost(w)
    <3> DEFINE s == [worker[w] EXCEPT !.outcome = "failed"]
    <3>1. Update(w, s) /\ s.at = "marking"
      BY <1>0, <2>4 DEF MarkLost, WorkerState
    <3> HIDE DEF s
    <3>2. QED
      BY <2>1, <3>1
  <2>5. CASE ClaimIntent(w)
    <3>1. PICK c \in worker[w].found :
             LET left == [worker[w] EXCEPT !.found = @ \ {c}]
             IN \/ Update(w, left) \/ Update(w, [left EXCEPT !.batch = @ \cup {Taken(c)}])
      BY <2>5 DEF ClaimIntent
    <3> DEFINE left == [worker[w] EXCEPT !.found = @ \ {c}]
               more == [left EXCEPT !.batch = @ \cup {Taken(c)}]
    <3>2. left.at = "intents" /\ more.at = "intents" /\ (Update(w, left) \/ Update(w, more))
      BY <1>0, <2>5, <3>1 DEF ClaimIntent, WorkerState
    <3> HIDE DEF left, more
    <3>3. QED
      BY <2>1, <3>2
  <2>6. CASE Consume(w)
    <3>1. PICK c \in worker[w].batch, outcome \in {"succeeded", "failed"} :
             LET stop == [worker[w] EXCEPT !.at = "marking", !.batch = @ \ {c}, !.claim = c]
             IN Update(w, [stop EXCEPT !.outcome = outcome])
      BY <2>6 DEF Consume
    <3> DEFINE stop == [worker[w] EXCEPT !.at = "marking", !.batch = @ \ {c}, !.claim = c]
               s == [stop EXCEPT !.outcome = outcome]
    <3>2. Update(w, s) /\ s.at = "marking"
      BY <1>0, <3>1 DEF WorkerState
    <3> HIDE DEF s
    <3>3. QED
      BY <2>1, <3>2
  <2>7. QED
    BY <1>7, <2>2, <2>3, <2>4, <2>5, <2>6
<1>8. QED
  BY <1>0, <1>1, <1>2, <1>3, <1>4, <1>5, <1>6, <1>7, DeliverKeepsDelivering,
     UnreadKeepsDelivering
  DEF Next, Step, Failure, DispatchRunsOut, DispatchLapses, DispatchDue, Replay, IntentRunsOut, IntentLapses,
      IntentDue, vars

----------------------------------------------------------------------------
(* The contract. *)

LEMMA StatusValues ==
    /\ RequestOf("succeeded") = "stored" /\ RequestOf("dead_letter") = "dead"
    /\ \A status \in {"absent", "pending", "retryable", "running", "skipped"} : RequestOf(status) = "open"
    /\ DeliveryOf("succeeded") = "delivered" /\ DeliveryOf("dead_letter") = "dead"
    /\ DeliveryOf("absent") = "absent" /\ DeliveryOf("skipped") = "skipped"
    /\ \A status \in {"pending", "retryable", "running"} : DeliveryOf(status) = "open"
BY DEF RequestOf, DeliveryOf

Seen == <<fact, Requests, Deliveries, Shown, Told>>

LEMMA Stutters == ASSUME UNCHANGED Seen PROVE [Contract!ContractNext]_(Contract!contractVars)
BY DEF Seen, Contract!contractVars

LEMMA SameRows ==
    ASSUME \A o \in Op : DeliveryOf(dispatch'[o].status) = DeliveryOf(dispatch[o].status)
    PROVE  UNCHANGED Deliveries
BY DEF Deliveries

LEMMA SameIntents ==
    ASSUME \A r \in Request : RequestOf(intent'[r].status) = RequestOf(intent[r].status)
    PROVE  UNCHANGED Requests
BY DEF Requests

\* One delivery changes.
LEMMA OneRow ==
    ASSUME NEW o \in Op, NEW status,
           \A p \in Op : dispatch'[p].status = IF p = o THEN status ELSE dispatch[p].status
    PROVE  /\ Deliveries' = [Deliveries EXCEPT ![o] = DeliveryOf(status)]
           /\ Deliveries[o] = DeliveryOf(dispatch[o].status)
<1>1. Deliveries' = [p \in Op |-> DeliveryOf(dispatch'[p].status)]
  BY DEF Deliveries
<1>2. QED
  BY <1>1 DEF Deliveries

LEMMA OneIntent ==
    ASSUME NEW r \in Request, NEW status,
           \A q \in Request : intent'[q].status = IF q = r THEN status ELSE intent[q].status
    PROVE  /\ Requests' = [Requests EXCEPT ![r] = RequestOf(status)]
           /\ Requests[r] = RequestOf(intent[r].status)
<1>1. Requests' = [q \in Request |-> RequestOf(intent'[q].status)]
  BY DEF Requests
<1>2. QED
  BY <1>1 DEF Requests

LEMMA ClaimRowRefines ==
    ASSUME Inv, NEW w \in Worker, ClaimRow(w)
    PROVE  [Contract!ContractNext]_(Contract!contractVars)
<1>1. UNCHANGED <<fact, Requests, Shown, Told>>
  BY DEF ClaimRow, Requests, Shown, Told
<1>2. UNCHANGED Deliveries
  <2>1. CASE UNCHANGED dispatch
    BY <2>1 DEF Deliveries
  <2>2. CASE \E o \in Op : /\ dispatch[o].status \in {"pending", "retryable", "running"}
                           /\ \A p \in Op : dispatch'[p].status =
                                 IF p = o THEN "running" ELSE dispatch[p].status
    BY <2>2, StatusValues, SameRows
  <2>3. QED
    BY <2>1, <2>2, ClaimRowChanges
<1>3. QED
  BY <1>1, <1>2, Stutters DEF Seen

\* A receipt that still counts settles the delivery, or nothing.
LEMMA ReceiptRefines ==
    ASSUME Inv, DeliveringInv, NEW w \in Worker, Record(w) \/ SuccessLost(w)
    PROVE  [Contract!ContractNext]_(Contract!contractVars)
<1> DEFINE c == worker[w].claim
           o == c.row
           outcome == worker[w].outcome
           status == StatusOf(c, outcome)
<1>1. UNCHANGED <<fact, Requests, Shown>>
  BY DEF Record, SuccessLost, Requests, Shown
<1>2. CASE UNCHANGED <<dispatch, announced>>
  <2>1. UNCHANGED <<Deliveries, Told>>
    BY <1>2 DEF Deliveries, Told
  <2>2. QED
    BY <1>1, <2>1, Stutters DEF Seen
<1>3. CASE /\ dispatch[o].status = "running"
           /\ \A p \in Op : dispatch'[p].status = IF p = o THEN status ELSE dispatch[p].status
           /\ announced' = announced \/ (outcome = "succeeded" /\ announced' = [announced EXCEPT ![o] = @ + 1])
  <2>1. /\ o \in Op /\ worker[w].at = "recording" /\ outcome \in {"succeeded", "skipped", "failed"}
        /\ WorkerFacts(worker[w], fact, presented) /\ Delivering(worker[w], dispatch)
        /\ announced \in [Op -> Nat] /\ presented \in [Op -> Nat]
    BY ReceiptChanges, WorkerHas DEF DeliveringInv, Inv, TypeOK
  <2>2. announced[o] = 0
    BY <1>3, <2>1 DEF Inv, RowFacts
  <2> HIDE DEF c, o, outcome
  <2>3. status \in {"succeeded", "skipped", "dead_letter", "retryable"}
        /\ (status = outcome \/ (outcome = "failed" /\ status \in {"dead_letter", "retryable"}))
    BY <2>1 DEF StatusOf
  <2> HIDE DEF status
  <2>4. Deliveries' = [Deliveries EXCEPT ![o] = DeliveryOf(status)] /\ Deliveries[o] = "open"
    BY <1>3, <2>1, OneRow, StatusValues
  <2>5. /\ o \notin Told /\ Told' \in {Told, Told \cup {o}}
        /\ outcome # "succeeded" => UNCHANGED Told
    <3>1. CASE announced' = announced
      BY <2>2, <3>1 DEF Told
    <3>2. CASE announced' = [announced EXCEPT ![o] = @ + 1] /\ outcome = "succeeded"
      <4>1. \A p \in Op : announced'[p] = IF p = o THEN 1 ELSE announced[p]
        BY <2>1, <2>2, <3>2
      <4>2. Told' = Told \cup {o}
        BY <2>1, <4>1 DEF Told
      <4>3. QED
        BY <2>2, <3>2, <4>2 DEF Told
    <3>3. QED
      BY <1>3, <3>1, <3>2
  <2>6. CASE status = "succeeded"
    <3>1. outcome = "succeeded"
      BY <2>3, <2>6
    <3>2. o[2] \in DesktopChannel => o \in Shown
      BY <2>1, <3>1 DEF WorkerFacts, Shown, c, o, outcome
    <3>3. Contract!Deliver(o)
      BY <1>1, <2>4, <2>5, <2>6, <3>2, StatusValues DEF Contract!Deliver, Contract!Moves, Contract!Shows
    <3>4. QED
      BY <2>1, <3>3 DEF Contract!ContractNext, Contract!Op, Op
  <2>7. CASE status = "skipped"
    <3>1. outcome = "skipped"
      BY <2>3, <2>7
    <3>2. o[2] \in DesktopChannel
      BY <2>1, <3>1 DEF Delivering, c, o, outcome
    <3>3. Contract!Skip(o)
      BY <1>1, <2>4, <2>5, <2>7, <3>1, <3>2, StatusValues DEF Contract!Skip, Contract!Moves, Contract!Shows
    <3>4. QED
      BY <2>1, <3>3 DEF Contract!ContractNext, Contract!Op, Op
  <2>8. CASE status = "dead_letter"
    <3>1. outcome # "succeeded"
      BY <2>3, <2>8
    <3>2. Contract!GiveUp(o)
      BY <1>1, <2>4, <2>5, <2>8, <3>1, StatusValues DEF Contract!GiveUp, Contract!Moves
    <3>3. QED
      BY <2>1, <3>2 DEF Contract!ContractNext, Contract!Op, Op
  <2>9. CASE status = "retryable"
    <3>1. outcome # "succeeded"
      BY <2>3, <2>9
    <3>2. UNCHANGED Deliveries
      BY <1>3, <2>9, StatusValues, SameRows
    <3>3. QED
      BY <1>1, <2>5, <3>1, <3>2, Stutters DEF Seen
  <2>10. QED
    BY <2>3, <2>6, <2>7, <2>8, <2>9
<1>4. QED
  BY <1>2, <1>3, ReceiptChanges

LEMMA PresentRefines ==
    ASSUME Inv, DeliveringInv, NEW w \in Worker, Present(w)
    PROVE  [Contract!ContractNext]_(Contract!contractVars)
<1> DEFINE o == worker[w].claim.row
<1>1. UNCHANGED <<fact, Requests, Deliveries, Told>>
  BY DEF Present, Requests, Deliveries, Told
<1>2. CASE UNCHANGED presented
  <2>1. UNCHANGED Shown
    BY <1>2 DEF Shown
  <2>2. QED
    BY <1>1, <2>1, Stutters DEF Seen
<1>3. CASE presented' = [presented EXCEPT ![o] = @ + 1]
  <2>1. /\ o \in Op /\ dispatch[o].status # "absent" /\ o[2] \in DesktopChannel
        /\ presented \in [Op -> Nat] /\ dispatch[o] \in OutboxRow
    BY WorkerHas DEF Present, WorkerFacts, DeliveringInv, Delivering, Inv, TypeOK
  <2> HIDE DEF o
  <2>2. \A p \in Op : presented'[p] = IF p = o THEN presented[p] + 1 ELSE presented[p]
    BY <1>3, <2>1
  <2>3. Shown' = Shown \cup {o}
    BY <2>1, <2>2 DEF Shown
  <2>4. Deliveries[o] # "absent"
    BY <2>1, StatusValues DEF Deliveries, OutboxRow, RowStatus
  <2>5. Contract!Show(o)
    BY <1>1, <2>1, <2>3, <2>4 DEF Contract!Show, Contract!Shows
  <2>6. QED
    BY <2>1, <2>5 DEF Contract!ContractNext, Contract!Op, Op
<1>4. QED
  BY <1>2, <1>3 DEF Present

LEMMA ConsumeRefines ==
    ASSUME Inv, NEW w \in Worker, Consume(w)
    PROVE  [Contract!ContractNext]_(Contract!contractVars)
<1>1. UNCHANGED <<Requests, Shown, Told>>
  BY DEF Consume, Requests, Shown, Told
<1>2. CASE UNCHANGED <<fact, dispatch>>
  BY <1>1, <1>2, Stutters DEF Seen, Deliveries
<1>3. CASE ~UNCHANGED <<fact, dispatch>>
  <2>1. PICK c \in worker[w].batch, plan \in [Channel -> {"enqueued", "deferred", "none"}] :
           dispatch' = Materialised(c.row, plan) /\ fact' = fact \cup {c.row}
    BY <1>3 DEF Consume
  <2> DEFINE r == c.row
             C == {ch \in Channel : plan[ch] # "none"}
  <2>2. r \in Request /\ dispatch \in [Op -> OutboxRow]
    BY WorkerHas DEF Consume, WorkerFacts, Inv, TypeOK
  <2>3. r \notin fact
    <3>1. SUFFICES ASSUME r \in fact PROVE FALSE
      OBVIOUS
    <3>2. dispatch' = dispatch
      BY <2>1, <2>2, <3>1 DEF Materialised
    <3>3. fact' = fact
      BY <2>1, <3>1
    <3>4. QED
      BY <1>3, <3>2, <3>3
  <2>4. Deliveries' = [o \in Op |-> IF o[1] = r /\ o[2] \in C THEN "open" ELSE Deliveries[o]]
    <3>1. \A o \in Op : o[2] \in Channel
      BY DEF Op
    <3>2. ASSUME NEW o \in Op
          PROVE  dispatch'[o].status = IF o[1] = r /\ o[2] \in C
                                       THEN IF plan[o[2]] = "enqueued" THEN "pending" ELSE "retryable"
                                       ELSE dispatch[o].status
      BY <2>1, <2>3, <3>1 DEF Materialised, NewRow
    <3>3. \A o \in Op : DeliveryOf(dispatch'[o].status) =
                           IF o[1] = r /\ o[2] \in C THEN "open" ELSE DeliveryOf(dispatch[o].status)
      BY <3>2, StatusValues
    <3>4. QED
      BY <3>3 DEF Deliveries
  <2>5. C \in SUBSET Channel
    OBVIOUS
  <2>6. Contract!Store(r, C)
    BY <1>1, <2>1, <2>3, <2>4 DEF Contract!Store, Contract!Op, Op
  <2>7. QED
    BY <2>2, <2>5, <2>6 DEF Contract!ContractNext
<1>4. QED
  BY <1>2, <1>3

LEMMA IntentsRefine ==
    ASSUME Inv, NEW w \in Worker, ClaimIntent(w) \/ Mark(w) \/ MarkLost(w)
    PROVE  [Contract!ContractNext]_(Contract!contractVars)
<1>1. UNCHANGED <<fact, Deliveries, Shown, Told>>
  BY DEF ClaimIntent, Mark, MarkLost, Deliveries, Shown, Told
<1>2. CASE UNCHANGED intent
  BY <1>1, <1>2, Stutters DEF Seen, Requests
<1>3. CASE ClaimIntent(w) /\ ~UNCHANGED intent
  <2>1. PICK c \in worker[w].found :
           Claimable(intent[c.row]) /\ intent' = [intent EXCEPT ![c.row] = Claimed(intent[c.row], w)]
    BY <1>3 DEF ClaimIntent
  <2>2. c.row \in Request /\ intent[c.row] \in OutboxRow
    BY <1>3, WorkerHas DEF ClaimIntent, WorkerFacts, Inv, TypeOK
  <2>3. Claimed(intent[c.row], w).status = "running"
    BY <2>2, ClaimedTyped
  <2>4. \A q \in Request : RequestOf(intent'[q].status) = RequestOf(intent[q].status)
    BY <2>1, <2>2, <2>3, IntentChange, StatusValues DEF Claimable
  <2>5. QED
    BY <1>1, <2>4, SameIntents, Stutters DEF Seen
<1>4. CASE (Mark(w) \/ MarkLost(w)) /\ ~UNCHANGED intent
  <2> DEFINE c == worker[w].claim
             r == c.row
             outcome == worker[w].outcome
             status == StatusOf(c, outcome)
  <2>1. /\ r \in Request /\ outcome \in {"failed", "succeeded"}
        /\ outcome = "succeeded" => r \in fact
        /\ intent \in [Request -> OutboxRow]
    BY <1>4, WorkerHas DEF Mark, MarkLost, WorkerFacts, Inv, TypeOK
  <2>2. /\ Matches(intent[r], w, c)
        /\ intent' = [intent EXCEPT ![r].status = status, ![r].owner = NoWorker, ![r].expired = FALSE]
    BY <1>4 DEF Mark, MarkLost, StatusOf
  <2> HIDE DEF c, r, outcome
  <2>3. status \in {"succeeded", "dead_letter", "retryable"} /\ (status = "succeeded" => outcome = "succeeded")
    BY <2>1 DEF StatusOf
  <2> HIDE DEF status
  <2>4. intent[r].status = "running"
    BY <2>2 DEF Matches
  <2>5. \A q \in Request : intent'[q].status = IF q = r THEN status ELSE intent[q].status
    BY <2>1, <2>2 DEF OutboxRow
  <2>6. Requests' = [Requests EXCEPT ![r] = RequestOf(status)] /\ Requests[r] = "open"
    BY <2>1, <2>4, <2>5, OneIntent, StatusValues
  <2>7. CASE status = "succeeded"
    <3>1. Contract!Settle(r, "stored")
      BY <1>1, <2>1, <2>3, <2>6, <2>7, StatusValues DEF Contract!Settle
    <3>2. QED
      BY <2>1, <3>1 DEF Contract!ContractNext
  <2>8. CASE status = "dead_letter"
    <3>1. Contract!Settle(r, "dead")
      BY <1>1, <2>6, <2>8, StatusValues DEF Contract!Settle
    <3>2. QED
      BY <2>1, <3>1 DEF Contract!ContractNext
  <2>9. CASE status = "retryable"
    BY <1>1, <2>4, <2>5, <2>9, StatusValues, SameIntents, Stutters DEF Seen
  <2>10. QED
    BY <2>3, <2>7, <2>8, <2>9
<1>5. QED
  BY <1>2, <1>3, <1>4

LEMMA TimeRefines ==
    ASSUME Inv, NEW o \in Op, DispatchRunsOut(o) \/ DispatchLapses(o) \/ DispatchDue(o) \/ Replay(o)
    PROVE  [Contract!ContractNext]_(Contract!contractVars)
<1>1. UNCHANGED <<fact, Requests, Shown, Told>>
  BY DEF DispatchRunsOut, DispatchLapses, DispatchDue, Replay, Requests, Shown, Told
<1>2. CASE \A p \in Op : dispatch'[p].status = dispatch[p].status
  BY <1>1, <1>2, SameRows, Stutters DEF Seen
<1>3. CASE /\ dispatch[o].status = "dead_letter"
           /\ \A p \in Op : dispatch'[p].status = IF p = o THEN "retryable" ELSE dispatch[p].status
  <2>1. Deliveries' = [Deliveries EXCEPT ![o] = "open"] /\ Deliveries[o] = "dead"
    BY <1>3, OneRow, StatusValues
  <2>2. Contract!Replay(o)
    BY <1>1, <2>1 DEF Contract!Replay, Contract!Moves
  <2>3. QED
    BY <2>2 DEF Contract!ContractNext, Contract!Op, Op
<1>4. QED
  BY <1>2, <1>3, TimeChanges

LEMMA IntentTimeRefines ==
    ASSUME Inv, NEW r \in Request, IntentRunsOut(r) \/ IntentLapses(r) \/ IntentDue(r)
    PROVE  [Contract!ContractNext]_(Contract!contractVars)
<1>1. UNCHANGED <<fact, Deliveries, Shown, Told>>
  BY DEF IntentRunsOut, IntentLapses, IntentDue, Deliveries, Shown, Told
<1>2. intent \in [Request -> OutboxRow]
  BY DEF Inv, TypeOK
<1>3. \A q \in Request : intent'[q].status = intent[q].status
  BY <1>2 DEF IntentRunsOut, IntentLapses, IntentDue, OutboxRow
<1>4. QED
  BY <1>1, <1>3, SameIntents, Stutters DEF Seen

LEMMA InitRefines == Init => Contract!ContractInit
<1> SUFFICES ASSUME Init PROVE Contract!ContractInit
  OBVIOUS
<1>1. Shown = {} /\ Told = {}
  BY DEF Init, Shown, Told
<1>2. /\ Requests = [r \in Request |-> "open"]
      /\ Deliveries = [o \in Op |-> "absent"]
  BY StatusValues DEF Init, NewRow, Requests, Deliveries
<1>3. QED
  BY <1>1, <1>2 DEF Init, Contract!ContractInit, Contract!Op, Op

LEMMA StepsRefine ==
    ASSUME Inv, DeliveringInv, [Next]_vars
    PROVE  [Contract!ContractNext]_(Contract!contractVars)
<1>1. CASE UNCHANGED <<intent, fact, dispatch, presented, announced>>
  BY <1>1, Stutters DEF Seen, Requests, Deliveries, Shown, Told
<1>2. QED
  BY <1>1, ClaimRowRefines, ReceiptRefines, PresentRefines, ConsumeRefines, IntentsRefine, TimeRefines,
     IntentTimeRefines
  DEF Next, Step, Failure, Tick, Deliver, Ack, SuccessRejected, TurnToIntents, EndTick, AckUnread, AckFails,
      Interrupted, vars

\* For any number of processes, requests, channels, replays and faults the
\* dispatch loop implements its contract: a request is stored once with all its
\* rows, a delivery is recorded once and for good after the user saw it, told
\* of then or never, and late receipts of lost claims change nothing
\* (ImplementsContract; processClaimedDispatch, recordDeliveryReceipt,
\* CreateNotificationUseCase, replayDeadLetter).
THEOREM DeliveryImplementsContract == Spec => ImplementsContract
<1>1. Init => Contract!ContractInit
  BY InitRefines
<1>2. Inv /\ DeliveringInv /\ [Next]_vars => [Contract!ContractNext]_(Contract!contractVars)
  BY StepsRefine
<1>3. QED
  BY <1>1, <1>2, Invariant, DeliveringInit, DeliveringNext, PTL
  DEF Spec, ImplementsContract, Contract!ContractSpec

=============================================================================
