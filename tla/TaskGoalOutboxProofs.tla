------------------------ MODULE TaskGoalOutboxProofs ------------------------
(***************************************************************************)
(* The safety of the task to goal outbox, for any number of occurrences,   *)
(* dispatchers, attempts and faults.  Three invariants, each inductive     *)
(* given the ones before it: the types with what a row's attempts may be;  *)
(* what a transaction that read the current version knows of the goal; and *)
(* what the events handled so far say of an occurrence's record.           *)
(***************************************************************************)
EXTENDS TaskGoalOutbox, FiniteSetTheorems, TLAPS

RowsOK ==
    \A e \in Event :
        /\ outbox[e].status \notin {"DELIVERED", "DEAD_LETTER"} => outbox[e].attempts < MaxAttempts
        /\ outbox[e].status # "absent" => e[2] <= toggles[e[1]]

Typed ==
    /\ TypeOK
    /\ RowsOK
    /\ \A d \in Dispatcher : \A e, f \in dispatcher[d].event : e = f

Sum == Cardinality(Recorded) + manual

\* A transaction that read version v: what it read is what the goal is.
Fresh(s) ==
    \A e \in s.event :
        /\ s.at = "writing" /\ Applies(e) => record[e[1]] = NoRecord /\ s.next = Sum + 1
        /\ s.at = "reading" => ~Applies(e)
        /\ s.at \in {"reading", "writing"} /\ ~Applies(e) =>
              s.target # NoRecord /\ record[e[1]] = s.target
        /\ s.at = "writing" /\ ~Applies(e) => s.next = Cardinality(Recorded \ {e[1]}) + manual

SumInv ==
    /\ \A d \in Dispatcher : dispatcher[d].expected <= version
    /\ unchecked \/ /\ overwritten \/ progress = Sum
                    /\ \A d \in Dispatcher : dispatcher[d].expected = version => Fresh(dispatcher[d])

\* n is the last change of k whose effect is in the goal.
Top(k, n) ==
    /\ n = 0 \/ <<k, n>> \in handled
    /\ \A m \in 1..MaxToggles : m > n => <<k, m>> \notin handled

\* A dispatcher works on events that exist, and reports done what is done.
Honest(s) ==
    /\ \A e \in s.batch \cup s.event : outbox[e].status # "absent"
    /\ s.at = "marking" => s.outcome = "failed" \/ s.event \subseteq handled

EventsInv ==
    /\ \A d \in Dispatcher : Honest(dispatcher[d])
    /\ \A e \in Event : outbox[e].status = "DELIVERED" => e \in handled
    /\ \A e \in handled : outbox[e].status # "absent"

TopInv ==
    \A k \in Occurrence \ outOfOrder : \A n \in 0..MaxToggles :
        Top(k, n) => (k \in Recorded <=> n % 2 = 1)

----------------------------------------------------------------------------
(* The records. *)

LEMMA EventParts == \A e \in Event : e[1] \in Occurrence /\ e[2] \in 1..MaxToggles /\ e = <<e[1], e[2]>>
BY DEF Event

LEMMA RecordedFinite ==
    /\ IsFiniteSet(Recorded) /\ Cardinality(Recorded) \in Nat
    /\ \A k : IsFiniteSet(Recorded \ {k}) /\ Cardinality(Recorded \ {k}) \in Nat
    /\ \A S : S \subseteq Recorded => IsFiniteSet(S) /\ Cardinality(S) \in Nat
<1>1. IsFiniteSet(Recorded)
  BY FS_Subset, OutboxAssumption DEF Recorded
<1>2. \A S : S \subseteq Recorded => IsFiniteSet(S) /\ Cardinality(S) \in Nat
  BY <1>1, FS_Subset, FS_CardinalityType
<1>3. QED
  BY <1>1, <1>2

----------------------------------------------------------------------------
(* Types *)

LEMMA IdleState == Idle \in DispatcherState
BY DEF DispatcherState, Idle, NoRecord

LEMMA TypedInit == Init => Typed
<1> SUFFICES ASSUME Init PROVE Typed
  OBVIOUS
<1>1. outbox \in [Event -> OutboxRow] /\ \A e \in Event : outbox[e].attempts = 0
  BY OutboxAssumption DEF Init, OutboxRow
<1>2. dispatcher \in [Dispatcher -> DispatcherState]
  BY IdleState DEF Init
<1>3. TypeOK
  <2>1. toggles \in [Occurrence -> 0..MaxToggles] /\ record \in [Occurrence -> Nat]
    BY OutboxAssumption DEF Init, NoRecord
  <2>2. manual \in 0..MaxManual /\ edits \in 0..MaxEdits /\ replays \in 0..MaxReplays /\ faults \in 0..MaxFaults
    BY OutboxAssumption DEF Init
  <2>3. QED
    BY <1>1, <1>2, <2>1, <2>2 DEF Init, TypeOK
<1>4. \A d \in Dispatcher : dispatcher[d].event = {}
  BY DEF Init, Idle
<1>5. RowsOK
  BY <1>1, OutboxAssumption DEF Init, RowsOK
<1>6. QED
  BY <1>3, <1>4, <1>5 DEF Typed

\* A dispatcher's step to s.
LEMMA UpdateKeeps ==
    ASSUME Typed, NEW d \in Dispatcher, NEW s \in DispatcherState, Update(d, s),
           \A e, f \in s.event : e = f
    PROVE  /\ dispatcher' \in [Dispatcher -> DispatcherState]
           /\ \A c \in Dispatcher : dispatcher'[c] = IF c = d THEN s ELSE dispatcher[c]
           /\ \A c \in Dispatcher : \A e, f \in dispatcher'[c].event : e = f
BY DEF Typed, TypeOK, Update

\* What a row may become.
GoodRow(row) ==
    /\ row \in OutboxRow
    /\ row.status \notin {"DELIVERED", "DEAD_LETTER"} => row.attempts < MaxAttempts

LEMMA RetriedRow ==
    ASSUME NEW row \in OutboxRow, row.attempts < MaxAttempts
    PROVE  GoodRow(Retried(row)) /\ Retried(row).status \in {"PENDING", "DEAD_LETTER"}
<1>1. row.attempts \in Nat /\ MaxAttempts \in Nat
  BY OutboxAssumption DEF OutboxRow
<1>2. CASE row.attempts + 1 >= MaxAttempts
  <2>1. row.attempts + 1 \in 0..MaxAttempts
    BY <1>1
  <2>2. Retried(row) = [row EXCEPT !.attempts = row.attempts + 1, !.available = FALSE, !.status = "DEAD_LETTER"]
    BY <1>2 DEF Retried
  <2>3. QED
    BY <2>1, <2>2 DEF GoodRow, OutboxRow
<1>3. CASE ~(row.attempts + 1 >= MaxAttempts)
  <2>1. row.attempts + 1 \in 0..MaxAttempts /\ row.attempts + 1 < MaxAttempts
    BY <1>1, <1>3
  <2>2. Retried(row) = [row EXCEPT !.attempts = row.attempts + 1, !.available = FALSE, !.status = "PENDING"]
    BY <1>3 DEF Retried
  <2>3. QED
    BY <2>1, <2>2 DEF GoodRow, OutboxRow
<1>4. QED
  BY <1>2, <1>3

LEMMA RowKeeps ==
    ASSUME Typed, NEW e \in Event, outbox[e].status # "absent", toggles' = toggles,
           NEW row, GoodRow(row), outbox' = [outbox EXCEPT ![e] = row]
    PROVE  /\ outbox' \in [Event -> OutboxRow]
           /\ \A f \in Event : outbox'[f] = IF f = e THEN row ELSE outbox[f]
           /\ RowsOK'
BY DEF Typed, TypeOK, RowsOK, GoodRow


LEMMA RowsUnchanged == RowsOK /\ UNCHANGED <<toggles, outbox>> => RowsOK'
BY DEF RowsOK

LEMMA TypedStep ==
    ASSUME TypeOK', RowsOK',
           \A d \in Dispatcher : \A e, f \in dispatcher'[d].event : e = f
    PROVE  Typed'
BY DEF Typed

\* The states Handle takes a dispatcher to.
Started(d, e) == [dispatcher[d] EXCEPT !.batch = @ \ {e}, !.event = {e}]
Skipping(d, e) == [Started(d, e) EXCEPT !.at = "marking", !.outcome = "done"]
Applying(d, e) ==
    [Started(d, e) EXCEPT !.expected = version, !.current = progress, !.at = "writing",
                          !.next = Cardinality(Recorded) + manual + 1]
Reverting(d, e) ==
    [Started(d, e) EXCEPT !.expected = version, !.current = progress, !.at = "reading",
                          !.target = record[e[1]]]

LEMMA HandleStates ==
    ASSUME NEW d \in Dispatcher, Handle(d)
    PROVE  \E e \in dispatcher[d].batch :
              \/ Settled(e) /\ Update(d, Skipping(d, e)) /\ Handled(e)
              \/ /\ ~Settled(e) /\ UNCHANGED <<handled, outOfOrder>>
                 /\ Update(d, IF Applies(e) THEN Applying(d, e) ELSE Reverting(d, e))
BY DEF Handle, Started, Skipping, Applying, Reverting

LEMMA HandleStatesOK ==
    ASSUME Typed, NEW d \in Dispatcher, NEW e \in dispatcher[d].batch,
           NEW s \in {Skipping(d, e), Applying(d, e), Reverting(d, e)}
    PROVE  s \in DispatcherState /\ s.event = {e} /\ s.batch = dispatcher[d].batch \ {e}
<1>1. dispatcher[d] \in DispatcherState /\ e \in Event /\ e[1] \in Occurrence
  BY EventParts DEF Typed, TypeOK, DispatcherState
<1>2. Started(d, e) \in DispatcherState /\ Started(d, e).event = {e}
      /\ Started(d, e).batch = dispatcher[d].batch \ {e}
  BY <1>1 DEF Started, DispatcherState
<1>3. Cardinality(Recorded) + manual + 1 \in Nat /\ record[e[1]] \in Nat
      /\ version \in Nat /\ progress \in Nat
  BY <1>1, RecordedFinite DEF Typed, TypeOK
<1>4. QED
  BY <1>2, <1>3 DEF Skipping, Applying, Reverting, DispatcherState

\* The records a revert sums.
Remaining(e, target) == {k \in Recorded : <<k, record[k]>> # <<e[1], target>>}

Read(d, n) == [dispatcher[d] EXCEPT !.at = "writing", !.next = n]

LEMMA TypedNext == Typed /\ [Next]_vars => Typed'
<1> SUFFICES ASSUME Typed, [Next]_vars PROVE Typed'
  OBVIOUS
<1> USE DEF goal, history
<1>0. /\ TypeOK
      /\ RowsOK
      /\ \A d \in Dispatcher : \A e, f \in dispatcher[d].event : e = f
  BY DEF Typed
<1>1. ASSUME NEW k \in Occurrence, Toggle(k) PROVE Typed'
  <2>1. <<k, toggles[k] + 1>> \in Event /\ toggles[k] + 1 \in 0..MaxToggles
    BY <1>1, OutboxAssumption DEF Toggle, Typed, TypeOK, Event
  <2> DEFINE e == <<k, toggles[k] + 1>>
             row == [outbox[e] EXCEPT !.status = "PENDING", !.available = TRUE]
  <2>2. outbox' = [outbox EXCEPT ![e] = row]
    BY <1>1 DEF Toggle, Typed, TypeOK
  <2>3. /\ outbox[e] \in OutboxRow /\ outbox[e].status = "absent"
        /\ row \in OutboxRow /\ row.status = "PENDING" /\ row.attempts = outbox[e].attempts
    <3>1. e[1] = k /\ e[2] = toggles[k] + 1 /\ e \in Event /\ toggles[k] \in Nat
      BY <1>0, <2>1 DEF TypeOK
    <3> HIDE DEF e, row
    <3>2. outbox[e] \in OutboxRow /\ (outbox[e].status # "absent" => e[2] <= toggles[e[1]])
      BY <1>0, <3>1 DEF TypeOK, RowsOK
    <3>3. outbox[e].status = "absent"
      BY <3>1, <3>2
    <3> USE DEF row
    <3>4. QED
      BY <3>2, <3>3 DEF OutboxRow
  <2>4. /\ outbox' \in [Event -> OutboxRow] /\ toggles' \in [Occurrence -> 0..MaxToggles]
        /\ \A f \in Event : outbox'[f] = IF f = e THEN row ELSE outbox[f]
        /\ \A k2 \in Occurrence : toggles'[k2] = IF k2 = k THEN toggles[k] + 1 ELSE toggles[k2]
    BY <1>0, <1>1, <2>1, <2>2, <2>3 DEF Toggle, TypeOK
  <2>5. RowsOK'
    <3> SUFFICES ASSUME NEW f \in Event
                 PROVE  /\ outbox'[f].status \notin {"DELIVERED", "DEAD_LETTER"} =>
                              outbox'[f].attempts < MaxAttempts
                        /\ outbox'[f].status # "absent" => f[2] <= toggles'[f[1]]
      BY DEF RowsOK
    <3>1. f[1] \in Occurrence /\ f[2] \in Nat /\ toggles[f[1]] \in Nat /\ toggles[k] \in Nat
      BY <1>0, EventParts DEF TypeOK
    <3>2. CASE f = e
      <4>1. f[1] = k /\ f[2] = toggles[k] + 1 /\ toggles'[k] = toggles[k] + 1
        BY <2>4, <3>2
      <4>2. outbox[e].attempts < MaxAttempts
        BY <1>0, <2>1, <2>3 DEF RowsOK
      <4>3. outbox'[f].attempts < MaxAttempts
        BY <2>3, <2>4, <3>2, <4>2
      <4>4. f[2] <= toggles'[f[1]]
        BY <3>1, <4>1
      <4>5. QED
        BY <4>3, <4>4
    <3>3. CASE f # e
      BY <1>0, <2>4, <3>1, <3>3 DEF RowsOK
    <3>4. QED
      BY <3>2, <3>3
  <2>6. QED
    BY <1>0, <1>1, <2>4, <2>5, RowsUnchanged, TypedStep DEF Toggle, TypeOK
<1>2. ASSUME RecordByHand \/ EditKeyResult PROVE Typed'
  <2>1. version + 1 \in Nat /\ edits' \in 0..MaxEdits /\ \A m \in 0..MaxManual : Cardinality(Recorded) + m \in Nat
    BY <1>0, <1>2, RecordedFinite, OutboxAssumption DEF RecordByHand, EditKeyResult, SaveByHand, TypeOK
  <2>2. progress' \in Nat /\ manual' \in 0..MaxManual /\ overwritten' \in BOOLEAN
    BY <1>0, <1>2, <2>1, OutboxAssumption DEF RecordByHand, EditKeyResult, TypeOK
  <2>3. TypeOK'
    BY <1>0, <1>2, <2>1, <2>2 DEF RecordByHand, EditKeyResult, SaveByHand, TypeOK
  <2>4. QED
    BY <1>0, <1>2, <2>3, RowsUnchanged, TypedStep DEF RecordByHand, EditKeyResult, SaveByHand
<1>3. ASSUME NEW e \in Event, BecomesAvailable(e) \/ LeaseLapses(e) PROVE Typed'
  <2> DEFINE row == [outbox[e] EXCEPT !.available = TRUE]
  <2>1. outbox' = [outbox EXCEPT ![e] = row] /\ GoodRow(row) /\ outbox[e].status # "absent"
    BY <1>0, <1>3 DEF BecomesAvailable, LeaseLapses, Waiting, GoodRow, RowsOK, TypeOK, OutboxRow
  <2>2. faults' \in 0..MaxFaults
    BY <1>0, <1>3, OutboxAssumption DEF BecomesAvailable, LeaseLapses, Fault, TypeOK
  <2>3. TypeOK'
    BY <1>0, <1>3, <2>1, <2>2, RowKeeps DEF BecomesAvailable, LeaseLapses, TypeOK
  <2>4. QED
    BY <1>0, <1>3, <2>1, <2>3, RowKeeps, RowsUnchanged, TypedStep DEF BecomesAvailable, LeaseLapses
<1>4. ASSUME NEW e \in Event, Replay(e) PROVE Typed'
  <2> DEFINE row == [status |-> "PENDING", attempts |-> 0, available |-> TRUE]
  <2>1. outbox' = [outbox EXCEPT ![e] = row] /\ GoodRow(row) /\ outbox[e].status # "absent"
    BY <1>4, OutboxAssumption DEF Replay, GoodRow, OutboxRow
  <2>2. replays' \in 0..MaxReplays
    BY <1>0, <1>4, OutboxAssumption DEF Replay, TypeOK
  <2>3. TypeOK'
    BY <1>0, <1>4, <2>1, <2>2, RowKeeps DEF Replay, TypeOK
  <2>4. QED
    BY <1>0, <1>4, <2>1, <2>3, RowKeeps, RowsUnchanged, TypedStep DEF Replay
<1>5. ASSUME NEW d \in Dispatcher, Claim(d) PROVE Typed'
  <2> DEFINE claimed == {e \in Event : Claimable(e)}
             s == [Idle EXCEPT !.at = "handling", !.batch = claimed]
  <2>1. s \in DispatcherState /\ s.event = {} /\ Update(d, s)
    BY <1>5, IdleState DEF Claim, DispatcherState, Idle
  <2>2. outbox' \in [Event -> OutboxRow] /\ RowsOK'
    <3>1. \A e \in Event : outbox[e] \in OutboxRow
      BY <1>0 DEF TypeOK
    <3>2. outbox' = [e \in Event |-> IF e \in claimed
                                     THEN [outbox[e] EXCEPT !.status = "PROCESSING", !.available = FALSE]
                                     ELSE outbox[e]]
      BY <1>5 DEF Claim
    <3>3. QED
      BY <1>0, <1>5, <3>1, <3>2 DEF Claim, Claimable, OutboxRow, RowsOK
  <2>3. QED
    BY <1>0, <1>5, <2>1, <2>2, UpdateKeeps, RowsUnchanged, TypedStep DEF Claim, TypeOK
<1>6. ASSUME NEW d \in Dispatcher, Handle(d) PROVE Typed'
  <2>1. PICK e \in dispatcher[d].batch :
           /\ Handled(e) \/ UNCHANGED <<handled, outOfOrder>>
           /\ \E s \in {Skipping(d, e), Applying(d, e), Reverting(d, e)} : Update(d, s)
    BY <1>6, HandleStates
  <2>2. PICK s \in DispatcherState : Update(d, s) /\ s.event = {e}
    BY <2>1, HandleStatesOK
  <2>3. e \in Event /\ e[1] \in Occurrence
    BY <1>0, EventParts DEF TypeOK, DispatcherState
  <2>4. handled' \subseteq Event /\ outOfOrder' \subseteq Occurrence
    BY <1>0, <2>1, <2>3 DEF Handled, TypeOK
  <2>5. QED
    BY <1>0, <1>6, <2>2, <2>4, UpdateKeeps, RowsUnchanged, TypedStep DEF Handle, TypeOK
<1>7. ASSUME NEW d \in Dispatcher, ReadRecords(d) PROVE Typed'
  <2>1. PICK n \in Nat : Update(d, Read(d, n))
    <3>1. PICK e \in dispatcher[d].event :
             Update(d, Read(d, Cardinality(Remaining(e, dispatcher[d].target)) + manual))
      BY <1>7 DEF ReadRecords, Remaining, Read
    <3>2. Cardinality(Remaining(e, dispatcher[d].target)) \in Nat
      BY RecordedFinite DEF Remaining
    <3>3. Cardinality(Remaining(e, dispatcher[d].target)) + manual \in Nat
      BY <1>0, <3>2 DEF TypeOK
    <3>4. QED
      BY <3>1, <3>3
  <2>2. Read(d, n) \in DispatcherState /\ Read(d, n).event = dispatcher[d].event
    BY <1>0 DEF Read, TypeOK, DispatcherState
  <2>3. QED
    BY <1>0, <1>7, <2>1, <2>2, UpdateKeeps, RowsUnchanged, TypedStep DEF ReadRecords, TypeOK
<1>8. ASSUME NEW d \in Dispatcher, Write(d) PROVE Typed'
  <2>1. \A x \in {"done", "failed"} :
           /\ Marking(d, x) \in DispatcherState
           /\ Marking(d, x).event = dispatcher[d].event
    BY <1>0, IdleState DEF Marking, TypeOK, DispatcherState, Idle
  <2>2. PICK x \in {"done", "failed"} : Update(d, Marking(d, x))
    BY <1>8 DEF Write
  <2>3. TypeOK'
    <3>1. /\ record' \in [Occurrence -> Nat] /\ manual' \in 0..MaxManual
          /\ progress' \in Nat /\ version' \in Nat /\ edits' \in 0..MaxEdits
          /\ handled' \subseteq Event /\ outOfOrder' \subseteq Occurrence
          /\ unchecked' \in BOOLEAN /\ overwritten' \in BOOLEAN
      <4>1. PICK e \in dispatcher[d].event :
               Contribute(d, e) \/ Withdraw(d, e) \/ UNCHANGED <<goal, history>>
        BY <1>8 DEF Write
      <4>2. /\ e \in Event /\ e[1] \in Occurrence /\ dispatcher[d].next \in Nat /\ version + 1 \in Nat
            /\ NoRecord \in Nat
        BY <1>0, EventParts DEF TypeOK, DispatcherState, NoRecord
      <4>3. CASE Contribute(d, e)
        BY <1>0, <4>2, <4>3 DEF Contribute, Handled, TypeOK
      <4>4. CASE Withdraw(d, e)
        BY <1>0, <4>2, <4>4 DEF Withdraw, Handled, TypeOK
      <4>5. CASE UNCHANGED <<goal, history>>
        BY <1>0, <4>5 DEF TypeOK
      <4>6. QED
        BY <4>1, <4>3, <4>4, <4>5
    <3>2. dispatcher' \in [Dispatcher -> DispatcherState]
      BY <1>0, <2>1, <2>2, UpdateKeeps
    <3>3. QED
      BY <1>0, <1>8, <3>1, <3>2 DEF Write, TypeOK
  <2>4. QED
    BY <1>0, <1>8, <2>1, <2>2, <2>3, UpdateKeeps, RowsUnchanged, TypedStep DEF Write
<1>9. ASSUME NEW d \in Dispatcher, HandlerFails(d) PROVE Typed'
  <2>1. Marking(d, "failed") \in DispatcherState /\ Marking(d, "failed").event = dispatcher[d].event
    BY <1>0, IdleState DEF Marking, TypeOK, DispatcherState, Idle
  <2>2. \/ UNCHANGED outbox
        \/ \E e \in Event : /\ outbox[e].status = "PROCESSING"
                            /\ outbox' = [outbox EXCEPT ![e] = [outbox[e] EXCEPT !.status = "DELIVERED",
                                                                                !.available = FALSE]]
    BY <1>0, <1>9 DEF HandlerFails, TypeOK, DispatcherState
  <2>3. \A e \in Event : GoodRow([outbox[e] EXCEPT !.status = "DELIVERED", !.available = FALSE])
    BY <1>0 DEF GoodRow, TypeOK, OutboxRow
  <2>4. outbox' \in [Event -> OutboxRow] /\ RowsOK'
    BY <1>0, <1>9, <2>2, <2>3, RowKeeps, RowsUnchanged DEF HandlerFails, TypeOK
  <2>5. faults' \in 0..MaxFaults
    BY <1>0, <1>9, OutboxAssumption DEF HandlerFails, Fault, TypeOK
  <2>6. QED
    BY <1>0, <1>9, <2>1, <2>4, <2>5, UpdateKeeps, RowsUnchanged, TypedStep DEF HandlerFails, TypeOK
<1>10. ASSUME NEW d \in Dispatcher, Mark(d) PROVE Typed'
  <2>1. NextEvent(d) \in DispatcherState /\ NextEvent(d).event = {}
    BY <1>0, IdleState DEF NextEvent, TypeOK, DispatcherState, Idle
  <2> DEFINE delivered(e) == [outbox[e] EXCEPT !.status = "DELIVERED", !.available = FALSE]
  <2>2. PICK e \in dispatcher[d].event :
          \/ UNCHANGED outbox
          \/ outbox[e].status = "PROCESSING" /\ outbox' = [outbox EXCEPT ![e] = Retried(@)]
          \/ /\ outbox[e].status = "PROCESSING"
             /\ outbox' = [outbox EXCEPT ![e].status = "DELIVERED", ![e].available = FALSE]
    BY <1>10 DEF Mark
  <2>3. e \in Event /\ outbox[e] \in OutboxRow
    BY <1>0 DEF TypeOK, DispatcherState
  <2>4. GoodRow(delivered(e)) /\ (outbox[e].status = "PROCESSING" => GoodRow(Retried(outbox[e])))
    BY <1>0, <2>3, RetriedRow DEF GoodRow, RowsOK, OutboxRow
  <2>5. CASE UNCHANGED outbox
    BY <1>0, <1>10, <2>1, <2>5, UpdateKeeps, RowsUnchanged, TypedStep DEF Mark, TypeOK
  <2>6. CASE outbox[e].status = "PROCESSING" /\ outbox' = [outbox EXCEPT ![e] = Retried(@)]
    <3>1. outbox' = [outbox EXCEPT ![e] = Retried(outbox[e])]
      BY <1>0, <2>3, <2>6 DEF TypeOK
    <3>2. outbox' \in [Event -> OutboxRow] /\ RowsOK'
      BY <1>10, <2>3, <2>4, <2>6, <3>1, RowKeeps DEF Mark
    <3>3. QED
      BY <1>0, <1>10, <2>1, <3>2, UpdateKeeps, TypedStep DEF Mark, TypeOK
  <2>7. CASE /\ outbox[e].status = "PROCESSING"
             /\ outbox' = [outbox EXCEPT ![e].status = "DELIVERED", ![e].available = FALSE]
    <3>1. outbox' = [outbox EXCEPT ![e] = delivered(e)]
      BY <1>0, <2>3, <2>7 DEF TypeOK
    <3>2. outbox' \in [Event -> OutboxRow] /\ RowsOK'
      BY <1>10, <2>3, <2>4, <2>7, <3>1, RowKeeps DEF Mark
    <3>3. QED
      BY <1>0, <1>10, <2>1, <3>2, UpdateKeeps, TypedStep DEF Mark, TypeOK
  <2>8. QED
    BY <2>2, <2>5, <2>6, <2>7
<1>11. ASSUME NEW d \in Dispatcher, Interrupted(d) PROVE Typed'
  <2>1. Idle.event = {}
    BY DEF Idle
  <2>2. faults' \in 0..MaxFaults
    BY <1>0, <1>11, OutboxAssumption DEF Interrupted, Fault, TypeOK
  <2>3. QED
    BY <1>0, <1>11, <2>1, <2>2, IdleState, UpdateKeeps, RowsUnchanged, TypedStep DEF Interrupted, TypeOK
<1>12. ASSUME UNCHANGED vars PROVE Typed'
  BY <1>0, <1>12, RowsUnchanged, TypedStep DEF vars, TypeOK
<1>13. QED
  BY <1>1, <1>2, <1>3, <1>4, <1>5, <1>6, <1>7, <1>8, <1>9, <1>10, <1>11, <1>12 DEF Next, Step

----------------------------------------------------------------------------
(* The progress is the sum. *)

LEMMA SumInit == Init => SumInv
<1> SUFFICES ASSUME Init PROVE SumInv
  OBVIOUS
<1>1. Recorded = {}
  BY DEF Init, Recorded
<1>2. Cardinality(Recorded) = 0
  BY <1>1, FS_EmptySet
<1>3. \A d \in Dispatcher : dispatcher[d] = Idle
  BY DEF Init
<1>4. QED
  BY <1>2, <1>3 DEF Init, SumInv, Sum, Fresh, Idle

LEMMA Numbers ==
    ASSUME Typed
    PROVE  /\ version \in Nat /\ progress \in Nat /\ manual \in Nat /\ Cardinality(Recorded) \in Nat
           /\ \A d \in Dispatcher : dispatcher[d] \in DispatcherState /\ dispatcher[d].expected \in Nat
BY RecordedFinite DEF Typed, TypeOK, DispatcherState

\* A dispatcher that is in no transaction knows nothing.
LEMMA Outside == \A s : s.at \notin {"reading", "writing"} => Fresh(s)
BY DEF Fresh

LEMMA FreshKeeps == ASSUME UNCHANGED <<record, manual>>, NEW s, Fresh(s) PROVE Fresh(s)'
BY DEF Fresh, Sum, Recorded

\* A step that leaves the goal alone.
LEMMA SumStep ==
    ASSUME Typed, SumInv, UNCHANGED <<goal, unchecked, overwritten>>,
           NEW d \in Dispatcher, NEW s \in DispatcherState, Update(d, s), s.expected <= version,
           unchecked \/ (s.expected = version => Fresh(s))
    PROVE  SumInv'
<1>1. \A c \in Dispatcher : dispatcher'[c] = IF c = d THEN s ELSE dispatcher[c]
  BY DEF Typed, TypeOK, Update
<1>2. \A c \in Dispatcher : dispatcher'[c].expected <= version'
  BY <1>1 DEF SumInv, goal
<1>3. CASE unchecked
  BY <1>2, <1>3 DEF SumInv
<1>4. CASE ~unchecked
  <2>1. overwritten' \/ progress' = Sum'
    BY <1>4 DEF SumInv, goal, Sum, Recorded
  <2>2. ASSUME NEW c \in Dispatcher, dispatcher'[c].expected = version' PROVE Fresh(dispatcher[c])'
    <3>1. PICK t : t = dispatcher'[c]
      OBVIOUS
    <3>2. Fresh(t)
      BY <1>1, <1>4, <2>2, <3>1 DEF SumInv, goal
    <3>3. Fresh(t)'
      BY <3>2, FreshKeeps DEF goal
    <3>4. QED
      BY <3>1, <3>3 DEF Fresh
  <2>3. QED
    BY <1>2, <2>1, <2>2 DEF SumInv
<1>5. QED
  BY <1>3, <1>4

\* A step that moves the version on makes every open transaction stale.
LEMMA SumMoves ==
    ASSUME Typed, SumInv, Typed', version' = version + 1,
           \A c \in Dispatcher : dispatcher'[c].expected <= version,
           unchecked' \/ overwritten' \/ progress' = Sum'
    PROVE  SumInv'
<1>1. version \in Nat /\ \A c \in Dispatcher : dispatcher'[c].expected \in Nat
  BY Numbers DEF Typed, TypeOK, DispatcherState
<1>2. \A c \in Dispatcher : dispatcher'[c].expected <= version' /\ dispatcher'[c].expected # version'
  BY <1>1
<1>3. QED
  BY <1>2 DEF SumInv

LEMMA SumNext == Typed /\ SumInv /\ [Next]_vars => SumInv'
<1> SUFFICES ASSUME Typed, SumInv, [Next]_vars PROVE SumInv'
  OBVIOUS
<1>0. Typed' /\ TypeOK
  BY TypedNext DEF Typed
<1>1. ASSUME UNCHANGED <<dispatcher, goal, unchecked, overwritten>> PROVE SumInv'
  BY <1>1 DEF goal, SumInv, Fresh, Sum, Recorded
<1>2. ASSUME RecordByHand \/ EditKeyResult PROVE SumInv'
  <2>1. Recorded' = Recorded /\ version' = version + 1 /\ UNCHANGED <<dispatcher, unchecked>>
    BY <1>2 DEF RecordByHand, EditKeyResult, SaveByHand, Recorded
  <2>2. unchecked' \/ overwritten' \/ progress' = Sum'
    <3>1. CASE RecordByHand
      BY <2>1, <3>1 DEF RecordByHand, Sum
    <3>2. CASE EditKeyResult
      BY <2>1, <3>2 DEF EditKeyResult, SumInv, Sum
    <3>3. QED
      BY <1>2, <3>1, <3>2
  <2>3. QED
    BY <1>0, <2>1, <2>2, SumMoves DEF SumInv
<1>3. ASSUME NEW d \in Dispatcher, NEW s \in DispatcherState, Update(d, s),
             s.at \notin {"reading", "writing"}, s.expected \in {0, dispatcher[d].expected},
             UNCHANGED <<goal, unchecked, overwritten>>
      PROVE  SumInv'
  <2>1. s.expected <= version
    BY <1>3, Numbers DEF SumInv
  <2>2. QED
    BY <1>3, <2>1, Outside, SumStep
<1>4. ASSUME NEW d \in Dispatcher, Claim(d) PROVE SumInv'
  <2> DEFINE claimed == {e \in Event : Claimable(e)}
             s == [Idle EXCEPT !.at = "handling", !.batch = claimed]
  <2>1. s \in DispatcherState /\ s.at = "handling" /\ s.expected = 0 /\ Update(d, s)
    BY <1>4, IdleState DEF Claim, DispatcherState, Idle
  <2> HIDE DEF s
  <2>2. QED
    BY <1>3, <1>4, <2>1 DEF Claim, history
<1>5. ASSUME NEW d \in Dispatcher, Handle(d) PROVE SumInv'
  <2>1. UNCHANGED <<goal, unchecked, overwritten>>
    BY <1>5 DEF Handle
  <2>2. PICK e \in dispatcher[d].batch :
              \/ Settled(e) /\ Update(d, Skipping(d, e))
              \/ ~Settled(e) /\ Update(d, IF Applies(e) THEN Applying(d, e) ELSE Reverting(d, e))
    BY <1>5, HandleStates
  <2>3. /\ dispatcher[d] \in DispatcherState /\ e \in Event /\ e[1] \in Occurrence
        /\ version <= version
    BY <1>0, EventParts, Numbers DEF TypeOK, DispatcherState
  <2>4. CASE Settled(e) /\ Update(d, Skipping(d, e))
    <3>1. Skipping(d, e).at = "marking" /\ Skipping(d, e).expected = dispatcher[d].expected
      BY <2>3 DEF Skipping, Started, DispatcherState
    <3>2. Skipping(d, e) \in DispatcherState
      BY HandleStatesOK
    <3>3. QED
      BY <1>3, <2>1, <2>4, <3>1, <3>2
  <2>5. CASE ~Settled(e) /\ Applies(e) /\ Update(d, Applying(d, e))
    <3>1. /\ Applying(d, e).at = "writing" /\ Applying(d, e).expected = version
          /\ Applying(d, e).event = {e} /\ Applying(d, e).next = Cardinality(Recorded) + manual + 1
      BY <2>3 DEF Applying, Started, DispatcherState
    <3>2. record[e[1]] = NoRecord
      BY <2>3, <2>5 DEF Settled, Recorded
    <3>3. Fresh(Applying(d, e))
      BY <2>5, <3>1, <3>2 DEF Fresh, Sum
    <3>4. Applying(d, e) \in DispatcherState
      BY HandleStatesOK
    <3>5. QED
      BY <2>1, <2>3, <2>5, <3>1, <3>3, <3>4, SumStep
  <2>6. CASE ~Settled(e) /\ ~Applies(e) /\ Update(d, Reverting(d, e))
    <3>1. /\ Reverting(d, e).at = "reading" /\ Reverting(d, e).expected = version
          /\ Reverting(d, e).event = {e} /\ Reverting(d, e).target = record[e[1]]
      BY <2>3 DEF Reverting, Started, DispatcherState
    <3>2. record[e[1]] # NoRecord
      BY <2>3, <2>6 DEF Settled, Recorded
    <3>3. Fresh(Reverting(d, e))
      BY <2>6, <3>1, <3>2 DEF Fresh
    <3>4. Reverting(d, e) \in DispatcherState
      BY HandleStatesOK
    <3>5. QED
      BY <2>1, <2>3, <2>6, <3>1, <3>3, <3>4, SumStep
  <2>7. QED
    BY <2>2, <2>4, <2>5, <2>6
<1>6. ASSUME NEW d \in Dispatcher, ReadRecords(d) PROVE SumInv'
  <2>1. UNCHANGED <<goal, unchecked, overwritten>> /\ dispatcher[d].at = "reading"
    BY <1>6 DEF ReadRecords, history
  <2>2. PICK e \in dispatcher[d].event :
           Update(d, Read(d, Cardinality(Remaining(e, dispatcher[d].target)) + manual))
    BY <1>6 DEF ReadRecords, Remaining, Read
  <2> DEFINE n == Cardinality(Remaining(e, dispatcher[d].target)) + manual
  <2>3. n \in Nat
    <3>1. Cardinality(Remaining(e, dispatcher[d].target)) \in Nat
      BY RecordedFinite DEF Remaining
    <3>2. QED
      BY <3>1, Numbers
  <2>4. dispatcher[d] \in DispatcherState /\ e \in Event /\ e[1] \in Occurrence
    BY <1>0, EventParts DEF TypeOK, DispatcherState
  <2> HIDE DEF n
  <2>5. /\ Read(d, n) \in DispatcherState /\ Read(d, n).event = dispatcher[d].event
        /\ Read(d, n).at = "writing" /\ Read(d, n).expected = dispatcher[d].expected
        /\ Read(d, n).target = dispatcher[d].target /\ Read(d, n).next = n
    BY <2>3, <2>4 DEF Read, DispatcherState
  <2>6. ASSUME Fresh(dispatcher[d]) PROVE Fresh(Read(d, n))
    <3>1. \A f \in dispatcher[d].event :
             /\ ~Applies(f) /\ dispatcher[d].target # NoRecord /\ record[f[1]] = dispatcher[d].target
             /\ f = e
      BY <2>1, <2>6 DEF Fresh, Typed
    <3>2. Remaining(e, dispatcher[d].target) = Recorded \ {e[1]}
      BY <2>4, <3>1 DEF Remaining
    <3>3. n = Cardinality(Recorded \ {e[1]}) + manual
      BY <3>2 DEF n
    <3>4. QED
      BY <2>5, <3>1, <3>3 DEF Fresh
  <2>7. Read(d, n).expected <= version /\ (unchecked \/ (Read(d, n).expected = version => Fresh(Read(d, n))))
    BY <2>5, <2>6 DEF SumInv
  <2>8. Update(d, Read(d, n))
    BY <2>2 DEF n
  <2>9. QED
    BY <2>1, <2>5, <2>7, <2>8, SumStep
<1>7. ASSUME NEW d \in Dispatcher, NEW x \in {"done", "failed"}
      PROVE  /\ Marking(d, x) \in DispatcherState
             /\ Marking(d, x).at = "marking" /\ Marking(d, x).expected = 0
             /\ Marking(d, x).event = dispatcher[d].event
             /\ Marking(d, x).batch = dispatcher[d].batch /\ Marking(d, x).outcome = x
  BY <1>0, IdleState DEF Marking, TypeOK, DispatcherState, Idle
<1>8. ASSUME NEW d \in Dispatcher, Write(d) PROVE SumInv'
  <2>1. PICK e \in dispatcher[d].event :
          \/ (Contribute(d, e) \/ Withdraw(d, e)) /\ Update(d, Marking(d, "done"))
          \/ Update(d, Marking(d, "failed")) /\ UNCHANGED <<goal, history>>
    BY <1>8 DEF Write
  <2>2. dispatcher[d] \in DispatcherState /\ e \in Event /\ e[1] \in Occurrence /\ dispatcher[d].at = "writing"
    BY <1>0, <1>8, EventParts DEF Write, TypeOK, DispatcherState
  <2>3. CASE Update(d, Marking(d, "failed")) /\ UNCHANGED <<goal, history>>
    BY <1>3, <1>7, <2>3 DEF history
  <2>4. ASSUME Update(d, Marking(d, "done"))
        PROVE  \A c \in Dispatcher : dispatcher'[c].expected <= version
    <3>1. \A c \in Dispatcher : dispatcher'[c] = IF c = d THEN Marking(d, "done") ELSE dispatcher[c]
      BY <1>0, <2>4 DEF TypeOK, Update
    <3>2. QED
      BY <1>7, <3>1, Numbers DEF SumInv
  <2>5. CASE Contribute(d, e) /\ Update(d, Marking(d, "done"))
    <3>1. CASE unchecked
      BY <1>0, <2>4, <2>5, <3>1, SumMoves DEF Contribute
    <3>2. CASE ~unchecked
      <4>1. record[e[1]] = NoRecord /\ dispatcher[d].next = Sum + 1
        BY <2>2, <2>5, <3>2 DEF SumInv, Fresh, Contribute, Current
      <4>2. Recorded' = Recorded \cup {e[1]} /\ e[1] \notin Recorded
        <5>1. version + 1 # NoRecord
          BY Numbers DEF NoRecord
        <5>2. \A k \in Occurrence : record'[k] = IF k = e[1] THEN version + 1 ELSE record[k]
          BY <1>0, <2>2, <2>5 DEF Contribute, TypeOK
        <5>3. QED
          BY <2>2, <4>1, <5>1, <5>2 DEF Recorded
      <4>3. Cardinality(Recorded') = Cardinality(Recorded) + 1
        BY <4>2, RecordedFinite, FS_AddElement
      <4>4. progress' = Sum'
        BY <2>5, <4>1, <4>3, Numbers DEF Contribute, Sum
      <4>5. QED
        BY <1>0, <2>4, <2>5, <4>4, SumMoves DEF Contribute
    <3>3. QED
      BY <3>1, <3>2
  <2>6. CASE Withdraw(d, e) /\ Update(d, Marking(d, "done")) /\ SkipsGoal(d)
    <3>1. unchecked' /\ version' = version
      BY <2>6 DEF Withdraw
    <3>2. QED
      BY <2>4, <2>6, <3>1 DEF SumInv
  <2>7. CASE Withdraw(d, e) /\ Update(d, Marking(d, "done")) /\ ~SkipsGoal(d)
    <3>1. CASE unchecked
      BY <1>0, <2>4, <2>7, <3>1, SumMoves DEF Withdraw
    <3>2. CASE ~unchecked
      <4>1. dispatcher[d].next = Cardinality(Recorded \ {e[1]}) + manual
        BY <2>2, <2>7, <3>2 DEF SumInv, Fresh, Withdraw, Current
      <4>2. \A k \in Occurrence : record'[k] = IF k = e[1] THEN NoRecord ELSE record[k]
        BY <1>0, <2>2, <2>7 DEF Withdraw, TypeOK
      <4>3. Recorded' = Recorded \ {e[1]}
        BY <4>2 DEF Recorded
      <4>4. progress' = Sum'
        BY <2>7, <4>1, <4>3 DEF Withdraw, Sum
      <4>5. QED
        BY <1>0, <2>4, <2>7, <4>4, SumMoves DEF Withdraw
    <3>3. QED
      BY <3>1, <3>2
  <2>8. QED
    BY <2>1, <2>3, <2>5, <2>6, <2>7
<1>9. ASSUME NEW d \in Dispatcher, HandlerFails(d) PROVE SumInv'
  BY <1>3, <1>7, <1>9 DEF HandlerFails, history
<1>10. ASSUME NEW d \in Dispatcher, Mark(d) PROVE SumInv'
  <2>1. NextEvent(d) \in DispatcherState /\ NextEvent(d).at \in {"idle", "handling"} /\ NextEvent(d).expected = 0
    BY <1>0, IdleState DEF NextEvent, TypeOK, DispatcherState, Idle
  <2>2. QED
    BY <1>3, <1>10, <2>1 DEF Mark, history
<1>11. ASSUME NEW d \in Dispatcher, Interrupted(d) PROVE SumInv'
  <2>1. Idle.at = "idle" /\ Idle.expected = 0
    BY DEF Idle
  <2>2. QED
    BY <1>3, <1>11, <2>1, IdleState DEF Interrupted, history
<1>12. ASSUME \/ \E k \in Occurrence : Toggle(k)
              \/ \E e \in Event : BecomesAvailable(e) \/ LeaseLapses(e) \/ Replay(e)
              \/ UNCHANGED vars
       PROVE  SumInv'
  BY <1>1, <1>12 DEF Toggle, BecomesAvailable, LeaseLapses, Replay, vars, history
<1>13. QED
  BY <1>2, <1>4, <1>5, <1>6, <1>8, <1>9, <1>10, <1>11, <1>12 DEF Next, Step

----------------------------------------------------------------------------
(* The record is what the last event handled says. *)

LEMMA OrderInit == Init => EventsInv /\ TopInv
<1> SUFFICES ASSUME Init PROVE EventsInv /\ TopInv
  OBVIOUS
<1>1. EventsInv
  BY DEF Init, EventsInv, Honest, Idle
<1>2. \A k \in Occurrence : \A n \in 0..MaxToggles : Top(k, n) => n = 0
  BY DEF Init, Top
<1>3. Recorded = {}
  BY DEF Init, Recorded
<1>4. 0 % 2 # 1
  OBVIOUS
<1>5. QED
  BY <1>1, <1>2, <1>3, <1>4 DEF TopInv

LEMMA TopKeeps == TopInv /\ UNCHANGED <<record, handled, outOfOrder>> => TopInv'
BY DEF TopInv, Top, Recorded

\* An event takes effect: in its turn it is the last one handled.
LEMMA TopHandled ==
    ASSUME Typed, TopInv, NEW e \in Event, Handled(e),
           \A k \in Occurrence : k # e[1] => record'[k] = record[k],
           e[1] \in Recorded' <=> Applies(e)
    PROVE  TopInv'
<1> SUFFICES ASSUME NEW k \in Occurrence, k \notin outOfOrder', NEW n \in 0..MaxToggles, Top(k, n)'
             PROVE  (k \in Recorded)' <=> n % 2 = 1
  BY DEF TopInv
<1>1. k \notin outOfOrder /\ handled' = handled \cup {e} /\ e = <<e[1], e[2]>> /\ e[2] \in 1..MaxToggles
  BY EventParts DEF Handled
<1>2. CASE k # e[1]
  <2>1. \A m : <<k, m>> \in handled' <=> <<k, m>> \in handled
    BY <1>1, <1>2
  <2>2. Top(k, n)
    BY <2>1 DEF Top
  <2>3. k \in Recorded' <=> k \in Recorded
    BY <1>2 DEF Recorded
  <2>4. QED
    BY <1>1, <2>2, <2>3 DEF TopInv
<1>3. CASE k = e[1]
  <2>1. ~OutOfTurn(e)
    BY <1>3 DEF Handled
  <2>2. e = <<k, e[2]>> /\ e \in handled'
    BY <1>1, <1>3
  <2>3. ~(e[2] > n)
    BY <1>1, <2>2 DEF Top
  <2>4. ~(e[2] < n)
    <3> SUFFICES ASSUME e[2] < n PROVE FALSE
      OBVIOUS
    <3>1. n \in 1..MaxToggles /\ n # 0 /\ n > e[2]
      BY <1>1
    <3>2. <<k, n>> \in handled' /\ <<k, n>> # e
      BY <2>2, <3>1 DEF Top
    <3>3. <<k, n>> \in handled
      BY <1>1, <3>2
    <3>4. QED
      BY <1>3, <2>1, <3>1, <3>3 DEF OutOfTurn
  <2>5. n = e[2]
    BY <1>1, <2>3, <2>4
  <2>6. QED
    BY <1>3, <2>5 DEF Applies
<1>4. QED
  BY <1>2, <1>3

LEMMA TopNext == Typed /\ TopInv /\ [Next]_vars => TopInv'
<1> SUFFICES ASSUME Typed, TopInv, [Next]_vars PROVE TopInv'
  OBVIOUS
<1>1. ASSUME UNCHANGED <<record, handled, outOfOrder>> PROVE TopInv'
  BY <1>1, TopKeeps
<1>2. ASSUME NEW d \in Dispatcher, Handle(d) PROVE TopInv'
  <2>1. PICK e \in dispatcher[d].batch :
           (Settled(e) /\ Handled(e)) \/ UNCHANGED <<handled, outOfOrder>>
    BY <1>2 DEF Handle
  <2>2. e \in Event /\ UNCHANGED record
    BY <1>2 DEF Typed, TypeOK, DispatcherState, Handle, goal
  <2>3. Recorded' = Recorded
    BY <2>2 DEF Recorded
  <2>4. QED
    BY <1>1, <2>1, <2>2, <2>3, TopHandled DEF Settled
<1>3. ASSUME NEW d \in Dispatcher, Write(d) PROVE TopInv'
  <2>1. PICK e \in dispatcher[d].event : Contribute(d, e) \/ Withdraw(d, e) \/ UNCHANGED <<goal, history>>
    BY <1>3 DEF Write
  <2>2. e \in Event /\ e[1] \in Occurrence
    BY EventParts DEF Typed, TypeOK, DispatcherState
  <2>3. CASE Contribute(d, e)
    <3>1. \A k \in Occurrence : record'[k] = IF k = e[1] THEN version + 1 ELSE record[k]
      BY <2>2, <2>3 DEF Contribute, Typed, TypeOK
    <3>2. version + 1 # NoRecord
      BY Numbers DEF NoRecord
    <3>3. e[1] \in Recorded'
      BY <2>2, <3>1, <3>2 DEF Recorded
    <3>4. QED
      BY <2>2, <2>3, <3>1, <3>3, TopHandled DEF Contribute
  <2>4. CASE Withdraw(d, e)
    <3>1. \A k \in Occurrence : record'[k] = IF k = e[1] THEN NoRecord ELSE record[k]
      BY <2>2, <2>4 DEF Withdraw, Typed, TypeOK
    <3>2. e[1] \notin Recorded'
      BY <2>2, <3>1 DEF Recorded
    <3>3. QED
      BY <2>2, <2>4, <3>1, <3>2, TopHandled DEF Withdraw
  <2>5. QED
    BY <1>1, <2>1, <2>3, <2>4 DEF goal, history
<1>4. ASSUME \/ \E k \in Occurrence : Toggle(k)
             \/ RecordByHand \/ EditKeyResult
             \/ \E e \in Event : BecomesAvailable(e) \/ LeaseLapses(e) \/ Replay(e)
             \/ \E d \in Dispatcher : Claim(d) \/ ReadRecords(d) \/ Mark(d) \/ HandlerFails(d) \/ Interrupted(d)
             \/ UNCHANGED vars
      PROVE  TopInv'
  BY <1>1, <1>4 DEF Toggle, RecordByHand, EditKeyResult, SaveByHand, BecomesAvailable, LeaseLapses, Replay,
                    Claim, ReadRecords, Mark, HandlerFails, Interrupted, vars, goal, history
<1>5. QED
  BY <1>2, <1>3, <1>4 DEF Next, Step

\* Rows never vanish, and only a handled event is delivered.
LEMMA EventsStep ==
    ASSUME Typed, EventsInv,
           handled' = handled \/ \E e \in Event : handled' = handled \cup {e} /\ outbox[e].status # "absent",
           \A e \in Event : outbox[e].status # "absent" => outbox'[e].status # "absent",
           \A e \in Event : outbox'[e].status = "DELIVERED" => outbox[e].status = "DELIVERED" \/ e \in handled,
           \A d \in Dispatcher : UNCHANGED (dispatcher[d]) \/ Honest(dispatcher[d])'
    PROVE  EventsInv'
<1>1. handled \subseteq handled' /\ handled \subseteq Event
  BY DEF Typed, TypeOK
<1>2. ASSUME NEW d \in Dispatcher, UNCHANGED (dispatcher[d]) PROVE Honest(dispatcher[d])'
  <2>1. dispatcher[d].batch \cup dispatcher[d].event \subseteq Event
    BY DEF Typed, TypeOK, DispatcherState
  <2>2. Honest(dispatcher[d])
    BY DEF EventsInv
  <2>3. QED
    BY <1>1, <1>2, <2>1, <2>2 DEF Honest
<1>3. \A e \in Event : outbox'[e].status = "DELIVERED" => e \in handled'
  BY <1>1 DEF EventsInv
<1>4. \A e \in handled' : outbox'[e].status # "absent"
  BY <1>1 DEF EventsInv
<1>5. QED
  BY <1>2, <1>3, <1>4 DEF EventsInv

\* A dispatcher's step, with its row's or without.
LEMMA EventsUpdate ==
    ASSUME Typed, EventsInv, NEW d \in Dispatcher, NEW s, Update(d, s),
           handled' = handled \/ \E e \in Event : handled' = handled \cup {e} /\ outbox[e].status # "absent",
           \A e \in Event : outbox[e].status # "absent" => outbox'[e].status # "absent",
           \A e \in Event : outbox'[e].status = "DELIVERED" => outbox[e].status = "DELIVERED" \/ e \in handled,
           \A e \in s.batch \cup s.event : outbox'[e].status # "absent",
           s.at = "marking" => s.outcome = "failed" \/ s.event \subseteq handled'
    PROVE  EventsInv'
<1>1. \A c \in Dispatcher : dispatcher'[c] = IF c = d THEN s ELSE dispatcher[c]
  BY DEF Typed, TypeOK, Update
<1>2. Honest(dispatcher[d])'
  BY <1>1 DEF Honest
<1>3. QED
  BY <1>1, <1>2, EventsStep

LEMMA EventsNext == Typed /\ EventsInv /\ [Next]_vars => EventsInv'
<1> SUFFICES ASSUME Typed, EventsInv, [Next]_vars PROVE EventsInv'
  OBVIOUS
<1>0. /\ TypeOK /\ Typed'
      /\ \A d \in Dispatcher : dispatcher[d] \in DispatcherState
      /\ \A d \in Dispatcher : \A e \in dispatcher[d].batch \cup dispatcher[d].event :
             e \in Event /\ outbox[e] \in OutboxRow /\ outbox[e].status # "absent"
  BY TypedNext DEF Typed, TypeOK, DispatcherState, EventsInv, Honest
<1>1. ASSUME UNCHANGED <<outbox, dispatcher, handled>> PROVE EventsInv'
  BY <1>1 DEF EventsInv, Honest
<1>2. ASSUME NEW e \in Event, NEW row, row.status \notin {"absent", "DELIVERED"},
             outbox' = [outbox EXCEPT ![e] = row], UNCHANGED <<dispatcher, handled>>
      PROVE  EventsInv'
  <2>1. \A f \in Event : outbox'[f] = IF f = e THEN row ELSE outbox[f]
    BY <1>0, <1>2 DEF TypeOK
  <2>2. QED
    BY <1>2, <2>1, EventsStep
<1>3. ASSUME NEW k \in Occurrence, Toggle(k) PROVE EventsInv'
  <2> DEFINE e == <<k, toggles[k] + 1>>
             row == [outbox[e] EXCEPT !.status = "PENDING", !.available = TRUE]
  <2>1. e \in Event
    BY <1>0, <1>3, OutboxAssumption DEF Toggle, TypeOK, Event
  <2>2. outbox' = [outbox EXCEPT ![e] = row]
    BY <1>0, <1>3 DEF Toggle, TypeOK
  <2>3. row.status = "PENDING"
    BY <1>0, <2>1 DEF TypeOK, OutboxRow
  <2> HIDE DEF e, row
  <2>4. QED
    BY <1>2, <1>3, <2>1, <2>2, <2>3 DEF Toggle, history
<1>4. ASSUME NEW e \in Event, BecomesAvailable(e) \/ LeaseLapses(e) \/ Replay(e) PROVE EventsInv'
  <2>1. PICK row : row.status \notin {"absent", "DELIVERED"} /\ outbox' = [outbox EXCEPT ![e] = row]
    <3> DEFINE available == [outbox[e] EXCEPT !.available = TRUE]
               replayed == [status |-> "PENDING", attempts |-> 0, available |-> TRUE]
    <3>1. CASE Replay(e)
      <4>1. outbox' = [outbox EXCEPT ![e] = replayed] /\ replayed.status \notin {"absent", "DELIVERED"}
        BY <3>1 DEF Replay
      <4> HIDE DEF replayed
      <4>2. QED
        BY <4>1
    <3>2. CASE BecomesAvailable(e) \/ LeaseLapses(e)
      <4>1. outbox' = [outbox EXCEPT ![e] = available] /\ available.status \notin {"absent", "DELIVERED"}
        BY <1>0, <3>2 DEF BecomesAvailable, LeaseLapses, Waiting, TypeOK, OutboxRow
      <4> HIDE DEF available
      <4>2. QED
        BY <4>1
    <3>3. QED
      BY <1>4, <3>1, <3>2
  <2>2. QED
    BY <1>2, <1>4, <2>1 DEF BecomesAvailable, LeaseLapses, Replay, history
<1>5. ASSUME NEW d \in Dispatcher, Claim(d) PROVE EventsInv'
  <2> DEFINE claimed == {e \in Event : Claimable(e)}
             s == [Idle EXCEPT !.at = "handling", !.batch = claimed]
  <2>1. s.batch = claimed /\ s.event = {} /\ s.outcome = "none" /\ Update(d, s)
    BY <1>5 DEF Claim, Idle
  <2>2. \A e \in Event :
           \/ e \in claimed /\ outbox'[e].status = "PROCESSING"
           \/ e \notin claimed /\ outbox'[e] = outbox[e]
    BY <1>0, <1>5 DEF Claim, TypeOK, OutboxRow
  <2>3. claimed \subseteq Event
    OBVIOUS
  <2> HIDE DEF s, claimed
  <2>4. QED
    BY <1>5, <2>1, <2>2, <2>3, EventsUpdate DEF Claim, history
<1>6. ASSUME NEW d \in Dispatcher, Handle(d) PROVE EventsInv'
  <2>1. PICK e \in dispatcher[d].batch :
              \/ Update(d, Skipping(d, e)) /\ Handled(e)
              \/ /\ UNCHANGED <<handled, outOfOrder>>
                 /\ Update(d, IF Applies(e) THEN Applying(d, e) ELSE Reverting(d, e))
    BY <1>6, HandleStates
  <2>2. UNCHANGED outbox
    BY <1>6 DEF Handle
  <2>3. \A s \in {Skipping(d, e), Applying(d, e), Reverting(d, e)} :
           s.event = {e} /\ s.batch = dispatcher[d].batch \ {e}
    BY HandleStatesOK
  <2>4. CASE Update(d, Skipping(d, e)) /\ Handled(e)
    BY <1>0, <2>2, <2>3, <2>4, EventsUpdate DEF Handled
  <2>5. CASE /\ UNCHANGED handled
             /\ Update(d, IF Applies(e) THEN Applying(d, e) ELSE Reverting(d, e))
    <3>1. Applying(d, e).at = "writing" /\ Reverting(d, e).at = "reading"
      BY <1>0 DEF Applying, Reverting, Started, DispatcherState
    <3>2. QED
      BY <1>0, <2>2, <2>3, <2>5, <3>1, EventsUpdate
  <2>6. QED
    BY <2>1, <2>4, <2>5
<1>7. ASSUME NEW d \in Dispatcher, ReadRecords(d) PROVE EventsInv'
  <2>1. PICK n : Update(d, Read(d, n))
    <3>1. PICK e \in dispatcher[d].event :
             Update(d, Read(d, Cardinality(Remaining(e, dispatcher[d].target)) + manual))
      BY <1>7 DEF ReadRecords, Remaining, Read
    <3>2. QED
      BY <3>1
  <2>2. /\ Read(d, n).event = dispatcher[d].event /\ Read(d, n).batch = dispatcher[d].batch
        /\ Read(d, n).at = "writing"
    BY <1>0 DEF Read, DispatcherState
  <2>3. QED
    BY <1>0, <1>7, <2>1, <2>2, EventsUpdate DEF ReadRecords, history
<1>8. \A d \in Dispatcher : \A x \in {"done", "failed"} :
         /\ Marking(d, x).at = "marking" /\ Marking(d, x).outcome = x
         /\ Marking(d, x).event = dispatcher[d].event /\ Marking(d, x).batch = dispatcher[d].batch
  BY DEF Marking, Idle
<1>9. ASSUME NEW d \in Dispatcher, Write(d) PROVE EventsInv'
  <2>1. PICK e \in dispatcher[d].event :
           \/ Handled(e) /\ Update(d, Marking(d, "done"))
           \/ UNCHANGED handled /\ Update(d, Marking(d, "failed"))
    BY <1>9 DEF Write, Contribute, Withdraw, history
  <2>2. UNCHANGED outbox
    BY <1>9 DEF Write
  <2>3. CASE Handled(e) /\ Update(d, Marking(d, "done"))
    <3>1. dispatcher[d].event \subseteq handled'
      BY <2>1, <2>3 DEF Typed, Handled
    <3>2. QED
      BY <1>0, <1>8, <2>2, <2>3, <3>1, EventsUpdate DEF Handled
  <2>4. CASE UNCHANGED handled /\ Update(d, Marking(d, "failed"))
    BY <1>0, <1>8, <2>2, <2>4, EventsUpdate
  <2>5. QED
    BY <2>1, <2>3, <2>4
<1>10. ASSUME NEW d \in Dispatcher, HandlerFails(d) PROVE EventsInv'
  <2>1. Update(d, Marking(d, "failed")) /\ UNCHANGED handled
    BY <1>10 DEF HandlerFails, history
  <2>2. \/ UNCHANGED outbox
        \/ \E e \in handled : \A f \in Event :
              IF f = e THEN outbox'[f].status = "DELIVERED" ELSE outbox'[f] = outbox[f]
    <3>1. CASE ~UNCHANGED outbox
      <4>1. PICK e \in dispatcher[d].event :
               /\ dispatcher[d].at = "marking" /\ dispatcher[d].outcome = "done"
               /\ outbox' = [outbox EXCEPT ![e].status = "DELIVERED", ![e].available = FALSE]
        BY <1>10, <3>1 DEF HandlerFails
      <4>2. e \in handled
        BY <4>1 DEF EventsInv, Honest
      <4>3. \A f \in Event : IF f = e THEN outbox'[f].status = "DELIVERED" ELSE outbox'[f] = outbox[f]
        BY <1>0, <4>1 DEF TypeOK, OutboxRow
      <4>4. QED
        BY <4>2, <4>3
    <3>2. QED
      BY <3>1
  <2>3. \A e \in Event :
           /\ outbox[e].status # "absent" => outbox'[e].status # "absent"
           /\ outbox'[e].status = "DELIVERED" => outbox[e].status = "DELIVERED" \/ e \in handled
    BY <2>2
  <2>4. QED
    BY <1>0, <1>8, <2>1, <2>3, EventsUpdate
<1>11. ASSUME NEW d \in Dispatcher, Mark(d) PROVE EventsInv'
  <2>1. /\ Update(d, NextEvent(d)) /\ UNCHANGED handled
        /\ NextEvent(d).event = {} /\ NextEvent(d).batch \subseteq dispatcher[d].batch
        /\ NextEvent(d).at # "marking"
    BY <1>11 DEF Mark, history, NextEvent, Idle
  <2>2. PICK e \in dispatcher[d].event :
          \/ UNCHANGED outbox
          \/ outbox[e].status = "PROCESSING" /\ outbox' = [outbox EXCEPT ![e] = Retried(@)]
          \/ /\ dispatcher[d].outcome # "failed"
             /\ outbox' = [outbox EXCEPT ![e].status = "DELIVERED", ![e].available = FALSE]
    BY <1>11 DEF Mark
  <2>3. e \in Event /\ outbox[e] \in OutboxRow
    BY <1>0
  <2>4. CASE outbox[e].status = "PROCESSING" /\ outbox' = [outbox EXCEPT ![e] = Retried(@)]
    <3>1. Retried(outbox[e]).status \in {"PENDING", "DEAD_LETTER"}
      BY <2>3, <2>4, RetriedRow DEF Typed, RowsOK
    <3>2. \A f \in Event : outbox'[f] = IF f = e THEN Retried(outbox[e]) ELSE outbox[f]
      BY <1>0, <2>3, <2>4 DEF TypeOK
    <3>3. QED
      BY <1>0, <2>1, <3>1, <3>2, EventsUpdate
  <2>5. CASE /\ dispatcher[d].outcome # "failed"
             /\ outbox' = [outbox EXCEPT ![e].status = "DELIVERED", ![e].available = FALSE]
    <3>1. e \in handled
      BY <1>11, <2>5 DEF EventsInv, Honest, Mark
    <3>2. \A f \in Event : IF f = e THEN outbox'[f].status = "DELIVERED" ELSE outbox'[f] = outbox[f]
      BY <1>0, <2>3, <2>5 DEF TypeOK, OutboxRow
    <3>3. QED
      BY <1>0, <2>1, <3>1, <3>2, EventsUpdate
  <2>6. CASE UNCHANGED outbox
    BY <1>0, <2>1, <2>6, EventsUpdate
  <2>7. QED
    BY <2>2, <2>4, <2>5, <2>6
<1>12. ASSUME NEW d \in Dispatcher, Interrupted(d) PROVE EventsInv'
  <2>1. Idle.event = {} /\ Idle.batch = {} /\ Idle.at # "marking"
    BY DEF Idle
  <2>2. QED
    BY <1>12, <2>1, EventsUpdate DEF Interrupted, history
<1>13. QED
  BY <1>1, <1>3, <1>4, <1>5, <1>6, <1>7, <1>9, <1>10, <1>11, <1>12
  DEF Next, Step, RecordByHand, EditKeyResult, SaveByHand, vars, history

----------------------------------------------------------------------------
(* The theorems. *)

Inv == Typed /\ SumInv /\ EventsInv /\ TopInv

LEMMA Invariant == Spec => []Inv
<1>1. Init => Inv
  BY TypedInit, SumInit, OrderInit DEF Inv
<1>2. Inv /\ [Next]_vars => Inv'
  BY TypedNext, SumNext, EventsNext, TopNext DEF Inv
<1>3. QED
  BY <1>1, <1>2, PTL DEF Spec

\* The rows, dispatchers and goal keep the shapes the code gives them: no row
\* is tried more often than maxAttempts (TypeOK).
THEOREM TypeCorrect == Spec => []TypeOK
<1>1. Inv => TypeOK
  BY DEF Inv, Typed
<1>2. QED
  BY <1>1, Invariant, PTL

\* However many dispatchers and users write the goal from what they read
\* earlier, its progress is the sum of its records, unless the user set it by
\* hand and nothing has recomputed it since, or a revert has removed a record
\* without comparing the version (ProgressIsSum).
THEOREM ProgressStaysSum == Spec => []ProgressIsSum
<1>1. Inv => ProgressIsSum
  BY DEF Inv, SumInv, Sum, ProgressIsSum
<1>2. QED
  BY <1>1, Invariant, PTL

\* Once an occurrence's events are all delivered the goal counts it exactly
\* when it is completed, whatever was retried, redelivered, replayed or
\* handled twice, unless one of them took effect out of turn (AgreesInOrder).
THEOREM AgreementInOrder == Spec => []AgreesInOrder
<1>1. ASSUME Inv PROVE AgreesInOrder
  <2> SUFFICES ASSUME NEW k \in Occurrence, AllDelivered(k), k \notin outOfOrder
               PROVE  k \in Recorded <=> Completed(k)
    BY DEF AgreesInOrder
  <2>1. toggles[k] \in 0..MaxToggles /\ MaxToggles \in Nat /\ handled \subseteq Event
    BY <1>1, OutboxAssumption DEF Inv, Typed, TypeOK
  <2>2. toggles[k] = 0 \/ <<k, toggles[k]>> \in handled
    <3>1. CASE toggles[k] # 0
      <4>1. toggles[k] \in 1..toggles[k] /\ <<k, toggles[k]>> \in Event
        BY <2>1, <3>1 DEF Event
      <4>2. outbox[<<k, toggles[k]>>].status = "DELIVERED"
        BY <4>1 DEF AllDelivered
      <4>3. QED
        BY <1>1, <4>1, <4>2 DEF Inv, EventsInv
    <3>2. QED
      BY <3>1
  <2>3. ASSUME NEW m \in 1..MaxToggles, m > toggles[k], <<k, m>> \in handled PROVE FALSE
    <3>1. <<k, m>> \in Event /\ outbox[<<k, m>>].status # "absent"
      BY <1>1, <2>1, <2>3 DEF Inv, EventsInv
    <3>2. <<k, m>>[2] <= toggles[<<k, m>>[1]]
      BY <1>1, <3>1 DEF Inv, Typed, RowsOK
    <3>3. QED
      BY <2>1, <2>3, <3>2
  <2>4. Top(k, toggles[k])
    BY <2>2, <2>3 DEF Top
  <2>5. QED
    BY <1>1, <2>1, <2>4 DEF Inv, TopInv, Completed
<1>2. Inv => AgreesInOrder
  BY <1>1
<1>3. QED
  BY <1>2, Invariant, PTL

----------------------------------------------------------------------------
(* The contract. *)

\* A revert under way has found a record to remove.
TargetInv ==
    \A d \in Dispatcher : \A e \in dispatcher[d].event :
        dispatcher[d].at \in {"reading", "writing"} /\ ~Applies(e) => dispatcher[d].target # NoRecord

LEMMA TargetInit == Init => TargetInv
BY DEF Init, Idle, TargetInv

LEMMA TargetUpdate ==
    ASSUME Typed, TargetInv, NEW d \in Dispatcher, NEW s, Update(d, s),
           \A e \in s.event : s.at \in {"reading", "writing"} /\ ~Applies(e) => s.target # NoRecord
    PROVE  TargetInv'
<1>1. \A c \in Dispatcher : dispatcher'[c] = IF c = d THEN s ELSE dispatcher[c]
  BY DEF Typed, TypeOK, Update
<1>2. \A e : Applies(e)' <=> Applies(e)
  BY DEF Applies
<1>3. QED
  BY <1>1, <1>2 DEF TargetInv

LEMMA TargetNext == Typed /\ TargetInv /\ [Next]_vars => TargetInv'
<1> SUFFICES ASSUME Typed, TargetInv, [Next]_vars PROVE TargetInv'
  OBVIOUS
<1>0. TypeOK /\ \A d \in Dispatcher : dispatcher[d] \in DispatcherState
  BY DEF Typed, TypeOK
<1>1. ASSUME UNCHANGED dispatcher PROVE TargetInv'
  BY <1>1 DEF TargetInv, Applies
<1>2. ASSUME NEW d \in Dispatcher, NEW s, Update(d, s), s.at \notin {"reading", "writing"} PROVE TargetInv'
  BY <1>2, TargetUpdate
<1>3. ASSUME NEW d \in Dispatcher, Claim(d) PROVE TargetInv'
  <2> DEFINE s == [Idle EXCEPT !.at = "handling", !.batch = {e \in Event : Claimable(e)}]
  <2>1. Update(d, s) /\ s.at = "handling"
    BY <1>3 DEF Claim, Idle
  <2> HIDE DEF s
  <2>2. QED
    BY <1>2, <2>1
<1>4. ASSUME NEW d \in Dispatcher, Handle(d) PROVE TargetInv'
  <2>1. PICK e \in dispatcher[d].batch :
              \/ Update(d, Skipping(d, e))
              \/ ~Settled(e) /\ Update(d, IF Applies(e) THEN Applying(d, e) ELSE Reverting(d, e))
    BY <1>4, HandleStates
  <2>2. dispatcher[d] \in DispatcherState /\ e \in Event /\ e[1] \in Occurrence
    BY <1>0, EventParts DEF DispatcherState
  <2>3. /\ Skipping(d, e).at = "marking" /\ Applying(d, e).event = {e}
        /\ Reverting(d, e).event = {e} /\ Reverting(d, e).target = record[e[1]]
    BY <2>2 DEF Skipping, Applying, Reverting, Started, DispatcherState
  <2>4. CASE Update(d, Skipping(d, e))
    BY <1>2, <2>3, <2>4
  <2>5. CASE Applies(e) /\ Update(d, Applying(d, e))
    BY <2>3, <2>5, TargetUpdate
  <2>6. CASE ~Settled(e) /\ ~Applies(e) /\ Update(d, Reverting(d, e))
    <3>1. record[e[1]] # NoRecord
      BY <2>2, <2>6 DEF Settled, Recorded
    <3>2. QED
      BY <2>3, <2>6, <3>1, TargetUpdate
  <2>7. QED
    BY <2>1, <2>4, <2>5, <2>6
<1>5. ASSUME NEW d \in Dispatcher, ReadRecords(d) PROVE TargetInv'
  <2>1. PICK n : Update(d, Read(d, n))
    <3>1. PICK e \in dispatcher[d].event :
             Update(d, Read(d, Cardinality(Remaining(e, dispatcher[d].target)) + manual))
      BY <1>5 DEF ReadRecords, Remaining, Read
    <3>2. QED
      BY <3>1
  <2>2. Read(d, n).event = dispatcher[d].event /\ Read(d, n).target = dispatcher[d].target
    BY <1>0 DEF Read, DispatcherState
  <2>3. dispatcher[d].at = "reading"
    BY <1>5 DEF ReadRecords
  <2>4. QED
    BY <2>1, <2>2, <2>3, TargetUpdate DEF TargetInv
<1>6. ASSUME NEW d \in Dispatcher, Write(d) \/ HandlerFails(d) PROVE TargetInv'
  <2>1. PICK x \in {"done", "failed"} : Update(d, Marking(d, x))
    BY <1>6 DEF Write, HandlerFails
  <2>2. Marking(d, x).at = "marking"
    BY DEF Marking, Idle
  <2>3. QED
    BY <1>2, <2>1, <2>2
<1>7. ASSUME NEW d \in Dispatcher, Mark(d) \/ Interrupted(d) PROVE TargetInv'
  <2>1. Update(d, NextEvent(d)) \/ Update(d, Idle)
    BY <1>7 DEF Mark, Interrupted
  <2>2. NextEvent(d).at \in {"idle", "handling"} /\ Idle.at = "idle"
    BY DEF NextEvent, Idle
  <2>3. QED
    BY <1>2, <2>1, <2>2
<1>8. QED
  BY <1>1, <1>3, <1>4, <1>5, <1>6, <1>7
  DEF Next, Step, Toggle, RecordByHand, EditKeyResult, SaveByHand, BecomesAvailable, LeaseLapses, Replay, vars

LEMMA DeliveryValues ==
    /\ DeliveryOf("DELIVERED") = "delivered"
    /\ DeliveryOf("DEAD_LETTER") = "dead"
    /\ \A status \in {"absent", "PENDING", "PROCESSING"} : DeliveryOf(status) = "open"
BY DEF DeliveryOf

\* What the contract sees of the rows, and of a row's change.
LEMMA DeliveriesKeep ==
    ASSUME \A e \in Event : DeliveryOf(outbox'[e].status) = DeliveryOf(outbox[e].status)
    PROVE  UNCHANGED Deliveries
BY DEF Deliveries

LEMMA RowDelivery ==
    ASSUME NEW e \in Event, NEW status,
           \A f \in Event : outbox'[f].status = IF f = e THEN status ELSE outbox[f].status
    PROVE  /\ Deliveries' = [Deliveries EXCEPT ![e] = DeliveryOf(status)]
           /\ Deliveries[e] = DeliveryOf(outbox[e].status)
           /\ DeliveryOf(status) = DeliveryOf(outbox[e].status) => UNCHANGED Deliveries
<1>1. Deliveries' = [f \in Event |-> DeliveryOf(outbox'[f].status)]
  BY DEF Deliveries
<1>2. \A f \in Event : Deliveries'[f] = IF f = e THEN DeliveryOf(status) ELSE Deliveries[f]
  BY <1>1 DEF Deliveries
<1>3. DOMAIN Deliveries = Event /\ DOMAIN Deliveries' = Event
  BY <1>1 DEF Deliveries
<1>4. Deliveries' = [Deliveries EXCEPT ![e] = DeliveryOf(status)]
  BY <1>1, <1>2, <1>3 DEF Deliveries
<1>5. DeliveryOf(status) = DeliveryOf(outbox[e].status) => UNCHANGED Deliveries
  BY DeliveriesKeep
<1>6. QED
  BY <1>4, <1>5 DEF Deliveries

\* The contract's instance has a name of its own for what counts a set.
LEMMA SameCardinality == \A S : Contract!Cardinality(S) = Cardinality(S)
BY Zenon DEF Cardinality, Contract!Cardinality

\* What the contract sees beside the rows.
Effects == <<handled, Recorded, manual, progress, unchecked>>

LEMMA Stutters ==
    ASSUME UNCHANGED <<toggles, Deliveries, Effects>>
    PROVE  [Contract!ContractNext]_(Contract!contractVars)
BY DEF Effects, Contract!contractVars

\* A row settles, is replayed, or moves where the contract does not look.
LEMMA RowRefines ==
    ASSUME NEW e \in Event, NEW status, UNCHANGED <<toggles, Effects>>,
           \A f \in Event : outbox'[f].status = IF f = e THEN status ELSE outbox[f].status,
           \/ DeliveryOf(status) = DeliveryOf(outbox[e].status)
           \/ /\ outbox[e].status = "PROCESSING"
              /\ status = "DEAD_LETTER" \/ (status = "DELIVERED" /\ e \in handled)
           \/ outbox[e].status = "DEAD_LETTER" /\ status = "PENDING"
    PROVE  [Contract!ContractNext]_(Contract!contractVars)
<1>1. /\ Deliveries' = [Deliveries EXCEPT ![e] = DeliveryOf(status)]
      /\ Deliveries[e] = DeliveryOf(outbox[e].status)
  BY RowDelivery
<1>2. CASE DeliveryOf(status) = DeliveryOf(outbox[e].status)
  BY <1>2, RowDelivery, Stutters
<1>3. CASE outbox[e].status = "PROCESSING" /\ status = "DEAD_LETTER"
  <2>1. Contract!Settle(e, "dead")
    BY <1>1, <1>3, DeliveryValues DEF Effects, Contract!Settle
  <2>2. QED
    BY <2>1 DEF Contract!ContractNext
<1>4. CASE outbox[e].status = "PROCESSING" /\ status = "DELIVERED" /\ e \in handled
  <2>1. Contract!Settle(e, "delivered")
    BY <1>1, <1>4, DeliveryValues DEF Effects, Contract!Settle
  <2>2. QED
    BY <2>1 DEF Contract!ContractNext
<1>5. CASE outbox[e].status = "DEAD_LETTER" /\ status = "PENDING"
  <2>1. Contract!Replay(e)
    BY <1>1, <1>5, DeliveryValues DEF Effects, Contract!Replay
  <2>2. QED
    BY <2>1 DEF Contract!ContractNext
<1>6. QED
  BY <1>2, <1>3, <1>4, <1>5

LEMMA ToggleRefines ==
    ASSUME Inv, NEW k \in Occurrence, Toggle(k)
    PROVE  [Contract!ContractNext]_(Contract!contractVars)
<1> DEFINE e == <<k, toggles[k] + 1>>
<1>1. TypeOK /\ RowsOK
  BY DEF Inv, Typed
<1>2. e \in Event /\ e[1] = k /\ e[2] = toggles[k] + 1 /\ toggles[k] \in Nat
  BY <1>1, OutboxAssumption DEF Toggle, TypeOK, Event
<1>3. outbox' = [outbox EXCEPT ![e] = [outbox[e] EXCEPT !.status = "PENDING", !.available = TRUE]]
  BY <1>1 DEF Toggle, TypeOK
<1> HIDE DEF e
<1>4. outbox[e].status = "absent"
  BY <1>1, <1>2 DEF RowsOK
<1>5. \A f \in Event : outbox'[f].status = IF f = e THEN "PENDING" ELSE outbox[f].status
  BY <1>1, <1>2, <1>3 DEF TypeOK, OutboxRow
<1>6. UNCHANGED Deliveries
  BY <1>2, <1>4, <1>5, DeliveryValues, RowDelivery
<1>7. UNCHANGED Effects
  BY DEF Toggle, Effects, goal, history, Recorded
<1>8. Contract!Send(k)
  BY <1>6, <1>7 DEF Toggle, Effects, Contract!Send
<1>9. QED
  BY <1>8 DEF Contract!ContractNext

LEMMA ByHandRefines ==
    ASSUME Inv, RecordByHand \/ EditKeyResult
    PROVE  [Contract!ContractNext]_(Contract!contractVars)
<1>1. UNCHANGED <<toggles, handled, Deliveries, Recorded, unchecked>>
  BY DEF RecordByHand, EditKeyResult, SaveByHand, Deliveries, Recorded
<1>2. progress' \in Nat /\ manual' \in Nat
  <2>1. Typed'
    BY TypedNext DEF Inv, Next
  <2>2. QED
    BY <2>1, OutboxAssumption DEF Typed, TypeOK
<1>3. CASE RecordByHand
  <2>1. Contract!ProgressFollows
    BY <1>1, <1>3, SameCardinality DEF RecordByHand, Contract!ProgressFollows
  <2>2. Contract!RecordByHand
    BY <1>1, <1>2, <2>1 DEF Contract!RecordByHand
  <2>3. QED
    BY <2>2 DEF Contract!ContractNext
<1>4. CASE EditKeyResult
  <2>1. Contract!SetByHand
    BY <1>1, <1>2, <1>4 DEF EditKeyResult, Contract!SetByHand
  <2>2. QED
    BY <2>1 DEF Contract!ContractNext
<1>5. QED
  BY <1>3, <1>4

\* An event that somebody works on was sent.
LEMMA WorkedOnSent ==
    ASSUME Inv, NEW d \in Dispatcher, NEW e \in dispatcher[d].batch \cup dispatcher[d].event
    PROVE  e \in Event /\ e[1] \in Occurrence /\ Contract!Sent(e)
<1>1. e \in Event /\ e[1] \in Occurrence
  BY EventParts DEF Inv, Typed, TypeOK, DispatcherState
<1>2. outbox[e].status # "absent"
  BY DEF Inv, EventsInv, Honest
<1>3. QED
  BY <1>1, <1>2 DEF Inv, Typed, RowsOK, Contract!Sent

\* The goal has it already: an effect that changes nothing.
LEMMA HandleRefines ==
    ASSUME Inv, NEW d \in Dispatcher, Handle(d)
    PROVE  [Contract!ContractNext]_(Contract!contractVars)
<1>1. PICK e \in dispatcher[d].batch : (Settled(e) /\ Handled(e)) \/ UNCHANGED <<handled, outOfOrder>>
  BY DEF Handle
<1>2. UNCHANGED <<toggles, Deliveries, Recorded, manual, progress, unchecked>>
  BY DEF Handle, goal, Deliveries, Recorded
<1>3. CASE UNCHANGED handled
  BY <1>2, <1>3, Stutters DEF Effects
<1>4. CASE Settled(e) /\ Handled(e)
  <2>1. e \in Event /\ Contract!Sent(e)
    BY WorkedOnSent
  <2>2. Contract!Repeat(e)
    BY <1>2, <1>4, <2>1
    DEF Settled, Handled, Applies, Contract!Repeat, Contract!TakesEffect, Contract!Completes
  <2>3. QED
    BY <2>1, <2>2 DEF Contract!ContractNext
<1>5. QED
  BY <1>1, <1>3, <1>4

LEMMA ContributeRefines ==
    ASSUME Inv, NEW d \in Dispatcher, NEW e \in dispatcher[d].event, dispatcher[d].at = "writing",
           Contribute(d, e), UNCHANGED <<toggles, Deliveries>>
    PROVE  [Contract!ContractNext]_(Contract!contractVars)
<1>1. e \in Event /\ e[1] \in Occurrence /\ Contract!Sent(e)
  BY WorkedOnSent
<1>2. Typed
  BY DEF Inv
<1>3. version \in Nat /\ progress \in Nat /\ manual \in Nat /\ Cardinality(Recorded) \in Nat
  BY <1>2, Numbers
<1>4. Recorded' = Recorded \cup {e[1]}
  <2>1. version + 1 # NoRecord
    BY <1>3 DEF NoRecord
  <2>2. \A k \in Occurrence : record'[k] = IF k = e[1] THEN version + 1 ELSE record[k]
    BY <1>1, <1>2 DEF Contribute, Typed, TypeOK
  <2>3. QED
    BY <1>1, <2>1, <2>2 DEF Recorded
<1>5. unchecked \/ (e[1] \notin Recorded /\ progress' = Cardinality(Recorded') + manual')
  <2>1. CASE ~unchecked
    <3>1. Fresh(dispatcher[d])
      BY <2>1 DEF Contribute, Current, Inv, SumInv
    <3>2. record[e[1]] = NoRecord /\ dispatcher[d].next = Sum + 1
      BY <3>1 DEF Contribute, Fresh
    <3>3. Cardinality(Recorded') = Cardinality(Recorded) + 1
      BY <1>4, <3>2, RecordedFinite, FS_AddElement DEF Recorded
    <3>4. QED
      BY <1>3, <3>2, <3>3 DEF Contribute, Recorded, Sum
  <2>2. QED
    BY <2>1
<1>6. Contract!TakesEffect(e) /\ Contract!Completes(e)
  BY <1>1 DEF Contribute, Handled, Applies, Contract!TakesEffect, Contract!Completes
<1>7. CASE e[1] \notin Recorded
  <2>1. UNCHANGED unchecked
    BY DEF Contribute
  <2>2. Contract!ProgressFollows
    BY <1>5, <2>1, SameCardinality DEF Contract!ProgressFollows
  <2>3. Contract!Count(e)
    BY <1>4, <1>6, <1>7, <2>1, <2>2 DEF Contract!Count
  <2>4. QED
    BY <1>1, <2>3 DEF Contract!ContractNext
<1>8. CASE e[1] \in Recorded
  <2>1. Recorded' = Recorded
    BY <1>4, <1>8
  <2>2. Contract!Repeat(e)
    BY <1>5, <1>6, <1>8, <2>1 DEF Contribute, Contract!Repeat
  <2>3. QED
    BY <1>1, <2>2 DEF Contract!ContractNext
<1>9. QED
  BY <1>7, <1>8

LEMMA WithdrawRefines ==
    ASSUME Inv, TargetInv, NEW d \in Dispatcher, NEW e \in dispatcher[d].event,
           dispatcher[d].at = "writing", Withdraw(d, e), UNCHANGED <<toggles, Deliveries>>
    PROVE  [Contract!ContractNext]_(Contract!contractVars)
<1>1. e \in Event /\ e[1] \in Occurrence /\ Contract!Sent(e)
  BY WorkedOnSent
<1>2. Typed
  BY DEF Inv
<1>3. version \in Nat /\ progress \in Nat /\ manual \in Nat /\ Cardinality(Recorded) \in Nat
  BY <1>2, Numbers
<1>4. e[1] \in Recorded
  BY <1>1 DEF Withdraw, Removable, TargetInv, Recorded
<1>5. Recorded' = Recorded \ {e[1]}
  <2>1. \A k \in Occurrence : record'[k] = IF k = e[1] THEN NoRecord ELSE record[k]
    BY <1>1, <1>2 DEF Withdraw, Typed, TypeOK
  <2>2. QED
    BY <2>1 DEF Recorded
<1>6. Contract!ProgressFollows
  <2>1. CASE SkipsGoal(d) \/ unchecked
    BY <2>1 DEF Withdraw, Contract!ProgressFollows
  <2>2. CASE ~SkipsGoal(d) /\ ~unchecked
    <3>1. Fresh(dispatcher[d]) /\ progress' = dispatcher[d].next /\ UNCHANGED manual
      BY <2>2 DEF Withdraw, Current, Inv, SumInv
    <3>2. dispatcher[d].next = Cardinality(Recorded \ {e[1]}) + manual
      BY <3>1 DEF Withdraw, Fresh
    <3>3. progress' = Cardinality(Recorded') + manual'
      BY <1>5, <3>1, <3>2
    <3>4. QED
      BY <3>3, SameCardinality DEF Contract!ProgressFollows
  <2>3. QED
    BY <2>1, <2>2
<1>7. Contract!TakesEffect(e) /\ ~Contract!Completes(e) /\ (unchecked => unchecked')
  BY <1>1 DEF Withdraw, Handled, Applies, Contract!TakesEffect, Contract!Completes
<1>8. Contract!Withdraw(e)
  BY <1>4, <1>5, <1>6, <1>7 DEF Contract!Withdraw
<1>9. QED
  BY <1>1, <1>8 DEF Contract!ContractNext

LEMMA WriteRefines ==
    ASSUME Inv, TargetInv, NEW d \in Dispatcher, Write(d)
    PROVE  [Contract!ContractNext]_(Contract!contractVars)
<1>1. PICK e \in dispatcher[d].event : Contribute(d, e) \/ Withdraw(d, e) \/ UNCHANGED <<goal, history>>
  BY DEF Write
<1>2. UNCHANGED <<toggles, Deliveries>> /\ dispatcher[d].at = "writing"
  BY DEF Write, Deliveries
<1>3. CASE UNCHANGED <<goal, history>>
  <2>1. UNCHANGED Effects
    BY <1>3 DEF goal, history, Effects, Recorded
  <2>2. QED
    BY <1>2, <2>1, Stutters
<1>4. QED
  BY <1>1, <1>2, <1>3, ContributeRefines, WithdrawRefines

\* The steps of a dispatcher on its row.
LEMMA MarkRefines ==
    ASSUME Inv, NEW d \in Dispatcher, Mark(d) \/ HandlerFails(d)
    PROVE  [Contract!ContractNext]_(Contract!contractVars)
<1>1. UNCHANGED <<toggles, Effects>>
  BY DEF Mark, HandlerFails, Effects, goal, history, Recorded
<1>2. CASE UNCHANGED outbox
  <2>1. UNCHANGED Deliveries
    BY <1>2 DEF Deliveries
  <2>2. QED
    BY <1>1, <2>1, Stutters
<1>3. CASE ~UNCHANGED outbox
  <2>1. PICK e \in dispatcher[d].event :
           /\ outbox[e].status = "PROCESSING" /\ dispatcher[d].at = "marking"
           /\ \/ outbox' = [outbox EXCEPT ![e] = Retried(@)]
              \/ /\ dispatcher[d].outcome # "failed"
                 /\ outbox' = [outbox EXCEPT ![e].status = "DELIVERED", ![e].available = FALSE]
    BY <1>3 DEF Mark, HandlerFails
  <2>2. /\ e \in Event /\ outbox \in [Event -> OutboxRow] /\ outbox[e].attempts < MaxAttempts
        /\ dispatcher[d].outcome # "failed" => e \in handled
    BY <2>1, WorkedOnSent DEF Inv, Typed, TypeOK, RowsOK, EventsInv, Honest
  <2>3. CASE outbox' = [outbox EXCEPT ![e] = Retried(@)]
    <3>1. Retried(outbox[e]).status \in {"PENDING", "DEAD_LETTER"}
      BY <2>2, RetriedRow
    <3>2. \A f \in Event : outbox'[f].status = IF f = e THEN Retried(outbox[e]).status ELSE outbox[f].status
      BY <2>2, <2>3
    <3>3. Retried(outbox[e]).status = "PENDING" =>
             DeliveryOf(Retried(outbox[e]).status) = DeliveryOf(outbox[e].status)
      BY <2>1, DeliveryValues
    <3>4. QED
      BY <1>1, <2>1, <2>2, <3>1, <3>2, <3>3, RowRefines
  <2>4. CASE /\ dispatcher[d].outcome # "failed"
             /\ outbox' = [outbox EXCEPT ![e].status = "DELIVERED", ![e].available = FALSE]
    <3>1. \A f \in Event : outbox'[f].status = IF f = e THEN "DELIVERED" ELSE outbox[f].status
      BY <2>2, <2>4 DEF OutboxRow
    <3>2. QED
      BY <1>1, <2>1, <2>2, <2>4, <3>1, RowRefines
  <2>5. QED
    BY <2>1, <2>3, <2>4
<1>4. QED
  BY <1>2, <1>3

\* Claims, the time and replays.
LEMMA RowsRefine ==
    ASSUME Inv,
           \/ \E d \in Dispatcher : Claim(d)
           \/ \E e \in Event : BecomesAvailable(e) \/ LeaseLapses(e) \/ Replay(e)
    PROVE  [Contract!ContractNext]_(Contract!contractVars)
<1>1. outbox \in [Event -> OutboxRow]
  BY DEF Inv, Typed, TypeOK
<1>2. UNCHANGED <<toggles, Effects>>
  BY DEF Claim, BecomesAvailable, LeaseLapses, Replay, Effects, goal, history, Recorded
<1>3. ASSUME NEW d \in Dispatcher, Claim(d) PROVE [Contract!ContractNext]_(Contract!contractVars)
  <2>1. \A e \in Event : \/ outbox'[e].status = outbox[e].status
                         \/ outbox[e].status \in {"PENDING", "PROCESSING"} /\ outbox'[e].status = "PROCESSING"
    BY <1>1, <1>3 DEF Claim, Claimable, OutboxRow
  <2>2. UNCHANGED Deliveries
    BY <2>1, DeliveryValues, DeliveriesKeep
  <2>3. QED
    BY <1>2, <2>2, Stutters
<1>4. ASSUME NEW e \in Event, BecomesAvailable(e) \/ LeaseLapses(e)
      PROVE  [Contract!ContractNext]_(Contract!contractVars)
  <2>1. \A f \in Event : outbox'[f].status = outbox[f].status
    BY <1>1, <1>4 DEF BecomesAvailable, LeaseLapses, OutboxRow
  <2>2. UNCHANGED Deliveries
    BY <2>1, DeliveriesKeep
  <2>3. QED
    BY <1>2, <2>2, Stutters
<1>5. ASSUME NEW e \in Event, Replay(e) PROVE [Contract!ContractNext]_(Contract!contractVars)
  <2>1. outbox[e].status = "DEAD_LETTER"
        /\ \A f \in Event : outbox'[f].status = IF f = e THEN "PENDING" ELSE outbox[f].status
    BY <1>1, <1>5 DEF Replay
  <2>2. QED
    BY <1>2, <2>1, RowRefines
<1>6. QED
  BY <1>3, <1>4, <1>5

LEMMA InitRefines == Init => Contract!ContractInit
<1> SUFFICES ASSUME Init PROVE Contract!ContractInit
  OBVIOUS
<1>1. Recorded = {}
  BY DEF Init, Recorded
<1>2. Deliveries = [e \in Event |-> "open"]
  BY DeliveryValues DEF Init, Deliveries
<1>3. QED
  BY <1>1, <1>2 DEF Init, Contract!ContractInit

LEMMA StepsRefine ==
    ASSUME Inv, TargetInv, [Next]_vars
    PROVE  [Contract!ContractNext]_(Contract!contractVars)
<1>1. ASSUME NEW d \in Dispatcher, ReadRecords(d) \/ Interrupted(d)
      PROVE  [Contract!ContractNext]_(Contract!contractVars)
  <2>1. UNCHANGED <<toggles, Deliveries, Effects>>
    BY <1>1 DEF ReadRecords, Interrupted, Deliveries, Effects, goal, history, Recorded
  <2>2. QED
    BY <2>1, Stutters
<1>2. CASE UNCHANGED vars
  <2>1. UNCHANGED <<toggles, Deliveries, Effects>>
    BY <1>2 DEF vars, Deliveries, Effects, goal, history, Recorded
  <2>2. QED
    BY <2>1, Stutters
<1>3. QED
  BY <1>1, <1>2, ToggleRefines, ByHandRefines, RowsRefine, HandleRefines, WriteRefines, MarkRefines
  DEF Next, Step

\* For any number of occurrences, dispatchers, attempts and faults the outbox
\* implements its contract: though the transactions read at one time and write
\* at another and a claim has no owner, each effect on the goal looks as if it
\* happened at once, an event counts once however often it is delivered, and
\* what is delivered took effect and stays delivered (ImplementsContract;
\* GoalTaskProgressHandler, markDelivered, markRetry).
THEOREM OutboxImplementsContract == Spec => ImplementsContract
<1>1. Init => Contract!ContractInit
  BY InitRefines
<1>2. Inv /\ TargetInv /\ [Next]_vars => [Contract!ContractNext]_(Contract!contractVars)
  BY StepsRefine
<1>3. Inv /\ TargetInv /\ [Next]_vars => TargetInv'
  BY TargetNext DEF Inv
<1>4. QED
  BY <1>1, <1>2, <1>3, Invariant, TargetInit, PTL DEF Spec, ImplementsContract, Contract!ContractSpec

=============================================================================
