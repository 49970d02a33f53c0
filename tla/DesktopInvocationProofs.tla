----------------------- MODULE DesktopInvocationProofs -----------------------
(***************************************************************************)
(* Proofs about the history of ScheduledInvocation: rows, attempts and     *)
(* executions.  HistoryInv is the invariant: the row's two counters and    *)
(* the number of tokens issued are one number, attempts and executions     *)
(* carry it, and the two tables agree on the last attempt.  It is          *)
(* inductive as long as no commit is stale, on either store; the desktop   *)
(* store, where reconcile is one exclusive transaction, has no commit that *)
(* could be.  On the server store with stale commits it is false (run      *)
(* lost_update).                                                           *)
(***************************************************************************)
EXTENDS ScheduledInvocationProofs

Counted(r, issued) ==
    /\ r.fencing = r.attemptCount
    /\ issued = r.attemptCount
    /\ r.status = "absent" => r.attemptCount = 0
    /\ r.status = "running" => r.attemptCount > 0 /\ r.claim = r.attemptCount

HistoryInv ==
    /\ \A k \in Key : Counted(row[k], tokens[k])
    /\ \A a \in attempts : a.claim = a.number /\ a.fencing = a.number
    /\ \A e \in executing : e.claim = e.number /\ e.fencing = e.number
    /\ AttemptsAccountForRow
    /\ RowAgreesWithLastAttempt

\* The desktop store never has a reconcile between its read and its writes.
DesktopInv == plans = {} /\ HistoryInv

\* No row yet, nothing counted.
BlankWhenAbsent ==
    \A k \in Key :
        row[k].status = "absent" => row[k].attemptCount = 0 /\ row[k].fencing = 0

\* The rows a reconcile wants are as it read them, time aside.
ReadCurrent(d, snapshot) ==
    \A k \in DOMAIN d : Written(snapshot[k]) = Written(row[k])

\* A step writes the rows a reconcile of d leaves behind.
Declares(d, snapshot) ==
    /\ snapshot \in [Key -> Row]
    /\ ReadCurrent(d, snapshot)
    /\ ~Collision(d, snapshot)
    /\ row' = Reconciled(d, snapshot)
    /\ UNCHANGED <<attempts, executing, tokens>>

\* Unless a commit is stale, a reconcile is computed from current rows.
LEMMA ReconcilesDeclare ==
    ASSUME TypeOK, ~StaleCommit
    PROVE  /\ \A d \in DesiredSet : Reconcile(d) => Declares(d, row)
           /\ \A plan \in plans : CommitReconcile(plan) =>
                 /\ plan.desired \in DesiredSet
                 /\ Declares(plan.desired, plan.snapshot)
<1>1. ASSUME NEW d \in DesiredSet, Reconcile(d) PROVE Declares(d, row)
  BY <1>1 DEF Reconcile, Declares, ReadCurrent, TypeOK
<1>2. ASSUME NEW plan \in plans, CommitReconcile(plan)
      PROVE  plan.desired \in DesiredSet /\ Declares(plan.desired, plan.snapshot)
  <2>1. plan.desired \in DesiredSet /\ plan.snapshot \in [Key -> Row]
    BY DEF TypeOK, Plan
  <2>2. ReadCurrent(plan.desired, plan.snapshot)
    BY <1>2 DEF StaleCommit, ReadCurrent
  <2> QED
    BY <1>2, <2>1, <2>2 DEF CommitReconcile, Declares
<1> QED
  BY <1>1, <1>2

\* A step of UncontendedSpec.
LEMMA UncontendedSteps ==
    [Next /\ ~StaleCommit]_vars => [Next]_vars /\ ~StaleCommit
<1>1. UNCHANGED vars => ~StaleCommit
  BY DEF vars, StaleCommit, CommitReconcile
<1> QED
  BY <1>1

----------------------------------------------------------------------------
(* Quiet steps: those that neither start nor report an execution.          *)

SameCounts(r, s) == s.attemptCount = r.attemptCount /\ s.fencing = r.fencing

\* What a quiet step may do to a row.
QuietChange(r, s) ==
    /\ SameCounts(r, s)
    /\ s.status = "absent" => r.status = "absent"
    /\ \/ s.status = r.status /\ s.claim = r.claim
       \/ s.status \in {"pending", "superseded"}
       \/ r.status = "running" /\ s.status \in {"retry_wait", "dead_letter"}

Quiet ==
    /\ \A k \in Key : QuietChange(row[k], row'[k])
    /\ UNCHANGED <<attempts, tokens>>
    /\ executing' \subseteq executing

\* A row that a reconcile creates, updates or withdraws keeps its counters.
LEMMA ReconciledQuietly ==
    ASSUME TypeOK, BlankWhenAbsent, NEW d \in DesiredSet,
           NEW snapshot \in [Key -> Row], ReadCurrent(d, snapshot), NEW k \in Key
    PROVE  QuietChange(row[k], Reconciled(d, snapshot)[k])
<1>1. /\ row[k] \in Row
      /\ row[k].status = "absent" => row[k].attemptCount = 0 /\ row[k].fencing = 0
  BY DEF TypeOK, BlankWhenAbsent
<1>2. CASE k \notin DOMAIN d
  <2>1. Reconciled(d, snapshot)[k] = Superseded(row[k])
    BY <1>2 DEF Reconciled
  <2> QED
    BY <1>1, <2>1 DEF Superseded, QuietChange, SameCounts, Row
<1>3. CASE k \in DOMAIN d
  <2> DEFINE r == snapshot[k]
  <2>1. Reconciled(d, snapshot)[k] = Saved(d, snapshot, k)
    BY <1>3 DEF Reconciled
  <2>2. /\ r \in Row
        /\ r.status = row[k].status /\ r.claim = row[k].claim
        /\ r.attemptCount = row[k].attemptCount /\ r.fencing = row[k].fencing
    BY <1>3 DEF ReadCurrent, Written
  <2>3. CASE r.status = "absent"
    <3>1. Saved(d, snapshot, k) = Created(d[k])
      BY <2>3 DEF Saved, Unchanged
    <3> QED
      BY <1>1, <2>1, <2>2, <2>3, <3>1 DEF Created, AbsentRow, QuietChange, SameCounts
  <2>4. CASE r.status # "absent" /\ Unchanged(r, d[k])
    <3>1. Saved(d, snapshot, k) = row[k]
      BY <2>4 DEF Saved
    <3> QED
      BY <2>1, <3>1 DEF QuietChange, SameCounts
  <2>5. CASE r.status # "absent" /\ ~Unchanged(r, d[k])
    <3>1. Saved(d, snapshot, k) = AppliedDesired(r, d[k])
      BY <2>5 DEF Saved
    <3>2. QuietChange(r, AppliedDesired(r, d[k]))
      BY <2>2 DEF AppliedDesired, QuietChange, SameCounts, Row
    <3> QED
      BY <2>1, <2>2, <3>1, <3>2 DEF QuietChange, SameCounts
  <2> QED
    BY <2>3, <2>4, <2>5
<1> QED
  BY <1>2, <1>3

\* Every step that neither starts nor reports an execution, nor commits a
\* stale reconcile, is quiet.
LEMMA QuietSteps ==
    ASSUME TypeOK, BlankWhenAbsent, [Next]_vars, ~StaleCommit,
           \A w \in Worker, k \in Key : ~ClaimAndStart(w, k),
           \A e \in executing, result \in HandlerResult : ~CompleteAttempt(e, result)
    PROVE  Quiet
<1>0. row \in [Key -> Row]
  BY DEF TypeOK
<1>1. CASE /\ UNCHANGED <<row, attempts, tokens>>
           /\ executing' \subseteq executing
  BY <1>1 DEF Quiet, QuietChange, SameCounts
<1>2. ASSUME NEW k \in Key, RetryDelayElapses(k) \/ ClaimExpires(k) PROVE Quiet
  <2>1. /\ QuietChange(row[k], [row[k] EXCEPT !.retryDue = TRUE])
        /\ QuietChange(row[k], [row[k] EXCEPT !.expired = TRUE])
    BY <1>0 DEF QuietChange, SameCounts, Row
  <2> QED
    BY <1>0, <1>2, <2>1 DEF RetryDelayElapses, ClaimExpires, Quiet, QuietChange, SameCounts
<1>3. CASE Recovery
  <2>1. ASSUME NEW k \in Key, GivenUp(k) PROVE QuietChange(row[k], row'[k])
    BY <1>0, <2>1 DEF GivenUp, Rearmed, DeadLettered, QuietChange, SameCounts, Row
  <2>2. \A k \in Key : QuietChange(row[k], row[k])
    BY DEF QuietChange, SameCounts
  <2>3. \A k \in Key : QuietChange(row[k], row'[k])
    BY <1>3, <2>1, <2>2, RecoveryStep
  <2> QED
    BY <1>3, <2>3, RecoveryStep DEF Quiet
<1>4. ASSUME NEW d \in DesiredSet, NEW snapshot, Declares(d, snapshot) PROVE Quiet
  BY <1>4, ReconciledQuietly DEF Declares, Quiet
<1>5. ASSUME NEW d \in DesiredSet, Reconcile(d) PROVE Quiet
  BY <1>4, <1>5, ReconcilesDeclare
<1>6. ASSUME NEW plan \in plans, CommitReconcile(plan) PROVE Quiet
  BY <1>4, <1>6, ReconcilesDeclare
<1>7. CASE UNCHANGED vars
  BY <1>1, <1>7 DEF vars
<1>8. CASE \/ \E i \in Intent : RunAtReached(i)
           \/ \E e \in executing : AbandonExecution(e)
           \/ \E w \in Worker : ProcessDies(w)
           \/ \E p \in Planner, d \in DesiredSet : PlanReconcile(p, d)
           \/ \E plan \in plans : RollBackReconcile(plan)
  BY <1>1, <1>8 DEF RunAtReached, AbandonExecution, ProcessDies, PlanReconcile,
                     RollBackReconcile
<1> QED
  BY <1>2, <1>3, <1>5, <1>6, <1>7, <1>8 DEF Next

\* A quiet change never contradicts the last attempt.
LEMMA QuietAgreement ==
    ASSUME NEW r \in Row, NEW s \in Row, NEW a \in Attempt,
           QuietChange(r, s), Agrees(r, a)
    PROVE  Agrees(s, a)
<1>1. CASE s.status = r.status /\ s.claim = r.claim
  BY <1>1 DEF QuietChange, SameCounts, Agrees
<1>2. CASE s.status \in {"pending", "superseded"}
  BY <1>2 DEF Agrees
<1>3. CASE r.status = "running" /\ s.status \in {"retry_wait", "dead_letter"}
  <2>1. a.outcome = "open"
    BY <1>3 DEF Agrees
  <2> QED
    BY <1>3, <2>1 DEF Agrees
<1> QED
  BY <1>1, <1>2, <1>3 DEF QuietChange

\* Quiet steps keep the invariant.
LEMMA QuietInv ==
    ASSUME TypeOK, TypeOK', HistoryInv, Quiet
    PROVE  HistoryInv'
<1>1. \A k \in Key : row[k] \in Row /\ row'[k] \in Row
  BY DEF TypeOK
<1>2. attempts' = attempts /\ executing' \subseteq executing
  BY DEF Quiet, HistoryInv
<1>3. \A k \in Key : SameCounts(row[k], row'[k])
  BY DEF Quiet, QuietChange
<1>4. ASSUME NEW k \in Key PROVE Counted(row'[k], tokens'[k])
  <2>1. /\ QuietChange(row[k], row'[k]) /\ tokens'[k] = tokens[k]
        /\ Counted(row[k], tokens[k])
    BY DEF Quiet, HistoryInv
  <2> QED
    BY <2>1 DEF Counted, QuietChange, SameCounts
<1>5. AttemptsAccountForRow'
  BY <1>2, <1>3 DEF HistoryInv, AttemptsAccountForRow, SameCounts
<1>6. RowAgreesWithLastAttempt'
  <2> SUFFICES ASSUME NEW k \in Key, NEW a \in attempts, a.key = k,
                      a.number = row'[k].attemptCount
               PROVE  Agrees(row'[k], a)
    BY <1>2 DEF RowAgreesWithLastAttempt
  <2>1. a.number = row[k].attemptCount /\ a \in Attempt
    BY <1>3 DEF SameCounts, TypeOK
  <2>2. Agrees(row[k], a)
    BY <2>1 DEF HistoryInv, RowAgreesWithLastAttempt
  <2> QED
    BY <1>1, <2>1, <2>2, QuietAgreement DEF Quiet
<1> QED
  BY <1>2, <1>4, <1>5, <1>6 DEF HistoryInv

----------------------------------------------------------------------------
(* Claims. *)

\* Starting an execution keeps the invariant.
LEMMA ClaimInv ==
    ASSUME TypeOK, HistoryInv, NEW w \in Worker, NEW k \in Key, ClaimAndStart(w, k)
    PROVE  HistoryInv'
<1> DEFINE n == row[k].attemptCount + 1
           r == Claimed(row[k], n)
           a == [key |-> k, number |-> n, claim |-> n, fencing |-> n, outcome |-> "open"]
           e == [worker |-> w, key |-> k, number |-> n, claim |-> n, fencing |-> n,
                 intent |-> row[k].intent]
<1>1. /\ row[k] \in Row /\ Counted(row[k], tokens[k])
      /\ row \in [Key -> Row] /\ tokens \in [Key -> Nat]
      /\ row[k].attemptCount \in Nat
  BY DEF TypeOK, HistoryInv, Row
<1>2. /\ tokens[k] + 1 = n /\ row[k].fencing + 1 = n
      /\ n \in Nat /\ n > 0 /\ n # row[k].attemptCount
  BY <1>1 DEF Counted
<1>3. /\ row' = [row EXCEPT ![k] = r]
      /\ tokens' = [tokens EXCEPT ![k] = n]
      /\ attempts' = attempts \cup {a}
      /\ executing' = executing \cup {e}
  BY <1>2 DEF ClaimAndStart, StartAttempt
<1>4. r.status = "running" /\ r.attemptCount = n /\ r.fencing = n /\ r.claim = n
  BY <1>1, <1>2 DEF Claimed, Row, Counted
<1>5. /\ a.key = k /\ a.number = n /\ a.claim = n /\ a.fencing = n /\ a.outcome = "open"
      /\ e.claim = e.number /\ e.fencing = e.number
  OBVIOUS
<1> HIDE DEF r, a, e
<1>6. \A j \in Key : row'[j] = (IF j = k THEN r ELSE row[j])
  BY <1>1, <1>3
<1>7. \A j \in Key : Counted(row'[j], tokens'[j])
  BY <1>1, <1>2, <1>3, <1>4, <1>6 DEF Counted, HistoryInv
<1>8. \A b \in attempts : b.key = k => b.number \in 1..row[k].attemptCount
  BY DEF HistoryInv, AttemptsAccountForRow
<1>9. \A b \in attempts : b.key = k => b.number # n
  BY <1>1, <1>8
<1>10. AttemptsAccountForRow'
  <2> SUFFICES ASSUME NEW j \in Key
               PROVE  /\ \A m \in 1..row'[j].attemptCount :
                            \E b \in attempts' : b.key = j /\ b.number = m
                      /\ \A b \in attempts' : b.key = j =>
                            b.number \in 1..row'[j].attemptCount
                      /\ \A b, c \in attempts' :
                            b.key = j /\ c.key = j /\ b.number = c.number => b = c
    BY DEF AttemptsAccountForRow
  <2>1. /\ \A m \in 1..row[j].attemptCount :
              \E b \in attempts : b.key = j /\ b.number = m
        /\ \A b \in attempts : b.key = j => b.number \in 1..row[j].attemptCount
        /\ \A b, c \in attempts :
              b.key = j /\ c.key = j /\ b.number = c.number => b = c
    BY DEF HistoryInv, AttemptsAccountForRow
  <2>2. CASE j = k
    <3>1. \A m \in 1..n : m = n \/ m \in 1..row[k].attemptCount
      BY <1>1
    <3>2. \A m \in 1..row[k].attemptCount : m \in 1..n
      BY <1>1
    <3>3. n \in 1..n
      BY <1>2
    <3> HIDE DEF n
    <3>4. row'[j].attemptCount = n
      BY <1>4, <1>6, <2>2
    <3> QED
      BY <1>3, <1>5, <1>9, <2>1, <2>2, <3>1, <3>2, <3>3, <3>4
  <2>3. CASE j # k
    BY <1>3, <1>5, <1>6, <2>1, <2>3
  <2> QED
    BY <2>2, <2>3
<1>11. RowAgreesWithLastAttempt'
  <2> SUFFICES ASSUME NEW j \in Key, NEW b \in attempts', b.key = j,
                      b.number = row'[j].attemptCount
               PROVE  Agrees(row'[j], b)
    BY DEF RowAgreesWithLastAttempt
  <2>1. CASE j = k
    <3>1. b = a /\ row'[j] = r
      BY <1>3, <1>4, <1>6, <1>9, <2>1
    <3> QED
      BY <1>4, <1>5, <3>1 DEF Agrees
  <2>2. CASE j # k
    <3>1. row'[j] = row[j] /\ b \in attempts
      BY <1>3, <1>5, <1>6, <2>2
    <3> QED
      BY <3>1 DEF HistoryInv, RowAgreesWithLastAttempt
  <2> QED
    BY <2>1, <2>2
<1> QED
  BY <1>3, <1>5, <1>7, <1>10, <1>11 DEF HistoryInv
----------------------------------------------------------------------------
(* Reports. *)

\* The holder of the current claim executes the last attempt.
LEMMA HolderHasLastAttempt ==
    ASSUME TypeOK, HistoryInv, NEW e \in executing, HoldsCurrentClaim(e)
    PROVE  /\ e.key \in Key /\ row[e.key] \in Row
           /\ e.number = row[e.key].attemptCount
           /\ row[e.key].status = "running"
<1>1. e.key \in Key /\ row[e.key] \in Row
  BY DEF TypeOK, Execution
<1>2. Counted(row[e.key], tokens[e.key])
  BY <1>1 DEF HistoryInv
<1> QED
  BY <1>1, <1>2 DEF HoldsCurrentClaim, Counted, HistoryInv

\* The status a report leaves agrees with the outcome it records.
LEMMA ReportAgrees ==
    ASSUME NEW r \in Row, NEW a \in Attempt, NEW result \in HandlerResult, NEW i, NEW n
    PROVE  Agrees(CompletedTo(r, CompletionStatus(result, i, n)),
                  [a EXCEPT !.outcome = CompletionOutcome(result)])
<1> DEFINE st == CompletionStatus(result, i, n)
           r2 == CompletedTo(r, st)
           a2 == [a EXCEPT !.outcome = CompletionOutcome(result)]
<1>1. /\ r2.status = st
      /\ a2.outcome = CompletionOutcome(result)
  BY DEF CompletedTo, Row, Attempt
<1>2. CASE result \in {"succeeded", "skipped"}
  <2>1. st = result /\ CompletionOutcome(result) = result
    BY <1>2 DEF CompletionStatus, CompletionOutcome
  <2> QED
    BY <1>1, <1>2, <2>1 DEF Agrees
<1>3. CASE result = "retryable"
  <2>1. st \in {"retry_wait", "dead_letter"}
    BY <1>3 DEF CompletionStatus
  <2>2. CompletionOutcome(result) = "retryable_failure"
    BY <1>3 DEF CompletionOutcome
  <2> QED
    BY <1>1, <2>1, <2>2 DEF Agrees
<1>4. CASE result \in {"failed", "dead_letter"}
  <2>1. st = result /\ CompletionOutcome(result) = "permanent_failure"
    BY <1>4 DEF CompletionStatus, CompletionOutcome
  <2> QED
    BY <1>1, <1>4, <2>1 DEF Agrees
<1> QED
  BY <1>2, <1>3, <1>4 DEF HandlerResult

\* Reporting an execution, accepted or not, keeps the invariant.
LEMMA CompleteInv ==
    ASSUME TypeOK, HistoryInv, NEW e \in executing, NEW result \in HandlerResult,
           CompleteAttempt(e, result)
    PROVE  HistoryInv'
<1>1. executing' = executing \ {e} /\ tokens' = tokens
  BY DEF CompleteAttempt
<1>2. CASE UNCHANGED <<row, attempts>>
  BY <1>1, <1>2 DEF HistoryInv, AttemptsAccountForRow, RowAgreesWithLastAttempt
<1>3. CASE /\ HoldsCurrentClaim(e)
           /\ row' = [row EXCEPT ![e.key] = CompletedTo(@, ReportedStatus(e, result))]
           /\ attempts' = CloseAttempt(e, result)
  <2> DEFINE r == CompletedTo(row[e.key], ReportedStatus(e, result))
             Closed(a) == IF IsAttemptOf(a, e)
                          THEN [a EXCEPT !.outcome = CompletionOutcome(result)] ELSE a
  <2>1. /\ e.key \in Key /\ row \in [Key -> Row] /\ row[e.key] \in Row
        /\ e.number = row[e.key].attemptCount
        /\ row[e.key].status = "running"
    BY <1>3, HolderHasLastAttempt DEF TypeOK
  <2>2. attempts' = {Closed(a) : a \in attempts}
    BY <1>3 DEF CloseAttempt
  <2>3. \A a \in attempts : /\ Closed(a).key = a.key
                            /\ Closed(a).number = a.number
                            /\ Closed(a).claim = a.claim
                            /\ Closed(a).fencing = a.fencing
    BY DEF TypeOK, Attempt
  <2>4. ReportedStatus(e, result) \in Status /\ ReportedStatus(e, result) \notin Out
        /\ ReportedStatus(e, result) # "running"
    <3>1. CompletionStatus(result, e.intent, e.number) # "running"
      BY DEF CompletionStatus, HandlerResult
    <3> QED
      BY <3>1, ReportType, ReportKeepsStanding DEF ReportedStatus
  <2>5. /\ r.attemptCount = row[e.key].attemptCount
        /\ r.fencing = row[e.key].fencing
        /\ r.status \notin {"absent", "running"}
    BY <2>1, <2>4 DEF CompletedTo, Row, Out
  <2>6. \A j \in Key : row'[j] = (IF j = e.key THEN r ELSE row[j])
    BY <1>3, <2>1
  <2>7. \A a \in attempts : a.key = e.key /\ a.number = e.number =>
           Agrees(r, Closed(a))
    <3> SUFFICES ASSUME NEW a \in attempts, a.key = e.key, a.number = e.number
                 PROVE  Agrees(r, Closed(a))
      OBVIOUS
    <3>1. Agrees(row[e.key], a) /\ a \in Attempt
      BY <2>1 DEF HistoryInv, RowAgreesWithLastAttempt, TypeOK
    <3>2. a.outcome = "open" /\ a.claim = e.claim /\ a.fencing = e.fencing
      BY <1>3, <2>1, <3>1 DEF Agrees, HoldsCurrentClaim
    <3>3. Closed(a) = [a EXCEPT !.outcome = CompletionOutcome(result)]
      BY <3>2 DEF IsAttemptOf
    <3>4. Agrees(CompletedTo(row[e.key], CompletionStatus(result, e.intent, e.number)),
                 [a EXCEPT !.outcome = CompletionOutcome(result)])
      BY ONLY <2>1, <3>1, ReportAgrees, result \in HandlerResult
    <3> QED
      BY <3>3, <3>4 DEF ReportedStatus
  <2>8. \A a \in attempts : a.key # e.key => Closed(a) = a
    BY DEF IsAttemptOf
  <2> HIDE DEF r, Closed
  <2>9. \A j \in Key : Counted(row'[j], tokens'[j])
    BY <1>1, <2>1, <2>5, <2>6 DEF Counted, HistoryInv
  <2>10. \A j \in Key : row'[j].attemptCount = row[j].attemptCount
    BY <2>5, <2>6
  <2>11. AttemptsAccountForRow'
    BY <2>2, <2>3, <2>10 DEF HistoryInv, AttemptsAccountForRow
  <2>12. RowAgreesWithLastAttempt'
    <3> SUFFICES ASSUME NEW j \in Key, NEW a \in attempts, a.key = j,
                        a.number = row[j].attemptCount
                 PROVE  Agrees(row'[j], Closed(a))
      BY <2>2, <2>3, <2>10 DEF RowAgreesWithLastAttempt
    <3>1. CASE j = e.key
      BY <2>1, <2>6, <2>7, <3>1
    <3>2. CASE j # e.key
      BY <2>6, <2>8, <3>2 DEF HistoryInv, RowAgreesWithLastAttempt
    <3> QED
      BY <3>1, <3>2
  <2> QED
    BY <1>1, <2>2, <2>3, <2>9, <2>11, <2>12 DEF HistoryInv
<1> QED
  BY <1>2, <1>3 DEF CompleteAttempt

----------------------------------------------------------------------------
(* The theorems. *)

\* No step that commits nothing stale breaks the invariant.
LEMMA HistoryNext ==
    TypeOK /\ HistoryInv /\ [Next]_vars /\ ~StaleCommit => HistoryInv'
<1> SUFFICES ASSUME TypeOK, HistoryInv, [Next]_vars, ~StaleCommit PROVE HistoryInv'
  OBVIOUS
<1>1. CASE \E w \in Worker, k \in Key : ClaimAndStart(w, k)
  BY <1>1, ClaimInv
<1>2. CASE \E e \in executing, result \in HandlerResult : CompleteAttempt(e, result)
  BY <1>2, CompleteInv
<1>3. CASE /\ \A w \in Worker, k \in Key : ~ClaimAndStart(w, k)
           /\ \A e \in executing, result \in HandlerResult : ~CompleteAttempt(e, result)
  <2>1. BlankWhenAbsent
    BY DEF HistoryInv, BlankWhenAbsent, Counted
  <2> QED
    BY <1>3, <2>1, QuietSteps, QuietInv, NextType
<1> QED
  BY <1>1, <1>2, <1>3

LEMMA HistoryInit == Init => HistoryInv
<1> SUFFICES ASSUME Init PROVE HistoryInv
  OBVIOUS
<1>1. \A k \in Key : row[k] = AbsentRow /\ tokens[k] = 0
  BY DEF Init
<1>2. /\ AbsentRow.attemptCount = 0 /\ AbsentRow.fencing = 0
      /\ AbsentRow.status = "absent"
  BY DEF AbsentRow
<1>3. attempts = {} /\ executing = {}
  BY DEF Init
<1>4. AttemptsAccountForRow /\ RowAgreesWithLastAttempt
  BY <1>1, <1>2, <1>3 DEF AttemptsAccountForRow, RowAgreesWithLastAttempt
<1> QED
  BY <1>1, <1>2, <1>3, <1>4 DEF HistoryInv, Counted

\* On the desktop store no step commits a plan, so none is stale.
LEMMA DesktopNext ==
    ASSUME Store = "powersync"
    PROVE  TypeOK /\ DesktopInv /\ [Next]_vars => DesktopInv' /\ ~StaleCommit
<1> SUFFICES ASSUME TypeOK, DesktopInv, [Next]_vars PROVE DesktopInv' /\ ~StaleCommit
  OBVIOUS
<1>1. plans = {} /\ ~StaleCommit /\ HistoryInv
  BY DEF DesktopInv, StaleCommit
<1>2. plans' = {}
  BY <1>1, RecoveryStep
  DEF Next, vars, RunAtReached, RetryDelayElapses, ClaimExpires, ClaimAndStart,
      CompleteAttempt, AbandonExecution, ProcessDies, Reconcile, PlanReconcile
<1> QED
  BY <1>1, <1>2, HistoryNext DEF DesktopInv

\* DesktopInv holds for ever on the desktop store.
THEOREM DesktopInvariant ==
    ASSUME Store = "powersync"
    PROVE  Spec => []DesktopInv
<1>1. Init => DesktopInv
  BY HistoryInit DEF Init, DesktopInv
<1>2. TypeOK /\ DesktopInv /\ [Next]_vars => DesktopInv'
  BY DesktopNext
<1> QED
  BY <1>1, <1>2, TypeCorrect, PTL DEF Spec

\* A step in which no commit is stale is a step: what is proved of every
\* behaviour holds of the uncontended ones.
LEMMA UncontendedIsSpec == UncontendedSpec => Spec
<1>1. [Next /\ ~StaleCommit]_vars => [Next]_vars
  OBVIOUS
<1> QED
  BY <1>1, PTL DEF UncontendedSpec, Spec

LEMMA UncontendedInvariant == UncontendedSpec => []HistoryInv
<1>1. TypeOK /\ HistoryInv /\ [Next /\ ~StaleCommit]_vars => HistoryInv'
  BY HistoryNext, UncontendedSteps
<1> QED
  BY <1>1, HistoryInit, UncontendedIsSpec, TypeCorrect, PTL DEF UncontendedSpec

\* On either store, as long as no commit is stale, every execution is on record
\* once and the two tables agree (claimAndStart, completeAttempt, save).
THEOREM UncontendedHistory ==
    UncontendedSpec => [](AttemptsAccountForRow /\ RowAgreesWithLastAttempt)
<1>1. HistoryInv => AttemptsAccountForRow /\ RowAgreesWithLastAttempt
  BY DEF HistoryInv
<1> QED
  BY <1>1, UncontendedInvariant, PTL

\* A reconcile of current rows converges the owner to what it declares.
LEMMA DeclaredConverges ==
    ASSUME TypeOK, NEW d \in DesiredSet, NEW snapshot, Declares(d, snapshot)
    PROVE  Converged(row', d)
<1> DEFINE current == [k \in Key |-> IF k \in DOMAIN d THEN snapshot[k] ELSE row[k]]
<1>1. row \in [Key -> Row] /\ snapshot \in [Key -> Row]
  BY DEF TypeOK, Declares
<1>2. current \in [Key -> Row]
  BY <1>1
<1>3. \A k \in DOMAIN d : k \in Key
  BY DEF DesiredSet
<1>4. ASSUME NEW k \in Key PROVE SameStanding(row[k], current[k])
  <2>1. CASE k \in DOMAIN d
    BY <2>1 DEF Declares, ReadCurrent, Written, SameStanding
  <2>2. CASE k \notin DOMAIN d
    BY <2>2 DEF SameStanding
  <2> QED
    BY <2>1, <2>2
<1>5. Reconciled(d, current) = Reconciled(d, snapshot)
  <2>1. \A k \in DOMAIN d : Saved(d, current, k) = Saved(d, snapshot, k)
    BY <1>3 DEF Saved
  <2> QED
    BY <2>1 DEF Reconciled
<1> HIDE DEF current
<1> QED
  BY <1>1, <1>2, <1>4, <1>5, ReconcileConverges DEF Declares

\* OwnerConverged: however many processes of either store reconcile one owner,
\* its rows are converged to the last set declared as long as no commit is
\* stale (reconcileInternal).
THEOREM UncontendedConverges == UncontendedSpec => []OwnerConverged
<1>1. Init => OwnerConverged
  <2>1. Init => \A k \in Key : row[k].status = "absent"
    BY DEF Init, AbsentRow
  <2> QED
    BY <2>1 DEF Init, OwnerConverged
<1>2. ASSUME TypeOK, OwnerConverged, [Next]_vars, ~StaleCommit PROVE OwnerConverged'
  <2>1. ASSUME NEW d \in DesiredSet, NEW snapshot, Declares(d, snapshot), desired' = d
        PROVE  OwnerConverged'
    <3>1. Converged(row', d)
      BY <1>2, <2>1, DeclaredConverges
    <3> QED
      BY <2>1, <3>1 DEF OwnerConverged, Converged, Out
  <2>2. CASE \E d \in DesiredSet : Reconcile(d)
    BY <1>2, <2>1, <2>2, ReconcilesDeclare DEF Reconcile
  <2>3. CASE \E plan \in plans : CommitReconcile(plan)
    BY <1>2, <2>1, <2>3, ReconcilesDeclare DEF CommitReconcile
  <2>4. CASE /\ \A d \in DesiredSet : ~Reconcile(d)
             /\ \A plan \in plans : ~CommitReconcile(plan)
    <3>1. (\A k \in Key : SameStanding(row'[k], row[k])) /\ desired' = desired
      BY <1>2, <2>4, QueuesKeepStanding
    <3> QED
      BY <1>2, <3>1 DEF OwnerConverged, SameStanding, Out
  <2> QED
    BY <2>2, <2>3, <2>4
<1>3. TypeOK /\ OwnerConverged /\ [Next /\ ~StaleCommit]_vars => OwnerConverged'
  BY <1>2, UncontendedSteps
<1> QED
  BY <1>1, <1>3, UncontendedIsSpec, TypeCorrect, PTL DEF UncontendedSpec

\* AttemptsAccountForRow: on the desktop store a key's attempts are numbered
\* without gap or repetition up to its attemptCount.
THEOREM HistoryComplete ==
    ASSUME Store = "powersync"
    PROVE  Spec => []AttemptsAccountForRow
<1>1. DesktopInv => AttemptsAccountForRow
  BY DEF DesktopInv, HistoryInv
<1> QED
  BY <1>1, DesktopInvariant, PTL

\* RowAgreesWithLastAttempt: on the desktop store the two tables never
\* disagree on how the last execution ended.
THEOREM TablesAgree ==
    ASSUME Store = "powersync"
    PROVE  Spec => []RowAgreesWithLastAttempt
<1>1. DesktopInv => RowAgreesWithLastAttempt
  BY DEF DesktopInv, HistoryInv
<1> QED
  BY <1>1, DesktopInvariant, PTL

----------------------------------------------------------------------------
(* What a single step may do. *)

\* A reconcile, stale or not, never makes a row vanish.
LEMMA ReconcileMakesNothingAbsent ==
    ASSUME NEW d \in DesiredSet, NEW snapshot \in [Key -> Row], TypeOK, NEW k \in Key
    PROVE  \/ Reconciled(d, snapshot)[k] = row[k]
           \/ Reconciled(d, snapshot)[k].status # "absent"
<1>1. row[k] \in Row /\ snapshot[k] \in Row
  BY DEF TypeOK
<1>2. CASE k \notin DOMAIN d
  BY <1>1, <1>2 DEF Reconciled, Superseded, Row
<1>3. CASE k \in DOMAIN d
  <2>1. Reconciled(d, snapshot)[k] = Saved(d, snapshot, k)
    BY <1>3 DEF Reconciled
  <2>2. Created(d[k]).status = "pending"
    BY DEF Created, AbsentRow
  <2>3. AppliedDesired(snapshot[k], d[k]).status # "absent"
    BY <1>1 DEF AppliedDesired, Row
  <2> QED
    BY <2>1, <2>2, <2>3 DEF Saved
<1> QED
  BY <1>2, <1>3

\* A key without a row has no counters, on either store and whatever commits.
LEMMA AbsentIsBlank == Spec => []BlankWhenAbsent
<1>1. Init => BlankWhenAbsent
  BY DEF Init, AbsentRow, BlankWhenAbsent
<1>2. ASSUME TypeOK, BlankWhenAbsent, [Next]_vars PROVE BlankWhenAbsent'
  <2> SUFFICES ASSUME NEW k \in Key
               PROVE  row'[k].status = "absent" => row'[k].attemptCount = 0 /\ row'[k].fencing = 0
    BY DEF BlankWhenAbsent
  <2>0. row \in [Key -> Row] /\ row[k] \in Row
    BY <1>2 DEF TypeOK
  <2>1. CASE \E w \in Worker, j \in Key : ClaimAndStart(w, j)
    <3>1. PICK w \in Worker, j \in Key : ClaimAndStart(w, j)
      BY <2>1
    <3>2. row' = [row EXCEPT ![j] = Claimed(row[j], tokens[j] + 1)]
      BY <3>1 DEF ClaimAndStart, StartAttempt
    <3>3. row'[k] = row[k] \/ row'[k].status = "running"
      BY <2>0, <3>2 DEF Claimed, Row
    <3> QED
      BY <1>2, <3>3 DEF BlankWhenAbsent
  <2>2. ASSUME NEW e \in executing, NEW result \in HandlerResult, CompleteAttempt(e, result)
        PROVE  row'[k].status = "absent" => row'[k].attemptCount = 0 /\ row'[k].fencing = 0
    <3>1. \/ row' = row
          \/ row' = [row EXCEPT ![e.key] = CompletedTo(row[e.key], ReportedStatus(e, result))]
      BY <2>2 DEF CompleteAttempt
    <3>2. ReportedStatus(e, result) # "absent"
      BY ReportKeepsStanding DEF ReportedStatus, Out
    <3>3. row'[k] = row[k] \/ row'[k].status = ReportedStatus(e, result)
      BY <2>0, <3>1 DEF CompletedTo, Row
    <3> QED
      BY <1>2, <3>2, <3>3 DEF BlankWhenAbsent
  <2>3. ASSUME NEW d \in DesiredSet, NEW snapshot \in [Key -> Row],
               row' = Reconciled(d, snapshot)
        PROVE  row'[k].status = "absent" => row'[k].attemptCount = 0 /\ row'[k].fencing = 0
    BY <1>2, <2>3, ReconcileMakesNothingAbsent DEF BlankWhenAbsent
  <2>4. CASE \E d \in DesiredSet : Reconcile(d)
    BY <2>0, <2>3, <2>4 DEF Reconcile
  <2>5. CASE \E plan \in plans : CommitReconcile(plan)
    <3>1. \A plan \in plans : plan.desired \in DesiredSet /\ plan.snapshot \in [Key -> Row]
      BY <1>2 DEF TypeOK, Plan
    <3> QED
      BY <2>3, <2>5, <3>1 DEF CommitReconcile
  <2>6. CASE /\ \A w \in Worker, j \in Key : ~ClaimAndStart(w, j)
             /\ \A e \in executing, result \in HandlerResult : ~CompleteAttempt(e, result)
             /\ \A plan \in plans : ~CommitReconcile(plan)
    <3>1. QuietChange(row[k], row'[k])
      BY <1>2, <2>6, QuietSteps DEF Quiet, StaleCommit
    <3> QED
      BY <1>2, <3>1 DEF QuietChange, SameCounts, BlankWhenAbsent
  <2> QED
    BY <2>1, <2>2, <2>5, <2>6
<1> QED
  BY <1>1, <1>2, TypeCorrect, PTL DEF Spec

\* A step in which no commit is stale never turns a counter back.
LEMMA CountersKept ==
    ASSUME TypeOK, BlankWhenAbsent, [Next]_vars, ~StaleCommit
    PROVE  KeepsAttemptHistory
<1> SUFFICES ASSUME NEW k \in Key
             PROVE  /\ row'[k].attemptCount >= row[k].attemptCount
                    /\ row'[k].fencing >= row[k].fencing
  BY DEF KeepsAttemptHistory
<1>1. /\ row \in [Key -> Row] /\ row[k] \in Row
      /\ row[k].attemptCount \in Nat /\ row[k].fencing \in Nat
  BY DEF TypeOK, Row
<1>2. CASE SameCounts(row[k], row'[k])
  BY <1>1, <1>2 DEF SameCounts
<1>3. ASSUME NEW w \in Worker, NEW j \in Key, ClaimAndStart(w, j)
      PROVE  \/ SameCounts(row[k], row'[k])
             \/ /\ row'[k].attemptCount = row[k].attemptCount + 1
                /\ row'[k].fencing = row[k].fencing + 1
  <2>1. row' = [row EXCEPT ![j] = Claimed(row[j], tokens[j] + 1)]
    BY <1>3 DEF ClaimAndStart, StartAttempt
  <2>2. CASE j = k
    BY <1>1, <2>1, <2>2 DEF Claimed, Row
  <2>3. CASE j # k
    BY <1>1, <2>1, <2>3 DEF SameCounts
  <2> QED
    BY <2>2, <2>3
<1>4. ASSUME NEW e \in executing, NEW result \in HandlerResult, CompleteAttempt(e, result)
      PROVE  SameCounts(row[k], row'[k])
  <2>1. \/ row' = row
        \/ row' = [row EXCEPT ![e.key] = CompletedTo(row[e.key], ReportedStatus(e, result))]
    BY <1>4 DEF CompleteAttempt
  <2>2. SameCounts(row[k], CompletedTo(row[k], ReportedStatus(e, result)))
    BY <1>1 DEF SameCounts, CompletedTo, Row
  <2> QED
    BY <1>1, <2>1, <2>2 DEF SameCounts
<1>5. CASE /\ \A w \in Worker, j \in Key : ~ClaimAndStart(w, j)
           /\ \A e \in executing, result \in HandlerResult : ~CompleteAttempt(e, result)
  BY <1>2, <1>5, QuietSteps DEF Quiet, QuietChange
<1> QED
  BY <1>1, <1>2, <1>3, <1>4, <1>5

\* How a running row can stop running when no commit is stale: its claim had
\* expired and it is recovered, the holder of its claim reports, or its owner
\* withdraws it.
LEMMA LeavingRunning ==
    ASSUME TypeOK, [Next]_vars, ~StaleCommit,
           NEW k \in Key, row[k].status = "running",
           row'[k].status \notin {"running", "superseded"}
    PROVE  \/ /\ row[k].expired
              /\ row'[k].status = "retry_wait"
                 => MayRetry(row[k].intent, row[k].attemptCount) \/ ServerRearms(k)
           \/ \E e \in executing \ executing' :
                 /\ e.key = k
                 /\ HoldsCurrentClaim(e)
                 /\ row'[k].status = "retry_wait" => MayRetry(e.intent, e.number)
<1>0. row \in [Key -> Row] /\ row[k] \in Row
  BY DEF TypeOK
<1>1. row' # row
  OBVIOUS
<1>2. ASSUME NEW j \in Key, RetryDelayElapses(j) \/ ClaimExpires(j) PROVE FALSE
  <2>1. row'[k].status = row[k].status
    BY <1>0, <1>2 DEF RetryDelayElapses, ClaimExpires, Row
  <2> QED
    BY <2>1
<1>3. ASSUME NEW w \in Worker, NEW j \in Key, ClaimAndStart(w, j) PROVE FALSE
  <2>1. /\ row' = [row EXCEPT ![j] = Claimed(row[j], tokens[j] + 1)]
        /\ row[j].status # "running"
    BY <1>3 DEF ClaimAndStart, StartAttempt, Claimable, Due
  <2> QED
    BY <1>0, <2>1
<1>4. CASE Recovery
  <2>1. GivenUp(k)
    BY <1>4, RecoveryStep
  <2>2. row'[k].status = "retry_wait"
        => MayRetry(row[k].intent, row[k].attemptCount) \/ ServerRearms(k)
    BY <1>0, <2>1 DEF GivenUp, DeadLettered, Row
  <2> QED
    BY <2>1, <2>2 DEF GivenUp
<1>5. ASSUME NEW e \in executing, NEW result \in HandlerResult, CompleteAttempt(e, result)
      PROVE  /\ e \notin executing' /\ e.key = k /\ HoldsCurrentClaim(e)
             /\ row'[k].status = "retry_wait" => MayRetry(e.intent, e.number)
  <2>1. /\ HoldsCurrentClaim(e) /\ executing' = executing \ {e}
        /\ row' = [row EXCEPT ![e.key] = CompletedTo(row[e.key], ReportedStatus(e, result))]
    BY <1>1, <1>5 DEF CompleteAttempt
  <2>2. e.key = k
    BY <1>0, <2>1
  <2>3. row'[k].status = ReportedStatus(e, result)
    BY <1>0, <2>1, <2>2 DEF CompletedTo, Row
  <2>4. ReportedStatus(e, result) = "retry_wait" => MayRetry(e.intent, e.number)
    BY DEF ReportedStatus, CompletionStatus, HandlerResult
  <2> QED
    BY <2>1, <2>2, <2>3, <2>4
<1>6. ASSUME NEW d \in DesiredSet, NEW snapshot, Declares(d, snapshot) PROVE FALSE
  <2>1. row'[k] = Reconciled(d, snapshot)[k] /\ snapshot[k] \in Row
    BY <1>6 DEF Declares
  <2>2. CASE k \notin DOMAIN d
    BY <1>0, <2>1, <2>2 DEF Reconciled, Superseded, Row
  <2>3. CASE k \in DOMAIN d
    <3>1. snapshot[k].status = "running"
      BY <1>6, <2>3 DEF Declares, ReadCurrent, Written
    <3>2. row'[k] \in {row[k], AppliedDesired(snapshot[k], d[k])}
      BY <2>1, <2>3, <3>1 DEF Reconciled, Saved, Unchanged
    <3>3. AppliedDesired(snapshot[k], d[k]).status = "running"
      BY <2>1, <3>1 DEF AppliedDesired, Row
    <3> QED
      BY <3>2, <3>3
  <2> QED
    BY <2>2, <2>3
<1>7. /\ \A d \in DesiredSet : ~Reconcile(d)
      /\ \A plan \in plans : ~CommitReconcile(plan)
  BY <1>6, ReconcilesDeclare
<1>8. CASE \/ \E i \in Intent : RunAtReached(i)
           \/ \E e \in executing : AbandonExecution(e)
           \/ \E w \in Worker : ProcessDies(w)
           \/ \E p \in Planner, d \in DesiredSet : PlanReconcile(p, d)
           \/ \E plan \in plans : RollBackReconcile(plan)
           \/ UNCHANGED vars
  BY <1>1, <1>8 DEF RunAtReached, AbandonExecution, ProcessDies, PlanReconcile,
                RollBackReconcile, vars
<1> QED
  BY <1>2, <1>3, <1>4, <1>5, <1>7, <1>8 DEF Next

\* A settled row: as long as no commit is stale it stays, or its owner withdraws
\* it.  Coming back takes a second reconcile (run revived).
LEMMA SettledStays ==
    ASSUME TypeOK, [Next]_vars, ~StaleCommit,
           NEW k \in Key, row[k].status \in OutcomeTerminal
    PROVE  row'[k].status \in {row[k].status, "superseded"}
<1>0. row \in [Key -> Row] /\ row[k] \in Row
  BY DEF TypeOK
<1>1. row[k].status \notin {"absent", "superseded", "running", "pending", "retry_wait"}
  BY DEF OutcomeTerminal
<1>2. CASE row'[k] = row[k]
  BY <1>2
<1>3. ASSUME NEW j \in Key, RetryDelayElapses(j) \/ ClaimExpires(j)
      PROVE  row'[k].status = row[k].status
  BY <1>0, <1>3 DEF RetryDelayElapses, ClaimExpires, Row
<1>4. ASSUME NEW w \in Worker, NEW j \in Key, ClaimAndStart(w, j) PROVE row'[k] = row[k]
  <2>1. /\ row' = [row EXCEPT ![j] = Claimed(row[j], tokens[j] + 1)]
        /\ row[j].status \in {"pending", "retry_wait"}
    BY <1>4 DEF ClaimAndStart, StartAttempt, Claimable, Due
  <2> QED
    BY <1>0, <1>1, <2>1
<1>5. ASSUME NEW e \in executing, NEW result \in HandlerResult, CompleteAttempt(e, result)
      PROVE  row'[k] = row[k]
  <2>1. \/ row' = row
        \/ /\ row' = [row EXCEPT ![e.key] = CompletedTo(row[e.key], ReportedStatus(e, result))]
           /\ row[e.key].status = "running"
    BY <1>5 DEF CompleteAttempt, HoldsCurrentClaim
  <2> QED
    BY <1>0, <1>1, <2>1
<1>6. CASE Recovery
  <2>1. ~GivenUp(k)
    BY <1>1 DEF GivenUp
  <2> QED
    BY <1>2, <1>6, <2>1, RecoveryStep
<1>7. ASSUME NEW d \in DesiredSet, NEW snapshot, Declares(d, snapshot)
      PROVE  row'[k].status \in {row[k].status, "superseded"}
  <2>1. row'[k] = Reconciled(d, snapshot)[k]
    BY <1>7 DEF Declares
  <2>2. CASE k \notin DOMAIN d
    BY <1>0, <2>1, <2>2 DEF Reconciled, Superseded, Row
  <2>3. CASE k \in DOMAIN d
    <3>1. snapshot[k].status = row[k].status /\ ~Collides(snapshot[k], d[k])
      BY <1>7, <2>3 DEF Declares, ReadCurrent, Written, Collision
    <3>2. Unchanged(snapshot[k], d[k])
      BY <1>1, <3>1 DEF Collides, Unchanged
    <3>3. Saved(d, snapshot, k) = row[k]
      BY <1>1, <3>1, <3>2 DEF Saved
    <3> QED
      BY <2>1, <2>3, <3>3 DEF Reconciled
  <2> QED
    BY <2>2, <2>3
<1>8. CASE \/ \E d \in DesiredSet : Reconcile(d)
           \/ \E plan \in plans : CommitReconcile(plan)
  BY <1>7, <1>8, ReconcilesDeclare
<1>9. CASE \/ \E i \in Intent : RunAtReached(i)
           \/ \E e \in executing : AbandonExecution(e)
           \/ \E w \in Worker : ProcessDies(w)
           \/ \E p \in Planner, d \in DesiredSet : PlanReconcile(p, d)
           \/ \E plan \in plans : RollBackReconcile(plan)
           \/ UNCHANGED vars
  BY <1>9 DEF RunAtReached, AbandonExecution, ProcessDies, PlanReconcile,
                RollBackReconcile, vars
<1> QED
  BY <1>2, <1>3, <1>4, <1>5, <1>6, <1>8, <1>9 DEF Next

LEMMA ClaimsKept ==
    ASSUME TypeOK, [Next]_vars, ~StaleCommit
    PROVE  RespectsLiveClaims
BY LeavingRunning DEF RespectsLiveClaims

----------------------------------------------------------------------------
(* The action properties. *)

\* LossesOnlyByStaleCommit: on either store, for any number of keys, workers
\* and reconciling processes, nothing but a stale commit turns a counter back
\* or ends a live claim behind its holder's back (reconcile, save).
THEOREM StaleCommitsAlone == Spec => LossesOnlyByStaleCommit
<1>1. TypeOK /\ BlankWhenAbsent /\ [Next]_vars
         => StaleCommit \/ (KeepsAttemptHistory /\ RespectsLiveClaims)
  BY CountersKept, ClaimsKept
<1> QED
  BY <1>1, AbsentIsBlank, TypeCorrect, PTL DEF Spec, LossesOnlyByStaleCommit

\* On either store, whatever the workers report late, a settled row is never
\* runnable or running again by one step: it stays settled as it is, unless its
\* owner withdraws it or a stale commit overwrites it (completeAttempt,
\* claimAndStart, recoverExpiredClaims, reconcile).
THEOREM SettledOnlyWithdrawn ==
    Spec => [][\/ StaleCommit
               \/ \A k \in Key :
                     row[k].status \in OutcomeTerminal
                     => row'[k].status \in {row[k].status, "superseded"}]_vars
<1>1. TypeOK /\ [Next]_vars
         => \/ StaleCommit
            \/ \A k \in Key :
                  row[k].status \in OutcomeTerminal
                  => row'[k].status \in {row[k].status, "superseded"}
  BY SettledStays
<1> QED
  BY <1>1, TypeCorrect, PTL DEF Spec

\* AttemptHistoryPreserved: on the desktop store no step turns back a row's
\* attemptCount or fencing token.
THEOREM HistoryNeverRegresses ==
    ASSUME Store = "powersync"
    PROVE  Spec => AttemptHistoryPreserved
<1>1. TypeOK /\ DesktopInv /\ BlankWhenAbsent /\ [Next]_vars => KeepsAttemptHistory
  BY DesktopNext, CountersKept
<1> QED
  BY <1>1, DesktopInvariant, AbsentIsBlank, TypeCorrect, PTL
  DEF Spec, AttemptHistoryPreserved

\* LiveClaimEndsByHolder: on the desktop store a live claim ends only by its
\* holder's report or the owner's withdrawal.
THEOREM LiveClaimsRespected ==
    ASSUME Store = "powersync"
    PROVE  Spec => LiveClaimEndsByHolder
<1>1. TypeOK /\ DesktopInv /\ [Next]_vars => RespectsLiveClaims
  BY DesktopNext, ClaimsKept
<1> QED
  BY <1>1, DesktopInvariant, TypeCorrect, PTL DEF Spec, LiveClaimEndsByHolder

\* A retry when no commit is stale: the row's policy grants it, or the policy
\* the execution was claimed under, or the server's second update asks neither.
LEMMA RetryGranted ==
    ASSUME TypeOK, HistoryInv, [Next]_vars, ~StaleCommit, NEW k \in Key,
           row[k].status = "running", row'[k].status = "retry_wait"
    PROVE  \/ MayRetry(row[k].intent, row[k].attemptCount)
           \/ \E e \in executing : /\ e.key = k
                                  /\ HoldsCurrentClaim(e)
                                  /\ MayRetry(e.intent, row[k].attemptCount)
           \/ row[k].expired /\ ServerRearms(k)
<1>1. \/ MayRetry(row[k].intent, row[k].attemptCount)
      \/ \E e \in executing : /\ e.key = k
                             /\ HoldsCurrentClaim(e)
                             /\ MayRetry(e.intent, e.number)
      \/ row[k].expired /\ ServerRearms(k)
  BY LeavingRunning
<1>2. \A e \in executing : HoldsCurrentClaim(e) => e.number = row[e.key].attemptCount
  BY HolderHasLastAttempt
<1> QED
  BY <1>1, <1>2

\* RetriesWithinBudget: on the desktop store neither a report nor a recovery
\* grants a retry that the policy does not.
THEOREM RetriesStayWithinBudget ==
    ASSUME Store = "powersync"
    PROVE  Spec => RetriesWithinBudget
<1>1. ASSUME TypeOK, DesktopInv, [Next]_vars PROVE RetriesByPolicy
  <2>1. ~StaleCommit /\ HistoryInv
    BY <1>1, DesktopNext DEF DesktopInv
  <2>2. \A k \in Key : ~ServerRearms(k)
    BY DEF ServerRearms, RearmSelected
  <2> QED
    BY <1>1, <2>1, <2>2, RetryGranted DEF RetriesByPolicy
<1>2. TypeOK /\ DesktopInv /\ [Next]_vars => RetriesByPolicy
  BY <1>1
<1> QED
  BY <1>2, DesktopInvariant, TypeCorrect, PTL DEF Spec, RetriesWithinBudget

RetriesByPolicyOrRearmed ==
    \A k \in Key :
        row[k].status = "running" /\ row'[k].status = "retry_wait"
        => \/ MayRetry(row[k].intent, row[k].attemptCount)
           \/ \E e \in executing : /\ e.key = k
                                  /\ HoldsCurrentClaim(e)
                                  /\ MayRetry(e.intent, row[k].attemptCount)
           \/ row[k].expired /\ ServerRearms(k)

\* On either store, as long as no commit is stale, a retry that neither the
\* row's policy nor the one it was claimed under grants comes from one
\* statement: the second update of the server's recovery, which finds the row
\* selected and its claim still expired.  No report and no desktop recovery
\* exceeds the budget, whatever reconciles change the policy meanwhile
\* (completeAttempt, recoverExpiredClaims).
THEOREM OnlyRecoveryExceedsBudget ==
    UncontendedSpec => [][RetriesByPolicyOrRearmed]_vars
<1>1. ASSUME TypeOK, HistoryInv, [Next]_vars, ~StaleCommit PROVE RetriesByPolicyOrRearmed
  BY <1>1, RetryGranted DEF RetriesByPolicyOrRearmed
<1>2. TypeOK /\ HistoryInv /\ [Next /\ ~StaleCommit]_vars => RetriesByPolicyOrRearmed
  BY <1>1, UncontendedSteps
<1> QED
  BY <1>2, UncontendedInvariant, UncontendedIsSpec, TypeCorrect, PTL DEF UncontendedSpec
==============================================================================
