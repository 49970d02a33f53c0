---------------------- MODULE ScheduledInvocationProofs ----------------------
(***************************************************************************)
(* Proofs about ScheduledInvocation, for every number of keys, workers,    *)
(* planners, attempts and reconciles.                                      *)
(*                                                                         *)
(* Some results hold for both stores.  Those about the attempt history are *)
(* proved for the desktop store only: on the server store TLC refutes them *)
(* (run lost_update), because there a reconcile writes back rows it read   *)
(* before other transactions committed.                                    *)
(***************************************************************************)
EXTENDS ScheduledInvocation, TLAPS

----------------------------------------------------------------------------
(* The row operators stay within Row. *)

\* The fallback intent of a row that does not exist is an intent.
LEMMA AnIntentType == AnIntent \in Intent
BY IntentAssumption DEF AnIntent

\* A row that does not exist is a row of the type.
LEMMA AbsentRowType == AbsentRow \in Row
BY AnIntentType DEF AbsentRow, Row, NoClaim, Status

\* What the entity makes of a desired intent is a row.
LEMMA DesiredRowType ==
    ASSUME NEW r \in Row, NEW i \in Intent
    PROVE  Created(i) \in Row /\ AppliedDesired(r, i) \in Row
BY AbsentRowType DEF Created, AppliedDesired, AbsentRow, Row, NoClaim, Status, Runnable

\* Withdrawing, recovering and completing a row give a row.
LEMMA UpdatedRowType ==
    ASSUME NEW r \in Row, NEW s \in Status, NEW token \in Nat
    PROVE  /\ Superseded(r) \in Row
           /\ Rearmed(r) \in Row
           /\ DeadLettered(r) \in Row
           /\ CompletedTo(r, s) \in Row
           /\ Claimed(r, token) \in Row
<1>1. /\ "superseded" \in Status /\ "retry_wait" \in Status
      /\ "dead_letter" \in Status /\ "running" \in Status
  BY DEF Status, Runnable, OutcomeTerminal
<1>2. Superseded(r) \in Row /\ Rearmed(r) \in Row /\ DeadLettered(r) \in Row
  BY <1>1 DEF Superseded, Rearmed, DeadLettered, Row, NoClaim
<1>3. CompletedTo(r, s) \in Row
  BY DEF CompletedTo, Row, NoClaim
<1>4. r.attemptCount + 1 \in Nat /\ r.fencing + 1 \in Nat
  BY DEF Row
<1>5. Claimed(r, token) \in Row
  BY <1>1, <1>4 DEF Claimed, Row
<1> QED
  BY <1>2, <1>3, <1>5

\* The queue reports a status and an outcome of the types.
LEMMA ReportType ==
    ASSUME NEW result \in HandlerResult, NEW i, NEW n
    PROVE  /\ CompletionStatus(result, i, n) \in Status
           /\ CompletionOutcome(result) \in Outcome
BY DEF HandlerResult, CompletionStatus, CompletionOutcome, Outcome, Status,
       OutcomeTerminal, Runnable

\* A reconcile computed from a snapshot of rows leaves rows.
LEMMA ReconciledType ==
    ASSUME NEW d \in DesiredSet, NEW snapshot \in [Key -> Row], row \in [Key -> Row]
    PROVE  Reconciled(d, snapshot) \in [Key -> Row]
<1>1. \A k \in Key : Superseded(row[k]) \in Row
  BY UpdatedRowType DEF Status, Row
<1>2. ASSUME NEW k \in Key, k \in DOMAIN d PROVE Saved(d, snapshot, k) \in Row
  <2>1. d[k] \in Intent
    BY <1>2 DEF DesiredSet
  <2> QED
    BY <2>1, DesiredRowType DEF Saved
<1> QED
  BY <1>1, <1>2 DEF Reconciled
----------------------------------------------------------------------------
(* Recovery, of either store. *)

\* The server's second update re-arms a row without asking any policy.
ServerRearms(k) ==
    \E w \in Worker : RearmSelected(w) /\ k \in StillExpired(w)

\* What one statement of a recovery does to a row it touches.
GivenUp(k) ==
    /\ row[k].status = "running"
    /\ row[k].expired
    /\ \/ row'[k] = DeadLettered(row[k])
       \/ /\ row'[k] = Rearmed(row[k])
          /\ MayRetry(row[k].intent, row[k].attemptCount) \/ ServerRearms(k)

\* A step of a recovery gives up expired claims and touches nothing else.
LEMMA RecoveryStep ==
    ASSUME TypeOK, Recovery
    PROVE  /\ row' \in [Key -> Row]
           /\ recovering' \in [Worker -> RecoveryCall]
           /\ \A k \in Key : row'[k] = row[k] \/ GivenUp(k)
           /\ UNCHANGED <<ripe, attempts, executing, tokens, plans, desired, reconciles>>
<1> DEFINE Goal == /\ row' \in [Key -> Row]
                   /\ recovering' \in [Worker -> RecoveryCall]
                   /\ \A k \in Key : row'[k] = row[k] \/ GivenUp(k)
                   /\ UNCHANGED <<ripe, attempts, executing, tokens, plans, desired,
                                  reconciles>>
<1>1. \A k \in Key : Rearmed(row[k]) \in Row /\ DeadLettered(row[k]) \in Row
  BY UpdatedRowType, 0 \in Nat DEF TypeOK, Status
<1>2. /\ row \in [Key -> Row]
      /\ recovering \in [Worker -> RecoveryCall]
      /\ ExpiredKeys \subseteq Key
      /\ NoRecovery \in RecoveryCall
  BY DEF TypeOK, ExpiredKeys, NoRecovery, RecoveryCall
<1>3. ASSUME NEW S \in Selection, RecoverExpiredClaims(S) PROVE Goal
  <2>1. \A k \in Key : row'[k] = IF k \in S THEN Recovered(row[k]) ELSE row[k]
    BY <1>3 DEF RecoverExpiredClaims
  <2>2. \A k \in S : row[k].status = "running" /\ row[k].expired
    BY DEF Selection, ExpiredKeys
  <2>3. \A k \in Key : row'[k] = row[k] \/ GivenUp(k)
    BY <2>1, <2>2 DEF GivenUp, Recovered
  <2> QED
    BY <1>1, <1>2, <1>3, <2>3 DEF RecoverExpiredClaims, Recovered
<1>4. ASSUME NEW w \in Worker, NEW S \in Selection, SelectExpired(w, S) PROVE Goal
  <2>1. [step |-> "selected", keys |-> S] \in RecoveryCall
    BY <1>2 DEF Selection, RecoveryCall
  <2> QED
    BY <1>2, <1>4, <2>1 DEF SelectExpired
<1>5. ASSUME NEW w \in Worker, DeadLetterSelected(w) PROVE Goal
  <2>1. \A k \in Key : row'[k] = IF /\ k \in StillExpired(w)
                                    /\ row[k].attemptCount >= 1
                                    /\ ~RetryEnabled[row[k].intent]
                                 THEN DeadLettered(row[k]) ELSE row[k]
    BY <1>5 DEF DeadLetterSelected
  <2>2. \A k \in StillExpired(w) : row[k].status = "running" /\ row[k].expired
    BY DEF StillExpired, ExpiredKeys
  <2>3. \A k \in Key : row'[k] = row[k] \/ GivenUp(k)
    BY <2>1, <2>2 DEF GivenUp
  <2>4. [recovering[w] EXCEPT !.step = "lettered"] \in RecoveryCall
    BY <1>2 DEF RecoveryCall
  <2> QED
    BY <1>1, <1>2, <1>5, <2>3, <2>4 DEF DeadLetterSelected
<1>6. ASSUME NEW w \in Worker, RearmSelected(w) PROVE Goal
  <2>1. \A k \in Key : row'[k] = IF k \in StillExpired(w) THEN Rearmed(row[k]) ELSE row[k]
    BY <1>6 DEF RearmSelected
  <2>2. \A k \in StillExpired(w) : row[k].status = "running" /\ row[k].expired
    BY DEF StillExpired, ExpiredKeys
  <2>3. \A k \in Key : row'[k] = row[k] \/ GivenUp(k)
    BY <1>6, <2>1, <2>2 DEF GivenUp, ServerRearms
  <2> QED
    BY <1>1, <1>2, <1>6, <2>3 DEF RearmSelected
<1>7. ASSUME NEW w \in Worker, AbandonRecovery(w) PROVE Goal
  BY <1>2, <1>7 DEF AbandonRecovery
<1> QED
  BY <1>3, <1>4, <1>5, <1>6, <1>7 DEF Recovery

----------------------------------------------------------------------------
(* Type correctness, of either store. *)

\* The empty tables are of the types.
LEMMA InitType == Init => TypeOK
<1>1. AbsentRow \in Row
  BY AbsentRowType
<1>2. [k \in {} |-> AnIntent] \in DesiredSet
  <2>1. [k \in {} |-> AnIntent] \in [{} -> Intent]
    OBVIOUS
  <2>2. {} \in SUBSET Key
    OBVIOUS
  <2> QED
    BY <2>1, <2>2 DEF DesiredSet
<1> QED
  BY <1>1, <1>2 DEF Init, TypeOK, NoRecovery, RecoveryCall

\* A claim stores a row, an attempt and an execution of the types.
LEMMA ClaimType ==
    ASSUME TypeOK, NEW w \in Worker, NEW k \in Key, ClaimAndStart(w, k)
    PROVE  TypeOK'
<1> DEFINE token == tokens[k] + 1
           number == row[k].attemptCount + 1
           fencing == row[k].fencing + 1
           a == [key |-> k, number |-> number, claim |-> token,
                 fencing |-> fencing, outcome |-> "open"]
           e == [worker |-> w, key |-> k, number |-> number, claim |-> token,
                 fencing |-> fencing, intent |-> row[k].intent]
<1>1. token \in Nat /\ number \in Nat /\ fencing \in Nat /\ row[k].intent \in Intent
  BY DEF TypeOK, Row
<1>2. /\ row' = [row EXCEPT ![k] = Claimed(row[k], token)]
      /\ tokens' = [tokens EXCEPT ![k] = token]
      /\ attempts' = attempts \cup {a}
      /\ executing' = executing \cup {e}
      /\ UNCHANGED <<ripe, plans, desired, reconciles, recovering>>
  BY DEF ClaimAndStart, StartAttempt
<1> HIDE DEF token, number, fencing
<1>3. Claimed(row[k], token) \in Row
  BY <1>1, UpdatedRowType DEF TypeOK, Status
<1>4. row' \in [Key -> Row] /\ tokens' \in [Key -> Nat]
  BY <1>1, <1>2, <1>3 DEF TypeOK
<1>5. a \in Attempt /\ e \in Execution
  BY <1>1 DEF Attempt, Execution
<1> QED
  BY <1>2, <1>4, <1>5 DEF TypeOK

\* So does a report, accepted or not.
LEMMA CompleteType ==
    ASSUME TypeOK, NEW e \in executing, NEW result \in HandlerResult,
           CompleteAttempt(e, result)
    PROVE  TypeOK'
<1>1. e.key \in Key
  BY DEF TypeOK, Execution
<1>2. row' \in [Key -> Row] /\ attempts' \in SUBSET Attempt
  <2>1. CASE UNCHANGED <<row, attempts>>
    BY <2>1 DEF TypeOK
  <2>2. CASE /\ row' = [row EXCEPT ![e.key] =
                          CompletedTo(row[e.key], ReportedStatus(e, result))]
             /\ attempts' = CloseAttempt(e, result)
    <3>1. ReportedStatus(e, result) \in Status /\ CompletionOutcome(result) \in Outcome
      BY ReportType DEF ReportedStatus
    <3>2. CompletedTo(row[e.key], ReportedStatus(e, result)) \in Row
      BY <1>1, <3>1, UpdatedRowType, 0 \in Nat DEF TypeOK
    <3>3. \A a \in attempts :
             [a EXCEPT !.outcome = CompletionOutcome(result)] \in Attempt
      BY <3>1 DEF TypeOK, Attempt
    <3>4. CloseAttempt(e, result) \in SUBSET Attempt
      BY <3>3 DEF CloseAttempt, TypeOK
    <3> QED
      BY <1>1, <2>2, <3>2, <3>4 DEF TypeOK
  <2> QED
    BY <2>1, <2>2 DEF CompleteAttempt
<1> QED
  BY <1>2 DEF CompleteAttempt, TypeOK
\* Time, crashes and recoveries keep the types.
LEMMA EnvironmentType ==
    ASSUME TypeOK,
           \/ \E i \in Intent : RunAtReached(i)
           \/ \E k \in Key : RetryDelayElapses(k)
           \/ \E k \in Key : ClaimExpires(k)
           \/ \E e \in executing : AbandonExecution(e)
           \/ Recovery
           \/ \E w \in Worker : ProcessDies(w)
    PROVE  TypeOK'
<1>1. CASE \E i \in Intent : RunAtReached(i)
  BY <1>1 DEF RunAtReached, TypeOK
<1>2. ASSUME NEW k \in Key, RetryDelayElapses(k) PROVE TypeOK'
  <2>1. [row[k] EXCEPT !.retryDue = TRUE] \in Row
    BY DEF TypeOK, Row
  <2> QED
    BY <1>2, <2>1 DEF RetryDelayElapses, TypeOK
<1>3. ASSUME NEW k \in Key, ClaimExpires(k) PROVE TypeOK'
  <2>1. [row[k] EXCEPT !.expired = TRUE] \in Row
    BY DEF TypeOK, Row
  <2> QED
    BY <1>3, <2>1 DEF ClaimExpires, TypeOK
<1>4. CASE \E e \in executing : AbandonExecution(e)
  BY <1>4 DEF AbandonExecution, TypeOK
<1>5. CASE Recovery
  BY <1>5, RecoveryStep DEF TypeOK
<1>6. CASE \E w \in Worker : ProcessDies(w)
  BY <1>6 DEF ProcessDies, TypeOK, NoRecovery, RecoveryCall
<1> QED
  BY <1>1, <1>2, <1>3, <1>4, <1>5, <1>6

\* Reconciles, atomic or in two steps, keep the types.
LEMMA ReconcileType ==
    ASSUME TypeOK,
           \/ \E d \in DesiredSet : Reconcile(d)
           \/ \E p \in Planner, d \in DesiredSet : PlanReconcile(p, d)
           \/ \E plan \in plans : CommitReconcile(plan)
           \/ \E plan \in plans : RollBackReconcile(plan)
    PROVE  TypeOK'
<1>1. ASSUME NEW d \in DesiredSet, Reconcile(d) PROVE TypeOK'
  <2>1. Reconciled(d, row) \in [Key -> Row]
    BY ReconciledType DEF TypeOK
  <2> QED
    BY <1>1, <2>1 DEF Reconcile, TypeOK
<1>2. ASSUME NEW p \in Planner, NEW d \in DesiredSet, PlanReconcile(p, d)
      PROVE  TypeOK'
  <2>1. [planner |-> p, desired |-> d, snapshot |-> row] \in Plan
    BY DEF TypeOK, Plan
  <2> QED
    BY <1>2, <2>1 DEF PlanReconcile, TypeOK
<1>3. ASSUME NEW plan \in plans, CommitReconcile(plan) PROVE TypeOK'
  <2>1. plan.desired \in DesiredSet /\ plan.snapshot \in [Key -> Row]
    BY DEF TypeOK, Plan
  <2>2. Reconciled(plan.desired, plan.snapshot) \in [Key -> Row]
    BY <2>1, ReconciledType DEF TypeOK
  <2> QED
    BY <1>3, <2>1, <2>2 DEF CommitReconcile, TypeOK
<1>4. CASE \E plan \in plans : RollBackReconcile(plan)
  BY <1>4 DEF RollBackReconcile, TypeOK
<1> QED
  BY <1>1, <1>2, <1>3, <1>4

\* Every step keeps the types.
LEMMA NextType == TypeOK /\ [Next]_vars => TypeOK'
<1>1. TypeOK /\ UNCHANGED vars => TypeOK'
  BY DEF TypeOK, vars
<1> QED
  BY <1>1, ClaimType, CompleteType, EnvironmentType, ReconcileType DEF Next

\* TypeOK: the tables, the executions and the plans keep their types on
\* either store, whatever the number of keys, workers and planners.
THEOREM TypeCorrect == Spec => []TypeOK
BY InitType, NextType, PTL DEF Spec
----------------------------------------------------------------------------
(* One acceptable report.  The claim token, not the row's status or its    *)
(* fencing counter (which a server reconcile may turn back), is what tells *)
(* executions of a key apart.                                              *)

ClaimsUnique ==
    /\ \A e \in executing : e.claim \in 1..tokens[e.key]
    /\ \A e, f \in executing : e.key = f.key /\ e.claim = f.claim => e = f

\* Only claiming starts an execution or issues a token.
LEMMA OnlyClaimsExecute ==
    ASSUME TypeOK, [Next]_vars,
           \A w \in Worker, k \in Key : ~ClaimAndStart(w, k)
    PROVE  executing' \subseteq executing /\ tokens' = tokens
<1>1. CASE UNCHANGED vars
  BY <1>1 DEF vars
<1>2. CASE \E e \in executing, result \in HandlerResult : CompleteAttempt(e, result)
  BY <1>2 DEF CompleteAttempt
<1>3. CASE \/ \E e \in executing : AbandonExecution(e)
           \/ \E w \in Worker : ProcessDies(w)
  BY <1>3 DEF AbandonExecution, ProcessDies
<1>4. CASE \/ \E i \in Intent : RunAtReached(i)
           \/ \E k \in Key : RetryDelayElapses(k)
           \/ \E k \in Key : ClaimExpires(k)
           \/ Recovery
  BY <1>4, RecoveryStep DEF RunAtReached, RetryDelayElapses, ClaimExpires
<1>5. CASE \/ \E d \in DesiredSet : Reconcile(d)
           \/ \E q \in Planner, d \in DesiredSet : PlanReconcile(q, d)
           \/ \E plan \in plans : CommitReconcile(plan)
           \/ \E plan \in plans : RollBackReconcile(plan)
  BY <1>5 DEF Reconcile, PlanReconcile, CommitReconcile, RollBackReconcile
<1> QED
  BY <1>1, <1>2, <1>3, <1>4, <1>5 DEF Next

\* A claim issues a token no execution of that key has.
LEMMA ClaimsUniqueStep == TypeOK /\ ClaimsUnique /\ [Next]_vars => ClaimsUnique'
<1> SUFFICES ASSUME TypeOK, ClaimsUnique, [Next]_vars PROVE ClaimsUnique'
  OBVIOUS
<1>1. ASSUME NEW w \in Worker, NEW k \in Key, ClaimAndStart(w, k)
      PROVE  ClaimsUnique'
  <2> DEFINE new == [worker |-> w, key |-> k, number |-> row[k].attemptCount + 1,
                     claim |-> tokens[k] + 1, fencing |-> row[k].fencing + 1,
                     intent |-> row[k].intent]
  <2>1. executing' = executing \cup {new} /\ tokens' = [tokens EXCEPT ![k] = tokens[k] + 1]
    BY <1>1 DEF ClaimAndStart, StartAttempt
  <2>2. new.key = k /\ new.claim = tokens[k] + 1
    OBVIOUS
  <2>3. /\ tokens \in [Key -> Nat]
        /\ \A e \in executing : e.key \in Key /\ e.claim \in Nat
    BY DEF TypeOK, Execution
  <2> HIDE DEF new
  <2>4. \A e \in executing' : e.claim \in 1..tokens'[e.key]
    BY <2>1, <2>2, <2>3 DEF ClaimsUnique
  <2>5. \A e \in executing : e.key = k => e.claim # new.claim
    BY <2>2, <2>3 DEF ClaimsUnique
  <2> QED
    BY <2>1, <2>2, <2>4, <2>5 DEF ClaimsUnique
<1>2. CASE \A w \in Worker, k \in Key : ~ClaimAndStart(w, k)
  BY <1>2, OnlyClaimsExecute DEF ClaimsUnique
<1> QED
  BY <1>1, <1>2

\* OneAcceptableReport: on either store, however many workers still execute a
\* key, at most one of them can have its report accepted.
THEOREM SingleAcceptableReport == Spec => []OneAcceptableReport
<1>1. Init => ClaimsUnique
  BY DEF Init, ClaimsUnique
<1>2. ClaimsUnique => OneAcceptableReport
  BY DEF ClaimsUnique, OneAcceptableReport, HoldsCurrentClaim
<1> QED
  BY <1>1, <1>2, ClaimsUniqueStep, TypeCorrect, PTL DEF Spec

----------------------------------------------------------------------------
(* Attempts are facts.                                                     *)

\* Only a claim and an accepted report touch the attempts.
LEMMA AttemptStep ==
    ASSUME TypeOK, [Next]_vars
    PROVE  \/ attempts \subseteq attempts'
           \/ \E e \in executing, result \in HandlerResult :
                 attempts' = CloseAttempt(e, result)
<1>1. CASE UNCHANGED vars
  BY <1>1 DEF vars
<1>2. CASE \E w \in Worker, k \in Key : ClaimAndStart(w, k)
  BY <1>2 DEF ClaimAndStart, StartAttempt
<1>3. CASE \E e \in executing, result \in HandlerResult : CompleteAttempt(e, result)
  BY <1>3 DEF CompleteAttempt
<1>4. CASE \/ \E i \in Intent : RunAtReached(i)
           \/ \E k \in Key : RetryDelayElapses(k)
           \/ \E k \in Key : ClaimExpires(k)
           \/ \E e \in executing : AbandonExecution(e)
           \/ \E w \in Worker : ProcessDies(w)
           \/ Recovery
  BY <1>4, RecoveryStep DEF RunAtReached, RetryDelayElapses, ClaimExpires,
                            AbandonExecution, ProcessDies
<1>5. CASE \/ \E d \in DesiredSet : Reconcile(d)
           \/ \E q \in Planner, d \in DesiredSet : PlanReconcile(q, d)
           \/ \E plan \in plans : CommitReconcile(plan)
           \/ \E plan \in plans : RollBackReconcile(plan)
  BY <1>5 DEF Reconcile, PlanReconcile, CommitReconcile, RollBackReconcile
<1> QED
  BY <1>1, <1>2, <1>3, <1>4, <1>5 DEF Next

\* AttemptFactsStand: on either store no step removes an attempt, changes what
\* it identifies, or changes a reported outcome.
THEOREM AttemptsAreFacts == Spec => AttemptFactsStand
<1> DEFINE Stands(a) == \E b \in attempts' :
                          /\ b = [a EXCEPT !.outcome = b.outcome]
                          /\ a.outcome # "open" => b = a
<1>1. ASSUME TypeOK, [Next]_vars, NEW a \in attempts PROVE Stands(a)
  <2>1. a \in Attempt /\ a = [a EXCEPT !.outcome = a.outcome]
    BY <1>1 DEF TypeOK, Attempt
  <2>2. CASE a \in attempts'
    BY <2>1, <2>2
  <2>3. ASSUME NEW e \in executing, NEW result \in HandlerResult,
               attempts' = CloseAttempt(e, result), a \notin attempts'
        PROVE  Stands(a)
    <3>1. IsAttemptOf(a, e)
      BY <2>3 DEF CloseAttempt
    <3> DEFINE b == [a EXCEPT !.outcome = CompletionOutcome(result)]
    <3>2. b \in attempts'
      BY <2>3, <3>1 DEF CloseAttempt
    <3>3. b = [a EXCEPT !.outcome = b.outcome] /\ a.outcome = "open"
      BY <2>1, <3>1 DEF IsAttemptOf, Attempt
    <3> QED
      BY <3>2, <3>3
  <2> QED
    BY <1>1, <2>2, <2>3, AttemptStep
<1>2. TypeOK /\ [Next]_vars => KeepsAttemptFacts
  BY <1>1 DEF KeepsAttemptFacts
<1> QED
  BY <1>2, TypeCorrect, PTL DEF Spec, AttemptFactsStand
----------------------------------------------------------------------------
(* Convergence.  With one process reconciling the owner, what a plan read  *)
(* is still true of the owner's keys when it commits, as far as a          *)
(* reconcile cares: queues move rows between statuses, but never into or   *)
(* out of "superseded", and never change an intent.                        *)

Out == {"absent", "superseded"}

SameStanding(r, s) ==
    /\ r.intent = s.intent
    /\ r.status = "absent" <=> s.status = "absent"
    /\ r.status \in Out <=> s.status \in Out

PlansCurrent ==
    /\ Store = "powersync" => plans = {}
    /\ \A p, q \in plans : p = q
    /\ \A plan \in plans : \A k \in Key : SameStanding(row[k], plan.snapshot[k])

OnePlanner == \E p : Planner = {p}

\* A report never withdraws a key.
LEMMA ReportKeepsStanding ==
    ASSUME NEW result \in HandlerResult, NEW i, NEW n
    PROVE  CompletionStatus(result, i, n) \notin Out
BY DEF HandlerResult, CompletionStatus, Out

\* No step but a reconcile's writes changes the standing of a key.
LEMMA QueuesKeepStanding ==
    ASSUME TypeOK, [Next]_vars,
           \A d \in DesiredSet : ~Reconcile(d),
           \A plan \in plans : ~CommitReconcile(plan)
    PROVE  /\ \A k \in Key : SameStanding(row'[k], row[k])
           /\ desired' = desired
<1>0. row \in [Key -> Row]
  BY DEF TypeOK
<1>1. CASE /\ row' = row
           /\ desired' = desired
  BY <1>1 DEF SameStanding
<1>2. ASSUME NEW k \in Key, NEW r \in Row, row' = [row EXCEPT ![k] = r],
             SameStanding(r, row[k])
      PROVE  \A j \in Key : SameStanding(row'[j], row[j])
  BY <1>0, <1>2 DEF SameStanding
<1>3. ASSUME NEW k \in Key, RetryDelayElapses(k) \/ ClaimExpires(k)
      PROVE  \A j \in Key : SameStanding(row'[j], row[j])
  <2>1. row[k] \in Row
    BY <1>0
  <2>2. /\ [row[k] EXCEPT !.retryDue = TRUE] \in Row
        /\ [row[k] EXCEPT !.expired = TRUE] \in Row
        /\ SameStanding([row[k] EXCEPT !.retryDue = TRUE], row[k])
        /\ SameStanding([row[k] EXCEPT !.expired = TRUE], row[k])
    BY <2>1 DEF Row, SameStanding
  <2> QED
    BY <1>2, <1>3, <2>2 DEF RetryDelayElapses, ClaimExpires
<1>4. ASSUME NEW w \in Worker, NEW k \in Key, ClaimAndStart(w, k)
      PROVE  \A j \in Key : SameStanding(row'[j], row[j])
  <2>1. /\ row' = [row EXCEPT ![k] = Claimed(row[k], tokens[k] + 1)]
        /\ row[k].status \in {"pending", "retry_wait"}
    BY <1>4 DEF ClaimAndStart, StartAttempt, Claimable, Due
  <2>2. row[k] \in Row /\ tokens[k] + 1 \in Nat
    BY DEF TypeOK
  <2>3. Claimed(row[k], tokens[k] + 1) \in Row
    BY <2>2, UpdatedRowType DEF Status
  <2>4. SameStanding(Claimed(row[k], tokens[k] + 1), row[k])
    BY <2>1, <2>2 DEF SameStanding, Claimed, Out, Row
  <2> QED
    BY <1>2, <2>1, <2>3, <2>4
<1>5. ASSUME NEW e \in executing, NEW result \in HandlerResult, CompleteAttempt(e, result)
      PROVE  \A j \in Key : SameStanding(row'[j], row[j])
  <2>1. CASE row' = row
    BY <2>1 DEF SameStanding
  <2>2. CASE /\ row' = [row EXCEPT ![e.key] =
                          CompletedTo(row[e.key], ReportedStatus(e, result))]
             /\ HoldsCurrentClaim(e)
    <3>1. e.key \in Key /\ row[e.key] \in Row
      BY DEF TypeOK, Execution
    <3>2. ReportedStatus(e, result) \in Status /\ ReportedStatus(e, result) \notin Out
      BY ReportType, ReportKeepsStanding DEF ReportedStatus
    <3>3. CompletedTo(row[e.key], ReportedStatus(e, result)) \in Row
      BY <3>1, <3>2, UpdatedRowType, 0 \in Nat
    <3>4. SameStanding(CompletedTo(row[e.key], ReportedStatus(e, result)), row[e.key])
      BY <2>2, <3>1, <3>2 DEF SameStanding, CompletedTo, HoldsCurrentClaim, Out, Row
    <3> QED
      BY <1>2, <2>2, <3>1, <3>3, <3>4
  <2> QED
    BY <1>5, <2>1, <2>2 DEF CompleteAttempt
<1>6. CASE Recovery
  <2>1. ASSUME NEW j \in Key, GivenUp(j)
        PROVE  SameStanding(row'[j], row[j])
    BY <1>0, <2>1 DEF GivenUp, SameStanding, Rearmed, DeadLettered, Out, Row
  <2> QED
    BY <1>6, <2>1, RecoveryStep DEF SameStanding
<1>7. \/ row' = row /\ desired' = desired
      \/ /\ \/ \E k \in Key : RetryDelayElapses(k) \/ ClaimExpires(k)
            \/ \E w \in Worker, k \in Key : ClaimAndStart(w, k)
            \/ \E e \in executing, result \in HandlerResult : CompleteAttempt(e, result)
            \/ Recovery
         /\ desired' = desired
  <2>1. CASE UNCHANGED vars
    BY <2>1 DEF vars
  <2>2. CASE \/ \E i \in Intent : RunAtReached(i)
             \/ \E e \in executing : AbandonExecution(e)
             \/ \E w \in Worker : ProcessDies(w)
             \/ \E p \in Planner, d \in DesiredSet : PlanReconcile(p, d)
             \/ \E plan \in plans : RollBackReconcile(plan)
    BY <2>2 DEF RunAtReached, AbandonExecution, ProcessDies, PlanReconcile,
                RollBackReconcile
  <2>3. /\ \A k \in Key : RetryDelayElapses(k) => desired' = desired
        /\ \A k \in Key : ClaimExpires(k) => desired' = desired
        /\ \A w \in Worker, k \in Key : ClaimAndStart(w, k) => desired' = desired
        /\ \A e \in executing, result \in HandlerResult :
              CompleteAttempt(e, result) => desired' = desired
        /\ Recovery => desired' = desired
    BY RecoveryStep DEF RetryDelayElapses, ClaimExpires, ClaimAndStart, CompleteAttempt
  <2> QED
    BY <2>1, <2>2, <2>3 DEF Next
<1> QED
  BY <1>1, <1>3, <1>4, <1>5, <1>6, <1>7
Converged(rows, d) ==
    \A k \in Key :
        IF k \in DOMAIN d
        THEN rows[k].status \notin Out /\ rows[k].intent = d[k]
        ELSE rows[k].status \in Out

\* A reconcile computed from rows of the same standing as the present ones
\* converges the owner.
LEMMA ReconcileConverges ==
    ASSUME NEW d \in DesiredSet, NEW snapshot \in [Key -> Row], row \in [Key -> Row],
           \A k \in Key : SameStanding(row[k], snapshot[k])
    PROVE  Converged(Reconciled(d, snapshot), d)
<1> SUFFICES ASSUME NEW k \in Key
             PROVE  IF k \in DOMAIN d
                    THEN /\ Reconciled(d, snapshot)[k].status \notin Out
                         /\ Reconciled(d, snapshot)[k].intent = d[k]
                    ELSE Reconciled(d, snapshot)[k].status \in Out
  BY DEF Converged
<1>1. SameStanding(row[k], snapshot[k]) /\ row[k] \in Row /\ snapshot[k] \in Row
  OBVIOUS
<1>2. CASE k \in DOMAIN d
  <2>1. Reconciled(d, snapshot)[k] = Saved(d, snapshot, k) /\ d[k] \in Intent
    BY <1>2 DEF Reconciled, DesiredSet
  <2>2. CASE snapshot[k].status = "absent"
    <3>1. Saved(d, snapshot, k) = Created(d[k])
      BY <2>2 DEF Saved, Unchanged
    <3>2. Created(d[k]).status = "pending" /\ Created(d[k]).intent = d[k]
      BY DEF Created, AbsentRow
    <3> QED
      BY <1>2, <2>1, <3>1, <3>2 DEF Out
  <2>3. CASE snapshot[k].status # "absent" /\ Unchanged(snapshot[k], d[k])
    <3>1. Saved(d, snapshot, k) = row[k]
      BY <2>3 DEF Saved
    <3> QED
      BY <1>1, <1>2, <2>1, <2>3, <3>1 DEF SameStanding, Unchanged, Out
  <2>4. CASE snapshot[k].status # "absent" /\ ~Unchanged(snapshot[k], d[k])
    <3>1. Saved(d, snapshot, k) = AppliedDesired(snapshot[k], d[k])
      BY <2>4 DEF Saved
    <3>2. /\ AppliedDesired(snapshot[k], d[k]).status \in {"running", "pending"}
          /\ AppliedDesired(snapshot[k], d[k]).intent = d[k]
      BY <1>1 DEF AppliedDesired, Row
    <3> QED
      BY <1>2, <2>1, <3>1, <3>2 DEF Out
  <2> QED
    BY <2>2, <2>3, <2>4
<1>3. CASE k \notin DOMAIN d
  <2>1. Reconciled(d, snapshot)[k] = Superseded(row[k])
    BY <1>3 DEF Reconciled
  <2>2. Superseded(row[k]).status \in Out
    BY <1>1 DEF Superseded, Out, Row
  <2> QED
    BY <1>3, <2>1, <2>2
<1> QED
  BY <1>2, <1>3

\* What a reconcile plan read stays current: the only planner has no other
\* plan under way.
LEMMA PlansStayCurrent ==
    OnePlanner /\ TypeOK /\ PlansCurrent /\ [Next]_vars => PlansCurrent'
<1> SUFFICES ASSUME OnePlanner, TypeOK, PlansCurrent, [Next]_vars PROVE PlansCurrent'
  OBVIOUS
<1>1. CASE \E d \in DesiredSet : Reconcile(d)
  BY <1>1 DEF Reconcile, PlansCurrent
<1>2. CASE \E plan \in plans : CommitReconcile(plan)
  BY <1>2 DEF CommitReconcile, PlansCurrent
<1>3. ASSUME NEW p \in Planner, NEW d \in DesiredSet, PlanReconcile(p, d)
      PROVE  PlansCurrent'
  <2>1. plans = {}
    BY <1>3 DEF PlanReconcile, OnePlanner, TypeOK, Plan
  <2>2. plans' = {[planner |-> p, desired |-> d, snapshot |-> row]} /\ row' = row
    BY <1>3, <2>1 DEF PlanReconcile
  <2>3. Store # "powersync"
    BY <1>3 DEF PlanReconcile
  <2> QED
    BY <2>2, <2>3 DEF PlansCurrent, SameStanding
<1>4. CASE /\ \A d \in DesiredSet : ~Reconcile(d)
           /\ \A plan \in plans : ~CommitReconcile(plan)
           /\ \A p \in Planner, d \in DesiredSet : ~PlanReconcile(p, d)
  <2>1. \A k \in Key : SameStanding(row'[k], row[k])
    BY <1>4, QueuesKeepStanding
  <2>2. plans' \subseteq plans
    <3>1. CASE UNCHANGED vars
      BY <3>1 DEF vars
    <3>2. CASE Next
      <4>1. CASE \/ \E i \in Intent : RunAtReached(i)
                 \/ \E k \in Key : RetryDelayElapses(k) \/ ClaimExpires(k)
                 \/ \E w \in Worker, k \in Key : ClaimAndStart(w, k)
        BY <4>1 DEF RunAtReached, RetryDelayElapses, ClaimExpires, ClaimAndStart
      <4>2. CASE \/ \E e \in executing, result \in HandlerResult : CompleteAttempt(e, result)
                 \/ \E e \in executing : AbandonExecution(e)
                 \/ \E w \in Worker : ProcessDies(w)
                 \/ Recovery
                 \/ \E plan \in plans : RollBackReconcile(plan)
        BY <4>2, RecoveryStep DEF CompleteAttempt, AbandonExecution, ProcessDies,
                                  RollBackReconcile
      <4> QED
        BY <1>4, <3>2, <4>1, <4>2 DEF Next
    <3> QED
      BY <3>1, <3>2
  <2> QED
    BY <2>1, <2>2 DEF PlansCurrent, SameStanding
<1> QED
  BY <1>1, <1>2, <1>3, <1>4

\* OwnerConverged: on either store, if one process reconciles the owner, the
\* owner's rows are converged to the last desired set it declared, for ever.
THEOREM OwnerStaysConverged ==
    ASSUME OnePlanner
    PROVE  Spec => []OwnerConverged
<1>1. Init => PlansCurrent /\ OwnerConverged
  <2>1. ASSUME Init PROVE \A k \in Key : row[k].status = "absent"
    BY <2>1 DEF Init, AbsentRow
  <2> QED
    BY <2>1 DEF Init, PlansCurrent, OwnerConverged
<1>2. TypeOK /\ PlansCurrent /\ OwnerConverged /\ [Next]_vars => OwnerConverged'
  <2> SUFFICES ASSUME TypeOK, PlansCurrent, OwnerConverged, [Next]_vars
               PROVE  OwnerConverged'
    OBVIOUS
  <2>1. ASSUME NEW d \in DesiredSet, Reconcile(d) PROVE OwnerConverged'
    <3>1. Converged(Reconciled(d, row), d)
      BY ReconcileConverges DEF TypeOK, SameStanding
    <3> QED
      BY <2>1, <3>1 DEF Reconcile, OwnerConverged, Converged, Out
  <2>2. ASSUME NEW plan \in plans, CommitReconcile(plan) PROVE OwnerConverged'
    <3>1. plan.desired \in DesiredSet /\ plan.snapshot \in [Key -> Row]
      BY DEF TypeOK, Plan
    <3>2. Converged(Reconciled(plan.desired, plan.snapshot), plan.desired)
      BY <3>1, ReconcileConverges DEF TypeOK, PlansCurrent
    <3> QED
      BY <2>2, <3>2 DEF CommitReconcile, OwnerConverged, Converged, Out
  <2>3. CASE /\ \A d \in DesiredSet : ~Reconcile(d)
             /\ \A plan \in plans : ~CommitReconcile(plan)
    <3>1. (\A k \in Key : SameStanding(row'[k], row[k])) /\ desired' = desired
      BY <2>3, QueuesKeepStanding
    <3> QED
      BY <3>1 DEF OwnerConverged, SameStanding, Out
  <2> QED
    BY <2>1, <2>2, <2>3
<1> QED
  BY <1>1, <1>2, PlansStayCurrent, TypeCorrect, PTL DEF Spec
==============================================================================
