---------------------- MODULE ContractRefinementProofs ----------------------
(***************************************************************************)
(* The scheduler's tables implement InvocationContract as long as no       *)
(* commit is stale: every transaction of either store then maps to one     *)
(* step of the contract or to none.  The desktop store never commits a     *)
(* stale reconcile.                                                        *)
(***************************************************************************)
EXTENDS DesktopInvocationProofs

Phases == [k \in Key |-> PhaseOf(row[k].status)]
Starts == [k \in Key |-> row[k].attemptCount]

\* The phases of the statuses the steps lead to and come from.
LEMMA PhaseValues ==
    /\ PhaseOf("pending") = "armed" /\ PhaseOf("retry_wait") = "armed"
    /\ PhaseOf("running") = "running" /\ PhaseOf("superseded") = "withdrawn"
    /\ PhaseOf("absent") = "absent"
    /\ \A s \in OutcomeTerminal : PhaseOf(s) = "settled"
BY DEF PhaseOf, Runnable, OutcomeTerminal

\* A quiet change that keeps the status keeps what the contract sees.
LEMMA SameView ==
    ASSUME \A k \in Key : /\ row'[k].status = row[k].status
                          /\ row'[k].attemptCount = row[k].attemptCount
    PROVE  Phases' = Phases /\ Starts' = Starts
BY DEF Phases, Starts

\* A claim is a Start.
LEMMA ClaimIsStart ==
    ASSUME TypeOK, NEW w \in Worker, NEW k \in Key, ClaimAndStart(w, k)
    PROVE  Contract!Start(k)
<1>1. /\ row \in [Key -> Row] /\ row[k] \in Row
      /\ row' = [row EXCEPT ![k] = Claimed(row[k], tokens[k] + 1)]
      /\ row[k].status \in {"pending", "retry_wait"}
  BY DEF TypeOK, ClaimAndStart, StartAttempt, Claimable, Due
<1>2. /\ row'[k].status = "running"
      /\ row'[k].attemptCount = row[k].attemptCount + 1
      /\ \A j \in Key \ {k} : row'[j] = row[j]
  BY <1>1 DEF Claimed, Row
<1>3. Phases[k] = "armed"
  BY <1>1, PhaseValues DEF Phases
<1>4. Phases' = [Phases EXCEPT ![k] = "running"]
  BY <1>2, PhaseValues DEF Phases
<1>5. Starts' = [Starts EXCEPT ![k] = Starts[k] + 1]
  BY <1>2 DEF Starts
<1> QED
  BY <1>3, <1>4, <1>5 DEF Contract!Start, Phases, Starts

\* What a report or a recovery does to its rows is a Release.
LEMMA StoppingIsRelease ==
    ASSUME NEW S \in SUBSET Key,
           \A k \in S : /\ row[k].status = "running"
                        /\ row'[k].status \in OutcomeTerminal \cup {"retry_wait"},
           \A k \in Key \ S : row'[k].status = row[k].status,
           \A k \in Key : row'[k].attemptCount = row[k].attemptCount
    PROVE  \E settled, requeued \in SUBSET Key : Contract!Release(settled, requeued)
<1> DEFINE settled == {k \in S : row'[k].status \in OutcomeTerminal}
           requeued == S \ settled
<1>1. \A k \in settled \cup requeued : Phases[k] = "running"
  BY PhaseValues DEF Phases
<1>2. ASSUME NEW k \in Key
      PROVE  PhaseOf(row'[k].status) = (IF k \in settled THEN "settled"
                                        ELSE IF k \in requeued THEN "armed"
                                        ELSE Phases[k])
  <2>1. CASE k \in settled
    BY <2>1, PhaseValues
  <2>2. CASE k \in requeued
    BY <2>2, PhaseValues
  <2>3. CASE k \notin S
    BY <2>3 DEF Phases
  <2> QED
    BY <2>1, <2>2, <2>3
<1>3. Starts' = Starts
  BY DEF Starts
<1> HIDE DEF settled, requeued
<1>4. Contract!Release(settled, requeued)
  BY <1>1, <1>2, <1>3 DEF Contract!Release, Phases, Starts
<1>5. settled \in SUBSET Key /\ requeued \in SUBSET Key
  BY DEF settled, requeued
<1> QED
  BY <1>4, <1>5

\* A reconcile that succeeds is a Declare: a settled key is kept settled
\* because a changed intent for it is a collision.
LEMMA ReconcileIsDeclare ==
    ASSUME TypeOK, BlankWhenAbsent, NEW d \in DesiredSet, NEW snapshot,
           Declares(d, snapshot)
    PROVE  DOMAIN d \in SUBSET Key /\ Contract!Declare(DOMAIN d)
<1>1. /\ row \in [Key -> Row] /\ snapshot \in [Key -> Row]
      /\ row' = Reconciled(d, snapshot) /\ ~Collision(d, snapshot)
      /\ ReadCurrent(d, snapshot)
  BY DEF TypeOK, Declares
<1>2. DOMAIN d \in SUBSET Key
  BY DEF DesiredSet
<1>3. Starts' = Starts
  BY <1>1, ReconciledQuietly DEF Starts, QuietChange, SameCounts
<1>4. ASSUME NEW k \in Key
      PROVE  PhaseOf(row'[k].status) =
               (IF k \in DOMAIN d
                THEN IF Phases[k] \in {"absent", "withdrawn"} THEN "armed" ELSE Phases[k]
                ELSE IF Phases[k] = "absent" THEN "absent" ELSE "withdrawn")
  <2>1. row[k] \in Row /\ Phases[k] = PhaseOf(row[k].status)
    BY <1>1 DEF Phases
  <2>2. CASE k \notin DOMAIN d
    <3>1. row'[k] = Superseded(row[k])
      BY <1>1, <2>2 DEF Reconciled
    <3>2. CASE row[k].status \in {"absent", "superseded"}
      BY <2>1, <2>2, <3>1, <3>2, PhaseValues DEF Superseded
    <3>3. CASE row[k].status \notin {"absent", "superseded"}
      <4>1. row'[k].status = "superseded"
        BY <2>1, <3>1, <3>3 DEF Superseded, Row
      <4>2. Phases[k] # "absent"
        BY <2>1, <3>3, PhaseValues DEF Row, Status, Runnable
      <4> QED
        BY <2>2, <4>1, <4>2, PhaseValues
    <3> QED
      BY <3>2, <3>3
  <2>3. CASE k \in DOMAIN d
    <3>1. /\ row'[k] = Saved(d, snapshot, k) /\ snapshot[k] \in Row
          /\ snapshot[k].status = row[k].status /\ snapshot[k].intent = row[k].intent
      BY <1>1, <2>3 DEF Reconciled, ReadCurrent, Written
    <3>2. CASE row[k].status = "absent"
      <4>1. row'[k].status = "pending"
        BY <3>1, <3>2 DEF Saved, Unchanged, Created, AbsentRow
      <4> QED
        BY <2>1, <2>3, <3>2, <4>1, PhaseValues
    <3>3. CASE row[k].status # "absent" /\ Unchanged(snapshot[k], d[k])
      <4>1. row'[k] = row[k]
        BY <3>1, <3>3 DEF Saved
      <4>2. Phases[k] \notin {"absent", "withdrawn"}
        BY <2>1, <3>1, <3>3, PhaseValues DEF Unchanged, Row, Status, Runnable
      <4> QED
        BY <2>1, <2>3, <4>1, <4>2
    <3>4. CASE row[k].status # "absent" /\ ~Unchanged(snapshot[k], d[k])
      <4>1. row'[k] = AppliedDesired(snapshot[k], d[k])
        BY <3>1, <3>4 DEF Saved
      <4>2. row[k].status \in {"superseded", "running", "pending", "retry_wait"}
        BY <1>1, <2>1, <2>3, <3>1, <3>4 DEF Unchanged, Collision, Collides, Row, Status, Runnable
      <4>3. CASE row[k].status = "running"
        <5>1. row'[k].status = "running"
          BY <3>1, <4>1, <4>3 DEF AppliedDesired, Row
        <5> QED
          BY <2>1, <2>3, <4>3, <5>1, PhaseValues
      <4>4. CASE row[k].status # "running"
        <5>1. row'[k].status = "pending"
          BY <3>1, <4>1, <4>4 DEF AppliedDesired, Row
        <5> QED
          BY <2>1, <2>3, <4>2, <4>4, <5>1, PhaseValues
      <4> QED
        BY <4>3, <4>4
    <3> QED
      BY <3>2, <3>3, <3>4
  <2> QED
    BY <2>2, <2>3
<1> QED
  BY <1>2, <1>3, <1>4 DEF Contract!Declare, Phases, Starts

\* Every step that commits nothing stale maps to a step of the contract, or to
\* none.
LEMMA StepsRefine ==
    ASSUME TypeOK, HistoryInv, [Next]_vars, ~StaleCommit
    PROVE  [Contract!ContractNext]_(Contract!contractVars)
<1>0. row \in [Key -> Row]
  BY DEF TypeOK
<1>1. CASE \A k \in Key : /\ row'[k].status = row[k].status
                          /\ row'[k].attemptCount = row[k].attemptCount
  BY <1>1, SameView DEF Contract!contractVars, Phases, Starts
<1>2. ASSUME NEW k \in Key, RetryDelayElapses(k) \/ ClaimExpires(k)
      PROVE  \A j \in Key : /\ row'[j].status = row[j].status
                            /\ row'[j].attemptCount = row[j].attemptCount
  BY <1>0, <1>2 DEF RetryDelayElapses, ClaimExpires, Row
<1>3. ASSUME NEW w \in Worker, NEW k \in Key, ClaimAndStart(w, k)
      PROVE  Contract!ContractNext
  BY <1>3, ClaimIsStart DEF Contract!ContractNext
<1>4. ASSUME NEW e \in executing, NEW result \in HandlerResult, CompleteAttempt(e, result)
      PROVE  row' = row \/ Contract!ContractNext
  <2>1. CASE /\ HoldsCurrentClaim(e)
             /\ row' = [row EXCEPT ![e.key] = CompletedTo(row[e.key], ReportedStatus(e, result))]
    <3>1. e.key \in Key /\ row[e.key] \in Row /\ row[e.key].status = "running"
      BY <2>1, HolderHasLastAttempt
    <3>2. ReportedStatus(e, result) \in OutcomeTerminal \cup {"retry_wait"}
      BY DEF ReportedStatus, CompletionStatus, HandlerResult, OutcomeTerminal
    <3>3. /\ row'[e.key].status = ReportedStatus(e, result)
          /\ row'[e.key].attemptCount = row[e.key].attemptCount
          /\ \A j \in Key \ {e.key} : row'[j] = row[j]
      BY <1>0, <2>1, <3>1 DEF CompletedTo, Row
    <3>4. \E settled, requeued \in SUBSET Key : Contract!Release(settled, requeued)
      <4> DEFINE S == {e.key}
      <4>1. S \in SUBSET Key
        BY <3>1
      <4>2. \A k \in S : /\ row[k].status = "running"
                         /\ row'[k].status \in OutcomeTerminal \cup {"retry_wait"}
        BY <3>1, <3>2, <3>3
      <4>3. /\ \A k \in Key \ S : row'[k].status = row[k].status
            /\ \A k \in Key : row'[k].attemptCount = row[k].attemptCount
        BY <3>3
      <4> HIDE DEF S
      <4> QED
        BY <4>1, <4>2, <4>3, StoppingIsRelease
    <3> QED
      BY <3>4 DEF Contract!ContractNext
  <2>2. CASE row' = row
    BY <2>2
  <2> QED
    BY <1>4, <2>1, <2>2 DEF CompleteAttempt
<1>5. CASE Recovery
  <2> DEFINE S == {k \in Key : GivenUp(k)}
  <2>1. /\ \A k \in S : row[k].status = "running"
        /\ \A k \in Key \ S : row'[k] = row[k]
    BY <1>5, RecoveryStep DEF GivenUp
  <2>2. \A k \in S : /\ row'[k].status \in OutcomeTerminal \cup {"retry_wait"}
                     /\ row'[k].attemptCount = row[k].attemptCount
    <3> SUFFICES ASSUME NEW k \in Key, GivenUp(k)
                 PROVE  /\ row'[k].status \in {"dead_letter", "retry_wait"}
                        /\ row'[k].attemptCount = row[k].attemptCount
      BY DEF OutcomeTerminal
    <3>1. row[k] \in Row
      BY <1>0
    <3> QED
      BY <3>1 DEF GivenUp, Rearmed, DeadLettered, Row
  <2>3. \A k \in Key : row'[k].attemptCount = row[k].attemptCount
    BY <2>1, <2>2
  <2> HIDE DEF S
  <2>4. S \in SUBSET Key
    BY DEF S
  <2>5. \E settled, requeued \in SUBSET Key : Contract!Release(settled, requeued)
    BY <2>1, <2>2, <2>3, <2>4, StoppingIsRelease
  <2> QED
    BY <2>5 DEF Contract!ContractNext
<1>6. CASE \/ \E d \in DesiredSet : Reconcile(d)
           \/ \E plan \in plans : CommitReconcile(plan)
  <2>1. PICK d \in DesiredSet, snapshot \in [Key -> Row] : Declares(d, snapshot)
    BY <1>6, ReconcilesDeclare DEF Declares
  <2>2. BlankWhenAbsent
    BY DEF HistoryInv, BlankWhenAbsent, Counted
  <2> QED
    BY <2>1, <2>2, ReconcileIsDeclare DEF Contract!ContractNext
<1>7. CASE \/ \E i \in Intent : RunAtReached(i)
           \/ \E e \in executing : AbandonExecution(e)
           \/ \E w \in Worker : ProcessDies(w)
           \/ \E p \in Planner, d \in DesiredSet : PlanReconcile(p, d)
           \/ \E plan \in plans : RollBackReconcile(plan)
           \/ UNCHANGED vars
  <2>1. row' = row
    BY <1>7 DEF RunAtReached, AbandonExecution, ProcessDies, PlanReconcile,
                RollBackReconcile, vars
  <2> QED
    BY <1>1, <2>1
<1> QED
  BY <1>1, <1>2, <1>3, <1>4, <1>5, <1>6, <1>7 DEF Next

LEMMA InitRefines == Init => Contract!ContractInit
<1> SUFFICES ASSUME Init PROVE Contract!ContractInit
  OBVIOUS
<1>1. \A k \in Key : row[k].status = "absent" /\ row[k].attemptCount = 0
  BY DEF Init, AbsentRow
<1> QED
  BY <1>1, PhaseValues DEF Contract!ContractInit

\* ImplementsContract: on the desktop store, for every number of keys, workers
\* and executions, the scheduler implements the contract with its owners.
THEOREM DesktopImplementsContract ==
    ASSUME Store = "powersync"
    PROVE  Spec => ImplementsContract
<1>1. TypeOK /\ DesktopInv /\ [Next]_vars => [Contract!ContractNext]_(Contract!contractVars)
  BY DesktopNext, StepsRefine DEF DesktopInv
<1> QED
  BY <1>1, InitRefines, DesktopInvariant, TypeCorrect, PTL
  DEF Spec, ImplementsContract, Contract!ContractSpec

\* ImplementsContract: on either store, with any number of processes
\* reconciling the owner, the scheduler implements the contract as long as no
\* reconcile commits over a row that was written since it was read.
THEOREM UncontendedImplementsContract == UncontendedSpec => ImplementsContract
<1>1. TypeOK /\ HistoryInv /\ [Next /\ ~StaleCommit]_vars
         => [Contract!ContractNext]_(Contract!contractVars)
  BY UncontendedSteps, StepsRefine
<1> QED
  BY <1>1, InitRefines, UncontendedInvariant, UncontendedIsSpec, TypeCorrect, PTL
  DEF UncontendedSpec, ImplementsContract, Contract!ContractSpec
==============================================================================
