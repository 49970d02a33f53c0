-------------------------- MODULE SchedulerHostProofs --------------------------
(***************************************************************************)
(* The safety of the host lease, for any number of hosts, grants and       *)
(* faults.  HostInv strengthens ServesUnderLease, HeartbeatServes and      *)
(* StandbyKeepsTrying to an inductive invariant: what each host's fields   *)
(* say of each other, that tokens are never shared or reused, and that     *)
(* from the grant on a token that has not lapsed is the row's owner.       *)
(***************************************************************************)
EXTENDS SchedulerHost, TLAPS

TokensOf(s) == {s.grant, s.leaseOwnerToken} \ {NoToken}

\* The fields of one host agree with each other.
Coherent(s) ==
    /\ s.retry => s.started /\ s.op = "none" /\ ~s.queueStarted
    /\ s.stop # "no" => ~s.started
    /\ s.queueStarted => /\ s.op = "none"
                         /\ s.stop # "releasing"
                         /\ s.started \/ s.stop # "no"
                         /\ s.leaseOwnerToken # NoToken
    /\ s.op \notin {"none", "releasing"} => s.started \/ s.stop # "no"
    /\ s.op = "granted" => s.grant # NoToken
    /\ s.op = "opening" => s.leaseOwnerToken # NoToken
    /\ s.leaseOwnerToken # NoToken =>
          s.op \in {"opening", "releasing"} \/ s.queueStarted \/ s.stop = "releasing"
    /\ s.heartbeat # NoToken =>
          s.queueStarted \/ s.op = "opening" \/ s.stop = "releasing"
    /\ s.started => s.queueStarted \/ s.op # "none" \/ s.retry

\* The token a host counts on: granted, or behind its opening or open queue.
Claims(s, t) ==
    \/ s.op = "granted" /\ t = s.grant
    \/ (s.op = "opening" \/ s.queueStarted) /\ t = s.leaseOwnerToken

\* A token some host counts on is the live owner unless it lapsed.
Backed(s) == \A t \in Token : Claims(s, t) /\ t \notin lapsed => Live(t)

HostInv ==
    /\ TypeOK
    /\ \A h \in Host : Coherent(host[h])
    /\ \A h \in Host : Backed(host[h])
    /\ \A h \in Host : \A t \in TokensOf(host[h]) : t <= issued
    /\ \A g, h \in Host : g # h => TokensOf(host[g]) \cap TokensOf(host[h]) = {}
    /\ \A t \in lapsed : t <= issued
    /\ lease.owner <= issued
    /\ lease.expired => lease.owner \in lapsed

----------------------------------------------------------------------------
(* What a step of host h to the record s has to show. *)

StepOK(h, s) ==
    /\ s \in HostState
    /\ s.grant # NoToken => s.op \in {"granted", "releasing"}
    /\ s.stop \in {"draining", "releasing"} => s.op = "none"
    /\ Coherent(s)

\* A host that changes only its own record, and takes no token it did not
\* have, keeps the invariant if what it counts on is still backed.
LEMMA OwnStep ==
    ASSUME HostInv, NEW h \in Host, NEW s, StepOK(h, s), Update(h, s),
           TokensOf(s) \subseteq TokensOf(host[h]),
           \A t \in Token : Claims(s, t) => Claims(host[h], t),
           UNCHANGED <<lease, issued, lapsed>>, faults' \in 0..MaxFaults
    PROVE  HostInv'
<1>1. host' = [host EXCEPT ![h] = s] /\ host' \in [Host -> HostState]
  BY DEF HostInv, TypeOK, Update, StepOK
<1>2. \A g \in Host : host'[g] = IF g = h THEN s ELSE host[g]
  BY <1>1 DEF HostInv, TypeOK
<1>3. TypeOK'
  BY <1>1, <1>2 DEF HostInv, TypeOK, StepOK
<1>4. \A g \in Host : Coherent(host[g])'
  BY <1>2 DEF HostInv, StepOK, Coherent
<1>5. \A g \in Host : Backed(host[g])'
  BY <1>2 DEF HostInv, Backed, Claims, Live
<1>6. \A g \in Host : TokensOf(host'[g]) \subseteq TokensOf(host[g])
  BY <1>2
<1>7. /\ \A g \in Host : \A t \in TokensOf(host'[g]) : t <= issued'
      /\ \A g, k \in Host : g # k => TokensOf(host'[g]) \cap TokensOf(host'[k]) = {}
  BY <1>6 DEF HostInv
<1>8. QED
  BY <1>3, <1>4, <1>5, <1>7 DEF HostInv, TokensOf

\* The same for a host that counts on nothing any more and deletes its row.
LEMMA ReleaseStep ==
    ASSUME HostInv, NEW h \in Host, NEW s, StepOK(h, s), Update(h, s),
           TokensOf(s) = {}, \A t \in Token : ~Claims(s, t),
           NEW token \in {host[h].grant, host[h].leaseOwnerToken},
           lease' \in {lease, Deleted(token)},
           UNCHANGED <<issued, lapsed>>, faults' \in 0..MaxFaults
    PROVE  HostInv'
<1>1. host' = [host EXCEPT ![h] = s] /\ host' \in [Host -> HostState]
  BY DEF HostInv, TypeOK, Update, StepOK
<1>2. \A g \in Host : host'[g] = IF g = h THEN s ELSE host[g]
  BY <1>1 DEF HostInv, TypeOK
<1>3. /\ lease' \in LeaseRow
      /\ lease'.expired => lease'.owner \in lapsed'
      /\ lease'.owner <= issued'
  <2>1. lease' = lease \/ lease' = NoLease
    BY DEF Deleted
  <2>2. CASE lease' = lease
    BY <2>2 DEF HostInv, TypeOK
  <2>3. CASE lease' = NoLease
    <3>1. issued \in Nat
      BY DEF HostInv, TypeOK, MaybeToken, Token, NoToken
    <3>2. QED
      BY <2>3, <3>1 DEF NoLease, LeaseRow, MaybeToken, NoToken
  <2>4. QED
    BY <2>1, <2>2, <2>3
<1>4. TypeOK'
  BY <1>1, <1>2, <1>3 DEF HostInv, TypeOK, StepOK
<1>5. \A g \in Host : Coherent(host[g])'
  BY <1>2 DEF HostInv, StepOK, Coherent
<1>6. \A g \in Host : Backed(host[g])'
  <2> SUFFICES ASSUME NEW g \in Host, NEW t \in Token,
                      Claims(host'[g], t), t \notin lapsed
               PROVE  Live(t)'
    BY DEF Backed, Claims
  <2>1. g # h /\ Claims(host[g], t)
    BY <1>2 DEF Claims
  <2>2. Live(t)
    BY <2>1 DEF HostInv, Backed
  <2>3. t \in TokensOf(host[g])
    BY <2>1 DEF Claims, TokensOf, Token, NoToken
  <2>4. token # t
    BY <2>1, <2>3 DEF HostInv, TokensOf
  <2>5. QED
    BY <2>2, <2>4 DEF Live, Deleted
<1>7. \A g \in Host : TokensOf(host'[g]) \subseteq TokensOf(host[g])
  BY <1>2
<1>8. /\ \A g \in Host : \A t \in TokensOf(host'[g]) : t <= issued'
      /\ \A g, k \in Host : g # k => TokensOf(host'[g]) \cap TokensOf(host'[k]) = {}
  BY <1>7 DEF HostInv
<1>9. QED
  BY <1>3, <1>4, <1>5, <1>6, <1>8 DEF HostInv, TokensOf

----------------------------------------------------------------------------
(* The steps. *)

LEMMA GrantStep == ASSUME HostInv, NEW h \in Host, Grant(h) PROVE HostInv'
<1> DEFINE new == issued + 1
           s == [host[h] EXCEPT !.op = "granted", !.grant = new]
<1>0. host[h] \in HostState /\ Coherent(host[h])
  BY DEF HostInv, TypeOK
<1>1. new \in Token /\ new # NoToken
  BY HostBoundAssumption DEF Grant, HostInv, TypeOK, MaybeToken, Token, NoToken
<1>2. s \in HostState /\ Coherent(s) /\ TokensOf(s) = {new}
  <2>1. s \in HostState
    BY <1>0, <1>1 DEF HostState, MaybeToken
  <2>2. host[h].leaseOwnerToken = NoToken
    BY <1>0 DEF Grant, Coherent, HostInv, TypeOK
  <2>3. Coherent(s)
    BY <1>0, <1>1 DEF Coherent, Grant, HostState
  <2>4. QED
    BY <1>0, <1>1, <2>1, <2>2, <2>3 DEF TokensOf, HostState
<1>3. \A g \in Host : host'[g] = IF g = h THEN s ELSE host[g]
  BY DEF Grant, Update, HostInv, TypeOK
<1>4. host' \in [Host -> HostState]
  BY <1>2 DEF Grant, Update, HostInv, TypeOK
<1>5. lease' = [owner |-> new, expired |-> FALSE] /\ issued' = new /\ UNCHANGED <<lapsed, faults>>
  BY DEF Grant
<1>6. TypeOK'
  <2>1. lease' \in LeaseRow /\ issued' \in MaybeToken /\ lapsed' \subseteq Token
        /\ faults' \in 0..MaxFaults
    BY <1>1, <1>5 DEF HostInv, TypeOK, LeaseRow, MaybeToken
  <2>2. s.grant # NoToken => s.op \in {"granted", "releasing"}
    BY <1>0 DEF HostState
  <2>3. s.stop \in {"draining", "releasing"} => s.op = "none"
    BY <1>0 DEF HostState, Grant, HostInv, TypeOK
  <2>4. QED
    BY <1>3, <1>4, <2>1, <2>2, <2>3 DEF HostInv, TypeOK
<1>7. \A g \in Host : Coherent(host[g])'
  BY <1>2, <1>3 DEF HostInv, Coherent
<1>8. new \notin lapsed /\ \A g \in Host : new \notin TokensOf(host[g])
  BY <1>1 DEF HostInv, TypeOK, MaybeToken, Token, NoToken
<1>9. \A g \in Host : Backed(host[g])'
  <2> SUFFICES ASSUME NEW g \in Host, NEW t \in Token,
                      Claims(host'[g], t), t \notin lapsed
               PROVE  Live(t)'
    BY <1>5 DEF Backed, Claims
  <2>1. CASE g = h
    <3>1. s.op = "granted" /\ s.grant = new /\ ~s.queueStarted
      BY <1>0 DEF HostState, Coherent, Grant
    <3>2. QED
      BY <1>3, <1>5, <2>1, <3>1 DEF Claims, Live
  <2>2. CASE g # h
    <3>1. Live(t)
      BY <1>3, <2>2 DEF Claims, HostInv, Backed
    <3>2. QED
      BY <3>1 DEF Live, Grant, Acquirable, Token, NoToken
  <2>3. QED
    BY <2>1, <2>2
<1>10. \A g \in Host : \A t \in TokensOf(host'[g]) : t <= issued'
  <2>1. \A g \in Host : \A t \in TokensOf(host[g]) : t <= issued /\ t \in Nat
    BY DEF HostInv, TypeOK, TokensOf, HostState, MaybeToken, Token, NoToken
  <2>2. issued \in Nat
    BY DEF HostInv, TypeOK, MaybeToken, Token, NoToken
  <2>3. \A g \in Host : \A t \in TokensOf(host'[g]) : t = new \/ t \in TokensOf(host[g])
    BY <1>2, <1>3
  <2>4. QED
    BY <1>5, <2>1, <2>2, <2>3
<1>11. \A t \in lapsed' : t <= issued'
  BY <1>5 DEF HostInv, TypeOK, MaybeToken, Token, NoToken
<1>12. \A g, k \in Host : g # k => TokensOf(host'[g]) \cap TokensOf(host'[k]) = {}
  BY <1>2, <1>3, <1>8 DEF HostInv
<1>13. (lease'.expired => lease'.owner \in lapsed') /\ lease'.owner <= issued'
  BY <1>1, <1>5 DEF Token
<1>14. QED
  BY <1>6, <1>7, <1>9, <1>10, <1>11, <1>12, <1>13 DEF HostInv, TokensOf

LEMMA ExpiryStep == ASSUME HostInv, LeaseExpires PROVE HostInv'
<1>1. /\ lease' = [lease EXCEPT !.expired = TRUE]
      /\ lapsed' = lapsed \cup {lease.owner}
      /\ UNCHANGED <<host, issued>>
      /\ faults' \in 0..MaxFaults
  BY HostBoundAssumption DEF LeaseExpires, Fault, HostInv, TypeOK
<1>2. lease' \in LeaseRow /\ lease'.owner = lease.owner /\ lease.owner \in Token
  BY <1>1 DEF LeaseExpires, HostInv, TypeOK, LeaseRow, MaybeToken
<1>3. TypeOK'
  BY <1>1, <1>2 DEF HostInv, TypeOK
<1>4. \A h \in Host : Coherent(host[h])'
  BY <1>1 DEF HostInv, Coherent
<1>5. \A h \in Host : Backed(host[h])'
  BY <1>1 DEF HostInv, Backed, Claims, Live
<1>6. lease.owner <= issued
  BY DEF LeaseExpires, HostInv
<1>7. QED
  BY <1>1, <1>2, <1>3, <1>4, <1>5, <1>6 DEF HostInv, TokensOf

\* What a host does with its own record alone.
LEMMA OwnRecordSteps ==
    ASSUME HostInv, NEW h \in Host,
           \/ RenewalEnds(h) \/ Refuse(h) \/ AcquireFails(h) \/ GrantReturns(h)
           \/ RefusalReturns(h) \/ QueueOpens(h) \/ QueueFails(h) \/ Start(h)
           \/ PromoteStandbyHost(h) \/ Stop(h) \/ StopProceeds(h)
           \/ QueueDrained(h) \/ Crash(h)
    PROVE  HostInv'
<1>0. /\ host[h] \in HostState /\ Coherent(host[h])
      /\ host[h].grant # NoToken => host[h].op \in {"granted", "releasing"}
      /\ host[h].stop \in {"draining", "releasing"} => host[h].op = "none"
  BY DEF HostInv, TypeOK
<1>f. Fault \/ UNCHANGED faults => faults' \in 0..MaxFaults
  BY HostBoundAssumption DEF Fault, HostInv, TypeOK
<1> DEFINE OK(s) == /\ StepOK(h, s)
                    /\ TokensOf(s) \subseteq TokensOf(host[h])
                    /\ \A t \in Token : Claims(s, t) => Claims(host[h], t)
<1>q. ASSUME NEW s, OK(s), Update(h, s), UNCHANGED <<lease, issued, lapsed>>,
             Fault \/ UNCHANGED faults
      PROVE  HostInv'
  BY <1>q, <1>f, OwnStep
<1> HIDE DEF OK
<1>1. CASE RenewalEnds(h)
  <2> DEFINE s == [host[h] EXCEPT !.held = FALSE]
  <2>1. OK(s)
    BY <1>0 DEF OK, StepOK, HostState, Coherent, TokensOf, Claims
  <2>2. QED
    BY <1>1, <2>1, <1>q DEF RenewalEnds
<1>2. CASE Refuse(h)
  <2> DEFINE s == [host[h] EXCEPT !.op = "refused"]
  <2>1. OK(s)
    BY <1>0, <1>2 DEF OK, StepOK, HostState, Coherent, TokensOf, Claims, Refuse
  <2>2. QED
    BY <1>2, <2>1, <1>q DEF Refuse
<1>3. CASE AcquireFails(h)
  <2> DEFINE s == [host[h] EXCEPT !.op = "refused", !.grant = NoToken]
  <2>1. OK(s)
    BY <1>0, <1>3 DEF OK, StepOK, HostState, Coherent, TokensOf, Claims, AcquireFails,
                      MaybeToken
  <2>2. QED
    BY <1>3, <2>1, <1>q DEF AcquireFails
<1>4. CASE GrantReturns(h)
  <2> DEFINE r == [host[h] EXCEPT !.grant = NoToken]
             s == IF GrantWanted(r)
                  THEN [r EXCEPT !.op = "opening", !.heartbeat = host[h].grant,
                                 !.held = TRUE, !.leaseOwnerToken = host[h].grant]
                  ELSE [r EXCEPT !.op = "releasing", !.grant = host[h].grant]
  <2>1. OK(s)
    BY <1>0, <1>4 DEF OK, StepOK, HostState, Coherent, TokensOf, Claims, GrantReturns,
                      GrantWanted, MaybeToken
  <2>2. QED
    BY <1>4, <2>1, <1>q DEF GrantReturns
<1>5. CASE RefusalReturns(h)
  <2> DEFINE s == WithRetry([host[h] EXCEPT !.op = "none"])
  <2>1. OK(s)
    BY <1>0, <1>5 DEF OK, StepOK, HostState, Coherent, TokensOf, Claims, RefusalReturns,
                      WithRetry
  <2>2. QED
    BY <1>5, <2>1, <1>q DEF RefusalReturns
<1>6. CASE QueueOpens(h)
  <2> DEFINE s == [host[h] EXCEPT !.op = "none", !.queueStarted = TRUE]
  <2>1. OK(s)
    BY <1>0, <1>6 DEF OK, StepOK, HostState, Coherent, TokensOf, Claims, QueueOpens
  <2>2. QED
    BY <1>6, <2>1, <1>q DEF QueueOpens
<1>7. CASE QueueFails(h)
  <2> DEFINE s == Unopened(host[h])
  <2>1. OK(s)
    BY <1>0, <1>7 DEF OK, StepOK, HostState, Coherent, TokensOf, Claims, QueueFails,
                      Unopened, MaybeToken
  <2>2. QED
    BY <1>7, <2>1, <1>q DEF QueueFails
<1>8. CASE Start(h)
  <2> DEFINE s == [host[h] EXCEPT !.started = TRUE, !.op = "acquiring", !.promotion = FALSE]
  <2>1. OK(s)
    BY <1>0, <1>8 DEF OK, StepOK, HostState, Coherent, TokensOf, Claims, Start
  <2>2. QED
    BY <1>8, <2>1, <1>q DEF Start
<1>9. CASE PromoteStandbyHost(h)
  <2> DEFINE s == [host[h] EXCEPT !.retry = FALSE, !.op = "acquiring", !.promotion = TRUE]
  <2>1. OK(s)
    BY <1>0, <1>9 DEF OK, StepOK, HostState, Coherent, TokensOf, Claims, PromoteStandbyHost
  <2>2. QED
    BY <1>9, <2>1, <1>q DEF PromoteStandbyHost
<1>10. CASE Stop(h)
  <2> DEFINE s == [host[h] EXCEPT !.started = FALSE, !.retry = FALSE, !.stop = "waiting"]
  <2>1. OK(s)
    BY <1>0, <1>10 DEF OK, StepOK, HostState, Coherent, TokensOf, Claims, Stop
  <2>2. QED
    BY <1>10, <2>1, <1>q DEF Stop
<1>11. CASE StopProceeds(h)
  <2> DEFINE s == [host[h] EXCEPT
                      !.stop = IF host[h].queueStarted THEN "draining" ELSE "releasing"]
  <2>1. OK(s)
    BY <1>0, <1>11 DEF OK, StepOK, HostState, Coherent, TokensOf, Claims, StopProceeds,
                       PromotionOver
  <2>2. QED
    BY <1>11, <2>1, <1>q DEF StopProceeds
<1>12. CASE QueueDrained(h)
  <2> DEFINE s == [host[h] EXCEPT !.stop = "releasing", !.queueStarted = FALSE]
  <2>1. OK(s)
    BY <1>0, <1>12 DEF OK, StepOK, HostState, Coherent, TokensOf, Claims, QueueDrained
  <2>2. QED
    BY <1>12, <2>1, <1>q DEF QueueDrained
<1>13. CASE Crash(h)
  <2>1. OK(FreshHost)
    BY DEF OK, StepOK, HostState, Coherent, TokensOf, Claims, FreshHost, MaybeToken, Token, NoToken
  <2>2. QED
    BY <1>13, <2>1, <1>q DEF Crash
<1>14. QED
  BY <1>1, <1>2, <1>3, <1>4, <1>5, <1>6, <1>7, <1>8, <1>9, <1>10, <1>11, <1>12, <1>13

LEMMA ReleaseSteps ==
    ASSUME HostInv, NEW h \in Host, ReleaseAfterFailure(h) \/ ReleaseOnStop(h)
    PROVE  HostInv'
<1>0. /\ host[h] \in HostState /\ Coherent(host[h])
      /\ host[h].grant # NoToken => host[h].op \in {"granted", "releasing"}
      /\ host[h].stop \in {"draining", "releasing"} => host[h].op = "none"
  BY DEF HostInv, TypeOK
<1>f. Fault \/ UNCHANGED faults => faults' \in 0..MaxFaults
  BY HostBoundAssumption DEF Fault, HostInv, TypeOK
<1>1. CASE ReleaseAfterFailure(h)
  <2> DEFINE s == WithRetry([host[h] EXCEPT !.op = "none", !.grant = NoToken,
                                            !.leaseOwnerToken = NoToken])
  <2>1. /\ host[h].op = "releasing" /\ Update(h, s) /\ UNCHANGED <<issued, lapsed>>
        /\ lease' \in {lease, Deleted(host[h].grant)}
        /\ Fault \/ UNCHANGED faults
    BY <1>1 DEF ReleaseAfterFailure, GiveBack
  <2>2. StepOK(h, s) /\ TokensOf(s) = {} /\ \A t \in Token : ~Claims(s, t)
    BY <1>0, <2>1 DEF StepOK, HostState, Coherent, TokensOf, Claims, WithRetry, MaybeToken
  <2>3. QED
    BY <1>f, <2>1, <2>2, ReleaseStep
<1>2. CASE ReleaseOnStop(h)
  <2> DEFINE s == [host[h] EXCEPT !.stop = "no", !.leaseOwnerToken = NoToken,
                                  !.heartbeat = NoToken, !.held = FALSE]
  <2>1. /\ host[h].stop = "releasing" /\ Update(h, s) /\ UNCHANGED <<issued, lapsed>>
        /\ lease' \in {lease, Deleted(host[h].leaseOwnerToken)}
        /\ Fault \/ UNCHANGED faults
    BY <1>2 DEF ReleaseOnStop, StopReleases
  <2>2. StepOK(h, s) /\ TokensOf(s) = {} /\ \A t \in Token : ~Claims(s, t)
    BY <1>0, <2>1 DEF StepOK, HostState, Coherent, TokensOf, Claims, MaybeToken
  <2>3. QED
    BY <1>f, <2>1, <2>2, ReleaseStep
<1>3. QED
  BY <1>1, <1>2

----------------------------------------------------------------------------
\* The invariant holds in every reachable state.
THEOREM HostInvariant == Spec => []HostInv
<1>1. Init => HostInv
  BY HostBoundAssumption
     DEF Init, HostInv, TypeOK, FreshHost, NoLease, HostState, LeaseRow, MaybeToken, Token,
         NoToken, Coherent, Backed, Claims, TokensOf
<1>2. HostInv /\ [Next]_vars => HostInv'
  <2> SUFFICES ASSUME HostInv, [Next]_vars PROVE HostInv'
    OBVIOUS
  <2>1. CASE Next
    BY <2>1, OwnRecordSteps, ReleaseSteps, GrantStep, ExpiryStep DEF Next
  <2>2. CASE UNCHANGED vars
    BY <2>2 DEF vars, HostInv, TypeOK, Coherent, Backed, Claims, Live, TokensOf
  <2>3. QED
    BY <2>1, <2>2
<1>3. QED
  BY <1>1, <1>2, PTL DEF Spec

\* Type correctness of the hosts and the lease row.
THEOREM HostTypeCorrect == Spec => []TypeOK
<1>1. HostInv => TypeOK
  BY DEF HostInv
<1>2. QED
  BY <1>1, HostInvariant, PTL

\* Whatever the number of hosts, stops, crashes and failed calls, a queue runs
\* without a live lease only after that lease ran out (ServesUnderLease).
THEOREM QueuesRunUnderLease == Spec => []ServesUnderLease
<1>1. HostInv => ServesUnderLease
  <2> SUFFICES ASSUME HostInv, NEW h \in Host, host[h].queueStarted,
                      host[h].leaseOwnerToken \notin lapsed
               PROVE  Live(host[h].leaseOwnerToken)
    BY DEF ServesUnderLease
  <2>1. host[h].leaseOwnerToken \in Token
    BY DEF HostInv, Coherent, TypeOK, HostState, MaybeToken
  <2>2. QED
    BY <2>1 DEF HostInv, Backed, Claims
<1>2. QED
  BY <1>1, HostInvariant, PTL

\* No heartbeat keeps the lease for a host that will not serve.
THEOREM HeartbeatsServe == Spec => []HeartbeatServes
<1>1. HostInv => HeartbeatServes
  BY DEF HostInv, Coherent, HeartbeatServes
<1>2. QED
  BY <1>1, HostInvariant, PTL

\* No started host is stuck on standby without a retry scheduled.
THEOREM StandbysKeepTrying == Spec => []StandbyKeepsTrying
<1>1. HostInv => StandbyKeepsTrying
  BY DEF HostInv, Coherent, StandbyKeepsTrying
<1>2. QED
  BY <1>1, HostInvariant, PTL

\* No host can end another host's live lease: it runs out, or its owner gives
\* it back with the queue closed (LiveLeaseEndsByOwner).
THEOREM LiveLeasesEndByOwner == Spec => LiveLeaseEndsByOwner
<1>1. HostInv /\ [Next]_vars => [EndsByOwner]_vars
  <2> SUFFICES ASSUME HostInv, Next,
                      lease.owner # NoToken, ~lease.expired, lease' # lease
               PROVE  \/ lease' = [lease EXCEPT !.expired = TRUE]
                      \/ \E h \in Host :
                            /\ lease.owner \in {host[h].leaseOwnerToken, host[h].grant}
                            /\ ~host'[h].queueStarted
    BY DEF EndsByOwner
  <2>1. CASE LeaseExpires
    BY <2>1 DEF LeaseExpires
  <2>2. CASE \E h \in Host : Grant(h)
    BY <2>2 DEF Grant, Acquirable
  <2>3. ASSUME NEW h \in Host, ReleaseAfterFailure(h)
        PROVE  lease.owner = host[h].grant /\ ~host'[h].queueStarted
    <3> DEFINE s == WithRetry([host[h] EXCEPT !.op = "none", !.grant = NoToken,
                                              !.leaseOwnerToken = NoToken])
    <3>1. host[h].op = "releasing" /\ Update(h, s) /\ lease' \in {lease, Deleted(host[h].grant)}
      BY <2>3 DEF ReleaseAfterFailure, GiveBack
    <3>2. lease.owner = host[h].grant
      BY <3>1 DEF Deleted
    <3>3. ~host[h].queueStarted /\ host[h] \in HostState /\ host \in [Host -> HostState]
      BY <3>1 DEF HostInv, TypeOK, Coherent
    <3>4. host'[h] = s /\ s.queueStarted = host[h].queueStarted
      BY <3>1, <3>3 DEF Update, WithRetry, HostState
    <3>5. QED
      BY <3>2, <3>3, <3>4
  <2>4. ASSUME NEW h \in Host, ReleaseOnStop(h)
        PROVE  lease.owner = host[h].leaseOwnerToken /\ ~host'[h].queueStarted
    <3> DEFINE s == [host[h] EXCEPT !.stop = "no", !.leaseOwnerToken = NoToken,
                                    !.heartbeat = NoToken, !.held = FALSE]
    <3>1. /\ host[h].stop = "releasing" /\ Update(h, s)
          /\ lease' \in {lease, Deleted(host[h].leaseOwnerToken)}
      BY <2>4 DEF ReleaseOnStop, StopReleases
    <3>2. lease.owner = host[h].leaseOwnerToken
      BY <3>1 DEF Deleted
    <3>3. ~host[h].queueStarted /\ host[h] \in HostState /\ host \in [Host -> HostState]
      BY <3>1 DEF HostInv, TypeOK, Coherent
    <3>4. host'[h] = s /\ s.queueStarted = host[h].queueStarted
      BY <3>1, <3>3 DEF Update, HostState
    <3>5. QED
      BY <3>2, <3>3, <3>4
  <2>5. CASE \E h \in Host : ReleaseAfterFailure(h) \/ ReleaseOnStop(h)
    BY <2>3, <2>4, <2>5
  <2>6. QED
    BY <2>1, <2>2, <2>5
       DEF Next, RenewalEnds, Refuse, AcquireFails, GrantReturns, RefusalReturns, QueueOpens,
           QueueFails, Start, PromoteStandbyHost, Stop, StopProceeds, QueueDrained, Crash
<1>2. QED
  BY <1>1, HostInvariant, PTL DEF Spec, LiveLeaseEndsByOwner

\* Two hosts run their queues at once only if the lease of one of them ran out
\* under it, whatever stops, crashes and failed calls there were: the lapse is
\* the only way to OneHostServes being violated (run host_lapse).
THEOREM TwoServeOnlyAfterLapse ==
    Spec => [](\A g, h \in ActiveHosts :
                  g # h => \E k \in {g, h} : host[k].leaseOwnerToken \in lapsed)
<1>1. ASSUME HostInv, NEW g \in ActiveHosts, NEW h \in ActiveHosts, g # h
      PROVE  \E k \in {g, h} : host[k].leaseOwnerToken \in lapsed
  <2>1. \A k \in {g, h} : /\ k \in Host /\ host[k].queueStarted
                         /\ host[k].leaseOwnerToken \in Token
    <3>1. \A k \in {g, h} : k \in Host /\ host[k].queueStarted
      BY DEF ActiveHosts
    <3>2. \A k \in {g, h} : /\ host[k].leaseOwnerToken # NoToken
                           /\ host[k].leaseOwnerToken \in MaybeToken
      BY <1>1, <3>1 DEF HostInv, TypeOK, HostState, Coherent
    <3> QED
      BY <3>1, <3>2 DEF MaybeToken
  <2>2. \A k \in {g, h} : host[k].leaseOwnerToken \notin lapsed
                         => lease.owner = host[k].leaseOwnerToken
    BY <1>1, <2>1 DEF HostInv, Backed, Claims, Live
  <2>3. \A k \in {g, h} : host[k].leaseOwnerToken \in TokensOf(host[k])
    BY <2>1 DEF TokensOf, Token, NoToken
  <2>4. host[g].leaseOwnerToken # host[h].leaseOwnerToken
    BY <1>1, <2>1, <2>3 DEF HostInv
  <2> QED
    BY <2>2, <2>4
<1>2. HostInv => \A g, h \in ActiveHosts :
                    g # h => \E k \in {g, h} : host[k].leaseOwnerToken \in lapsed
  BY <1>1
<1> QED
  BY <1>2, HostInvariant, PTL
==============================================================================
