---------------------------- MODULE SchedulerHost ----------------------------
(***************************************************************************)
(* Which of the hosts sharing a database runs the scheduler's queues: the  *)
(* schedule_leases row of SCHEDULE_LEASE_KEY, the lease coordinator's      *)
(* heartbeat, and the runtime that starts, promotes and stops the queue.   *)
(*                                                                         *)
(* A step is the code between two awaits, or one database statement.       *)
(* start() and stop() of one host are called in turn, as the desktop's     *)
(* window transitions and the API's bootstrap do; stop() may meet a        *)
(* promotion in flight.  All hosts read the same clock.                    *)
(***************************************************************************)
EXTENDS Naturals

CONSTANTS
    Host,
    MaxGrants,   \* bound: leases granted
    MaxFaults    \* bound: stops, crashes, stalls and failed calls

ASSUME HostBoundAssumption == MaxGrants \in Nat /\ MaxFaults \in Nat

VARIABLES
    lease,    \* the lease row; owner 0 is no row
    host,
    issued,   \* owner tokens granted
    lapsed,   \* history: tokens whose lease ran out
    faults

vars == <<lease, host, issued, lapsed, faults>>

Token == 1..MaxGrants
NoToken == 0
MaybeToken == Token \cup {NoToken}

LeaseRow == [owner: MaybeToken, expired: BOOLEAN]
HostState ==
    [started: BOOLEAN,
     queueStarted: BOOLEAN,
     retry: BOOLEAN,          \* leaseRetryTimer is pending
     op: {"none", "acquiring", "granted", "refused", "opening", "releasing"},
     promotion: BOOLEAN,      \* op belongs to promoteStandbyHost, not to start
     stop: {"no", "waiting", "draining", "releasing"},
     grant: MaybeToken,       \* ownerToken of the acquire in flight
     leaseOwnerToken: MaybeToken,
     heartbeat: MaybeToken,   \* the coordinator's activeLeases entry
     held: BOOLEAN]           \* its closure's `held`

NoLease == [owner |-> NoToken, expired |-> FALSE]
FreshHost == [started |-> FALSE, queueStarted |-> FALSE, retry |-> FALSE,
              op |-> "none", promotion |-> FALSE, stop |-> "no",
              grant |-> NoToken, leaseOwnerToken |-> NoToken,
              heartbeat |-> NoToken, held |-> FALSE]

Init ==
    /\ lease = NoLease
    /\ host = [h \in Host |-> FreshHost]
    /\ issued = 0
    /\ lapsed = {}
    /\ faults = 0

Update(h, s) == host' = [host EXCEPT ![h] = s]

Fault == faults < MaxFaults /\ faults' = faults + 1

----------------------------------------------------------------------------
(* The lease row. *)

\* The slip of leaving expired rows in place.
NoRow == lease.owner = NoToken

\* tryAcquire deletes an expired row, then inserts unless the key is taken.
Acquirable == lease.owner = NoToken \/ lease.expired

Live(token) == lease = [owner |-> token, expired |-> FALSE]

\* The slip of releasing by key alone.
AnyLeaseDeleted(token) == NoLease

\* release: the row goes only if it is the caller's.
Deleted(token) == IF lease.owner = token THEN NoLease ELSE lease

\* A host renews the lease, or is about to.
Tended ==
    \E h \in Host : \/ host[h].heartbeat = lease.owner /\ host[h].held
                    \/ host[h].grant = lease.owner

\* 60 seconds without a renewal.  Where the lease is tended that takes a host
\* that stalls, or sleeps, through its renewals.
LeaseExpires ==
    /\ lease.owner # NoToken /\ ~lease.expired
    /\ lease' = [lease EXCEPT !.expired = TRUE]
    /\ lapsed' = lapsed \cup {lease.owner}
    /\ IF Tended THEN Fault ELSE UNCHANGED faults
    /\ UNCHANGED <<host, issued>>

\* A renewal finds the lease expired or gone: it stops for good, and so it does
\* after one renewal that throws.  A renewal that succeeds changes nothing here.
RenewalEnds(h) ==
    /\ host[h].heartbeat # NoToken /\ host[h].held
    /\ IF Live(host[h].heartbeat) THEN Fault ELSE UNCHANGED faults
    /\ Update(h, [host[h] EXCEPT !.held = FALSE])
    /\ UNCHANGED <<lease, issued, lapsed>>

----------------------------------------------------------------------------
(* acquire *)

Grant(h) ==
    /\ host[h].op = "acquiring"
    /\ Acquirable
    /\ issued < MaxGrants
    /\ issued' = issued + 1
    /\ lease' = [owner |-> issued + 1, expired |-> FALSE]
    /\ Update(h, [host[h] EXCEPT !.op = "granted", !.grant = issued + 1])
    /\ UNCHANGED <<lapsed, faults>>

Refuse(h) ==
    /\ host[h].op = "acquiring"
    /\ ~Acquirable
    /\ Update(h, [host[h] EXCEPT !.op = "refused"])
    /\ UNCHANGED <<lease, issued, lapsed, faults>>

\* tryAcquire throws, before or after its commit: acquire says "not acquired".
AcquireFails(h) ==
    /\ host[h].op \in {"acquiring", "granted"}
    /\ Update(h, [host[h] EXCEPT !.op = "refused", !.grant = NoToken])
    /\ Fault
    /\ UNCHANGED <<lease, issued, lapsed>>

GrantWanted(s) == s.promotion => s.started

\* acquire returned: the heartbeat starts and the queue is opened, or a
\* promotion that finds the host stopped gives the lease back.
GrantReturns(h) ==
    LET s == [host[h] EXCEPT !.grant = NoToken]
    IN /\ s.op = "granted"
       /\ Update(h, IF GrantWanted(s)
             THEN [s EXCEPT !.op = "opening", !.heartbeat = host[h].grant, !.held = TRUE,
                            !.leaseOwnerToken = host[h].grant]
             ELSE [s EXCEPT !.op = "releasing", !.grant = host[h].grant])
       /\ UNCHANGED <<lease, issued, lapsed, faults>>

\* The slip of not trying again.
WithoutRetry(s) == s

\* scheduleLeaseRetry.
WithRetry(s) == [s EXCEPT !.retry = s.started /\ ~s.queueStarted]

RefusalReturns(h) ==
    /\ host[h].op = "refused"
    /\ Update(h, WithRetry([host[h] EXCEPT !.op = "none"]))
    /\ UNCHANGED <<lease, issued, lapsed, faults>>

----------------------------------------------------------------------------
(* startQueue *)

QueueOpens(h) ==
    /\ host[h].op = "opening"
    /\ Update(h, [host[h] EXCEPT !.op = "none", !.queueStarted = TRUE])
    /\ UNCHANGED <<lease, issued, lapsed, faults>>

\* The slip of giving the lease up without stopping its heartbeat.
UnopenedStillBeating(s) ==
    [s EXCEPT !.op = "releasing", !.grant = s.leaseOwnerToken,
              !.started = s.promotion /\ @]

\* Both callers of startQueue, when it throws, release the lease; only a
\* promotion leaves the host started.
Unopened(s) ==
    [s EXCEPT !.op = "releasing", !.grant = s.leaseOwnerToken,
              !.started = s.promotion /\ @,
              !.heartbeat = NoToken, !.held = FALSE]

QueueFails(h) ==
    /\ host[h].op = "opening"
    /\ Update(h, Unopened(host[h]))
    /\ Fault
    /\ UNCHANGED <<lease, issued, lapsed>>

\* release of a start or promotion that failed; a database error is ignored.
GiveBack(h, row) ==
    /\ host[h].op = "releasing"
    /\ lease' = row
    /\ Update(h, WithRetry([host[h] EXCEPT !.op = "none", !.grant = NoToken,
                                           !.leaseOwnerToken = NoToken]))
    /\ UNCHANGED <<issued, lapsed>>

----------------------------------------------------------------------------
(* start, promoteStandbyHost, stop *)

Start(h) ==
    /\ ~host[h].started /\ host[h].op = "none" /\ host[h].stop = "no"
    /\ Update(h, [host[h] EXCEPT !.started = TRUE, !.op = "acquiring", !.promotion = FALSE])
    /\ UNCHANGED <<lease, issued, lapsed, faults>>

PromoteStandbyHost(h) ==
    /\ host[h].retry
    /\ Update(h, [host[h] EXCEPT !.retry = FALSE, !.op = "acquiring", !.promotion = TRUE])
    /\ UNCHANGED <<lease, issued, lapsed, faults>>

Stop(h) ==
    /\ host[h].started
    /\ host[h].op # "none" => host[h].promotion
    /\ Update(h, [host[h] EXCEPT !.started = FALSE, !.retry = FALSE, !.stop = "waiting"])
    /\ Fault
    /\ UNCHANGED <<lease, issued, lapsed>>

\* The slip of stopping without waiting for a promotion in flight.
StopAtOnce(s) == s.stop = "waiting"

PromotionOver(s) == s.stop = "waiting" /\ s.op = "none"

StopProceeds(h) ==
    /\ PromotionOver(host[h])
    /\ Update(h, [host[h] EXCEPT
                     !.stop = IF host[h].queueStarted THEN "draining" ELSE "releasing"])
    /\ UNCHANGED <<lease, issued, lapsed, faults>>

QueueDrained(h) ==
    /\ host[h].stop = "draining"
    /\ Update(h, [host[h] EXCEPT !.stop = "releasing", !.queueStarted = FALSE])
    /\ UNCHANGED <<lease, issued, lapsed, faults>>

\* The last step of stop, with or without the row deleted.
StopReleases(h, row) ==
    /\ host[h].stop = "releasing"
    /\ lease' = row
    /\ Update(h, [host[h] EXCEPT !.stop = "no", !.leaseOwnerToken = NoToken,
                                 !.heartbeat = NoToken, !.held = FALSE])
    /\ UNCHANGED <<issued, lapsed>>

Crash(h) ==
    /\ host[h] # FreshHost
    /\ Update(h, FreshHost)
    /\ Fault
    /\ UNCHANGED <<lease, issued, lapsed>>

----------------------------------------------------------------------------
ReleaseAfterFailure(h) ==
    \/ GiveBack(h, Deleted(host[h].grant)) /\ UNCHANGED faults
    \/ GiveBack(h, lease) /\ Fault

ReleaseOnStop(h) ==
    \/ StopReleases(h, Deleted(host[h].leaseOwnerToken)) /\ UNCHANGED faults
    \/ StopReleases(h, lease) /\ Fault

\* What a host does when nothing goes wrong.
Progress(h) ==
    \/ Grant(h) \/ Refuse(h)
    \/ GrantReturns(h) \/ RefusalReturns(h)
    \/ QueueOpens(h)
    \/ GiveBack(h, Deleted(host[h].grant)) /\ UNCHANGED faults
    \/ PromoteStandbyHost(h)
    \/ StopProceeds(h) \/ QueueDrained(h)
    \/ StopReleases(h, Deleted(host[h].leaseOwnerToken)) /\ UNCHANGED faults

Next ==
    \/ LeaseExpires
    \/ \E h \in Host : RenewalEnds(h)
    \/ \E h \in Host : Grant(h)
    \/ \E h \in Host : Refuse(h)
    \/ \E h \in Host : AcquireFails(h)
    \/ \E h \in Host : GrantReturns(h)
    \/ \E h \in Host : RefusalReturns(h)
    \/ \E h \in Host : QueueOpens(h)
    \/ \E h \in Host : QueueFails(h)
    \/ \E h \in Host : ReleaseAfterFailure(h)
    \/ \E h \in Host : Start(h)
    \/ \E h \in Host : PromoteStandbyHost(h)
    \/ \E h \in Host : Stop(h)
    \/ \E h \in Host : StopProceeds(h)
    \/ \E h \in Host : QueueDrained(h)
    \/ \E h \in Host : ReleaseOnStop(h)
    \/ \E h \in Host : Crash(h)

\* Calls return, timers fire, and a lease nobody renews runs out.  Nothing says
\* that a host is started.
Fairness ==
    /\ \A h \in Host : WF_vars(Progress(h))
    /\ WF_vars(LeaseExpires /\ ~Tended)

Spec == Init /\ [][Next]_vars /\ Fairness

----------------------------------------------------------------------------
(* Properties. *)

\* Type correctness; a grant is in hand only around its acquire, and stop goes
\* on only once no promotion is in flight.
TypeOK ==
    /\ lease \in LeaseRow
    /\ host \in [Host -> HostState]
    /\ issued \in MaybeToken
    /\ lapsed \subseteq Token
    /\ faults \in 0..MaxFaults
    /\ \A h \in Host : host[h].grant # NoToken => host[h].op \in {"granted", "releasing"}
    /\ \A h \in Host : host[h].stop \in {"draining", "releasing"} => host[h].op = "none"

\* A host runs its queue without a live lease in its name only because that
\* lease ran out under it; so two queues run at once only after a lapse (stop
\* drains before it releases; a promotion overtaken by stop; tryAcquire).
ServesUnderLease ==
    \A h \in Host :
        host[h].queueStarted /\ host[h].leaseOwnerToken \notin lapsed
            => Live(host[h].leaseOwnerToken)

\* A heartbeat never keeps the lease for a host that is not going to serve:
\* that would lock every other host out for ever (acquire and release in the
\* paths where stop overtakes a promotion, or the queue fails to start).
HeartbeatServes ==
    \A h \in Host :
        host[h].heartbeat # NoToken =>
            \/ host[h].queueStarted
            \/ host[h].op = "opening"
            \/ host[h].stop = "releasing"

\* A started host never gets stuck: it serves, is on its way, or its retry is
\* scheduled (scheduleLeaseRetry in every path that leaves it on standby).
StandbyKeepsTrying ==
    \A h \in Host :
        host[h].started =>
            host[h].queueStarted \/ host[h].op # "none" \/ host[h].retry

EndsByOwner ==
    lease.owner # NoToken /\ ~lease.expired /\ lease' # lease =>
        \/ lease' = [lease EXCEPT !.expired = TRUE]
        \/ \E h \in Host : /\ lease.owner \in {host[h].leaseOwnerToken, host[h].grant}
                           /\ ~host'[h].queueStarted

\* A live lease ends by running out or by a release of its owner, whose queue
\* is then closed; no other host can take or delete it.
LiveLeaseEndsByOwner == [][EndsByOwner]_vars

\* As long as some host is started, some host comes to serve: crashed and
\* stopped hosts, lost replies and failed starts leave nothing behind that
\* keeps the others on standby (lease expiry, standby promotion).
SomeHostServes ==
    (\E h \in Host : host[h].started)
        ~> \/ \E h \in Host : host[h].queueStarted
           \/ \A h \in Host : ~host[h].started

ActiveHosts == {h \in Host : host[h].queueStarted}

\* Hosts of a shared database exclude each other, only the one that acquired
\* the lease runs the queue: if a lapse lets two run it, that does not last.
OneHostServes == []<>(\A g, h \in ActiveHosts : g = h)
==============================================================================
