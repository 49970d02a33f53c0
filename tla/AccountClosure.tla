--------------------------- MODULE AccountClosure ---------------------------
(***************************************************************************)
(* Closing an account: the calls of AccountClosureCoordinator.execute that *)
(* carry a closure operation through its phases, the operation's row, the  *)
(* account they share with profile edits, the account:closed message and   *)
(* the workers that hand it to its consumers.                              *)
(*                                                                         *)
(* A step is one statement or transaction, or one call of the identity     *)
(* provider, and the code that follows it up to the next.  A call is one   *)
(* run of execute: its ownerToken is new, so it is named by the call.      *)
(***************************************************************************)
EXTENDS Naturals

CONSTANTS
    Operation,     \* closure operations of one identity: its idempotency keys
    Call,
    Worker,        \* AccountClosedWorker, one per API server
    Nobody,        \* ownerToken null
    Consumers,     \* how many consumers a message has, called in turn
    MaxReplays,    \* bound: replays of failed operations
    MaxEdits,      \* bound: profile edits
    MaxFaults      \* bound: stalls, crashes and failed calls

ASSUME ClosureAssumption ==
    /\ Nobody \notin Call \cup Worker
    /\ Consumers \in Nat \ {0}
    /\ MaxReplays \in Nat /\ MaxEdits \in Nat /\ MaxFaults \in Nat

VARIABLES
    operation,     \* the account_closure_operations rows
    call,
    revoked,       \* the identity is signed out everywhere and disabled
    account,       \* the account's status
    editor,        \* the account as a profile edit read it
    reopened,      \* history: an edit saved "Active" over "Closed"
    message,       \* the account:closed rows of the outbox
    worker,
    receipts,      \* the consumers' inbox receipts
    replaying,     \* resetForReplay between its read and its write
    replays, edits, faults

vars == <<operation, call, revoked, account, editor, reopened, message, worker, receipts,
          replaying, replays, edits, faults>>

Phase == {"requested", "revoking", "revoked", "closing", "closed"}

OperationRow ==
    [phase: Phase \cup {"absent"},
     status: {"running", "failed", "succeeded"},
     owner: Call \cup {Nobody},
     expired: BOOLEAN]     \* leaseExpiresAt has passed
NoOperation == [phase |-> "absent", status |-> "running", owner |-> Nobody, expired |-> FALSE]

\* "reported": it returned a receipt that says succeeded.
CallState ==
    [at: {"new", "creating", "competing", "claiming", "working", "revoke", "revoked",
          "close", "closed", "published", "failing", "returned", "reported"},
     op: SUBSET Operation,             \* the one it is about, if any yet
     phase: Phase,                     \* record.phase, read before the claim
     expected: {"any", "running", "failed"}]
NewCall == [at |-> "new", op |-> {}, phase |-> "requested", expected |-> "any"]

MessageRow ==
    [status: {"absent", "pending", "dispatched"},
     owner: Worker \cup {Nobody},
     expired: BOOLEAN]

WorkerState ==
    [at: {"idle", "looking", "handling", "releasing"},
     op: SUBSET Operation,
     next: 1..(Consumers + 1)]         \* the consumer whose turn it is
Idle == [at |-> "idle", op |-> {}, next |-> 1]

Init ==
    /\ operation = [o \in Operation |-> NoOperation]
    /\ call = [c \in Call |-> NewCall]
    /\ revoked = FALSE
    /\ account = "Active"
    /\ editor = "idle"
    /\ reopened = FALSE
    /\ message = [o \in Operation |-> [status |-> "absent", owner |-> Nobody, expired |-> FALSE]]
    /\ worker = [w \in Worker |-> Idle]
    /\ receipts = [o \in Operation |-> {}]
    /\ replaying = {}
    /\ replays = 0
    /\ edits = 0
    /\ faults = 0

world == <<revoked, account, editor, reopened, message, worker, receipts, replaying, replays, edits>>
delivery == <<operation, call, revoked, account, editor, reopened, replaying, replays, edits>>

Fault == faults < MaxFaults /\ faults' = faults + 1

Update(c, s) == call' = [call EXCEPT ![c] = s]
Goto(c, at) == Update(c, [call[c] EXCEPT !.at = at])

Leave(c, at) == Update(c, [NewCall EXCEPT !.at = at, !.op = call[c].op])

\* The receipt is made from the row as it is now.
Return(c, o) == Leave(c, IF operation[o].status = "succeeded" THEN "reported" ELSE "returned")

Working(c) == call[c].at \in {"working", "revoke", "revoked", "close", "closed", "published", "failing"}

----------------------------------------------------------------------------
(* Finding, creating and claiming the operation. *)

\* The slip of claiming an operation that has succeeded.
ClaimedAnyway(c, o, expected) ==
    Update(c, [at |-> "claiming", op |-> {o}, phase |-> operation[o].phase,
               expected |-> expected])

\* What execute does with an operation it finds.
Found(c, o, expected) ==
    IF operation[o].status = "succeeded"
    THEN Update(c, [call[c] EXCEPT !.at = "reported", !.op = {o}])
    ELSE Update(c, [at |-> "claiming", op |-> {o}, phase |-> operation[o].phase,
                    expected |-> expected])

Find(c, o) ==
    /\ call[c].at = "new"
    /\ IF operation[o].phase = "absent"
       THEN Update(c, [NewCall EXCEPT !.at = "creating", !.op = {o}])
       ELSE Found(c, o, operation[o].status)
    /\ UNCHANGED <<operation, world, faults>>

\* The row is inserted already claimed; the unique key lets one call win.
Create(c, o) ==
    /\ call[c].at = "creating" /\ o \in call[c].op
    /\ IF operation[o].phase = "absent"
       THEN /\ operation' = [operation EXCEPT ![o].phase = "requested", ![o].owner = c]
            /\ Goto(c, "working")
       ELSE /\ Goto(c, "competing")
            /\ UNCHANGED operation
    /\ UNCHANGED <<world, faults>>

FindCompetitor(c, o) ==
    /\ call[c].at = "competing" /\ o \in call[c].op
    /\ Found(c, o, "any")
    /\ UNCHANGED <<operation, world, faults>>

\* claimOwnership
MayClaim(c, o, expected) ==
    LET row == operation[o]
    IN IF expected = "failed" THEN row.status = "failed"
       ELSE /\ expected = "running" => row.status = "running"
            /\ row.owner \in {Nobody, c} \/ row.expired

Claimed(c, o) ==
    operation' = [operation EXCEPT ![o].status = "running", ![o].owner = c, ![o].expired = FALSE]

Claim(c, o) ==
    /\ call[c].at = "claiming" /\ o \in call[c].op
    /\ IF MayClaim(c, o, call[c].expected)
       THEN Claimed(c, o) /\ Update(c, [call[c] EXCEPT !.at = "working", !.expected = "any"])
       ELSE Return(c, o) /\ UNCHANGED operation
    /\ UNCHANGED <<world, faults>>

----------------------------------------------------------------------------
(* The phases. *)

\* The slip of a plain update by its owner.
OwnerMatches(c, o, from) == operation[o].owner = c

\* updatePhaseCAS: the status is not compared.
Matches(c, o, from) == operation[o].phase = from /\ operation[o].owner = c

\* A compare-and-set that finds another phase or owner ends the call.
Advance(c, o, from, to) ==
    IF Matches(c, o, from)
    THEN /\ operation' = [operation EXCEPT ![o].phase = to, ![o].expired = FALSE,
                            ![o].status = IF from = "requested" THEN "running" ELSE @]
         /\ Update(c, [call[c] EXCEPT !.at = "working", !.phase = to])
    ELSE Return(c, o) /\ UNCHANGED operation

\* heartbeat(): claims the operation again, unless another call owns it.
CheckOwner(c, o, then) ==
    IF MayClaim(c, o, "any")
    THEN Claimed(c, o) /\ Goto(c, then)
    ELSE Return(c, o) /\ UNCHANGED operation

Before(c, o, phase) == call[c].at = "working" /\ o \in call[c].op /\ call[c].phase = phase
After(c, o, at) == call[c].at = at /\ o \in call[c].op

Begin(c, o) ==
    /\ Before(c, o, "requested")
    /\ Advance(c, o, "requested", "revoking")
    /\ UNCHANGED <<world, faults>>

BeforeRevoking(c, o) ==
    /\ Before(c, o, "revoking")
    /\ CheckOwner(c, o, "revoke")
    /\ UNCHANGED <<world, faults>>

\* revokeAuthentication and deleteUserData
Revoke(c, o) ==
    /\ After(c, o, "revoke")
    /\ revoked' = TRUE
    /\ Goto(c, "revoked")
    /\ UNCHANGED <<operation, account, editor, reopened, message, worker, receipts, replaying,
                   replays, edits, faults>>

MarkRevoked(c, o) ==
    /\ After(c, o, "revoked")
    /\ Advance(c, o, "revoking", "revoked")
    /\ UNCHANGED <<world, faults>>

StartClosing(c, o) ==
    /\ Before(c, o, "revoked")
    /\ Advance(c, o, "revoked", "closing")
    /\ UNCHANGED <<world, faults>>

\* The account is read; one that is open is closed under a fresh heartbeat.
BeforeClosing(c, o) ==
    /\ Before(c, o, "closing")
    /\ IF account = "Closed"
       THEN Goto(c, "closed") /\ UNCHANGED operation
       ELSE CheckOwner(c, o, "close")
    /\ UNCHANGED <<world, faults>>

CloseAccount(c, o) ==
    /\ After(c, o, "close")
    /\ account' = "Closed"
    /\ Goto(c, "closed")
    /\ UNCHANGED <<operation, revoked, editor, reopened, message, worker, receipts, replaying,
                   replays, edits, faults>>

MarkClosed(c, o) ==
    /\ After(c, o, "closed")
    /\ Advance(c, o, "closing", "closed")
    /\ UNCHANGED <<world, faults>>

\* An upsert on the event id, which is the operation's: a message that is
\* there already keeps its status.
Publish(c, o) ==
    /\ Before(c, o, "closed")
    /\ message' = IF message[o].status = "absent" THEN [message EXCEPT ![o].status = "pending"]
                  ELSE message
    /\ Goto(c, "published")
    /\ UNCHANGED <<operation, revoked, account, editor, reopened, worker, receipts, replaying,
                   replays, edits, faults>>

Succeed(c, o) ==
    /\ After(c, o, "published")
    /\ IF Matches(c, o, "closed")
       THEN /\ operation' = [operation EXCEPT ![o].status = "succeeded"]
            /\ Leave(c, "reported")
       ELSE Return(c, o) /\ UNCHANGED operation
    /\ UNCHANGED <<world, faults>>

\* A call throws, before its effect or after it: on to the catch.
StepFails(c, o) ==
    /\ Working(c) /\ call[c].at # "failing" /\ o \in call[c].op
    /\ \/ UNCHANGED operation
       \/ /\ call[c].at = "published" /\ Matches(c, o, "closed")
          /\ operation' = [operation EXCEPT ![o].status = "succeeded"]
    /\ Goto(c, "failing")
    /\ Fault
    /\ UNCHANGED world

FailedIfOwned(c, o) ==
    IF Matches(c, o, call[c].phase) THEN [operation EXCEPT ![o].status = "failed"] ELSE operation

MarkFailed(c, o) ==
    /\ After(c, o, "failing")
    /\ operation' = FailedIfOwned(c, o)
    /\ IF Matches(c, o, call[c].phase) THEN Leave(c, "returned") ELSE Return(c, o)
    /\ UNCHANGED <<world, faults>>

\* The process dies, or a statement outside the try throws.
Dies(c) ==
    /\ call[c].at \notin {"new", "returned", "reported"}
    /\ Leave(c, "returned")
    /\ Fault
    /\ UNCHANGED <<operation, world>>

----------------------------------------------------------------------------
(* Leases of operations, and their replay. *)

Leased(o) == operation[o].owner # Nobody /\ ~operation[o].expired

HeldBy(c, o) == operation[o].owner = c /\ operation[o].status = "running" /\ Working(c)

LeaseRunsOut(o) ==
    /\ Leased(o) /\ ~(\E c \in Call : HeldBy(c, o))
    /\ operation' = [operation EXCEPT ![o].expired = TRUE]
    /\ UNCHANGED <<call, world, faults>>

\* The owner stalls, or its timer stopped for good at one failed renewal.
LeaseLapses(o) ==
    /\ Leased(o) /\ \E c \in Call : HeldBy(c, o)
    /\ operation' = [operation EXCEPT ![o].expired = TRUE]
    /\ Fault
    /\ UNCHANGED <<call, world>>

\* renewHeartbeat, by the timer of a call at work: a lease nobody took.
Renew(c, o) ==
    /\ HeldBy(c, o) /\ o \in call[c].op
    /\ operation[o].expired
    /\ operation' = [operation EXCEPT ![o].expired = FALSE]
    /\ UNCHANGED <<call, world, faults>>

\* resetForReplayWithAudit: a read, and a write that compares nothing.
ReplayRead(o) ==
    /\ operation[o].phase # "absent" /\ operation[o].status = "failed"
    /\ o \notin replaying /\ replays < MaxReplays
    /\ replays' = replays + 1
    /\ replaying' = replaying \cup {o}
    /\ UNCHANGED <<operation, call, revoked, account, editor, reopened, message, worker, receipts,
                   edits, faults>>

ReplayWrite(o) ==
    /\ o \in replaying
    /\ replaying' = replaying \ {o}
    /\ operation' = [operation EXCEPT ![o].status = "running", ![o].owner = Nobody,
                                      ![o].expired = FALSE]
    /\ UNCHANGED <<call, revoked, account, editor, reopened, message, worker, receipts, replays,
                   edits, faults>>

----------------------------------------------------------------------------
(* Profile and avatar edits: the whole account is read, and saved again. *)

EditRead ==
    /\ editor = "idle" /\ edits < MaxEdits
    /\ edits' = edits + 1
    /\ editor' = account
    /\ UNCHANGED <<operation, call, revoked, account, reopened, message, worker, receipts,
                   replaying, replays, faults>>

EditSave ==
    /\ editor # "idle"
    /\ account' = editor
    /\ reopened' = (reopened \/ (account = "Closed" /\ editor = "Active"))
    /\ editor' = "idle"
    /\ UNCHANGED <<operation, call, revoked, message, worker, receipts, replaying, replays, edits,
                   faults>>

----------------------------------------------------------------------------
(* AccountClosedWorker *)

UpdateWorker(w, s) == worker' = [worker EXCEPT ![w] = s]

\* The slip of never taking a message from another worker.
Unowned(o) == message[o].status = "pending" /\ message[o].owner = Nobody

Takeable(o) ==
    message[o].status = "pending" /\ (message[o].owner = Nobody \/ message[o].expired)

Take(w, o) ==
    /\ worker[w].at = "idle"
    /\ Takeable(o)
    /\ message' = [message EXCEPT ![o].owner = w, ![o].expired = FALSE]
    /\ UpdateWorker(w, [Idle EXCEPT !.at = "looking", !.op = {o}])
    /\ UNCHANGED <<delivery, receipts, faults>>

\* A consumer looks for its receipt, and is done if it finds one.
Look(w, o) ==
    /\ worker[w].at = "looking" /\ o \in worker[w].op /\ worker[w].next <= Consumers
    /\ UpdateWorker(w, IF worker[w].next \in receipts[o] THEN [worker[w] EXCEPT !.next = @ + 1]
                       ELSE [worker[w] EXCEPT !.at = "handling"])
    /\ UNCHANGED <<delivery, message, receipts, faults>>

\* Its effect and its receipt are one transaction, which a receipt written
\* meanwhile rolls back.
Handle(w, o) ==
    /\ worker[w].at = "handling" /\ o \in worker[w].op
    /\ IF worker[w].next \in receipts[o]
       THEN /\ UpdateWorker(w, [worker[w] EXCEPT !.at = "releasing"])
            /\ UNCHANGED receipts
       ELSE /\ receipts' = [receipts EXCEPT ![o] = @ \cup {worker[w].next}]
            /\ UpdateWorker(w, [worker[w] EXCEPT !.at = "looking", !.next = @ + 1])
    /\ UNCHANGED <<delivery, message, faults>>

ConsumerFails(w, o) ==
    /\ worker[w].at \in {"looking", "handling"} /\ o \in worker[w].op
    /\ UpdateWorker(w, [worker[w] EXCEPT !.at = "releasing"])
    /\ Fault
    /\ UNCHANGED <<delivery, message, receipts>>

Owns(w, o) == message[o].owner = w /\ message[o].status = "pending"

Dispatch(w, o) ==
    /\ worker[w].at = "looking" /\ o \in worker[w].op /\ worker[w].next > Consumers
    /\ message' = IF Owns(w, o)
                  THEN [message EXCEPT ![o] = [status |-> "dispatched", owner |-> Nobody,
                                               expired |-> FALSE]]
                  ELSE message
    /\ UpdateWorker(w, Idle)
    /\ UNCHANGED <<delivery, receipts, faults>>

\* A message whose consumer failed: pending, for whoever comes next.
Released(o) == [status |-> "pending", owner |-> Nobody, expired |-> FALSE]

Release(w, o) ==
    /\ worker[w].at = "releasing" /\ o \in worker[w].op
    /\ message' = IF Owns(w, o) THEN [message EXCEPT ![o] = Released(o)] ELSE message
    /\ UpdateWorker(w, Idle)
    /\ UNCHANGED <<delivery, receipts, faults>>

WorkerDies(w) ==
    /\ worker[w].at # "idle"
    /\ UpdateWorker(w, Idle)
    /\ Fault
    /\ UNCHANGED <<delivery, message, receipts>>

MessageLeased(o) == message[o].owner # Nobody /\ ~message[o].expired

HandledBy(w, o) == message[o].owner = w /\ o \in worker[w].op

MessageRunsOut(o) ==
    /\ MessageLeased(o) /\ ~(\E w \in Worker : HandledBy(w, o))
    /\ message' = [message EXCEPT ![o].expired = TRUE]
    /\ UNCHANGED <<delivery, worker, receipts, faults>>

MessageLapses(o) ==
    /\ MessageLeased(o) /\ \E w \in Worker : HandledBy(w, o)
    /\ message' = [message EXCEPT ![o].expired = TRUE]
    /\ Fault
    /\ UNCHANGED <<delivery, worker, receipts>>

----------------------------------------------------------------------------
CallStep(c, o) ==
    \/ Find(c, o) \/ Create(c, o) \/ FindCompetitor(c, o) \/ Claim(c, o)
    \/ Begin(c, o) \/ BeforeRevoking(c, o) \/ Revoke(c, o) \/ MarkRevoked(c, o)
    \/ StartClosing(c, o) \/ BeforeClosing(c, o) \/ CloseAccount(c, o) \/ MarkClosed(c, o)
    \/ Publish(c, o) \/ Succeed(c, o) \/ StepFails(c, o) \/ MarkFailed(c, o) \/ Renew(c, o)

WorkerStep(w, o) == Take(w, o) \/ Look(w, o) \/ Handle(w, o) \/ Dispatch(w, o) \/ Release(w, o)

Next ==
    \/ \E c \in Call, o \in Operation : CallStep(c, o)
    \/ \E c \in Call : Dies(c)
    \/ \E o \in Operation : LeaseRunsOut(o) \/ LeaseLapses(o) \/ ReplayRead(o) \/ ReplayWrite(o)
    \/ EditRead \/ EditSave
    \/ \E w \in Worker, o \in Operation : WorkerStep(w, o) \/ ConsumerFails(w, o)
    \/ \E w \in Worker : WorkerDies(w)
    \/ \E o \in Operation : MessageRunsOut(o) \/ MessageLapses(o)

\* The cron job runs the workers and time passes.  Nothing has to call execute
\* or to replay: an operation whose call died waits for the next one.
Fairness ==
    /\ \A w \in Worker : WF_vars(\E o \in Operation : WorkerStep(w, o))
    /\ \A o \in Operation : WF_vars(MessageRunsOut(o))

Spec == Init /\ [][Next]_vars /\ Fairness

----------------------------------------------------------------------------
\* The rows, the calls and the workers have the shapes the code gives them.
TypeOK ==
    /\ operation \in [Operation -> OperationRow]
    /\ call \in [Call -> CallState]
    /\ revoked \in BOOLEAN
    /\ account \in {"Active", "Closed"}
    /\ editor \in {"idle", "Active", "Closed"}
    /\ reopened \in BOOLEAN
    /\ message \in [Operation -> MessageRow]
    /\ worker \in [Worker -> WorkerState]
    /\ receipts \in [Operation -> SUBSET (1..Consumers)]
    /\ replaying \subseteq Operation
    /\ replays \in 0..MaxReplays
    /\ edits \in 0..MaxEdits
    /\ faults \in 0..MaxFaults

Revoking == {"revoking", "revoked", "closing", "closed"}

\* The identity is signed out only for an operation that says so.
RevokedByPhase == revoked => \E o \in Operation : operation[o].phase \in Revoking

\* What a phase claims is done: signed out from revoked on, and closed at
\* closed, unless an edit that read the account before it was closed has
\* saved it open again.
PhaseIsTrue ==
    \A o \in Operation :
        /\ operation[o].phase \in {"revoked", "closing", "closed"} => revoked
        /\ operation[o].phase = "closed" => account = "Closed" \/ reopened

\* Nothing is done ahead of its turn: no account is closed before the identity
\* is signed out, no consumer hears of an operation that is not closed, and
\* nobody is told it succeeded before its message is enqueued.
NothingEarly ==
    /\ account = "Closed" => revoked
    /\ \A o \in Operation :
          /\ message[o].status # "absent" => operation[o].phase = "closed"
          /\ operation[o].status = "succeeded" => message[o].status # "absent"
    /\ \A c \in Call : call[c].at = "reported" => \A o \in call[c].op : message[o].status # "absent"

\* Only a message every consumer has a receipt for is dispatched.
DispatchedToAll ==
    \A o \in Operation : message[o].status = "dispatched" => receipts[o] = 1..Consumers

\* The saga keeps its promises in every interleaving of calls that take an
\* operation over from one another with phases they read before, of stalled
\* owners, replays, edits and workers (AccountClosureCoordinator.execute,
\* updatePhaseCAS, AccountClosedWorker.processPendingMessages).
ClosureInOrder == RevokedByPhase /\ PhaseIsTrue /\ NothingEarly /\ DispatchedToAll

\* An account:closed message reaches all its consumers, though a worker dies,
\* loses its lease or has a consumer fail (processPendingMessages).
ClosureIsHeard ==
    \A o \in Operation : message[o].status = "pending" ~> message[o].status = "dispatched"

----------------------------------------------------------------------------
(* What is left of all this for the owner and the consumers: the account   *)
(* is reopened when an edit saved it active over the closure, and an       *)
(* operation is confirmed when some call reported that it succeeded.       *)
Contract == INSTANCE ClosureContract WITH
    phase <- [o \in Operation |-> operation[o].phase],
    signedOut <- revoked,
    account <- IF account = "Closed" THEN "closed" ELSE IF reopened THEN "reopened" ELSE "open",
    told <- {o \in Operation : message[o].status # "absent"},
    confirmed <- {o \in Operation : \E c \in Call : call[c].at = "reported" /\ o \in call[c].op},
    heard <- receipts,
    finished <- {o \in Operation : message[o].status = "dispatched"}

\* Calls that take an operation over from one another, stalled owners,
\* replays, retried messages and workers together look like one closure that
\* moves on step by step (AccountClosureCoordinator.execute,
\* AccountClosedWorker.processPendingMessages).
ImplementsContract == Contract!ContractSpec

=============================================================================
