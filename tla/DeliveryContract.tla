---------------------------- MODULE DeliveryContract ----------------------------
(***************************************************************************)
(* What reliable delivery promises, without claims, leases, attempts,      *)
(* acknowledgements or workers.  A request is stored as a notification     *)
(* once, with all the deliveries planned for it, and only then settled as  *)
(* stored.  A delivery counts as delivered, for good, after it was shown   *)
(* when it is one to show, and is told of then or never; it is skipped,    *)
(* for good, only when it is one to show; or it is given up, until         *)
(* somebody replays it.                                                    *)
(***************************************************************************)
CONSTANTS Request, Channel, DesktopChannel

Op == Request \X Channel

VARIABLES
    stored,     \* the requests with a notification
    request,    \* "open", "stored" or "dead"
    delivery,   \* "absent", "open", "delivered", "skipped" or "dead"
    shown,      \* the deliveries the user saw
    told        \* the deliveries subscribers heard of

contractVars == <<stored, request, delivery, shown, told>>

ContractInit ==
    /\ stored = {}
    /\ request = [r \in Request |-> "open"]
    /\ delivery = [o \in Op |-> "absent"]
    /\ shown = {}
    /\ told = {}

\* The notification, and its deliveries over the channels C.
Store(r, C) ==
    /\ r \notin stored
    /\ stored' = stored \cup {r}
    /\ delivery' = [o \in Op |-> IF o[1] = r /\ o[2] \in C THEN "open" ELSE delivery[o]]
    /\ UNCHANGED <<request, shown, told>>

Settle(r, outcome) ==
    /\ request[r] = "open"
    /\ outcome = "stored" => r \in stored
    /\ request' = [request EXCEPT ![r] = outcome]
    /\ UNCHANGED <<stored, delivery, shown, told>>

Shows(o) == o[2] \in DesktopChannel

Show(o) ==
    /\ delivery[o] # "absent" /\ Shows(o)
    /\ shown' = shown \cup {o}
    /\ UNCHANGED <<stored, request, delivery, told>>

Moves(o, from, to) ==
    /\ delivery[o] = from
    /\ delivery' = [delivery EXCEPT ![o] = to]
    /\ UNCHANGED <<stored, request, shown>>

Deliver(o) ==
    /\ Moves(o, "open", "delivered")
    /\ Shows(o) => o \in shown
    /\ o \notin told
    /\ told' \in {told, told \cup {o}}

Skip(o) == Shows(o) /\ Moves(o, "open", "skipped") /\ UNCHANGED told

GiveUp(o) == Moves(o, "open", "dead") /\ UNCHANGED told

Replay(o) == Moves(o, "dead", "open") /\ UNCHANGED told

ContractNext ==
    \/ \E r \in Request :
          \/ \E C \in SUBSET Channel : Store(r, C)
          \/ Settle(r, "stored") \/ Settle(r, "dead")
    \/ \E o \in Op : Show(o) \/ Deliver(o) \/ Skip(o) \/ GiveUp(o) \/ Replay(o)

ContractSpec == ContractInit /\ [][ContractNext]_contractVars
=================================================================================
