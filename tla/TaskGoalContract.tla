---------------------------- MODULE TaskGoalContract ----------------------------
(***************************************************************************)
(* What the outbox between tasks and a goal promises, without claims,      *)
(* attempts, versions or the reads of a transaction.  Completing and       *)
(* uncompleting an occurrence sends an event; an event that was sent takes *)
(* effect at once, as often as it is handled and in no promised order; it  *)
(* is settled as delivered, for good, once it took effect, or as a dead    *)
(* letter, until somebody replays it.  The goal counts an occurrence once. *)
(* Whenever what it counts changes, its progress becomes what it counts,   *)
(* whatever the user made of it meanwhile -- unless a withdrawal tears     *)
(* them apart.                                                             *)
(***************************************************************************)
EXTENDS Naturals, FiniteSets

CONSTANTS Occurrence, Event

VARIABLES
    sent,       \* events sent of each occurrence
    effective,  \* the events that took effect
    delivery,   \* "open", "delivered" or "dead", of each event
    counted,    \* the occurrences the goal counts
    manual,     \* what the user's own records add up to
    progress,
    torn        \* progress no longer follows what is counted

contractVars == <<sent, effective, delivery, counted, manual, progress, torn>>

ContractInit ==
    /\ sent = [k \in Occurrence |-> 0]
    /\ effective = {}
    /\ delivery = [e \in Event |-> "open"]
    /\ counted = {}
    /\ manual = 0
    /\ progress = 0
    /\ torn = FALSE

ProgressFollows == progress' = Cardinality(counted') + manual' \/ torn'

Send(k) ==
    /\ sent' = [sent EXCEPT ![k] = @ + 1]
    /\ UNCHANGED <<effective, delivery, counted, manual, progress, torn>>

RecordByHand ==
    /\ manual' \in Nat
    /\ UNCHANGED <<sent, effective, delivery, counted, torn>>
    /\ ProgressFollows

\* The user may also say what the progress is.
SetByHand ==
    /\ progress' \in Nat
    /\ UNCHANGED <<sent, effective, delivery, counted, manual, torn>>

\* Events are <<occurrence, n>>; the odd ones complete it.
Sent(e) == e[2] <= sent[e[1]]
Completes(e) == e[2] % 2 = 1

TakesEffect(e) ==
    /\ Sent(e)
    /\ effective' = effective \cup {e}
    /\ UNCHANGED <<sent, delivery, manual>>

Count(e) ==
    /\ TakesEffect(e) /\ Completes(e)
    /\ e[1] \notin counted
    /\ counted' = counted \cup {e[1]}
    /\ UNCHANGED torn
    /\ ProgressFollows

Withdraw(e) ==
    /\ TakesEffect(e) /\ ~Completes(e)
    /\ e[1] \in counted
    /\ counted' = counted \ {e[1]}
    /\ torn => torn'
    /\ ProgressFollows

\* The goal counts it already, or not any more.
Repeat(e) ==
    /\ TakesEffect(e)
    /\ Completes(e) <=> e[1] \in counted
    /\ UNCHANGED <<counted, torn>>
    /\ progress' = progress \/ torn

Settle(e, outcome) ==
    /\ delivery[e] = "open"
    /\ outcome = "delivered" => e \in effective
    /\ delivery' = [delivery EXCEPT ![e] = outcome]
    /\ UNCHANGED <<sent, effective, counted, manual, progress, torn>>

Replay(e) ==
    /\ delivery[e] = "dead"
    /\ delivery' = [delivery EXCEPT ![e] = "open"]
    /\ UNCHANGED <<sent, effective, counted, manual, progress, torn>>

ContractNext ==
    \/ \E k \in Occurrence : Send(k)
    \/ RecordByHand
    \/ SetByHand
    \/ \E e \in Event : \/ Count(e) \/ Withdraw(e) \/ Repeat(e)
                        \/ Settle(e, "delivered") \/ Settle(e, "dead") \/ Replay(e)

ContractSpec == ContractInit /\ [][ContractNext]_contractVars
=================================================================================
