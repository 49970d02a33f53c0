---------------------------- MODULE ClosureContract ----------------------------
(***************************************************************************)
(* What the closure of an account promises its owner and the consumers of  *)
(* account:closed, without calls, leases, replays or workers.  An          *)
(* operation moves through its phases one at a time and never back; the    *)
(* identity is signed out and the account closed when their phases come;   *)
(* then the closure is announced, confirmed to whoever asked for it, and   *)
(* heard by each consumer once, in turn.  Only an account that is opened   *)
(* again behind the operation's back can be closed a second time.          *)
(***************************************************************************)
EXTENDS Naturals

CONSTANTS Operation, Consumers

VARIABLES
    phase,       \* of each operation
    signedOut,   \* the identity is signed out everywhere
    account,     \* "open", "closed" or "reopened"
    told,        \* the operations announced
    confirmed,   \* the operations reported as succeeded to a caller
    heard,       \* the consumers that heard of each
    finished     \* the operations every consumer has heard of

contractVars == <<phase, signedOut, account, told, confirmed, heard, finished>>

ContractInit ==
    /\ phase = [o \in Operation |-> "absent"]
    /\ signedOut = FALSE
    /\ account = "open"
    /\ told = {}
    /\ confirmed = {}
    /\ heard = [o \in Operation |-> {}]
    /\ finished = {}

\* A phase that says something is done comes after it.
Move(o, from, to) ==
    /\ phase[o] = from
    /\ to = "revoked" => signedOut
    /\ to = "closed" => account # "open"
    /\ phase' = [phase EXCEPT ![o] = to]
    /\ UNCHANGED <<signedOut, account, told, confirmed, heard, finished>>

Advance(o) ==
    \/ Move(o, "absent", "requested")
    \/ Move(o, "requested", "revoking")
    \/ Move(o, "revoking", "revoked")
    \/ Move(o, "revoked", "closing")
    \/ Move(o, "closing", "closed")

SignOut ==
    /\ ~signedOut
    /\ \E o \in Operation : phase[o] = "revoking"
    /\ signedOut' = TRUE
    /\ UNCHANGED <<phase, account, told, confirmed, heard, finished>>

Close ==
    /\ account # "closed" /\ signedOut
    /\ \E o \in Operation : phase[o] = "closing" \/ (phase[o] = "closed" /\ account = "reopened")
    /\ account' = "closed"
    /\ UNCHANGED <<phase, signedOut, told, confirmed, heard, finished>>

Reopen ==
    /\ account = "closed"
    /\ account' = "reopened"
    /\ UNCHANGED <<phase, signedOut, told, confirmed, heard, finished>>

Announce(o) ==
    /\ phase[o] = "closed" /\ o \notin told
    /\ told' = told \cup {o}
    /\ UNCHANGED <<phase, signedOut, account, confirmed, heard, finished>>

Confirm(o) ==
    /\ o \in told \ confirmed
    /\ confirmed' = confirmed \cup {o}
    /\ UNCHANGED <<phase, signedOut, account, told, heard, finished>>

\* The next consumer in turn hears of the closure.
Hear(o, n) ==
    /\ o \in told
    /\ n \notin heard[o] /\ \A m \in 1..Consumers : m < n => m \in heard[o]
    /\ heard' = [heard EXCEPT ![o] = @ \cup {n}]
    /\ UNCHANGED <<phase, signedOut, account, told, confirmed, finished>>

Finish(o) ==
    /\ o \notin finished /\ heard[o] = 1..Consumers
    /\ finished' = finished \cup {o}
    /\ UNCHANGED <<phase, signedOut, account, told, confirmed, heard>>

ContractNext ==
    \/ \E o \in Operation : Advance(o) \/ Announce(o) \/ Confirm(o) \/ Finish(o)
    \/ SignOut \/ Close \/ Reopen
    \/ \E o \in Operation, n \in 1..Consumers : Hear(o, n)

ContractSpec == ContractInit /\ [][ContractNext]_contractVars
================================================================================
