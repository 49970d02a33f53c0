-------------------------- MODULE InvocationContract --------------------------
(***************************************************************************)
(* What the scheduler promises the owner of a set of scheduling keys,      *)
(* without claims, attempts, retry policies or databases.  A key is        *)
(* wanted or withdrawn by the owner as part of one complete desired set;   *)
(* a wanted key is started, and each start either settles the key or puts  *)
(* it back to be started again.  Withdrawing is the only way out of        *)
(* "settled", and a start is never forgotten.                              *)
(***************************************************************************)
EXTENDS Naturals

CONSTANT Key

VARIABLES
    phase,   \* where each key stands
    starts   \* how many times each key has been started

contractVars == <<phase, starts>>

Phase == {"absent", "armed", "running", "settled", "withdrawn"}

ContractInit ==
    /\ phase = [k \in Key |-> "absent"]
    /\ starts = [k \in Key |-> 0]

\* The owner declares its complete desired set: what was absent or withdrawn
\* becomes armed, what is armed, running or settled stays, the rest goes.
Declare(wanted) ==
    /\ phase' = [k \in Key |->
                    IF k \in wanted
                    THEN IF phase[k] \in {"absent", "withdrawn"}
                         THEN "armed" ELSE phase[k]
                    ELSE IF phase[k] = "absent" THEN "absent" ELSE "withdrawn"]
    /\ UNCHANGED starts

Start(k) ==
    /\ phase[k] = "armed"
    /\ phase' = [phase EXCEPT ![k] = "running"]
    /\ starts' = [starts EXCEPT ![k] = @ + 1]

\* A handler reported, or the claims of dead workers were given up: those
\* keys, all of them running, go back to armed or are settled for good.
Release(settled, requeued) ==
    /\ \A k \in settled \cup requeued : phase[k] = "running"
    /\ phase' = [k \in Key |-> IF k \in settled THEN "settled"
                               ELSE IF k \in requeued THEN "armed"
                               ELSE phase[k]]
    /\ UNCHANGED starts

ContractNext ==
    \/ \E wanted \in SUBSET Key : Declare(wanted)
    \/ \E k \in Key : Start(k)
    \/ \E settled, requeued \in SUBSET Key : Release(settled, requeued)

ContractSpec == ContractInit /\ [][ContractNext]_contractVars
==============================================================================
