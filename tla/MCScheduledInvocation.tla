------------------------ MODULE MCScheduledInvocation ------------------------
(***************************************************************************)
(* Small instances of ScheduledInvocation.  One intent allows a retry, the *)
(* other has retries disabled.                                             *)
(***************************************************************************)
EXTENDS ScheduledInvocation, TLC

CONSTANTS i1, i2

MCIntent == {i1, i2}
MCMaxRetries == i1 :> 1 @@ i2 :> 0
MCRetryEnabled == i1 :> TRUE @@ i2 :> FALSE

Symmetry == Permutations(Worker) \cup Permutations(Key)
==============================================================================
