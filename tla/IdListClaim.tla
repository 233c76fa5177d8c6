----------------------------- MODULE IdListClaim -----------------------------
(***************************************************************************)
(* The id-list synchronisation on top of the claim: WorkLock implements    *)
(* WorkClaim, and IdListSync makes no other use of the lock.               *)
(***************************************************************************)
EXTENDS IdListSync

Claim == INSTANCE WorkClaim WITH holder <- claim, writers <- {w \in Pods : Active(w)}

\* The workers use the claim as WorkClaim promises it and WorkLock provides it:
\* nobody loads, diffs or removes without it, whatever workers abort, and it is
\* given up only by those who have stopped (run_once, stop_and_release).
UsesClaim == Claim!Spec
=============================================================================
