------------------------------ MODULE WorkClaim ------------------------------
(***************************************************************************)
(* What the claim on a list promises (the WorkLock trait, work_lock.rs):   *)
(* a pod starts to write only while the claim is its own, and the claim    *)
(* does not pass on, or become free, before its holder has stopped.        *)
(* Nothing is said of time, renewals, scripts or late messages: WorkLock   *)
(* shows how they add up to this, and IdListSync relies on no more.        *)
(***************************************************************************)
CONSTANTS Pods, NoPod

VARIABLES
    holder,    \* the pod the claim belongs to, or NoPod
    writers    \* the pods that write to the list's keys

vars == <<holder, writers>>

Init == holder = NoPod /\ writers = {}

\* A free claim is taken; its holder may start at once.
Take(p) ==
    /\ holder = NoPod
    /\ holder' = p
    /\ writers' \in {writers, writers \cup {p}}

Enter(p) ==
    /\ holder = p
    /\ writers' = writers \cup {p}
    /\ UNCHANGED holder

\* Pods stop writing, and the claim of one that has stopped may go with them.
Leave ==
    /\ writers' \subseteq writers
    /\ holder' \in {holder, NoPod}
    /\ holder' # holder => holder \notin writers'

Next == Leave \/ \E p \in Pods : Take(p) \/ Enter(p)

Spec == Init /\ [][Next]_vars
=============================================================================
