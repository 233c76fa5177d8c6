---------------------------- MODULE MCIdListSync ----------------------------
(***************************************************************************)
(* Small instances of IdListSync: two members, files of two or three       *)
(* lines, and a manifest history per question.                             *)
(***************************************************************************)
EXTENDS IdListClaim, TLC

CONSTANTS f1, f2, m1, m2

Add(m) == [add |-> TRUE, member |-> m]
Del(m) == [add |-> FALSE, member |-> m]

McLines == (f1 :> <<Add(m1), Add(m2), Del(m1)>>) @@ (f2 :> <<Add(m1), Add(m2), Del(m2)>>)
McHash == (m1 :> 0) @@ (m2 :> 1)

At(f, c, n) == [file |-> f, ctime |-> c, size |-> n]

\* f1 appears, grows, and is replaced by f2.
McRotate == <<At(f1, 1, 2), At(f1, 1, 3), At(f2, 2, 3)>>
\* f1 disappears and returns.
McReturn == <<At(f1, 1, 2), NoEntry, At(f1, 1, 2)>>
\* f1 is replaced and the list disappears.
McRemove == <<At(f1, 1, 1), At(f2, 2, 2), NoEntry>>
McVanish == <<At(f1, 1, 2), NoEntry>>

McCrash == [kind \in FaultKinds |-> IF kind = "abort" THEN 1 ELSE 0]
McAny == [kind \in FaultKinds |-> 1]

McOne == {{"abort"}}
\* One fault of any kind, or a crash and an expired set: one that was committed
\* and not yet made persistent.
McFaults == {{"abort", "expiry"}, {"meta"}, {"missing"}, {"mode"}, {"stale"}}

PodSymmetry == Permutations(Pods)
=============================================================================
