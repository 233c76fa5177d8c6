------------------------- MODULE MCMembershipReader -------------------------
(* Instances of MembershipReader for TLC. *)
EXTENDS MembershipReader

Situation(reverse, companies, lists, requests, moves, faults) ==
  [reverse |-> reverse, companies |-> companies, lists |-> lists, requests |-> requests,
   moves |-> moves, faults |-> faults]

McSetups ==
  { Situation(TRUE, {"A"}, {"l", "m"}, {"r"}, 4, 0),
    Situation(TRUE, {"A", "B"}, {"l"}, {"r"}, 3, 0),
    Situation(TRUE, {"A"}, {"l"}, {"r", "q"}, 2, 1),
    Situation(FALSE, {"A"}, {"l"}, {"r"}, 9, 1),
    Situation(FALSE, {"A", "B"}, {"l", "m"}, {"r"}, 3, 0) }
=============================================================================
