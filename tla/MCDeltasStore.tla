--------------------------- MODULE MCDeltasStore ---------------------------
(* Instances of DeltasStore for TLC. *)
EXTENDS DeltasStore

CONSTANTS a, b

Situation(ctxs, direct, keep, changes, budget, faults) ==
  [ctxs |-> ctxs, asks |-> a, direct |-> direct, keep |-> keep, changes |-> changes,
   budget |-> budget, faults |-> faults]

McSetups ==
  { Situation({a}, FALSE, 1, 4, 0, {}),
    Situation({a}, FALSE, 2, 3, 1, {"refuse", "lag"}),
    Situation({a}, TRUE, 1, 3, 2, {"undecodable", "header", "register"}),
    Situation({a, b}, TRUE, 2, 3, 0, {}),
    Situation({a, b}, FALSE, 1, 3, 1, {"error"}) }
=============================================================================
