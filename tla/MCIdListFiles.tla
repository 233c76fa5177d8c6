---------------------------- MODULE MCIdListFiles ----------------------------
EXTENDS IdListFiles, TLC

CONSTANTS r1, r2

Situation(readers, prompt, budget, flts) ==
  [readers |-> readers, prompt |-> prompt, budget |-> budget, faults |-> flts]

McSetups ==
  { Situation((r1 :> "hinted") @@ (r2 :> "hinted"), TRUE, 0, {}),
    Situation((r1 :> "hinted") @@ (r2 :> "ranged"), TRUE, 0, {}),
    Situation((r1 :> "hinted"), FALSE, 2, FaultKinds),
    Situation((r1 :> "whole") @@ (r2 :> "hinted"), FALSE, 0, {}) }
=============================================================================
