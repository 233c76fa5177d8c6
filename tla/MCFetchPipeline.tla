-------------------------- MODULE MCFetchPipeline --------------------------
EXTENDS FetchPipeline

CONSTANTS r1, r2

Situation(kind, clear, readers, budget, flts, oldBackup) ==
  [kind |-> kind, clear |-> clear, readers |-> readers, budget |-> budget,
   faults |-> flts, oldBackup |-> oldBackup, prompt |-> TRUE]

\* Left out: old backups of id lists, which replace newer payloads, and failures
\* of a dcs context with two readers, which let both of them fetch at a time.
McSetups ==
  { Situation("dcs", FALSE, {r1, r2}, 1, {"client", "stale", "refuse"}, FALSE),
    Situation("dcs", FALSE, {r1}, 2, {"drop", "stale"}, FALSE),
    Situation("dcs", TRUE, {r1}, 2, FaultKinds \ {"drop"}, TRUE),
    Situation("idlists", TRUE, {r1}, 2, FaultKinds \ {"drop", "stale"}, FALSE),
    Situation("idlists", FALSE, {r1, r2}, 1, {"error", "refuse"}, FALSE) }
=============================================================================
