---------------------------- MODULE MCGrpcStream ----------------------------
EXTENDS GrpcStream

CONSTANTS c1, c2

\* Two clients while edges are up to date and observers prompt; one client with
\* backups too; and one with edges that lag behind and updates that pile up.
McSetups ==
  { [clients |-> {c1, c2}, prompt |-> TRUE, stale |-> FALSE, backup |-> FALSE],
    [clients |-> {c1}, prompt |-> TRUE, stale |-> FALSE, backup |-> TRUE],
    [clients |-> {c1}, prompt |-> FALSE, stale |-> TRUE, backup |-> TRUE] }
=============================================================================
