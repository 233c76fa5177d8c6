--------------------------- MODULE MCBackupCache ---------------------------
EXTENDS BackupCache

CONSTANTS p1, p2

\* Redis is prompt; the edges may lag behind or not.
McSetups == [prompt : {TRUE}, stale : BOOLEAN]
=============================================================================
