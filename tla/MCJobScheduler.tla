--------------------------- MODULE MCJobScheduler ---------------------------
(* Small instances of JobScheduler for TLC.                                *)
EXTENDS JobScheduler, TLC

CONSTANTS a, b, c, w1, w2, r1, backup, refresh

TwoJobs == {a, b}
OneWorker == {w1}
OneRequest == {r1}
Backup == {backup}
AllBackups == [j \in Jobs |-> backup]
PoisonA == {a}
=============================================================================
