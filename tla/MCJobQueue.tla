---------------------------- MODULE MCJobQueue ----------------------------
(* Small instances of JobQueue for TLC.                                    *)
EXTENDS JobQueue

CONSTANTS a, b, c, w1, w2

ThreeJobs == {a, b, c}
OneWorker == {w1}
PoisonA == {a}
UnhandledC == {c}
===========================================================================
