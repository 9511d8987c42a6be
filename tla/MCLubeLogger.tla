---------------------------- MODULE MCLubeLogger ----------------------------
(* A small instance of LubeLoggerSync for TLC: one note at the source.       *)
EXTENDS LubeLoggerSync

CONSTANTS log, reading, job

OneNote == [e \in Records |-> "note"]
=============================================================================
