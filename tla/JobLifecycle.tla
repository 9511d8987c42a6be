---------------------------- MODULE JobLifecycle ----------------------------
(***************************************************************************)
(* What the job queue promises of one job (SPEC 5.2, NFR-R-2): it waits,   *)
(* it is taken, its handler is entered no more than MaxAttempts times, and *)
(* it ends done or in the dead-letter state, where it stays.  No worker,   *)
(* lock, batch or crash appears here.                                      *)
(***************************************************************************)
EXTENDS Naturals

CONSTANTS Jobs, MaxAttempts

VARIABLES phase,  \* where each job is
          tries   \* how many times its handler was entered

lifecycleVars == <<phase, tries>>

Init ==
  /\ phase = [j \in Jobs |-> "absent"]
  /\ tries = [j \in Jobs |-> 0]

Move(j, from, to) ==
  /\ phase[j] = from
  /\ phase' = [phase EXCEPT ![j] = to]
  /\ UNCHANGED tries

Submit(j)   == Move(j, "absent", "pending")
Take(j)     == Move(j, "pending", "running")
GiveBack(j) == Move(j, "running", "pending")
Bury(j)     == Move(j, "running", "failed")

\* Only work whose handler was entered can be reported done.
Finish(j) == tries[j] > 0 /\ Move(j, "running", "done")

Try(j) ==
  /\ phase[j] = "running"
  /\ tries[j] < MaxAttempts
  /\ tries' = [tries EXCEPT ![j] = @ + 1]
  /\ UNCHANGED phase

Next ==
  \E j \in Jobs :
    Submit(j) \/ Take(j) \/ Try(j) \/ GiveBack(j) \/ Finish(j) \/ Bury(j)

Spec == Init /\ [][Next]_lifecycleVars
=============================================================================
