------------------------------ MODULE MCRecords ------------------------------
(* Components that share no state, side by side: the trash, diagnostic codes,  *)
(* the LubeLogger sync, parts readiness, settings that need a restart, the     *)
(* accounts, and inspections.  Interleaving them would show nothing, so a      *)
(* behaviour moves one of them, which `moving` names.  Accounts stop where     *)
(* `overtaken` is set, which SomebodyManages says nothing about.               *)
EXTENDS Trash, DiagnosticCodes, LubeLoggerSync, PartsReadiness, ConfigGeneration,
        Accounts, Inspections

CONSTANTS l1, l2, l3, desk, scan, other, log, reading, job, button, w1, w2,
          web, worker, zone, s1, s2, ann, bob, v1, v2, tire, extra, q1, q2

VARIABLE moving

OneService == [e \in Records |-> "service"]

Begun(component) ==
  /\ moving = component
  /\ TrashInit /\ DiagInit /\ LubeInit /\ ReadyInit /\ ConfigInit
  /\ AccountInit /\ InspectInit

SideInit == \E m \in {"trash", "codes", "lubelogger", "readiness", "settings", "accounts",
                    "inspections"} : Begun(m)

SideNext ==
  \/ /\ moving = "trash" /\ TrashNext
     /\ UNCHANGED <<moving, diagVars, lubeVars, readyVars, configVars, accountVars, inspectVars>>
  \/ /\ moving = "codes" /\ DiagNext
     /\ UNCHANGED <<moving, trashVars, lubeVars, readyVars, configVars, accountVars, inspectVars>>
  \/ /\ moving = "lubelogger" /\ LubeNext
     /\ UNCHANGED <<moving, trashVars, diagVars, readyVars, configVars, accountVars, inspectVars>>
  \/ /\ moving = "readiness" /\ ReadyNext
     /\ UNCHANGED <<moving, trashVars, diagVars, lubeVars, configVars, accountVars, inspectVars>>
  \/ /\ moving = "settings" /\ ConfigNext
     /\ UNCHANGED <<moving, trashVars, diagVars, lubeVars, readyVars, accountVars, inspectVars>>
  \/ /\ moving = "accounts" /\ ~overtaken /\ AccountNext
     /\ UNCHANGED <<moving, trashVars, diagVars, lubeVars, readyVars, configVars, inspectVars>>
  \/ /\ moving = "inspections" /\ InspectNext
     /\ UNCHANGED <<moving, trashVars, diagVars, lubeVars, readyVars, configVars, accountVars>>

sideVars == <<moving, trashVars, diagVars, lubeVars, readyVars, configVars,
              accountVars, inspectVars>>

SideSpec == SideInit /\ [][SideNext]_sideVars
=============================================================================
