-------------------------- MODULE ConfigGeneration --------------------------
(***************************************************************************)
(* How a process comes to know that its settings have changed              *)
(* (homeautoshop/core/runtime.py, core/middleware.py, run_worker.py).      *)
(* Settings that Django resolves for itself are read once per process.     *)
(* Saving one puts a row per key and then raises a generation number by    *)
(* reading it and putting it back; a process remembers the generation of   *)
(* its boot, which it reads after the settings.  The worker exits when the *)
(* two differ, and the container's restart policy brings it back; the web  *)
(* processes say so on the settings page and go on until they are          *)
(* reloaded.                                                               *)
(***************************************************************************)
EXTENDS Integers, FiniteSets

CONSTANTS
  Keys,       \* RESTART_KEYS
  Values,     \* what a setting may be
  Processes,  \* the gunicorn workers and run_worker
  RunWorkers, \* those that are run_worker
  Savers,     \* requests that save settings
  MaxSaves    \* bound on how often somebody saves

ASSUME ConfigAssumption ==
  /\ Values # {}
  /\ RunWorkers \subseteq Processes
  /\ MaxSaves \in Nat

VARIABLES
  setting,     \* the Setting rows
  generation,  \* GENERATION_KEY
  highest,     \* the highest generation there ever was
  save,        \* what each request that saves is doing
  life,        \* "down", "booting" or "up"
  overlay,     \* the settings a process has read
  booted,      \* _booted_generation
  saves,
  straddled,   \* processes whose boot a put of a setting fell into
  unannounced  \* something was put, and the generation is not higher for it

configVars == <<setting, generation, highest, save, life, overlay, booted, saves,
                straddled, unannounced>>

Settings == [Keys -> Values]
NotSaving == [at |-> "idle", todo |-> {}, form |-> CHOOSE f \in Settings : TRUE, read |-> 0]

ConfigTypeOK ==
  /\ setting \in Settings
  /\ generation \in Nat /\ highest \in Nat
  /\ save \in [Savers -> [at : {"idle", "putting", "bumping"}, todo : SUBSET Keys,
                          form : Settings, read : Nat]]
  /\ life \in [Processes -> {"down", "booting", "up"}]
  /\ overlay \in [Processes -> Settings]
  /\ booted \in [Processes -> Nat]
  /\ saves \in 0..MaxSaves
  /\ straddled \subseteq Processes
  /\ unannounced \in BOOLEAN

ConfigInit ==
  /\ setting = CHOOSE f \in Settings : TRUE
  /\ generation = 0 /\ highest = 0
  /\ save = [s \in Savers |-> NotSaving]
  /\ life = [p \in Processes |-> "up"]
  /\ overlay = [p \in Processes |-> setting]
  /\ booted = [p \in Processes |-> 0]
  /\ saves = 0
  /\ straddled = {} /\ unannounced = FALSE

-----------------------------------------------------------------------------
(* save(): what differs from what is stored is put, key by key; then       *)
(* bump_generation().                                                      *)

BeginSave(s, f) ==
  /\ save[s].at = "idle" /\ saves < MaxSaves
  /\ f # setting
  /\ saves' = saves + 1
  /\ save' = [save EXCEPT ![s] = [at |-> "putting", todo |-> {k \in Keys : f[k] # setting[k]},
                                  form |-> f, read |-> 0]]
  /\ UNCHANGED <<setting, generation, highest, life, overlay, booted, straddled, unannounced>>

PutSetting(s, k) ==
  /\ save[s].at = "putting" /\ k \in save[s].todo
  /\ setting' = [setting EXCEPT ![k] = save[s].form[k]]
  /\ save' = [save EXCEPT ![s].todo = @ \ {k}]
  /\ straddled' = straddled \cup {p \in Processes : life[p] = "booting"}
  /\ UNCHANGED <<generation, highest, life, overlay, booted, saves, unannounced>>

ReadGeneration(s) ==
  /\ save[s].at = "putting" /\ save[s].todo = {}
  /\ save' = [save EXCEPT ![s].at = "bumping", ![s].read = generation]
  /\ UNCHANGED <<setting, generation, highest, life, overlay, booted, saves, straddled,
                 unannounced>>

\* Slip: the generation is raised for the first change only.
MutRaised(g) == IF g = 0 THEN 1 ELSE g

Raised(g) == g + 1

\* Two saves that read the same generation put the same one.  One that read it long
\* ago puts an old one back.
PutGeneration(s) ==
  LET g == Raised(save[s].read) IN
    /\ save[s].at = "bumping"
    /\ generation' = g
    /\ highest' = IF g > highest THEN g ELSE highest
    /\ unannounced' = IF g > highest THEN FALSE ELSE IF g < highest THEN TRUE ELSE unannounced
    /\ save' = [save EXCEPT ![s] = NotSaving]
    /\ UNCHANGED <<setting, life, overlay, booted, saves, straddled>>

SaveDies(s) ==
  /\ save[s].at # "idle"
  /\ save' = [save EXCEPT ![s] = NotSaving]
  /\ unannounced' = TRUE
  /\ UNCHANGED <<setting, generation, highest, life, overlay, booted, saves, straddled>>

-----------------------------------------------------------------------------
(* ensure_overlay(): on the first request, or when the worker starts.      *)

ReadOverlay(p) ==
  /\ life[p] = "down"
  /\ life' = [life EXCEPT ![p] = "booting"]
  /\ overlay' = [overlay EXCEPT ![p] = setting]
  /\ straddled' = straddled \ {p}
  /\ UNCHANGED <<setting, generation, highest, save, booted, saves, unannounced>>

RecordGeneration(p) ==
  /\ life[p] = "booting"
  /\ life' = [life EXCEPT ![p] = "up"]
  /\ booted' = [booted EXCEPT ![p] = generation]
  /\ UNCHANGED <<setting, generation, highest, save, overlay, saves, straddled, unannounced>>

\* is_stale().
IsStale(p) == generation # booted[p]

\* run_worker looks once a minute.
WorkerExits(w) ==
  /\ life[w] = "up" /\ IsStale(w)
  /\ life' = [life EXCEPT ![w] = "down"]
  /\ UNCHANGED <<setting, generation, highest, save, overlay, booted, saves, straddled,
                 unannounced>>

\* The web processes are reloaded, together (restart_web) or as they die.
Reload ==
  \E P \in SUBSET (Processes \ RunWorkers) :
    /\ P # {} /\ \A p \in P : life[p] # "down"
    /\ life' = [p \in Processes |-> IF p \in P THEN "down" ELSE life[p]]
    /\ UNCHANGED <<setting, generation, highest, save, overlay, booted, saves, straddled,
                   unannounced>>

ConfigNext ==
  \/ \E s \in Savers :
       \/ \E f \in Settings : BeginSave(s, f)
       \/ \E k \in Keys : PutSetting(s, k)
       \/ ReadGeneration(s) \/ PutGeneration(s) \/ SaveDies(s)
  \/ \E p \in Processes : ReadOverlay(p) \/ RecordGeneration(p)
  \/ \E w \in RunWorkers : WorkerExits(w)
  \/ Reload

ConfigSpec == ConfigInit /\ [][ConfigNext]_configVars

-----------------------------------------------------------------------------
(* Properties.                                                             *)

\* A process that runs other settings than are stored knows it, once nobody is saving:
\* unless they changed while it was reading them, a save died half way, or two saves
\* put the generation back.
StaleIsKnown ==
  ((\A s \in Savers : save[s].at = "idle") /\ ~unannounced) =>
    \A p \in Processes \ straddled :
      (life[p] = "up" /\ overlay[p] # setting) => IsStale(p)
=============================================================================
