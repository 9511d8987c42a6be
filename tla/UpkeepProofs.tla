---------------------------- MODULE UpkeepProofs ----------------------------
(***************************************************************************)
(* Theorems about what runs beside the shop: ConfigGeneration, Accounts,   *)
(* Reminders and LubeLoggerSync, each under its own specification.         *)
(***************************************************************************)
EXTENDS ConfigGeneration, Accounts, Reminders, LubeLoggerSync,
        FiniteSetTheorems, TLAPS

-----------------------------------------------------------------------------
(***************************************************************************)
(* ConfigGeneration, for any keys, values and processes.  What a process   *)
(* does not run, it knows of, or somebody who is still saving will tell it: *)
(* the saver is the witness that is handed on from the put of a setting to *)
(* the put of the generation.  Then Accounts, for any accounts and any     *)
(* number of people at once: a change past its check knows of another      *)
(* account that can administer, and stays right about it until two such    *)
(* changes meet.                                                           *)
(***************************************************************************)

(* The settings that need a restart.                                       *)

LEMMA SomeSettings == ASSUME Values # {} PROVE (CHOOSE f \in Settings : TRUE) \in Settings
<1>1. PICK v \in Values : TRUE
  OBVIOUS
<1>2. [k \in Keys |-> v] \in Settings
  BY DEF Settings
<1> QED
  BY <1>2

\* A saver that does nothing is one the type has room for.
LEMMA Resting ==
  NotSaving \in [at : {"idle", "putting", "bumping"}, todo : SUBSET Keys,
                 form : Settings, read : Nat]
<1>1. (CHOOSE f \in Settings : TRUE) \in Settings
  BY ConfigAssumption, SomeSettings
<1> DEFINE some == CHOOSE f \in Settings : TRUE
<1> HIDE DEF some
<1>2. some \in Settings
  BY <1>1 DEF some
<1>3. [at |-> "idle", todo |-> {}, form |-> some, read |-> 0]
        \in [at : {"idle", "putting", "bumping"}, todo : SUBSET Keys,
             form : Settings, read : Nat]
  BY <1>2
<1> QED
  BY <1>3 DEF some, NotSaving

\* Every row, save and process is in a state the code can leave it in.
THEOREM ConfigTypeCorrect == ConfigSpec => []ConfigTypeOK
<1>1. ConfigInit => ConfigTypeOK
  <2> SUFFICES ASSUME ConfigInit PROVE ConfigTypeOK
    OBVIOUS
  <2>1. setting \in Settings
    BY ConfigAssumption, SomeSettings DEF ConfigInit
  <2>2. save \in [Savers -> [at : {"idle", "putting", "bumping"}, todo : SUBSET Keys,
                              form : Settings, read : Nat]]
    BY Resting DEF ConfigInit
  <2>3. overlay \in [Processes -> Settings] /\ booted \in [Processes -> Nat]
    BY <2>1 DEF ConfigInit
  <2>4. saves \in 0..MaxSaves
    BY ConfigAssumption DEF ConfigInit
  <2> QED
    BY <2>1, <2>2, <2>3, <2>4 DEF ConfigInit, ConfigTypeOK
<1>2. ConfigTypeOK /\ [ConfigNext]_configVars => ConfigTypeOK'
  <2> SUFFICES ASSUME ConfigTypeOK, [ConfigNext]_configVars PROVE ConfigTypeOK'
    OBVIOUS
  <2> USE DEF ConfigTypeOK
  <2>1. ASSUME NEW s \in Savers, NEW f \in Settings, BeginSave(s, f) PROVE ConfigTypeOK'
    BY <2>1, ConfigAssumption DEF BeginSave
  <2>2. ASSUME NEW s \in Savers, NEW k \in Keys, PutSetting(s, k) PROVE ConfigTypeOK'
    <3>1. save[s].form \in Settings
      OBVIOUS
    <3>2. setting' \in Settings
      BY <2>2, <3>1 DEF PutSetting, Settings
    <3> QED
      BY <2>2, <3>2 DEF PutSetting
  <2>3. ASSUME NEW s \in Savers, ReadGeneration(s) PROVE ConfigTypeOK'
    BY <2>3 DEF ReadGeneration
  <2>4. ASSUME NEW s \in Savers, PutGeneration(s) PROVE ConfigTypeOK'
    <3>1. save[s].read \in Nat
      OBVIOUS
    <3>2. generation' \in Nat /\ highest' \in Nat
      BY <2>4, <3>1 DEF PutGeneration, Raised
    <3>3. unannounced' \in BOOLEAN
      BY <2>4 DEF PutGeneration
    <3> QED
      BY <2>4, <3>2, <3>3, Resting DEF PutGeneration
  <2>5. ASSUME NEW s \in Savers, SaveDies(s) PROVE ConfigTypeOK'
    BY <2>5, Resting DEF SaveDies
  <2>6. ASSUME NEW p \in Processes, ReadOverlay(p) \/ RecordGeneration(p) PROVE ConfigTypeOK'
    BY <2>6 DEF ReadOverlay, RecordGeneration
  <2>7. ASSUME NEW w \in RunWorkers, WorkerExits(w) PROVE ConfigTypeOK'
    BY <2>7 DEF WorkerExits
  <2>8. CASE Reload
    BY <2>8 DEF Reload
  <2>9. CASE UNCHANGED configVars
    BY <2>9 DEF configVars
  <2> QED
    BY <2>1, <2>2, <2>3, <2>4, <2>5, <2>6, <2>7, <2>8, <2>9 DEF ConfigNext
<1> QED
  BY <1>1, <1>2, PTL DEF ConfigSpec

-----------------------------------------------------------------------------
\* Nobody has booted past the highest generation, and as long as everything was
\* announced that is the one in the table.
Numbered ==
  /\ generation <= highest
  /\ \A p \in Processes : booted[p] <= highest
  /\ ~unannounced => generation = highest

\* Somebody will raise the generation past the one p has booted with.
Coming(p) ==
  \E s \in Savers : \/ save[s].at = "putting"
                    \/ save[s].at = "bumping" /\ save[s].read >= booted[p]

\* A boot that no put fell into has read what is stored; a process that runs anything
\* else is behind, or is going to be.
Informed(p) ==
  /\ (life[p] = "booting" /\ p \notin straddled) => overlay[p] = setting
  /\ (life[p] = "up" /\ p \notin straddled /\ overlay[p] # setting) =>
       (unannounced \/ booted[p] < highest \/ Coming(p))

AllTold == \A p \in Processes : Informed(p)

LEMMA NumberedStep ==
  ConfigTypeOK /\ Numbered /\ [ConfigNext]_configVars => Numbered'
<1> SUFFICES ASSUME ConfigTypeOK, Numbered, [ConfigNext]_configVars PROVE Numbered'
  OBVIOUS
<1> USE DEF ConfigTypeOK, Numbered
<1>1. ASSUME NEW s \in Savers, PutGeneration(s) PROVE Numbered'
  <2>1. save[s].read \in Nat
    OBVIOUS
  <2> QED
    BY <1>1, <2>1 DEF PutGeneration, Raised
<1>2. ASSUME NEW s \in Savers,
             \/ ReadGeneration(s) \/ SaveDies(s) \/ \E f \in Settings : BeginSave(s, f)
             \/ \E k \in Keys : PutSetting(s, k)
      PROVE  Numbered'
  BY <1>2 DEF ReadGeneration, SaveDies, BeginSave, PutSetting
<1>3. ASSUME NEW p \in Processes, ReadOverlay(p) \/ RecordGeneration(p) PROVE Numbered'
  BY <1>3 DEF ReadOverlay, RecordGeneration
<1>4. CASE Reload \/ (\E w \in RunWorkers : WorkerExits(w)) \/ UNCHANGED configVars
  BY <1>4 DEF Reload, WorkerExits, configVars
<1> QED
  BY <1>1, <1>2, <1>3, <1>4 DEF ConfigNext

LEMMA AllToldStep ==
  ConfigTypeOK /\ Numbered /\ AllTold /\ [ConfigNext]_configVars => AllTold'
<1> SUFFICES ASSUME ConfigTypeOK, Numbered, AllTold, [ConfigNext]_configVars,
                    NEW p \in Processes
             PROVE  Informed(p)'
  BY DEF AllTold
<1>0. Informed(p) /\ booted[p] \in Nat /\ highest \in Nat
  BY DEF AllTold, ConfigTypeOK
<1> USE DEF Informed
\* The saver is the first witness.
<1>1. ASSUME NEW s \in Savers, NEW f \in Settings, BeginSave(s, f) PROVE Informed(p)'
  <2>1. Coming(p) => Coming(p)'
    BY <1>1 DEF BeginSave, Coming, ConfigTypeOK
  <2> QED
    BY <1>0, <1>1, <2>1 DEF BeginSave
<1>2. ASSUME NEW s \in Savers, NEW k \in Keys, PutSetting(s, k) PROVE Informed(p)'
  <2>1. save'[s].at = "putting"
    BY <1>2 DEF PutSetting, ConfigTypeOK
  <2>2. Coming(p)'
    BY <2>1 DEF Coming
  <2> QED
    BY <1>0, <1>2, <2>2 DEF PutSetting
\* It reads a generation no lower than p's, unless something was never announced.
<1>3. ASSUME NEW s \in Savers, ReadGeneration(s) PROVE Informed(p)'
  <2>1. save'[s].at = "bumping" /\ save'[s].read = generation
    BY <1>3 DEF ReadGeneration, ConfigTypeOK
  <2>2. ~unannounced => save'[s].read >= booted'[p]
    BY <1>0, <1>3, <2>1 DEF Numbered, ReadGeneration
  <2>3. ~unannounced => Coming(p)'
    BY <2>1, <2>2 DEF Coming
  <2> QED
    BY <1>0, <1>3, <2>3 DEF ReadGeneration
\* And puts a higher one, or there is one already.
<1>4. ASSUME NEW s \in Savers, PutGeneration(s) PROVE Informed(p)'
  <2>1. save[s].at = "bumping" /\ save[s].read \in Nat
    BY <1>4 DEF PutGeneration, ConfigTypeOK
  <2>2. highest' >= highest /\ highest' >= save[s].read + 1 /\ highest' \in Nat
    BY <1>0, <1>4, <2>1 DEF PutGeneration, Raised
  <2>3. booted[p] <= highest
    BY DEF Numbered
  <2>4. unannounced => (unannounced' \/ booted'[p] < highest')
    BY <1>0, <1>4, <2>1, <2>2, <2>3 DEF PutGeneration, Raised
  <2>5. booted[p] < highest => booted'[p] < highest'
    BY <1>0, <1>4, <2>2 DEF PutGeneration
  <2>6. Coming(p) => (Coming(p)' \/ booted'[p] < highest')
    <3>1. SUFFICES ASSUME NEW q \in Savers,
                          \/ save[q].at = "putting"
                          \/ save[q].at = "bumping" /\ save[q].read >= booted[p]
                   PROVE  Coming(p)' \/ booted'[p] < highest'
      BY DEF Coming
    <3>2. CASE q = s
      BY <1>0, <1>4, <2>1, <2>2, <3>1, <3>2 DEF PutGeneration
    <3>3. CASE q # s
      <4>1. save'[q] = save[q] /\ booted' = booted
        BY <1>4, <3>3 DEF PutGeneration, ConfigTypeOK
      <4> QED
        BY <3>1, <4>1 DEF Coming
    <3> QED
      BY <3>2, <3>3
  <2> QED
    BY <1>0, <1>4, <2>4, <2>5, <2>6 DEF PutGeneration
<1>5. ASSUME NEW s \in Savers, SaveDies(s) PROVE Informed(p)'
  BY <1>0, <1>5 DEF SaveDies
<1>6. ASSUME NEW q \in Processes, ReadOverlay(q) PROVE Informed(p)'
  <2>1. Coming(p) => Coming(p)'
    BY <1>6 DEF ReadOverlay, Coming
  <2> QED
    BY <1>0, <1>6, <2>1 DEF ReadOverlay, ConfigTypeOK
<1>7. ASSUME NEW q \in Processes, RecordGeneration(q) PROVE Informed(p)'
  <2>1. CASE q = p
    BY <1>0, <1>7, <2>1 DEF RecordGeneration, ConfigTypeOK
  <2>2. CASE q # p
    <3>1. booted'[p] = booted[p]
      BY <1>7, <2>2 DEF RecordGeneration, ConfigTypeOK
    <3>2. Coming(p) => Coming(p)'
      BY <1>7, <3>1 DEF RecordGeneration, Coming
    <3> QED
      BY <1>0, <1>7, <2>2, <3>1, <3>2 DEF RecordGeneration, ConfigTypeOK
  <2> QED
    BY <2>1, <2>2
<1>8. ASSUME NEW w \in RunWorkers, WorkerExits(w) PROVE Informed(p)'
  <2>1. Coming(p) => Coming(p)'
    BY <1>8 DEF WorkerExits, Coming
  <2> QED
    BY <1>0, <1>8, <2>1 DEF WorkerExits, ConfigTypeOK
<1>9. CASE Reload
  <2>1. Coming(p) => Coming(p)'
    BY <1>9 DEF Reload, Coming
  <2> QED
    BY <1>0, <1>9, <2>1 DEF Reload, ConfigTypeOK
<1>10. CASE UNCHANGED configVars
  BY <1>0, <1>10 DEF configVars, Coming
<1> QED
  BY <1>1, <1>2, <1>3, <1>4, <1>5, <1>6, <1>7, <1>8, <1>9, <1>10 DEF ConfigNext

\* A process that runs other settings than are stored knows it, once nobody is saving
\* and everything put was announced, unless its boot straddled a put.
THEOREM StaleIsKnownHolds == ConfigSpec => []StaleIsKnown
<1>1. ConfigInit => Numbered /\ AllTold
  BY DEF ConfigInit, Numbered, AllTold, Informed
<1>2. ConfigTypeOK /\ Numbered /\ AllTold => StaleIsKnown
  <2> SUFFICES ASSUME ConfigTypeOK, Numbered, AllTold,
                      \A s \in Savers : save[s].at = "idle", ~unannounced,
                      NEW p \in Processes \ straddled,
                      life[p] = "up", overlay[p] # setting
               PROVE  IsStale(p)
    BY DEF StaleIsKnown
  <2>1. ~Coming(p)
    BY DEF Coming
  <2>2. booted[p] < highest
    BY <2>1 DEF AllTold, Informed
  <2> QED
    BY <2>2 DEF Numbered, IsStale, ConfigTypeOK
<1> QED
  BY <1>1, <1>2, NumberedStep, AllToldStep, ConfigTypeCorrect, PTL DEF ConfigSpec

-----------------------------------------------------------------------------
(* Accounts: any number of them, and of requests at once.                  *)

Underway == [at : {"idle", "setup", "read", "checked"}, what : Changes, whom : Users,
             role : Roles, active : BOOLEAN]

LEMMA NoVisitIsAVisit == NoVisit \in Underway
<1>1. PICK u \in Users : TRUE
  BY AccountAssumption
<1>2. (CHOOSE x \in Users : TRUE) \in Users
  BY <1>1
<1> QED
  BY <1>2 DEF NoVisit, Underway, Changes, Roles

LEMMA VisitSet ==
  ASSUME AccountTypeOK, NEW v \in Visits, NEW new \in Underway, SetVisit(v, new)
  PROVE  /\ visit' \in [Visits -> Underway]
         /\ visit'[v] = new
         /\ \A o \in Visits \ {v} : visit'[o] = visit[o]
BY DEF AccountTypeOK, SetVisit, Underway

\* Every account and request is in a state the code can leave it in.
THEOREM AccountTypeCorrect == AccountSpec => []AccountTypeOK
<1>1. AccountInit => AccountTypeOK
  BY NoVisitIsAVisit DEF AccountInit, AccountTypeOK, Roles, Underway
<1>2. AccountTypeOK /\ [AccountNext]_accountVars => AccountTypeOK'
  <2> SUFFICES ASSUME AccountTypeOK, [AccountNext]_accountVars PROVE AccountTypeOK'
    OBVIOUS
  <2>0. ASSUME NEW v \in Visits, NEW new \in Underway, SetVisit(v, new)
        PROVE  visit' \in [Visits -> Underway]
    BY <2>0, VisitSet
  <2> USE DEF AccountTypeOK
  <2>1. ASSUME NEW v \in Visits, OpenSetup(v) PROVE AccountTypeOK'
    <3>1. [visit[v] EXCEPT !.at = "setup"] \in Underway
      BY DEF Underway
    <3> QED
      BY <2>0, <2>1, <3>1 DEF OpenSetup, Underway
  <2>2. ASSUME NEW v \in Visits, FinishSetup(v) PROVE AccountTypeOK'
    <3>1. visit' \in [Visits -> Underway]
      BY <2>0, <2>2, NoVisitIsAVisit DEF FinishSetup
    <3> QED
      BY <2>2, <3>1 DEF FinishSetup, Underway, Roles, FlagsFollow
  <2>3. ASSUME NEW v \in Visits, UserCreate(v) PROVE AccountTypeOK'
    BY <2>3 DEF UserCreate, FlagsFollow
  <2>4. ASSUME NEW v \in Visits, NEW what \in Changes, NEW u \in Users, NEW r \in Roles,
               UserRead(v, what, u, r)
        PROVE  AccountTypeOK'
    <3> DEFINE new == [at |-> "read", what |-> what, whom |-> u, role |-> r,
                       active |-> what = "profile" /\ account[u] = "active"]
    <3>1. new \in Underway
      BY DEF Underway
    <3>2. SetVisit(v, new) /\ UNCHANGED <<account, role, super, marked, overtaken>>
      BY <2>4 DEF UserRead
    <3> HIDE DEF new
    <3>3. visit' \in [Visits -> Underway]
      BY <2>0, <3>1, <3>2
    <3> QED
      BY <3>2, <3>3 DEF Underway
  <2>5. ASSUME NEW v \in Visits, UserCheck(v) PROVE AccountTypeOK'
    <3>1. [visit[v] EXCEPT !.at = "checked"] \in Underway
      BY DEF Underway
    <3>2. visit' \in [Visits -> Underway]
      BY <2>0, <2>5, <3>1, NoVisitIsAVisit DEF UserCheck
    <3> QED
      BY <2>5, <3>2 DEF UserCheck, Underway
  <2>6. ASSUME NEW v \in Visits, SaveProfile(v) \/ SetActive(v) \/ DeleteUser(v)
        PROVE  AccountTypeOK'
    <3>1. visit' \in [Visits -> Underway]
      BY <2>0, <2>6, NoVisitIsAVisit DEF SaveProfile, SetActive, DeleteUser
    <3>2. account' \in [Users -> {"none", "active", "inactive", "removed"}]
      BY <2>6 DEF SaveProfile, SetActive, DeleteUser
    <3>3. role' \in [Users -> Roles]
      <4>1. visit[v].whom \in Users /\ visit[v].role \in Roles /\ "member" \in Roles
        BY DEF Roles
      <4>2. \E r \in Roles : role' = role \/ role' = [role EXCEPT ![visit[v].whom] = r]
        BY <2>6, <4>1 DEF SaveProfile, SetActive, DeleteUser
      <4> QED
        BY <4>1, <4>2
    <3>4. overtaken' \in BOOLEAN
      BY <2>6 DEF SaveProfile, SetActive, DeleteUser
    <3>5. marked' = marked
      BY <2>6 DEF SaveProfile, SetActive, DeleteUser
    <3>6. super' \subseteq Users
      <4>1. visit[v].whom \in Users
        OBVIOUS
      <4>2. \/ super' = super \/ super' = super \ {visit[v].whom}
            \/ super' = super \cup {visit[v].whom}
        BY <2>6 DEF SaveProfile, SetActive, DeleteUser, FlagsFollow
      <4> QED
        BY <4>1, <4>2
    <3> QED
      BY <3>1, <3>2, <3>3, <3>4, <3>5, <3>6 DEF Underway
  <2>7. ASSUME NEW u \in Users, Works(u) PROVE AccountTypeOK'
    BY <2>7 DEF Works
  <2>8. ASSUME NEW u \in Users, AdminSite(u) PROVE AccountTypeOK'
    BY <2>8 DEF AdminSite, Underway
  <2>9. CASE UNCHANGED accountVars
    BY <2>9 DEF accountVars
  <2> QED
    BY <2>1, <2>2, <2>3, <2>4, <2>5, <2>6, <2>7, <2>8, <2>9 DEF AccountNext
<1> QED
  BY <1>1, <1>2, PTL DEF AccountSpec

\* A change that takes somebody away and is past its check leaves somebody else.
Spared(v) ==
  (visit[v].at = "checked" /\ TakesAway(visit[v]))
    => \E u \in Users \ {visit[v].whom} : Administers(u)

AccInv ==
  /\ \A v \in Visits : visit[v].at \in {"read", "checked"} => account[visit[v].whom] # "none"
  /\ SomebodyManages
  /\ ~overtaken => \A v \in Visits : Spared(v)

\* Requests that only become idle, or go on as they were, are spared as long as whoever
\* managed still does.
LEMMA StillSpared ==
  ASSUME AccountTypeOK, AccInv, AccountTypeOK', overtaken' = overtaken,
         \A u \in Users : Administers(u) => Administers(u)',
         \A u \in Users : account[u] # "none" => account'[u] # "none",
         (\E u \in Users : account'[u] # "none")
           => \/ \E u \in Users : account[u] # "none"
              \/ \E u \in Users : Administers(u)',
         \A v \in Visits : visit'[v] = visit[v] \/ visit'[v].at \in {"idle", "setup"}
  PROVE  AccInv'
<1>1. ASSUME NEW v \in Visits, visit'[v].at \in {"read", "checked"}
      PROVE  account'[visit'[v].whom] # "none"
  <2>1. visit'[v] = visit[v]
    BY <1>1
  <2>2. visit[v].whom \in Users /\ account[visit[v].whom] # "none"
    BY <1>1, <2>1 DEF AccInv, AccountTypeOK
  <2> QED
    BY <2>1, <2>2
<1>2. SomebodyManages'
  BY DEF AccInv, SomebodyManages
<1>3. ASSUME ~overtaken', NEW v \in Visits PROVE Spared(v)'
  <2>1. CASE visit'[v] = visit[v]
    BY <1>3, <2>1 DEF AccInv, Spared, TakesAway
  <2>2. CASE visit'[v].at \in {"idle", "setup"}
    BY <2>2 DEF Spared
  <2> QED
    BY <2>1, <2>2
<1> QED
  BY <1>1, <1>2, <1>3 DEF AccInv

LEMMA AccStep ==
  AccountTypeOK /\ AccountTypeOK' /\ AccInv /\ [AccountNext]_accountVars => AccInv'
<1> SUFFICES ASSUME AccountTypeOK, AccountTypeOK', AccInv, [AccountNext]_accountVars
             PROVE  AccInv'
  OBVIOUS
<1>0. NoVisit.at = "idle" /\ NoVisit \in Underway
  BY NoVisitIsAVisit DEF NoVisit
<1>1. ASSUME NEW v \in Visits, OpenSetup(v) PROVE AccInv'
  <2>1. [visit[v] EXCEPT !.at = "setup"] \in Underway
    BY DEF AccountTypeOK, Underway
  <2>2. visit'[v].at = "setup" /\ \A o \in Visits \ {v} : visit'[o] = visit[o]
    BY <1>1, <2>1, VisitSet DEF OpenSetup, AccountTypeOK
  <2> QED
    BY <1>1, <2>2, StillSpared DEF OpenSetup, Administers
<1>2. ASSUME NEW v \in Visits, FinishSetup(v) PROVE AccInv'
  <2>1. visit'[v].at = "idle" /\ \A o \in Visits \ {v} : visit'[o] = visit[o]
    BY <1>0, <1>2, VisitSet DEF FinishSetup
  <2>2. PICK u \in Users : /\ account[u] = "none"
                           /\ account' = [account EXCEPT ![u] = "active"]
                           /\ role' = [role EXCEPT ![u] = "admin"]
    BY <1>2 DEF FinishSetup
  <2>3. Administers(u)' /\ \A w \in Users : Administers(w) => Administers(w)'
    BY <2>2 DEF Administers, AccountTypeOK
  <2>4. \A w \in Users : account[w] # "none" => account'[w] # "none"
    BY <2>2 DEF AccountTypeOK
  <2>5. overtaken' = overtaken
    BY <1>2 DEF FinishSetup
  <2> QED
    BY <2>1, <2>3, <2>4, <2>5, StillSpared
<1>3. ASSUME NEW v \in Visits, UserCreate(v) PROVE AccInv'
  <2>1. PICK u \in Users, r \in Roles : /\ account[u] = "none"
                                        /\ account' = [account EXCEPT ![u] = "active"]
                                        /\ role' = [role EXCEPT ![u] = r]
    BY <1>3 DEF UserCreate
  <2>2. \A w \in Users : Administers(w) => Administers(w)'
    BY <2>1 DEF Administers, AccountTypeOK
  <2>3. \A w \in Users : account[w] # "none" => account'[w] # "none"
    BY <2>1 DEF AccountTypeOK
  <2>4. PICK by \in Users : account[by] = "active"
    BY <1>3 DEF UserCreate, Manages
  <2>5. overtaken' = overtaken /\ visit' = visit
    BY <1>3 DEF UserCreate
  <2> QED
    BY <2>2, <2>3, <2>4, <2>5, StillSpared DEF Administers
<1>4. ASSUME NEW v \in Visits, NEW what \in Changes, NEW u \in Users, NEW r \in Roles,
             UserRead(v, what, u, r)
      PROVE  AccInv'
  <2> DEFINE new == [at |-> "read", what |-> what, whom |-> u, role |-> r,
                     active |-> what = "profile" /\ account[u] = "active"]
  <2>1. new \in Underway /\ new.at = "read" /\ new.whom = u
    BY DEF Underway
  <2>2. SetVisit(v, new) /\ Row(u) /\ UNCHANGED <<account, role, super, marked, overtaken>>
    BY <1>4 DEF UserRead
  <2> HIDE DEF new
  <2>3. visit'[v] = new /\ \A o \in Visits \ {v} : visit'[o] = visit[o]
    BY <2>1, <2>2, VisitSet
  <2>4. SomebodyManages'
    BY <2>2 DEF AccInv, SomebodyManages, Administers
  <2>5. \A o \in Visits : visit'[o].at \in {"read", "checked"} => account'[visit'[o].whom] # "none"
    BY <2>1, <2>2, <2>3 DEF AccInv, Row
  <2>6. ~overtaken' => \A o \in Visits : Spared(o)'
    BY <2>1, <2>2, <2>3 DEF AccInv, Spared, TakesAway, Administers
  <2> QED
    BY <2>4, <2>5, <2>6 DEF AccInv
<1>5. ASSUME NEW v \in Visits, UserCheck(v) PROVE AccInv'
  <2> DEFINE w == visit[v]
             new == [w EXCEPT !.at = "checked"]
  <2>1. /\ new \in Underway /\ new.at = "checked" /\ new.whom = w.whom
        /\ TakesAway(new) = TakesAway(w)
    BY DEF AccountTypeOK, Underway, TakesAway
  <2>2. /\ w.at = "read" /\ UNCHANGED <<account, role, super, marked, overtaken>>
        /\ \/ SetVisit(v, NoVisit)
           \/ SetVisit(v, new) /\ (TakesAway(w) => ~LastAdmin(w))
    BY <1>5 DEF UserCheck
  <2>3. w.whom \in Users /\ account[w.whom] # "none"
    BY <2>2 DEF AccInv, AccountTypeOK
  <2> HIDE DEF w, new
  <2>4. CASE SetVisit(v, NoVisit)
    <3>1. visit'[v].at = "idle" /\ \A o \in Visits \ {v} : visit'[o] = visit[o]
      BY <1>0, <2>4, VisitSet
    <3> QED
      BY <2>2, <3>1, StillSpared DEF Administers
  <2>5. CASE SetVisit(v, new) /\ (TakesAway(w) => ~LastAdmin(w))
    <3>1. visit'[v] = new /\ \A o \in Visits \ {v} : visit'[o] = visit[o]
      BY <2>1, <2>5, VisitSet
    <3>2. SomebodyManages'
      BY <2>2 DEF AccInv, SomebodyManages, Administers
    <3>3. \A o \in Visits : visit'[o].at \in {"read", "checked"} => account'[visit'[o].whom] # "none"
      BY <2>1, <2>2, <2>3, <3>1 DEF AccInv
    <3>4. ASSUME ~overtaken', TakesAway(w) PROVE \E u \in Users \ {w.whom} : Administers(u)
      <4>1. \E u \in Users : Administers(u)
        BY <2>2, <2>3, <3>4 DEF AccInv, SomebodyManages
      <4>2. ~LastAdmin(w)
        BY <2>5, <3>4
      <4> QED
        BY <2>3, <4>1, <4>2 DEF LastAdmin
    <3>5. ASSUME ~overtaken', NEW o \in Visits PROVE Spared(o)'
      <4>1. CASE o = v
        BY <2>1, <2>2, <3>1, <3>4, <3>5, <4>1 DEF Spared, Administers
      <4>2. CASE o # v
        BY <2>2, <3>1, <3>5, <4>2 DEF AccInv, Spared, TakesAway, Administers
      <4> QED
        BY <4>1, <4>2
    <3> QED
      BY <3>2, <3>3, <3>5 DEF AccInv
  <2> QED
    BY <2>2, <2>4, <2>5
<1>6. ASSUME NEW v \in Visits, SaveProfile(v) \/ SetActive(v) \/ DeleteUser(v)
      PROVE  AccInv'
  <2> DEFINE w == visit[v]
  <2>1. visit'[v].at = "idle" /\ \A o \in Visits \ {v} : visit'[o] = visit[o]
    BY <1>0, <1>6, VisitSet DEF SaveProfile, SetActive, DeleteUser
  <2>2. w.at = "checked" /\ w.whom \in Users /\ w.role \in Roles /\ w.what \in Changes
    BY <1>6 DEF SaveProfile, SetActive, DeleteUser, AccountTypeOK
  <2>3. \A u \in Users \ {w.whom} : account'[u] = account[u] /\ role'[u] = role[u]
    BY <1>6 DEF SaveProfile, SetActive, DeleteUser, AccountTypeOK
  <2>4. account[w.whom] # "none"
    BY <2>2 DEF AccInv
  <2>5. account'[w.whom] # "none"
    BY <1>6, <2>2, <2>4 DEF SaveProfile, SetActive, DeleteUser, AccountTypeOK
  <2>6. \A u \in Users : account[u] # "none" => account'[u] # "none"
    BY <2>3, <2>5
  <2>7. \A o \in Visits : visit'[o].at \in {"read", "checked"} => account'[visit'[o].whom] # "none"
    BY <2>1, <2>6 DEF AccInv, AccountTypeOK
  <2>8. ~overtaken' => ~overtaken /\ ~Meets(v)
    BY <1>6 DEF SaveProfile, SetActive, DeleteUser, AccountTypeOK
  <2>9. ASSUME ~overtaken', TakesAway(w) PROVE SomebodyManages' /\ \A o \in Visits : Spared(o)'
    <3>1. PICK u \in Users \ {w.whom} : Administers(u)
      BY <2>2, <2>8, <2>9 DEF AccInv, Spared
    <3>2. Administers(u)'
      BY <2>3, <3>1 DEF Administers
    <3>3. \A o \in Visits \ {v} : ~(visit[o].at = "checked" /\ TakesAway(visit[o]))
      BY <2>8, <2>9 DEF Meets
    <3>4. \A o \in Visits : Spared(o)'
      BY <2>1, <3>3 DEF Spared, TakesAway
    <3> QED
      BY <3>2, <3>4 DEF SomebodyManages
  <2>10. ASSUME ~overtaken', ~TakesAway(w)
         PROVE  SomebodyManages' /\ \A o \in Visits : Spared(o)'
    <3>1. \/ SaveProfile(v) /\ w.role = "admin" /\ w.active = (account[w.whom] = "active")
          \/ SetActive(v) /\ w.what = "activate"
      BY <1>6, <2>2, <2>10 DEF SaveProfile, SetActive, DeleteUser, TakesAway, AccountTypeOK,
         Changes
    <3>2. ASSUME NEW u \in Users, u = w.whom, Administers(u) PROVE Administers(u)'
      <4>1. CASE SaveProfile(v) /\ w.role = "admin" /\ w.active = (account[w.whom] = "active")
        BY <3>2, <4>1 DEF SaveProfile, Administers, AccountTypeOK
      <4>2. CASE SetActive(v) /\ w.what = "activate"
        BY <3>2, <4>2 DEF SetActive, Administers, AccountTypeOK, Row
      <4> QED
        BY <3>1, <4>1, <4>2
    <3>3. \A u \in Users : Administers(u) => Administers(u)'
      BY <2>3, <3>2 DEF Administers
    <3>4. \E u \in Users : Administers(u)
      BY <2>2, <2>4, <2>8, <2>10 DEF AccInv, SomebodyManages
    <3>5. SomebodyManages'
      BY <3>3, <3>4 DEF SomebodyManages
    <3>6. ASSUME NEW o \in Visits PROVE Spared(o)'
      <4>1. CASE o = v
        BY <2>1, <4>1 DEF Spared
      <4>2. CASE o # v
        BY <2>1, <2>8, <2>10, <3>3, <4>2 DEF AccInv, Spared, TakesAway
      <4> QED
        BY <4>1, <4>2
    <3> QED
      BY <3>5, <3>6
  <2>11. CASE overtaken'
    BY <2>7, <2>11 DEF AccInv, SomebodyManages
  <2> QED
    BY <2>7, <2>9, <2>10, <2>11 DEF AccInv
<1>7. ASSUME NEW u \in Users, Works(u) PROVE AccInv'
  BY <1>7, StillSpared DEF Works, Administers
<1>8. ASSUME NEW u \in Users, AdminSite(u) PROVE AccInv'
  <2>1. PICK becomes \in {"active", "inactive", "removed"}, r \in Roles :
          /\ account' = [account EXCEPT ![u] = becomes]
          /\ role' = [role EXCEPT ![u] = r]
          /\ overtaken' = (overtaken \/ (/\ Administers(u) /\ WouldStrand(u)
                                         /\ ~(becomes = "active" /\ r = "admin")))
    BY <1>8 DEF AdminSite
  <2>2. visit' = visit /\ \E by \in Users : account[by] = "active"
    BY <1>8 DEF AdminSite, AccountTypeOK
  <2>3. \A o \in Users \ {u} : account'[o] = account[o] /\ (Administers(o)' <=> Administers(o))
    BY <2>1 DEF Administers, AccountTypeOK
  <2>4. account'[u] = becomes /\ (Administers(u)' <=> (becomes = "active" /\ r = "admin"))
    BY <2>1 DEF Administers, AccountTypeOK
  <2>5. \A v \in Visits : visit'[v].at \in {"read", "checked"} => account'[visit'[v].whom] # "none"
    BY <2>2, <2>3, <2>4 DEF AccInv, AccountTypeOK
  <2>6. ASSUME ~overtaken' PROVE SomebodyManages' /\ \A v \in Visits : Spared(v)'
    <3>1. ~overtaken /\ (Administers(u)' \/ ~Administers(u) \/ ~WouldStrand(u))
      BY <2>1, <2>4, <2>6 DEF AccountTypeOK
    <3>2. PICK one \in Users : Administers(one)
      BY <2>2, <3>1 DEF AccInv, SomebodyManages
    <3>3. CASE Administers(u)' \/ ~Administers(u)
      <4>1. \A o \in Users : Administers(o) => Administers(o)'
        BY <2>3, <3>3
      <4>2. ASSUME NEW v \in Visits PROVE Spared(v)'
        BY <2>2, <3>1, <4>1 DEF AccInv, Spared, TakesAway
      <4> QED
        BY <3>2, <4>1, <4>2 DEF SomebodyManages
    <3>4. CASE ~WouldStrand(u)
      <4>1. PICK o \in Users \ {u} : Administers(o)
        BY <3>4 DEF WouldStrand
      <4>2. ASSUME NEW v \in Visits PROVE Spared(v)'
        BY <2>2, <3>4 DEF WouldStrand, Spared, TakesAway
      <4> QED
        BY <2>3, <4>1, <4>2 DEF SomebodyManages
    <3> QED
      BY <3>1, <3>3, <3>4
  <2> QED
    BY <2>5, <2>6 DEF AccInv, SomebodyManages
<1>9. CASE UNCHANGED accountVars
  BY <1>9, StillSpared DEF accountVars, Administers
<1> QED
  BY <1>1, <1>2, <1>3, <1>4, <1>5, <1>6, <1>7, <1>8, <1>9 DEF AccountNext

\* For any accounts and any number of requests at once, beside Django's admin, the shop
\* has an active administrator once it is set up, unless two changes that take somebody
\* away met, a profile was saved over a change of its account, or the last administrator
\* was edited away in Django's admin.
THEOREM SomebodyManagesHolds == AccountSpec => []SomebodyManages
<1>1. AccountInit => AccInv
  <2> SUFFICES ASSUME AccountInit PROVE AccInv
    OBVIOUS
  <2>1. \A v \in Visits : visit[v].at = "idle"
    BY DEF AccountInit, NoVisit
  <2>2. SomebodyManages
    BY DEF AccountInit, SomebodyManages
  <2> QED
    BY <2>1, <2>2 DEF AccInv, Spared
<1>2. AccInv => SomebodyManages
  BY DEF AccInv
<1> QED
  BY <1>1, <1>2, AccStep, AccountTypeCorrect, PTL DEF AccountSpec

-----------------------------------------------------------------------------
(***************************************************************************)
(* Reminders, for any channels, alerts, cooldown and any number of deaths. *)
(* The record of an alert on a channel is never older than its last        *)
(* delivery, except while that delivery waits to be recorded, or was never  *)
(* recorded: so whatever the record lets through again was heard a cooldown *)
(* ago.                                                                    *)
(***************************************************************************)

LEMMA DigestIsFound ==
  ASSUME RemTypeOK, NEW c \in Channels PROVE DigestFor(c) \subseteq Alerts
BY RemindersAssumption DEF RemTypeOK, DigestFor

LEMMA ToldArePairs ==
  ASSUME NEW c \in Channels, NEW S \in SUBSET Alerts
  PROVE  Told(c, S) \subseteq Pairs
BY DEF Told, Pairs

LEMMA AfterIsARun ==
  ASSUME RemTypeOK, NEW c
  PROVE  After(c) \in [on : BOOLEAN, left : SUBSET Channels]
<1>1. run \in [on : BOOLEAN, left : SUBSET Channels]
  BY DEF RemTypeOK
<1>2. NoRun \in [on : BOOLEAN, left : SUBSET Channels]
  BY DEF NoRun
<1>3. [run EXCEPT !.left = @ \ {c}] \in [on : BOOLEAN, left : SUBSET Channels]
  BY <1>1
<1> QED
  BY <1>2, <1>3 DEF After

LEMMA OlderIsAnAge ==
  ASSUME NEW age \in [Pairs -> 0..Cooldown]
  PROVE  Older(age) \in [Pairs -> 0..Cooldown]
<1>1. Cooldown \in Nat
  BY RemindersAssumption
<1> QED
  BY <1>1 DEF Older

LEMMA ArrivesTypes ==
  ASSUME RemTypeOK, NEW c \in Channels, Arrives(c)
  PROVE  /\ heard' \in [Pairs -> 0..Cooldown] /\ twice' \subseteq Pairs
         /\ DigestFor(c) \subseteq Alerts /\ Told(c, DigestFor(c)) \subseteq Pairs
<1> DEFINE now == Told(c, DigestFor(c))
<1>1. now \subseteq Pairs /\ DigestFor(c) \subseteq Alerts
  BY DigestIsFound, ToldArePairs
<1>2. /\ heard' = [p \in Pairs |-> IF p \in now THEN 0 ELSE heard[p]]
      /\ twice' = twice \cup {p \in now \ unrecorded : heard[p] < Cooldown}
  BY DEF Arrives
<1> HIDE DEF now
<1>3. heard' \in [Pairs -> 0..Cooldown]
  BY <1>2, RemindersAssumption DEF RemTypeOK
<1>4. twice' \subseteq Pairs
  BY <1>1, <1>2 DEF RemTypeOK
<1> QED
  BY <1>1, <1>3, <1>4 DEF now

\* Ages, the run and the digest under way are ones the code can reach.
THEOREM RemTypeCorrect == RemSpec => []RemTypeOK
<1>0. Cooldown \in Nat \ {0} /\ MaxDeaths \in Nat
  BY RemindersAssumption
<1>1. RemInit => RemTypeOK
  BY <1>0 DEF RemInit, RemTypeOK, NoRun
<1>2. RemTypeOK /\ [RemNext]_remVars => RemTypeOK'
  <2> SUFFICES ASSUME RemTypeOK, [RemNext]_remVars PROVE RemTypeOK'
    OBVIOUS
  <2>1. ASSUME NEW a \in Alerts, Change(a) PROVE RemTypeOK'
    BY <2>1 DEF Change, RemTypeOK
  <2>2. ASSUME NEW c \in Channels, Toggle(c) PROVE RemTypeOK'
    BY <2>2 DEF Toggle, RemTypeOK
  <2>3. ASSUME NEW c \in Channels, Skip(c) PROVE RemTypeOK'
    <3>1. run' \in [on : BOOLEAN, left : SUBSET Channels]
      BY <2>3, AfterIsARun DEF Skip
    <3> QED
      BY <2>3, <3>1 DEF Skip, RemTypeOK
  <2>4. ASSUME NEW c \in Channels, Send(c) PROVE RemTypeOK'
    BY <2>4, ArrivesTypes DEF Send, RemTypeOK
  <2>5. ASSUME NEW c \in Channels, Fail(c) PROVE RemTypeOK'
    <3>1. run' \in [on : BOOLEAN, left : SUBSET Channels]
      BY <2>5, AfterIsARun DEF Fail
    <3>2. CASE UNCHANGED <<heard, twice, unrecorded>>
      BY <2>5, <3>1, <3>2 DEF Fail, RemTypeOK
    <3>3. CASE Arrives(c) /\ unrecorded' = unrecorded \cup Told(c, DigestFor(c))
      <4>1. /\ heard' \in [Pairs -> 0..Cooldown] /\ twice' \subseteq Pairs
            /\ unrecorded' \subseteq Pairs
        BY <3>3, ArrivesTypes DEF RemTypeOK
      <4> QED
        BY <2>5, <3>1, <4>1 DEF Fail, RemTypeOK
    <3> QED
      BY <2>5, <3>2, <3>3 DEF Fail
  <2>6. CASE DayPasses
    <3>1. recorded' \in [Pairs -> 0..Cooldown] /\ heard' \in [Pairs -> 0..Cooldown]
      BY <2>6, OlderIsAnAge DEF DayPasses, RemTypeOK
    <3> QED
      BY <2>6, <3>1 DEF DayPasses, RemTypeOK
  <2>7. CASE StartRun
    BY <2>7 DEF StartRun, RemTypeOK
  <2>8. CASE Record
    <3>1. run' \in [on : BOOLEAN, left : SUBSET Channels]
      BY <2>8, AfterIsARun DEF Record
    <3>2. recorded' \in [Pairs -> 0..Cooldown]
      BY <1>0, <2>8 DEF Record, RemTypeOK
    <3> QED
      BY <2>8, <3>1, <3>2 DEF Record, RemTypeOK
  <2>9. CASE Die
    <3>1. unrecorded' \subseteq Pairs
      BY <2>9, ToldArePairs DEF Die, RemTypeOK
    <3>2. deaths' \in 0..MaxDeaths
      BY <1>0, <2>9 DEF Die, RemTypeOK
    <3> QED
      BY <2>9, <3>1, <3>2 DEF Die, RemTypeOK, NoRun
  <2>10. CASE UNCHANGED remVars
    BY <2>10 DEF remVars, RemTypeOK
  <2> QED
    BY <2>1, <2>2, <2>3, <2>4, <2>5, <2>6, <2>7, <2>8, <2>9, <2>10 DEF RemNext
<1> QED
  BY <1>1, <1>2, PTL DEF RemSpec

-----------------------------------------------------------------------------
\* p has just been said and the record is being written.
BeingRecorded(p) == telling # NoChannel /\ p \in Told(telling, message)

\* The record is as new as the delivery.
Covered(p) == BeingRecorded(p) \/ recorded[p] <= heard[p]

RecordCovers == \A p \in Pairs \ unrecorded : Covered(p)

LEMMA CoversStep ==
  RemTypeOK /\ RecordCovers /\ [RemNext]_remVars => RecordCovers'
<1> SUFFICES ASSUME RemTypeOK, RecordCovers, [RemNext]_remVars,
                    NEW p \in Pairs, p \notin unrecorded'
             PROVE  Covered(p)'
  BY DEF RecordCovers, Pairs
<1>0. Cooldown \in Nat \ {0} /\ recorded[p] \in 0..Cooldown /\ heard[p] \in 0..Cooldown
  BY RemindersAssumption DEF RemTypeOK
<1>1. p \notin unrecorded => Covered(p)
  BY DEF RecordCovers
<1>2. ASSUME UNCHANGED <<telling, message, recorded, heard, unrecorded>> PROVE Covered(p)'
  BY <1>1, <1>2 DEF Covered, BeingRecorded, Told
<1>3. ASSUME NEW c \in Channels, Send(c) PROVE Covered(p)'
  <2>1. telling = NoChannel /\ telling' = c /\ message' = DigestFor(c)
    BY <1>3 DEF Send
  <2>2. telling' # NoChannel
    BY <2>1, RemindersAssumption
  <2>3. CASE p \in Told(c, DigestFor(c))
    BY <2>1, <2>2, <2>3 DEF Covered, BeingRecorded, Told
  <2>4. CASE p \notin Told(c, DigestFor(c))
    <3>1. heard'[p] = heard[p] /\ recorded' = recorded /\ unrecorded' = unrecorded
      BY <1>3, <2>4 DEF Send, Arrives
    <3> QED
      BY <1>1, <2>1, <3>1 DEF Covered, BeingRecorded
  <2> QED
    BY <2>3, <2>4
<1>4. CASE Record
  <2>1. CASE p \in Told(telling, message)
    <3>1. recorded'[p] = 0 /\ heard' = heard
      BY <1>4, <2>1 DEF Record
    <3> QED
      BY <1>0, <3>1 DEF Covered
  <2>2. CASE p \notin Told(telling, message)
    <3>1. recorded'[p] = recorded[p] /\ heard' = heard /\ p \notin unrecorded
      BY <1>4, <2>2 DEF Record
    <3> QED
      BY <1>1, <2>2, <3>1 DEF Covered, BeingRecorded
  <2> QED
    BY <2>1, <2>2
<1>5. CASE DayPasses
  <2>1. /\ recorded'[p] = IF recorded[p] < Cooldown THEN recorded[p] + 1 ELSE recorded[p]
        /\ heard'[p] = IF heard[p] < Cooldown THEN heard[p] + 1 ELSE heard[p]
    BY <1>5 DEF DayPasses, Older
  <2>2. recorded[p] <= heard[p] => recorded'[p] <= heard'[p]
    BY <1>0, <2>1
  <2>3. BeingRecorded(p) => BeingRecorded(p)'
    BY <1>5 DEF DayPasses, BeingRecorded, Told
  <2> QED
    BY <1>1, <1>5, <2>2, <2>3 DEF DayPasses, Covered
<1>6. CASE Die
  <2>1. ~BeingRecorded(p) /\ p \notin unrecorded
    BY <1>6 DEF Die, BeingRecorded
  <2> QED
    BY <1>1, <1>6, <2>1 DEF Die, Covered
<1>7. ASSUME NEW a \in Alerts, Change(a) PROVE Covered(p)'
  BY <1>2, <1>7 DEF Change
<1>8. ASSUME NEW c \in Channels, Toggle(c) \/ Skip(c) \/ Fail(c) PROVE Covered(p)'
  <2>1. CASE UNCHANGED <<heard, unrecorded>>
    BY <1>2, <1>8, <2>1 DEF Toggle, Skip, Fail
  <2>2. CASE /\ Arrives(c) /\ telling' = telling /\ message' = message /\ recorded' = recorded
             /\ unrecorded' = unrecorded \cup Told(c, DigestFor(c))
    <3>1. p \notin Told(c, DigestFor(c)) /\ p \notin unrecorded
      BY <2>2
    <3>2. heard'[p] = heard[p]
      BY <2>2, <3>1 DEF Arrives
    <3> QED
      BY <1>1, <2>2, <3>1, <3>2 DEF Covered, BeingRecorded, Told
  <2> QED
    BY <1>8, <2>1, <2>2 DEF Toggle, Skip, Fail
<1>9. CASE StartRun \/ UNCHANGED remVars
  BY <1>2, <1>9 DEF StartRun, remVars
<1> QED
  BY <1>3, <1>4, <1>5, <1>6, <1>7, <1>8, <1>9 DEF RemNext

LEMMA ToldOnceStep ==
  RemTypeOK /\ RecordCovers /\ ToldOnce /\ [RemNext]_remVars => ToldOnce'
<1> SUFFICES ASSUME RemTypeOK, RecordCovers, ToldOnce, [RemNext]_remVars PROVE ToldOnce'
  OBVIOUS
\* What the record lets through was not said within the cooldown, or never recorded.
<1>1. ASSUME NEW c \in Channels, Arrives(c), telling = NoChannel PROVE ToldOnce'
  <2>1. SUFFICES ASSUME NEW p \in Told(c, DigestFor(c)), heard[p] < Cooldown,
                        p \notin unrecorded
                 PROVE  FALSE
    BY <1>1 DEF Arrives, ToldOnce
  <2>2. PICK a \in DigestFor(c) : p = <<c, a>>
    BY DEF Told
  <2>3. a \in Alerts /\ ~(recorded[p] < Cooldown)
    BY <2>2, RemindersAssumption DEF DigestFor, AlreadySaid, RemTypeOK
  <2>4. p \in Pairs
    BY <2>2, <2>3 DEF Pairs
  <2>5. Cooldown \in Nat /\ recorded[p] \in 0..Cooldown /\ heard[p] \in 0..Cooldown
    BY <2>4, RemindersAssumption DEF RemTypeOK
  <2>6. Covered(p) /\ telling = NoChannel
    BY <1>1, <2>1, <2>4 DEF RecordCovers
  <2> QED
    BY <2>1, <2>3, <2>5, <2>6 DEF Covered, BeingRecorded
<1>2. CASE Die
  BY <1>2 DEF Die, ToldOnce
<1>3. ASSUME NEW c \in Channels, Toggle(c) \/ Skip(c) \/ Send(c) \/ Fail(c)
      PROVE  ToldOnce'
  BY <1>1, <1>3 DEF Toggle, Skip, Send, Fail, ToldOnce
<1>4. CASE \/ \E a \in Alerts : Change(a)
           \/ StartRun \/ Record \/ DayPasses \/ UNCHANGED remVars
  BY <1>4 DEF Change, StartRun, Record, DayPasses, remVars, ToldOnce
<1> QED
  BY <1>2, <1>3, <1>4 DEF RemNext

\* A channel hears nothing twice within the cooldown whose last telling is on record,
\* however often the worker dies and however many sends raise after they arrived.
THEOREM ToldOnceHolds == RemSpec => []ToldOnce
<1>1. RemInit => RecordCovers /\ ToldOnce
  BY RemindersAssumption DEF RemInit, RecordCovers, Covered, ToldOnce
<1> QED
  BY <1>1, CoversStep, ToldOnceStep, RemTypeCorrect, PTL DEF RemSpec

-----------------------------------------------------------------------------
(***************************************************************************)
(* LubeLoggerSync, for any records, calendar, number of syncs and of       *)
(* troubles.  That a reading is sent no more often than there are syncs    *)
(* needs an account of each: until it is marked, every time it was sent and *)
(* not given up for unnoted has a sync that still holds it; once it is,     *)
(* only the syncs that listed it before can send it again, each once.      *)
(* That nothing falls behind the window needs to know, of each sync, what  *)
(* it would spare if it moved the marker, and of the records before the    *)
(* window, that none can re-enter it when a sync begun yesterday sets the   *)
(* marker back (WindowInv).                                                *)
(***************************************************************************)

LEMMA Calendar == MaxDay \in Nat /\ 0 \in Dates /\ Dates \subseteq Int
BY LubeAssumption DEF Dates

LEMMA WindowIsADay ==
  ASSUME NEW m \in Dates \cup {NoDate}, NEW now \in Dates PROVE WindowStart(m, now) \in Int
<1>1. FirstRun \in Int /\ Overlap \in Int
  BY LubeAssumption
<1> QED
  BY <1>1, Calendar DEF WindowStart

LEMMA RestIsASync == Rest \in Syncs
BY Calendar DEF Rest, Syncs

LEMMA GoingIsASync ==
  ASSUME LubeTypeOK, NEW s \in Syncers, NEW q \in SUBSET Readings, NEW n \in SUBSET Readings
  PROVE  Going(s, q, n) \in Syncs
<1>1. sync[s].started \in Dates
  BY DEF LubeTypeOK, Syncs
<1>2. Pushing(s, q, n) \in Syncs
  BY <1>1, Calendar DEF Pushing, Rest, Syncs
<1> QED
  BY <1>2, RestIsASync DEF Going

\* What a push does next is told by what it has left.
LEMMA GoingHolds ==
  ASSUME NEW s, NEW q, NEW n
  PROVE  /\ Going(s, q, n).queue = q
         /\ Going(s, q, n).now = n
         /\ Going(s, q, n).at # "pushing" => n = {}
BY DEF Going, Pushing, Rest

\* Every sync, marker and count is in a state the code can leave it in.
THEOREM LubeTypeCorrect == LubeSpec => []LubeTypeOK
<1>0. MaxTroubles \in Nat
  BY LubeAssumption
<1>1. LubeInit => LubeTypeOK
  BY <1>0, Calendar, RestIsASync DEF LubeInit, LubeTypeOK
<1>2. LubeTypeOK /\ [LubeNext]_lubeVars => LubeTypeOK'
  <2> SUFFICES ASSUME LubeTypeOK, [LubeNext]_lubeVars PROVE LubeTypeOK'
    OBVIOUS
  <2>0. ASSUME NEW s \in Syncers, NEW new \in Syncs, SetSync(s, new)
        PROVE  sync' \in [Syncers -> Syncs]
    BY <2>0 DEF SetSync, LubeTypeOK
  <2>1. ASSUME NEW e \in Records, NEW d \in Dates \cup {NoDate}, EnterRecord(e, d)
        PROVE  LubeTypeOK'
    BY <2>1 DEF EnterRecord, LubeTypeOK
  <2>2. CASE Tomorrow
    <3>1. today' \in Dates
      BY <2>2, Calendar DEF Tomorrow, LubeTypeOK, Dates
    <3> QED
      BY <2>2, <3>1 DEF Tomorrow, LubeTypeOK
  <2>3. ASSUME NEW s \in Syncers, Begin(s) PROVE LubeTypeOK'
    <3> DEFINE new == [Rest EXCEPT !.at = "reading", !.started = today,
                         !.since = WindowStart(marker, today), !.todo = Endpoints]
    <3>1. new \in Syncs
      <4>1. WindowStart(marker, today) \in Int /\ today \in Dates
        BY WindowIsADay DEF LubeTypeOK
      <4> QED
        BY <4>1 DEF Rest, Syncs
    <3>2. SetSync(s, new)
      BY <2>3 DEF Begin
    <3> HIDE DEF new
    <3>3. sync' \in [Syncers -> Syncs]
      BY <2>0, <3>1, <3>2
    <3> QED
      BY <2>3, <3>3 DEF Begin, LubeTypeOK
  <2>4. ASSUME NEW s \in Syncers, NEW k \in Endpoints, Fetch(s, k) PROVE LubeTypeOK'
    <3> DEFINE rows == {e \in entered : Endpoint(KindOf[e]) = k /\ Wanted(e, sync[s].since)}
    <3> DEFINE new == [sync[s] EXCEPT !.todo = @ \ {k}, !.rows = @ \cup rows]
    <3>1. rows \subseteq Records /\ sync[s] \in Syncs
      BY DEF LubeTypeOK
    <3>2. SetSync(s, new)
      BY <2>4 DEF Fetch
    <3> HIDE DEF rows
    <3>3. new \in Syncs
      BY <3>1 DEF Syncs
    <3>4. sync' \in [Syncers -> Syncs]
      BY <2>0, <3>2, <3>3
    <3> QED
      BY <2>4, <3>4 DEF Fetch, LubeTypeOK
  <2>5. ASSUME NEW s \in Syncers, Fails(s) PROVE LubeTypeOK'
    <3>1. sync[s] \in Syncs
      BY DEF LubeTypeOK
    <3>2. PICK k \in sync[s].todo, bad \in SUBSET entered :
             \/ SetSync(s, [sync[s] EXCEPT !.todo = @ \ {k}, !.errors = TRUE,
                     !.rows = @ \cup {e \in entered \ bad : Endpoint(KindOf[e]) = k
                                                        /\ Wanted(e, sync[s].since)}])
             \/ SetSync(s, [sync[s] EXCEPT !.todo = {}, !.errors = TRUE])
      BY <2>5 DEF Fails
    <3> DEFINE rows == {e \in entered \ bad : Endpoint(KindOf[e]) = k
                                                /\ Wanted(e, sync[s].since)}
    <3>3. rows \subseteq Records
      BY DEF LubeTypeOK
    <3>4. \/ SetSync(s, [sync[s] EXCEPT !.todo = @ \ {k}, !.errors = TRUE, !.rows = @ \cup rows])
          \/ SetSync(s, [sync[s] EXCEPT !.todo = {}, !.errors = TRUE])
      BY <3>2
    <3> HIDE DEF rows
    <3>5. /\ [sync[s] EXCEPT !.todo = @ \ {k}, !.errors = TRUE, !.rows = @ \cup rows] \in Syncs
          /\ [sync[s] EXCEPT !.todo = {}, !.errors = TRUE] \in Syncs
      BY <3>1, <3>3 DEF Syncs
    <3>6. sync' \in [Syncers -> Syncs]
      BY <2>0, <3>4, <3>5
    <3>7. troubles' \in 0..MaxTroubles
      BY <1>0, <2>5 DEF Fails, LubeTypeOK
    <3> QED
      BY <2>5, <3>6, <3>7 DEF Fails, LubeTypeOK
  <2>6. ASSUME NEW s \in Syncers, Import(s) PROVE LubeTypeOK'
    <3> DEFINE new == [sync[s] EXCEPT !.at = "marking", !.rows = {}]
    <3>1. sync[s] \in Syncs
      BY DEF LubeTypeOK
    <3>2. new \in Syncs
      BY <3>1 DEF Syncs
    <3>3. SetSync(s, new)
      BY <2>6 DEF Import
    <3> HIDE DEF new
    <3>4. sync' \in [Syncers -> Syncs]
      BY <2>0, <3>2, <3>3
    <3>5. sync[s].rows \subseteq Records
      BY <3>1 DEF Syncs
    <3>6. copies' \in [Records -> Nat] /\ linked' \subseteq Records
      BY <2>6, <3>5 DEF Import, LubeTypeOK
    <3> QED
      BY <2>6, <3>4, <3>6 DEF Import, LubeTypeOK
  <2>7. ASSUME NEW s \in Syncers, MoveMarker(s) PROVE LubeTypeOK'
    <3>1. Unsent \in SUBSET Readings /\ sync[s].started \in Dates
      BY DEF Unsent, LubeTypeOK, Syncs
    <3>2. Going(s, Unsent, {}) \in Syncs
      BY <3>1, GoingIsASync
    <3>3. sync' \in [Syncers -> Syncs]
      BY <2>0, <2>7, <3>2 DEF MoveMarker
    <3>4. marker' \in Dates \cup {NoDate}
      BY <2>7, <3>1 DEF MoveMarker, NewMarker, LubeTypeOK
    <3> QED
      BY <2>7, <3>3, <3>4 DEF MoveMarker, LubeTypeOK
  <2>8. ASSUME NEW s \in Syncers, NEW r \in Readings, Push(s, r) PROVE LubeTypeOK'
    <3>1. sync[s].queue \ {r} \in SUBSET Readings /\ {r} \in SUBSET Readings
      BY DEF LubeTypeOK, Syncs
    <3>2. /\ Going(s, sync[s].queue \ {r}, {r}) \in Syncs
          /\ Going(s, sync[s].queue \ {r}, {}) \in Syncs
      BY <3>1, GoingIsASync
    <3>3. sync' \in [Syncers -> Syncs]
      BY <2>0, <2>8, <3>2 DEF Push
    <3>4. /\ pushes' \in [Readings -> Nat] /\ unnoted' \in [Readings -> Nat]
          /\ troubles' \in 0..MaxTroubles
      BY <1>0, <2>8 DEF Push, LubeTypeOK
    <3> QED
      BY <2>8, <3>3, <3>4 DEF Push, LubeTypeOK
  <2>9. ASSUME NEW s \in Syncers, MarkSent(s) PROVE LubeTypeOK'
    <3>1. sync[s].queue \in SUBSET Readings /\ sync[s].now \in SUBSET Readings
      BY DEF LubeTypeOK, Syncs
    <3>2. Going(s, sync[s].queue, {}) \in Syncs
      BY <3>1, GoingIsASync
    <3>3. sync' \in [Syncers -> Syncs]
      BY <2>0, <2>9, <3>2 DEF MarkSent
    <3> QED
      BY <2>9, <3>1, <3>3 DEF MarkSent, LubeTypeOK
  <2>10. ASSUME NEW s \in Syncers, Stops(s) PROVE LubeTypeOK'
    <3>1. unnoted' \in [Readings -> Nat]
      BY <2>10 DEF Stops, LubeTypeOK
    <3>2. sync' \in [Syncers -> Syncs]
      BY <2>0, <2>10, RestIsASync DEF Stops
    <3>3. troubles' \in 0..MaxTroubles
      BY <1>0, <2>10 DEF Stops, LubeTypeOK
    <3> QED
      BY <2>10, <3>1, <3>2, <3>3 DEF Stops, LubeTypeOK
  <2>11. CASE UNCHANGED lubeVars
    BY <2>11 DEF lubeVars, LubeTypeOK
  <2> QED
    BY <2>1, <2>2, <2>3, <2>4, <2>5, <2>6, <2>7, <2>8, <2>9, <2>10, <2>11 DEF LubeNext
<1> QED
  BY <1>1, <1>2, PTL DEF LubeSpec

-----------------------------------------------------------------------------
\* The syncs that are going to send r, and those that have sent it and not marked it.
Listing(r) == {s \in Syncers : r \in sync[s].queue}
Holding(r) == {s \in Syncers : r \in sync[s].now}

\* How often it was sent, those times left out that nobody noted or will.
Charged(r) == pushes[r] - unnoted[r]

Account(r) ==
  /\ Listing(r) \cap Holding(r) = {}
  /\ r \notin sent => Charged(r) <= Cardinality(Holding(r))
  /\ r \in sent => Charged(r) + Cardinality(Listing(r)) <= Cardinality(Syncers)

\* Only a push holds a reading.
Empty == \A s \in Syncers : sync[s].at # "pushing" => sync[s].now = {}

Accounts == \A r \in Readings : Account(r)

LEMMA FiniteSyncers ==
  ASSUME NEW S \in SUBSET Syncers
  PROVE  /\ IsFiniteSet(S) /\ Cardinality(S) \in Nat
         /\ Cardinality(Syncers) \in Nat /\ Cardinality(S) <= Cardinality(Syncers)
<1>1. IsFiniteSet(Syncers)
  BY LubeAssumption
<1>2. IsFiniteSet(S) /\ Cardinality(S) <= Cardinality(Syncers)
  BY <1>1, FS_Subset
<1> QED
  BY <1>1, <1>2, FS_CardinalityType

\* A step that neither sends r nor marks it, and lets go of it nowhere.
LEMMA AccountKept ==
  ASSUME LubeTypeOK, NEW r \in Readings, Account(r),
         Holding(r)' = Holding(r), Listing(r)' \subseteq Listing(r),
         Charged(r)' = Charged(r), r \in sent' <=> r \in sent
  PROVE  Account(r)'
<1> DEFINE L == Listing(r)
<1> DEFINE M == Listing(r)'
<1>1. L \in SUBSET Syncers /\ M \in SUBSET L
  BY DEF Listing
<1> HIDE DEF L, M
<1>2. IsFiniteSet(L) /\ Cardinality(L) \in Nat /\ M \in SUBSET Syncers
  BY <1>1, FiniteSyncers
<1>3. Cardinality(M) <= Cardinality(L) /\ Cardinality(M) \in Nat /\ Cardinality(Syncers) \in Nat
  BY <1>1, <1>2, FS_Subset, FiniteSyncers
<1>4. Charged(r) \in Int
  BY DEF Charged, LubeTypeOK
<1>5. Listing(r)' \cap Holding(r)' = {}
  BY DEF Account
<1>6. r \notin sent' => Charged(r)' <= Cardinality(Holding(r)')
  BY DEF Account
<1>7. r \in sent => Charged(r) + Cardinality(L) <= Cardinality(Syncers)
  BY DEF Account, L
<1>8. r \in sent' => Charged(r)' + Cardinality(M) <= Cardinality(Syncers)
  BY <1>2, <1>3, <1>4, <1>7
<1> QED
  BY <1>5, <1>6, <1>8 DEF Account, M

\* The same, said of the sync that moves.
LEMMA OneMoves ==
  ASSUME LubeTypeOK, NEW r \in Readings, Account(r), NEW s \in Syncers, NEW new,
         SetSync(s, new), r \in new.now <=> r \in sync[s].now,
         r \in new.queue => r \in sync[s].queue,
         Charged(r)' = Charged(r), r \in sent' <=> r \in sent
  PROVE  Account(r)'
<1>1. sync' = [sync EXCEPT ![s] = new] /\ sync'[s] = new
  BY DEF SetSync, LubeTypeOK
<1>2. \A q \in Syncers : q # s => sync'[q] = sync[q]
  BY <1>1 DEF LubeTypeOK
<1>3. Holding(r)' = Holding(r)
  BY <1>1, <1>2 DEF Holding
<1>4. Listing(r)' \subseteq Listing(r)
  BY <1>1, <1>2 DEF Listing
<1> QED
  BY <1>3, <1>4, AccountKept

\* Reading and importing leave the push alone.
LEMMA ReadingKeeps ==
  ASSUME LubeTypeOK, NEW s \in Syncers,
         Fails(s) \/ Import(s) \/ \E k \in Endpoints : Fetch(s, k)
  PROVE  \E new : /\ SetSync(s, new)
                  /\ new.now = sync[s].now /\ new.queue = sync[s].queue
<1>1. sync[s] \in Syncs
  BY DEF LubeTypeOK
<1>2. ASSUME NEW new, SetSync(s, new), new.now = sync[s].now, new.queue = sync[s].queue
      PROVE  \E x : SetSync(s, x) /\ x.now = sync[s].now /\ x.queue = sync[s].queue
  BY <1>2
<1>3. CASE Import(s)
  <2> DEFINE new == [sync[s] EXCEPT !.at = "marking", !.rows = {}]
  <2>1. SetSync(s, new)
    BY <1>3 DEF Import
  <2>2. new.now = sync[s].now /\ new.queue = sync[s].queue
    BY <1>1 DEF Syncs
  <2> HIDE DEF new
  <2> QED
    BY <1>2, <2>1, <2>2
<1>4. ASSUME NEW k \in Endpoints, Fetch(s, k)
      PROVE  \E new : SetSync(s, new) /\ new.now = sync[s].now /\ new.queue = sync[s].queue
  <2> DEFINE more == sync[s].rows \cup
                       {e \in entered : Endpoint(KindOf[e]) = k /\ Wanted(e, sync[s].since)}
  <2> DEFINE new == [sync[s] EXCEPT !.todo = sync[s].todo \ {k}, !.rows = more]
  <2>1. SetSync(s, new)
    BY <1>4 DEF Fetch
  <2> HIDE DEF more
  <2>2. new.now = sync[s].now /\ new.queue = sync[s].queue
    BY <1>1 DEF Syncs
  <2> HIDE DEF new
  <2> QED
    BY <1>2, <2>1, <2>2
<1>5. CASE Fails(s)
  <2>1. PICK k \in sync[s].todo, bad \in SUBSET entered :
          \/ SetSync(s, [sync[s] EXCEPT !.todo = @ \ {k}, !.errors = TRUE,
                  !.rows = @ \cup {e \in entered \ bad : Endpoint(KindOf[e]) = k
                                                     /\ Wanted(e, sync[s].since)}])
          \/ SetSync(s, [sync[s] EXCEPT !.todo = {}, !.errors = TRUE])
    BY <1>5 DEF Fails
  <2> DEFINE more == sync[s].rows \cup
                       {e \in entered \ bad : Endpoint(KindOf[e]) = k /\ Wanted(e, sync[s].since)}
  <2>2. \/ SetSync(s, [sync[s] EXCEPT !.todo = sync[s].todo \ {k}, !.errors = TRUE, !.rows = more])
        \/ SetSync(s, [sync[s] EXCEPT !.todo = {}, !.errors = TRUE])
    BY <2>1
  <2> HIDE DEF more
  <2> DEFINE new == [sync[s] EXCEPT !.todo = sync[s].todo \ {k}, !.errors = TRUE, !.rows = more]
  <2> DEFINE cut == [sync[s] EXCEPT !.todo = {}, !.errors = TRUE]
  <2>3. SetSync(s, new) \/ SetSync(s, cut)
    BY <2>2
  <2>4. /\ new.now = sync[s].now /\ new.queue = sync[s].queue
        /\ cut.now = sync[s].now /\ cut.queue = sync[s].queue
    BY <1>1 DEF Syncs
  <2> HIDE DEF new, cut
  <2> QED
    BY <1>2, <2>3, <2>4
<1> QED
  BY <1>3, <1>4, <1>5

LEMMA EmptyStep ==
  LubeTypeOK /\ Empty /\ [LubeNext]_lubeVars => Empty'
<1> SUFFICES ASSUME LubeTypeOK, Empty, [LubeNext]_lubeVars PROVE Empty'
  OBVIOUS
<1>0. ASSUME NEW s \in Syncers, NEW new, SetSync(s, new),
             new.at # "pushing" => new.now = {}
      PROVE  Empty'
  BY <1>0 DEF SetSync, Empty, LubeTypeOK
<1>1. ASSUME NEW s \in Syncers, Begin(s) \/ Stops(s) PROVE Empty'
  BY <1>0, <1>1 DEF Begin, Stops, Rest
<1>2. ASSUME NEW s \in Syncers, Fails(s) \/ Import(s) \/ \E k \in Endpoints : Fetch(s, k)
      PROVE  Empty'
  <2>1. sync[s] \in Syncs /\ sync[s].now = {}
    BY <1>2 DEF Fails, Import, Fetch, Empty, LubeTypeOK
  <2>2. PICK new : SetSync(s, new) /\ new.now = sync[s].now
    BY <1>2, ReadingKeeps
  <2> QED
    BY <1>0, <2>1, <2>2
<1>3. ASSUME NEW s \in Syncers, MoveMarker(s) \/ MarkSent(s) \/ \E r \in Readings : Push(s, r)
      PROVE  Empty'
  <2>1. PICK q, n : SetSync(s, Going(s, q, n))
    BY <1>3 DEF MoveMarker, MarkSent, Push
  <2>2. Going(s, q, n).at # "pushing" => Going(s, q, n).now = {}
    BY GoingHolds
  <2> QED
    BY <1>0, <2>1, <2>2
<1>4. CASE \/ \E e \in Records : \E d \in Dates \cup {NoDate} : EnterRecord(e, d)
           \/ Tomorrow \/ UNCHANGED lubeVars
  BY <1>4 DEF EnterRecord, Tomorrow, lubeVars, Empty
<1> QED
  BY <1>1, <1>2, <1>3, <1>4 DEF LubeNext

LEMMA AccountsStep ==
  LubeTypeOK /\ Empty /\ Accounts /\ [LubeNext]_lubeVars => Accounts'
<1> SUFFICES ASSUME LubeTypeOK, Empty, Accounts, [LubeNext]_lubeVars,
                    NEW r \in Readings
             PROVE  Account(r)'
  BY DEF Accounts, Readings
<1>1. ASSUME UNCHANGED <<sync, pushes, sent, unnoted>> PROVE Account(r)'
  BY <1>1 DEF Accounts, Account, Charged, Listing, Holding
<1>2. ASSUME NEW s \in Syncers, Begin(s) PROVE Account(r)'
  BY <1>2, OneMoves DEF Begin, Rest, Empty, Accounts, Charged
<1>3. ASSUME NEW s \in Syncers, Fails(s) \/ Import(s) \/ \E k \in Endpoints : Fetch(s, k)
      PROVE  Account(r)'
  <2>1. PICK new : SetSync(s, new) /\ new.now = sync[s].now /\ new.queue = sync[s].queue
    BY <1>3, ReadingKeeps
  <2> QED
    BY <1>3, <2>1, OneMoves DEF Fails, Import, Fetch, Accounts, Charged
\* The list is made of what is not marked: nothing is counted against it.
<1>4. ASSUME NEW s \in Syncers, MoveMarker(s) PROVE Account(r)'
  <2> DEFINE new == Going(s, Unsent, {})
  <2>1. new.queue = Unsent /\ new.now = {} /\ SetSync(s, new)
    BY <1>4, GoingHolds DEF MoveMarker
  <2>2. sync[s].now = {} /\ Account(r) /\ sent' = sent /\ Charged(r)' = Charged(r)
    BY <1>4 DEF MoveMarker, Empty, Accounts, Charged
  <2> HIDE DEF new
  <2>3. CASE r \in sent
    BY <2>1, <2>2, <2>3, OneMoves DEF Unsent
  <2>4. CASE r \notin sent
    <3>1. /\ \A q \in Syncers \ {s} : sync'[q] = sync[q]
          /\ sync'[s] = new
      BY <2>1 DEF SetSync, LubeTypeOK
    <3>2. Holding(r)' = Holding(r)
      BY <2>1, <2>2, <3>1 DEF Holding
    <3>3. Listing(r)' \cap Holding(r)' = {}
      BY <2>1, <2>2, <3>1 DEF Account, Listing, Holding
    <3> QED
      BY <2>2, <2>4, <3>2, <3>3 DEF Account
  <2> QED
    BY <2>3, <2>4
\* Sending r moves the sync from those that list it to those that hold it.
<1>5. ASSUME NEW s \in Syncers, NEW x \in Readings, Push(s, x) PROVE Account(r)'
  <2>1. sync[s].now = {} /\ x \in sync[s].queue /\ Account(r) /\ sent' = sent
    BY <1>5 DEF Push, Accounts
  <2>2. ASSUME NEW n \in {0, 1}, SetSync(s, Going(s, sync[s].queue \ {x}, {})),
               pushes' = [pushes EXCEPT ![x] = @ + n], unnoted' = [unnoted EXCEPT ![x] = @ + n]
        PROVE  Account(r)'
    <3>1. Charged(r)' = Charged(r)
      BY <2>2 DEF Charged, LubeTypeOK
    <3> QED
      BY <2>1, <2>2, <3>1, GoingHolds, OneMoves
  <2>3. CASE /\ SetSync(s, Going(s, sync[s].queue \ {x}, {x}))
             /\ pushes' = [pushes EXCEPT ![x] = @ + 1] /\ unnoted' = unnoted
    <3> DEFINE new == Going(s, sync[s].queue \ {x}, {x})
    <3>1. new.queue = sync[s].queue \ {x} /\ new.now = {x} /\ SetSync(s, new)
      BY <2>3, GoingHolds
    <3> HIDE DEF new
    <3>2. CASE x # r
      <4>1. Charged(r)' = Charged(r)
        BY <2>3, <3>2 DEF Charged, LubeTypeOK
      <4> QED
        BY <2>1, <3>1, <3>2, <4>1, OneMoves
    <3>3. CASE x = r
      <4>1. /\ \A q \in Syncers \ {s} : sync'[q] = sync[q]
            /\ sync'[s] = new
        BY <3>1 DEF SetSync, LubeTypeOK
      <4>2. /\ Holding(r)' = Holding(r) \cup {s} /\ s \notin Holding(r)
            /\ Listing(r)' = Listing(r) \ {s} /\ s \in Listing(r)
        BY <2>1, <3>1, <3>3, <4>1 DEF Holding, Listing
      <4>3. Charged(r)' = Charged(r) + 1 /\ Charged(r) \in Int
        BY <2>3, <3>3 DEF Charged, LubeTypeOK
      <4> DEFINE H == Holding(r)
      <4> DEFINE L == Listing(r)
      <4>4. H \in SUBSET Syncers /\ L \in SUBSET Syncers
        BY DEF Holding, Listing
      <4> HIDE DEF H, L
      <4>5. /\ IsFiniteSet(H) /\ Cardinality(H) \in Nat
            /\ IsFiniteSet(L) /\ Cardinality(L) \in Nat /\ Cardinality(Syncers) \in Nat
        BY <4>4, FiniteSyncers
      <4>6. Cardinality(H \cup {s}) = Cardinality(H) + 1
        BY <4>2, <4>5, FS_AddElement DEF H
      <4>7. Cardinality(L \ {s}) = Cardinality(L) - 1
        BY <4>2, <4>5, FS_RemoveElement DEF L
      <4>8. r \notin sent => Charged(r)' <= Cardinality(Holding(r)')
        <5>1. r \notin sent => Charged(r) <= Cardinality(H)
          BY <2>1 DEF Account, H
        <5>2. Cardinality(Holding(r)') = Cardinality(H) + 1
          BY <4>2, <4>6 DEF H
        <5> QED
          BY <4>3, <4>5, <5>1, <5>2
      <4>9. r \in sent => Charged(r)' + Cardinality(Listing(r)') <= Cardinality(Syncers)
        <5>1. r \in sent => Charged(r) + Cardinality(L) <= Cardinality(Syncers)
          BY <2>1 DEF Account, L
        <5>2. Cardinality(Listing(r)') = Cardinality(L) - 1
          BY <4>2, <4>7 DEF L
        <5> QED
          BY <4>3, <4>5, <5>1, <5>2
      <4>10. Listing(r)' \cap Holding(r)' = {}
        BY <2>1, <4>2 DEF Account
      <4> QED
        BY <2>1, <4>8, <4>9, <4>10 DEF Account
    <3> QED
      BY <3>2, <3>3
  <2> QED
    BY <1>5, <2>2, <2>3 DEF Push
\* Marking r closes the account: it was sent by syncs that no longer list it.
<1>6. ASSUME NEW s \in Syncers, MarkSent(s) PROVE Account(r)'
  <2> DEFINE new == Going(s, sync[s].queue, {})
  <2>1. /\ new.queue = sync[s].queue /\ new.now = {} /\ SetSync(s, new)
        /\ sent' = sent \cup sync[s].now /\ Charged(r)' = Charged(r) /\ Account(r)
    BY <1>6, GoingHolds DEF MarkSent, Accounts, Charged
  <2> HIDE DEF new
  <2>2. CASE r \notin sync[s].now
    BY <2>1, <2>2, OneMoves
  <2>3. CASE r \in sync[s].now
    <3>1. /\ \A q \in Syncers \ {s} : sync'[q] = sync[q]
          /\ sync'[s] = new
      BY <2>1 DEF SetSync, LubeTypeOK
    <3>2. Listing(r)' = Listing(r) /\ Holding(r)' \subseteq Holding(r)
      BY <2>1, <3>1 DEF Listing, Holding
    <3> DEFINE H == Holding(r)
    <3> DEFINE L == Listing(r)
    <3>3. H \in SUBSET Syncers /\ L \in SUBSET Syncers /\ L \cap H = {}
      BY <2>1 DEF Holding, Listing, Account
    <3> HIDE DEF H, L
    <3>4. Charged(r) \in Int
      BY DEF Charged, LubeTypeOK
    <3>5. Charged(r) + Cardinality(L) <= Cardinality(Syncers)
      <4>1. r \in sent => Charged(r) + Cardinality(L) <= Cardinality(Syncers)
        BY <2>1 DEF Account, L
      <4>2. r \notin sent => Charged(r) <= Cardinality(H)
        BY <2>1 DEF Account, H
      <4>3. /\ IsFiniteSet(H) /\ Cardinality(H) \in Nat
            /\ IsFiniteSet(L) /\ Cardinality(L) \in Nat /\ Cardinality(Syncers) \in Nat
            /\ H \cup L \in SUBSET Syncers
        BY <3>3, FiniteSyncers
      <4>4. Cardinality(H \cup L) <= Cardinality(Syncers)
        BY <4>3, FiniteSyncers
      <4>5. Cardinality(H \cup L) = Cardinality(H) + Cardinality(L) - Cardinality(H \cap L)
        BY <4>3, FS_Union
      <4>6. H \cap L = {}
        BY <3>3
      <4>7. Cardinality(H \cap L) = 0
        BY <4>6, FS_EmptySet
      <4> QED
        BY <3>4, <4>1, <4>2, <4>3, <4>4, <4>5, <4>7
    <3>6. Charged(r)' + Cardinality(Listing(r)') <= Cardinality(Syncers)
      BY <2>1, <3>2, <3>5 DEF L
    <3>7. Listing(r)' \cap Holding(r)' = {}
      BY <2>1, <3>2 DEF Account
    <3>8. r \in sent'
      BY <2>1, <2>3
    <3> QED
      BY <3>6, <3>7, <3>8 DEF Account
  <2> QED
    BY <2>2, <2>3
\* What a process that dies has sent is written off, and nobody holds it for that.
<1>7. ASSUME NEW s \in Syncers, Stops(s) PROVE Account(r)'
  <2>1. SetSync(s, Rest) /\ Account(r) /\ sent' = sent /\ Rest.now = {} /\ Rest.queue = {}
    BY <1>7 DEF Stops, Accounts, Rest
  <2>2. CASE r \notin sync[s].now
    <3>1. Charged(r)' = Charged(r)
      BY <1>7, <2>2 DEF Stops, Charged, LubeTypeOK
    <3> QED
      BY <2>1, <2>2, <3>1, OneMoves
  <2>3. CASE r \in sync[s].now
    <3>1. Charged(r)' = Charged(r) - 1 /\ Charged(r) \in Int
      BY <1>7, <2>3 DEF Stops, Charged, LubeTypeOK
    <3>2. /\ \A q \in Syncers \ {s} : sync'[q] = sync[q]
          /\ sync'[s] = Rest
      BY <2>1 DEF SetSync, LubeTypeOK
    <3>3. /\ Holding(r)' = Holding(r) \ {s} /\ s \in Holding(r)
          /\ Listing(r)' = Listing(r)
      BY <2>1, <2>3, <3>2 DEF Holding, Listing, Account
    <3> DEFINE H == Holding(r)
    <3> DEFINE L == Listing(r)
    <3>4. H \in SUBSET Syncers /\ L \in SUBSET Syncers
      BY DEF Holding, Listing
    <3> HIDE DEF H, L
    <3>5. /\ IsFiniteSet(H) /\ Cardinality(H) \in Nat
          /\ Cardinality(L) \in Nat /\ Cardinality(Syncers) \in Nat
      BY <3>4, FiniteSyncers
    <3>6. Cardinality(H \ {s}) = Cardinality(H) - 1
      BY <3>3, <3>5, FS_RemoveElement DEF H
    <3>7. r \notin sent => Charged(r)' <= Cardinality(Holding(r)')
      <4>1. r \notin sent => Charged(r) <= Cardinality(H)
        BY <2>1 DEF Account, H
      <4>2. Cardinality(Holding(r)') = Cardinality(H) - 1
        BY <3>3, <3>6 DEF H
      <4> QED
        BY <3>1, <3>5, <4>1, <4>2
    <3>8. r \in sent => Charged(r)' + Cardinality(Listing(r)') <= Cardinality(Syncers)
      <4>1. r \in sent => Charged(r) + Cardinality(L) <= Cardinality(Syncers)
        BY <2>1 DEF Account, L
      <4>2. Cardinality(Listing(r)') = Cardinality(L)
        BY <3>3 DEF L
      <4> QED
        BY <3>1, <3>5, <4>1, <4>2
    <3>9. Listing(r)' \cap Holding(r)' = {}
      BY <2>1, <3>3 DEF Account
    <3> QED
      BY <2>1, <3>7, <3>8, <3>9 DEF Account
  <2> QED
    BY <2>2, <2>3
<1>8. CASE \/ \E e \in Records : \E d \in Dates \cup {NoDate} : EnterRecord(e, d)
           \/ Tomorrow \/ UNCHANGED lubeVars
  BY <1>1, <1>8 DEF EnterRecord, Tomorrow, lubeVars
<1> QED
  BY <1>2, <1>3, <1>4, <1>5, <1>6, <1>7, <1>8 DEF LubeNext

\* A reading is sent at most once per sync and once more for every time nobody noted,
\* whichever of the syncs list it together and wherever they fail.
THEOREM SentOnceHolds == LubeSpec => []SentOnce
<1>1. LubeInit => Empty /\ Accounts
  <2> SUFFICES ASSUME LubeInit PROVE Empty /\ Accounts
    OBVIOUS
  <2>1. Empty
    BY DEF LubeInit, Empty, Rest
  <2>2. ASSUME NEW r \in Readings PROVE Account(r)
    <3>1. Listing(r) = {} /\ Holding(r) = {}
      BY DEF LubeInit, Listing, Holding, Rest
    <3>2. Charged(r) = 0 /\ r \notin sent
      BY DEF LubeInit, Charged
    <3> QED
      BY <3>1, <3>2, FS_EmptySet DEF Account
  <2> QED
    BY <2>1, <2>2 DEF Accounts
<1>2. LubeTypeOK /\ Accounts => SentOnce
  <2> SUFFICES ASSUME LubeTypeOK, Accounts, NEW r \in Readings
               PROVE  pushes[r] <= Cardinality(Syncers) + unnoted[r]
    BY DEF SentOnce
  <2>1. Account(r) /\ pushes[r] \in Nat /\ unnoted[r] \in Nat
    BY DEF Accounts, LubeTypeOK
  <2>2. Holding(r) \in SUBSET Syncers /\ Listing(r) \in SUBSET Syncers
    BY DEF Holding, Listing
  <2>3. /\ Cardinality(Holding(r)) \in Nat /\ Cardinality(Holding(r)) <= Cardinality(Syncers)
        /\ Cardinality(Listing(r)) \in Nat /\ Cardinality(Syncers) \in Nat
    BY <2>2, FiniteSyncers
  <2>4. Charged(r) <= Cardinality(Syncers)
    BY <2>1, <2>3 DEF Account, Charged
  <2> QED
    BY <2>1, <2>3, <2>4 DEF Charged
<1> QED
  BY <1>1, <1>2, EmptyStep, AccountsStep, LubeTypeCorrect, PTL DEF LubeSpec

-----------------------------------------------------------------------------
(* Nothing falls behind the window.                                        *)

\* A dated record that nobody has copied.
Waiting(e) == e \in entered /\ copies[e] = 0 /\ dated[e] # NoDate

\* It lies before the window, if there is one.
Passed(e) == marker = NoDate \/ dated[e] < marker - Overlap

\* Sync x has it among its rows, or is going to ask for it.
ComesWith(x, e) ==
  \/ e \in x.rows
  \/ x.at = "reading" /\ Endpoint(KindOf[e]) \in x.todo /\ dated[e] >= x.since

\* Moving the marker to the start of x loses no record: what would lie before the new
\* window comes with x, or lay before the window already.
Spares(x, e) ==
  x.at \in {"reading", "marking"} /\ ~x.errors /\ Waiting(e) =>
    \/ dated[e] >= x.started - Overlap
    \/ dated[e] < x.started - FirstRun /\ Passed(e)
    \/ ComesWith(x, e)

\* A record the window does not reach was older than the first run looked back, by the
\* earlier of today and the day after the marker: a sync begun yesterday may set it back.
Reached(e) ==
  Waiting(e) /\ marker # NoDate =>
    \/ dated[e] >= marker - Overlap
    \/ dated[e] < marker + 1 - FirstRun /\ dated[e] < today - FirstRun

Prompt(x) == x.at # "idle" => x.started <= today /\ today <= x.started + 1
Emptied(x) == x.at = "marking" => x.rows = {}

WindowInv ==
  /\ LubeTypeOK
  /\ marker # NoDate => marker <= today
  /\ \A e \in linked : copies[e] > 0
  /\ \A e \in Records : Reached(e)
  /\ \A s \in Syncers : Prompt(sync[s]) /\ Emptied(sync[s])
  /\ \A s \in Syncers : \A e \in Records : Spares(sync[s], e)

LEMMA DaysAreInts ==
  ASSUME LubeTypeOK
  PROVE  /\ today \in Int /\ Overlap \in Int /\ FirstRun \in Int /\ Overlap < FirstRun
         /\ marker # NoDate => marker \in Int
         /\ \A e \in Records : dated[e] # NoDate => dated[e] \in Int
         /\ \A s \in Syncers : sync[s].started \in Int /\ sync[s].since \in Int
<1>1. Dates \subseteq Int
  BY Calendar
<1>2. Overlap \in Int /\ FirstRun \in Int /\ Overlap < FirstRun
  BY LubeAssumption
<1>3. today \in Int /\ (marker # NoDate => marker \in Int)
  BY <1>1 DEF LubeTypeOK
<1>4. \A e \in Records : dated[e] # NoDate => dated[e] \in Int
  BY <1>1 DEF LubeTypeOK
<1>5. \A s \in Syncers : sync[s].started \in Int /\ sync[s].since \in Int
  BY <1>1 DEF LubeTypeOK, Syncs
<1> QED
  BY <1>2, <1>3, <1>4, <1>5

\* A step of one sync that copies nothing and leaves the marker.
LEMMA SyncMoves ==
  ASSUME WindowInv, LubeTypeOK', NEW s \in Syncers, NEW new, SetSync(s, new),
         UNCHANGED <<today, entered, dated, copies, linked, marker>>,
         Prompt(new), Emptied(new), \A e \in Records : Spares(new, e)
  PROVE  WindowInv'
<1>1. \A u \in Syncers : sync'[u] = IF u = s THEN new ELSE sync[u]
  BY DEF SetSync, WindowInv, LubeTypeOK
<1>2. \A u \in Syncers : Prompt(sync[u])' /\ Emptied(sync[u])'
  BY <1>1 DEF WindowInv, Prompt, Emptied
<1>3. ASSUME NEW u \in Syncers, NEW e \in Records PROVE Spares(sync[u], e)'
  BY <1>1 DEF WindowInv, Spares, Waiting, Passed, ComesWith
<1>4. \A e \in Records : Reached(e)'
  BY DEF WindowInv, Reached, Waiting
<1> QED
  BY <1>2, <1>3, <1>4 DEF WindowInv

\* A sync begins: with a window, it asks for all that is in it; without one, what it does
\* not ask for is older than the first run looks back.
LEMMA BeginKeepsWindow ==
  ASSUME WindowInv, LubeTypeOK', NEW s \in Syncers, Begin(s)
  PROVE  WindowInv'
<1> DEFINE since == WindowStart(marker, today)
<1> DEFINE new == [Rest EXCEPT !.at = "reading", !.started = today, !.since = since,
                               !.todo = Endpoints]
<1>1. SetSync(s, new) /\ UNCHANGED <<today, entered, dated, copies, linked, marker>>
  BY DEF Begin
<1>2. /\ new.at = "reading" /\ new.started = today /\ new.since = since
      /\ new.todo = Endpoints /\ new.errors = FALSE
  BY DEF Rest
<1>3. today \in Int /\ Prompt(new) /\ Emptied(new)
  <2>1. today \in Int
    BY DaysAreInts DEF WindowInv
  <2> QED
    BY <1>2, <2>1 DEF Prompt, Emptied
<1>4. ASSUME NEW e \in Records, Waiting(e)
      PROVE  (dated[e] < today - FirstRun /\ Passed(e)) \/ dated[e] >= since
  <2>1. /\ dated[e] \in Int /\ FirstRun \in Int /\ Overlap \in Int
        /\ marker # NoDate => marker \in Int
    BY <1>4, DaysAreInts DEF WindowInv, Waiting
  <2>2. Reached(e)
    BY DEF WindowInv
  <2>3. CASE marker = NoDate
    BY <1>3, <2>1, <2>3 DEF Passed, WindowStart
  <2>4. CASE marker # NoDate
    <3>1. since = marker - Overlap
      BY <2>4 DEF WindowStart
    <3> QED
      BY <1>3, <1>4, <2>1, <2>2, <2>4, <3>1 DEF Passed, Reached
  <2> QED
    BY <2>3, <2>4
<1> HIDE DEF since
<1>5. ASSUME NEW e \in Records PROVE Spares(new, e)
  <2>1. Endpoint(KindOf[e]) \in Endpoints
    BY DEF Endpoints
  <2> QED
    BY <1>2, <1>4, <2>1 DEF Spares, ComesWith
<1> HIDE DEF new
<1> QED
  BY <1>1, <1>3, <1>5, SyncMoves

\* An endpoint answers: what was asked for is among the rows.
LEMMA FetchKeepsWindow ==
  ASSUME WindowInv, LubeTypeOK', NEW s \in Syncers, NEW k \in Endpoints, Fetch(s, k)
  PROVE  WindowInv'
<1> DEFINE got == {e \in entered : Endpoint(KindOf[e]) = k /\ Wanted(e, sync[s].since)}
<1> DEFINE new == [sync[s] EXCEPT !.todo = @ \ {k}, !.rows = @ \cup got]
<1>1. SetSync(s, new) /\ UNCHANGED <<today, entered, dated, copies, linked, marker>>
      /\ sync[s].at = "reading"
  BY DEF Fetch
<1>2. ASSUME NEW e \in Records, Waiting(e), Endpoint(KindOf[e]) = k, dated[e] >= sync[s].since
      PROVE  e \in got
  <2>1. e \notin linked
    BY <1>2 DEF WindowInv, Waiting
  <2> QED
    BY <1>2, <2>1 DEF Wanted, Waiting
<1> HIDE DEF got
<1>3. sync[s] \in Syncs
  BY DEF WindowInv, LubeTypeOK
<1>4. /\ new.at = "reading" /\ new.started = sync[s].started /\ new.since = sync[s].since
      /\ new.todo = sync[s].todo \ {k} /\ new.rows = sync[s].rows \cup got
      /\ new.errors = sync[s].errors
  BY <1>1, <1>3 DEF Syncs
<1> HIDE DEF new
<1>5. Prompt(new) /\ Emptied(new)
  BY <1>1, <1>4 DEF WindowInv, Prompt, Emptied
<1>6. ASSUME NEW e \in Records PROVE Spares(new, e)
  <2>1. Spares(sync[s], e)
    BY DEF WindowInv
  <2> QED
    BY <1>1, <1>2, <1>4, <2>1 DEF Spares, ComesWith
<1> QED
  BY <1>1, <1>5, <1>6, SyncMoves

\* A sync that has met trouble, is pushing or is gone, moves no marker.
LEMMA OthersKeepWindow ==
  ASSUME WindowInv, LubeTypeOK', NEW s \in Syncers,
         Fails(s) \/ MarkSent(s) \/ Stops(s) \/ \E r \in Readings : Push(s, r)
  PROVE  WindowInv'
<1>1. UNCHANGED <<today, entered, dated, copies, linked, marker>>
  BY DEF Fails, MarkSent, Stops, Push
<1>2. sync[s] \in Syncs
  BY DEF WindowInv, LubeTypeOK
<1>3. \E new : /\ SetSync(s, new)
               /\ new.at # "marking" /\ (new.at = "reading" => new.errors)
               /\ new.at # "idle" => new.started = sync[s].started /\ sync[s].at # "idle"
  <2>1. CASE Fails(s)
    <3>1. PICK k \in sync[s].todo, bad \in SUBSET entered :
             \/ SetSync(s, [sync[s] EXCEPT !.todo = @ \ {k}, !.errors = TRUE,
                     !.rows = @ \cup {e \in entered \ bad : Endpoint(KindOf[e]) = k
                                                        /\ Wanted(e, sync[s].since)}])
             \/ SetSync(s, [sync[s] EXCEPT !.todo = {}, !.errors = TRUE])
      BY <2>1 DEF Fails
    <3> DEFINE got == {e \in entered \ bad : Endpoint(KindOf[e]) = k
                                               /\ Wanted(e, sync[s].since)}
    <3> DEFINE one == [sync[s] EXCEPT !.todo = @ \ {k}, !.errors = TRUE, !.rows = @ \cup got]
    <3> DEFINE all == [sync[s] EXCEPT !.todo = {}, !.errors = TRUE]
    <3>2. SetSync(s, one) \/ SetSync(s, all)
      BY <3>1
    <3>3. sync[s].at = "reading"
      BY <2>1 DEF Fails
    <3> HIDE DEF got
    <3>4. /\ one.at = "reading" /\ one.errors = TRUE /\ one.started = sync[s].started
          /\ all.at = "reading" /\ all.errors = TRUE /\ all.started = sync[s].started
      BY <1>2, <3>3 DEF Syncs
    <3> HIDE DEF one, all
    <3> QED
      BY <3>2, <3>3, <3>4
  <2>2. CASE Stops(s)
    BY <2>2 DEF Stops, Rest
  <2>3. CASE MarkSent(s) \/ \E r \in Readings : Push(s, r)
    <3>1. sync[s].at = "pushing" /\ \E q, n : SetSync(s, Going(s, q, n))
      BY <2>3 DEF MarkSent, Push
    <3>2. PICK q, n : SetSync(s, Going(s, q, n))
      BY <3>1
    <3>3. /\ Going(s, q, n).at \in {"idle", "pushing"}
          /\ Going(s, q, n).at = "pushing" => Going(s, q, n).started = sync[s].started
      BY DEF Going, Pushing, Rest
    <3> QED
      BY <3>1, <3>2, <3>3
  <2> QED
    BY <2>1, <2>2, <2>3
<1>4. PICK new : /\ SetSync(s, new)
                 /\ new.at # "marking" /\ (new.at = "reading" => new.errors)
                 /\ new.at # "idle" => new.started = sync[s].started /\ sync[s].at # "idle"
  BY <1>3
<1>5. Prompt(new) /\ Emptied(new) /\ \A e \in Records : Spares(new, e)
  BY <1>4 DEF WindowInv, Prompt, Emptied, Spares
<1> QED
  BY <1>1, <1>4, <1>5, SyncMoves

\* The rows are copied, and wait no more.
LEMMA ImportKeepsWindow ==
  ASSUME WindowInv, LubeTypeOK', NEW s \in Syncers, Import(s)
  PROVE  WindowInv'
<1> DEFINE got == sync[s].rows
<1> DEFINE new == [sync[s] EXCEPT !.at = "marking", !.rows = {}]
<1>1. /\ SetSync(s, new) /\ UNCHANGED <<today, entered, dated, marker>>
      /\ sync[s].at = "reading" /\ sync[s].todo = {}
      /\ copies' = [e \in Records |-> copies[e] + (IF e \in got THEN 1 ELSE 0)]
      /\ linked' \subseteq linked \cup got
  BY DEF Import
<1>2. sync[s] \in Syncs /\ got \subseteq Records /\ copies \in [Records -> Nat]
  BY DEF WindowInv, LubeTypeOK, Syncs
<1>3. /\ new.at = "marking" /\ new.started = sync[s].started /\ new.rows = {}
      /\ new.errors = sync[s].errors
  BY <1>2 DEF Syncs
<1>4. \A u \in Syncers : sync'[u] = IF u = s THEN new ELSE sync[u]
  BY <1>1 DEF SetSync, WindowInv, LubeTypeOK
<1> HIDE DEF new
<1>5. \A e \in linked' : copies'[e] > 0
  BY <1>1, <1>2 DEF WindowInv, LubeTypeOK
<1>6. \A e \in Records : Waiting(e)' => Waiting(e) /\ e \notin got
  BY <1>1, <1>2 DEF Waiting
<1>7. \A e \in Records : (Passed(e)' <=> Passed(e)) /\ Reached(e)'
  BY <1>1, <1>6 DEF Passed, Reached, WindowInv
<1>8. \A u \in Syncers : Prompt(sync[u])' /\ Emptied(sync[u])'
  BY <1>1, <1>3, <1>4 DEF WindowInv, Prompt, Emptied
<1>9. ASSUME NEW u \in Syncers, NEW e \in Records PROVE Spares(sync[u], e)'
  <2>1. Spares(sync[u], e) /\ Spares(sync[s], e)
    BY DEF WindowInv
  <2>2. CASE u = s
    BY <1>1, <1>3, <1>4, <1>6, <1>7, <2>1, <2>2 DEF Spares, ComesWith
  <2>3. CASE u # s
    BY <1>1, <1>4, <1>6, <1>7, <2>1, <2>3 DEF Spares, ComesWith
  <2> QED
    BY <2>2, <2>3
<1> QED
  BY <1>1, <1>5, <1>7, <1>8, <1>9 DEF WindowInv

\* The marker moves to the start of the sync, past no record it did not copy.
LEMMA MarkerKeepsWindow ==
  ASSUME WindowInv, LubeTypeOK', NEW s \in Syncers, MoveMarker(s)
  PROVE  WindowInv'
<1> DEFINE new == Going(s, Unsent, {})
<1>1. /\ SetSync(s, new) /\ UNCHANGED <<today, entered, dated, copies, linked>>
      /\ sync[s].at = "marking" /\ marker' = NewMarker(s)
  BY DEF MoveMarker
<1>2. \A u \in Syncers : sync'[u] = IF u = s THEN new ELSE sync[u]
  BY <1>1 DEF SetSync, WindowInv, LubeTypeOK
<1>3. new.at \in {"idle", "pushing"} /\ (new.at = "pushing" => new.started = sync[s].started)
  BY DEF Going, Pushing, Rest
<1> HIDE DEF new
<1>4. \A u \in Syncers : Prompt(sync[u])' /\ Emptied(sync[u])'
  BY <1>1, <1>2, <1>3 DEF WindowInv, Prompt, Emptied
<1>5. ASSUME NEW u \in Syncers, u # s PROVE sync'[u] = sync[u]
  BY <1>2, <1>5
<1>6. \A e \in Records : Waiting(e)' <=> Waiting(e)
  BY <1>1 DEF Waiting
<1>7. CASE sync[s].errors
  <2>1. marker' = marker
    BY <1>1, <1>7 DEF NewMarker
  <2>2. ASSUME NEW u \in Syncers, NEW e \in Records PROVE Spares(sync[u], e)'
    BY <1>1, <1>2, <1>3, <1>6, <2>1 DEF WindowInv, Spares, Passed, ComesWith
  <2>3. \A e \in Records : Reached(e)'
    BY <1>1, <1>6, <2>1 DEF WindowInv, Reached
  <2> QED
    BY <1>1, <1>4, <2>1, <2>2, <2>3 DEF WindowInv
<1>8. CASE ~sync[s].errors
  <2>1. marker' = sync[s].started /\ marker' \in Int /\ marker' # NoDate
        /\ marker' <= today /\ today <= marker' + 1
    <3>1. marker' = sync[s].started
      BY <1>1, <1>8 DEF NewMarker
    <3>2. sync[s].started \in Int
      BY DaysAreInts DEF WindowInv
    <3>3. sync[s].started <= today /\ today <= sync[s].started + 1
      BY <1>1 DEF WindowInv, Prompt
    <3> QED
      BY <3>1, <3>2, <3>3, LubeAssumption
  <2>2. ASSUME NEW e \in Records, Waiting(e)
        PROVE  dated[e] >= marker' - Overlap \/ dated[e] < marker' - FirstRun
    BY <1>1, <1>8, <2>1, <2>2 DEF WindowInv, Spares, ComesWith, Emptied
  <2>3. ASSUME NEW e \in Records PROVE Reached(e)'
    <3>1. /\ Overlap \in Int /\ FirstRun \in Int /\ today \in Int
          /\ Waiting(e) => dated[e] \in Int
      BY DaysAreInts DEF WindowInv, Waiting
    <3>2. Waiting(e) => \/ dated[e] >= marker' - Overlap
                        \/ dated[e] < marker' + 1 - FirstRun /\ dated[e] < today - FirstRun
      BY <2>1, <2>2, <3>1
    <3> QED
      BY <1>1, <1>6, <3>2 DEF Reached
  <2>4. ASSUME NEW u \in Syncers, NEW e \in Records PROVE Spares(sync[u], e)'
    <3>1. CASE u = s
      <4>1. sync'[u].at \notin {"reading", "marking"}
        BY <1>2, <1>3, <3>1
      <4> QED
        BY <4>1 DEF Spares
    <3>2. CASE u # s
      <4>1. Spares(sync[u], e) /\ Prompt(sync[u])
        BY DEF WindowInv
      <4>2. /\ Overlap \in Int /\ FirstRun \in Int /\ Overlap < FirstRun /\ today \in Int
            /\ sync[u].started \in Int /\ (Waiting(e) => dated[e] \in Int)
        BY DaysAreInts DEF WindowInv, Waiting
      <4>3. ASSUME Waiting(e), sync[u].at # "idle", dated[e] < sync[u].started - FirstRun
            PROVE  Passed(e)'
        <5>1. sync[u].started <= today
          BY <4>1, <4>3 DEF Prompt
        <5>2. dated[e] < marker' - Overlap
          BY <2>1, <4>2, <4>3, <5>1
        <5> QED
          BY <1>1, <5>2 DEF Passed
      <4> QED
        BY <1>1, <1>5, <1>6, <3>2, <4>1, <4>3 DEF Spares, ComesWith
    <3> QED
      BY <3>1, <3>2
  <2> QED
    BY <1>1, <1>4, <2>1, <2>3, <2>4 DEF WindowInv
<1> QED
  BY <1>7, <1>8

\* A record is entered no more than the overlap late: within every window.
LEMMA EntryKeepsWindow ==
  ASSUME WindowInv, LubeTypeOK', NEW e \in Records, NEW d \in Dates \cup {NoDate},
         EnterRecord(e, d)
  PROVE  WindowInv'
<1>1. /\ UNCHANGED <<today, copies, linked, marker, sync>>
      /\ entered' = entered \cup {e} /\ dated' = [dated EXCEPT ![e] = d]
      /\ d # NoDate => d >= today - Overlap
  BY DEF EnterRecord
<1>2. /\ Overlap \in Int /\ today \in Int /\ (marker # NoDate => marker \in Int)
      /\ d # NoDate => d \in Int
      /\ \A u \in Syncers : sync[u].started \in Int
  BY DaysAreInts, Calendar DEF WindowInv
<1>3. /\ dated'[e] = d
      /\ \A f \in Records : f # e => dated'[f] = dated[f] /\ (Waiting(f)' => Waiting(f))
  BY <1>1 DEF WindowInv, LubeTypeOK, Waiting
<1>4. ASSUME NEW f \in Records PROVE Reached(f)'
  <2>1. CASE f # e
    BY <1>1, <1>3, <2>1 DEF WindowInv, Reached
  <2>2. CASE f = e
    <3>1. marker # NoDate => marker <= today
      BY DEF WindowInv
    <3>2. d # NoDate /\ marker # NoDate => d >= marker - Overlap
      BY <1>1, <1>2, <3>1
    <3> QED
      BY <1>1, <1>3, <2>2, <3>2 DEF Reached, Waiting
  <2> QED
    BY <2>1, <2>2
<1>5. ASSUME NEW u \in Syncers, NEW f \in Records PROVE Spares(sync[u], f)'
  <2>1. CASE f # e
    BY <1>1, <1>3, <2>1 DEF WindowInv, Spares, Passed, ComesWith
  <2>2. CASE f = e
    <3>1. sync[u].at # "idle" => sync[u].started <= today
      BY DEF WindowInv, Prompt
    <3>2. d # NoDate /\ sync[u].at # "idle" => d >= sync[u].started - Overlap
      BY <1>1, <1>2, <3>1
    <3> QED
      BY <1>1, <1>3, <2>2, <3>2 DEF Spares, Waiting
  <2> QED
    BY <2>1, <2>2
<1>6. \A u \in Syncers : Prompt(sync[u])' /\ Emptied(sync[u])'
  BY <1>1 DEF WindowInv, Prompt, Emptied
<1> QED
  BY <1>1, <1>4, <1>5, <1>6 DEF WindowInv

\* Midnight.
LEMMA MidnightKeepsWindow ==
  ASSUME WindowInv, LubeTypeOK', Tomorrow
  PROVE  WindowInv'
<1>1. /\ UNCHANGED <<entered, dated, copies, linked, marker, sync>> /\ today' = today + 1
      /\ \A u \in Syncers : sync[u].at # "idle" => sync[u].started = today
  BY DEF Tomorrow
<1>2. /\ FirstRun \in Int /\ today \in Int /\ (marker # NoDate => marker \in Int)
      /\ \A e \in Records : dated[e] # NoDate => dated[e] \in Int
  BY DaysAreInts DEF WindowInv
<1>3. marker # NoDate => marker <= today'
  BY <1>1, <1>2 DEF WindowInv
<1>4. ASSUME NEW e \in Records PROVE Reached(e)'
  BY <1>1, <1>2 DEF WindowInv, Reached, Waiting
<1>5. \A u \in Syncers : Prompt(sync[u])' /\ Emptied(sync[u])'
  BY <1>1, <1>2 DEF WindowInv, Prompt, Emptied
<1>6. ASSUME NEW u \in Syncers, NEW e \in Records PROVE Spares(sync[u], e)'
  BY <1>1 DEF WindowInv, Spares, Waiting, Passed, ComesWith
<1> QED
  BY <1>1, <1>3, <1>4, <1>5, <1>6 DEF WindowInv

LEMMA WindowStep ==
  ASSUME WindowInv, LubeTypeOK', [LubeNext]_lubeVars
  PROVE  WindowInv'
<1>1. CASE UNCHANGED lubeVars
  BY <1>1 DEF lubeVars, WindowInv, Reached, Prompt, Emptied, Spares, Waiting, Passed, ComesWith
<1> QED
  BY <1>1, BeginKeepsWindow, FetchKeepsWindow, OthersKeepWindow, ImportKeepsWindow,
     MarkerKeepsWindow, EntryKeepsWindow, MidnightKeepsWindow DEF LubeNext

\* What leaves the window, in one step.
LEMMA NothingLeaves ==
  ASSUME WindowInv, [LubeNext]_lubeVars, marker # NoDate, NEW e \in Records, Due(e),
         copies[e] = 0
  PROVE  copies'[e] > 0 \/ Due(e)'
<1>1. /\ e \in entered /\ e \notin linked
      /\ dated[e] = NoDate \/ dated[e] >= marker - Overlap
  BY DEF Due, Wanted, WindowStart
<1>2. ASSUME UNCHANGED <<linked, marker>>, entered \subseteq entered', dated'[e] = dated[e]
      PROVE  Due(e)'
  BY <1>1, <1>2 DEF Due, Wanted, WindowStart
<1>3. CASE UNCHANGED lubeVars
  BY <1>2, <1>3 DEF lubeVars
<1>4. ASSUME NEW f \in Records, NEW d \in Dates \cup {NoDate}, EnterRecord(f, d)
      PROVE  Due(e)'
  BY <1>1, <1>2, <1>4 DEF EnterRecord, WindowInv, LubeTypeOK
<1>5. CASE Tomorrow
  BY <1>2, <1>5 DEF Tomorrow
<1>6. ASSUME NEW s \in Syncers, Import(s) PROVE copies'[e] > 0 \/ Due(e)'
  <2>1. CASE e \in sync[s].rows
    BY <1>6, <2>1 DEF Import, WindowInv, LubeTypeOK
  <2>2. CASE e \notin sync[s].rows
    <3>1. e \notin linked' /\ UNCHANGED <<entered, dated, marker>>
      BY <1>1, <1>6, <2>2 DEF Import
    <3> QED
      BY <1>1, <3>1 DEF Due, Wanted, WindowStart
  <2> QED
    BY <2>1, <2>2
<1>7. ASSUME NEW s \in Syncers, MoveMarker(s) PROVE Due(e)'
  <2>1. UNCHANGED <<entered, dated, linked>> /\ marker' = NewMarker(s)
        /\ sync[s].at = "marking"
    BY <1>7 DEF MoveMarker
  <2>2. CASE sync[s].errors
    BY <1>2, <2>1, <2>2 DEF NewMarker
  <2>3. CASE ~sync[s].errors
    <3>1. marker' = sync[s].started
      BY <2>1, <2>3 DEF NewMarker
    <3>2. dated[e] # NoDate => dated[e] >= sync[s].started - Overlap
      <4>1. SUFFICES ASSUME dated[e] # NoDate PROVE dated[e] >= sync[s].started - Overlap
        OBVIOUS
      <4>2. dated[e] \in Int /\ marker \in Int /\ Overlap \in Int
        BY <4>1, DaysAreInts DEF WindowInv
      <4>3. Waiting(e) /\ ~Passed(e)
        BY <1>1, <4>1, <4>2 DEF Waiting, Passed
      <4>4. Spares(sync[s], e) /\ Emptied(sync[s])
        BY DEF WindowInv
      <4> QED
        BY <2>1, <2>3, <4>3, <4>4 DEF Spares, ComesWith, Emptied
    <3>3. marker' # NoDate
      BY <3>1, DaysAreInts, LubeAssumption DEF WindowInv
    <3> QED
      BY <1>1, <2>1, <3>1, <3>2, <3>3 DEF Due, Wanted, WindowStart
  <2> QED
    BY <2>2, <2>3
<1>8. ASSUME NEW s \in Syncers,
             \/ Begin(s) \/ (\E k \in Endpoints : Fetch(s, k)) \/ Fails(s)
             \/ (\E r \in Readings : Push(s, r)) \/ MarkSent(s) \/ Stops(s)
      PROVE  Due(e)'
  BY <1>2, <1>8 DEF Begin, Fetch, Fails, Push, MarkSent, Stops
<1> QED
  BY <1>3, <1>4, <1>5, <1>6, <1>7, <1>8 DEF LubeNext

\* For any records, days, windows and number of syncs at once, each in any state when
\* another moves the marker or dies: what was never copied and is due stays due until it
\* is copied.
THEOREM NothingFallsBehindHolds == LubeSpec => NothingFallsBehind
<1>1. LubeInit => WindowInv
  <2> SUFFICES ASSUME LubeInit PROVE WindowInv
    OBVIOUS
  <2>1. LubeTypeOK
    BY LubeAssumption, Calendar, RestIsASync DEF LubeInit, LubeTypeOK
  <2>2. \A s \in Syncers : sync[s].at = "idle"
    BY DEF LubeInit, Rest
  <2> QED
    BY <2>1, <2>2 DEF LubeInit, WindowInv, Reached, Prompt, Emptied, Spares
<1>2. LubeTypeOK' /\ WindowInv /\ [LubeNext]_lubeVars => WindowInv'
  BY WindowStep
<1>3. LubeTypeOK /\ WindowInv /\ [LubeNext]_lubeVars
        => (marker # NoDate =>
              \A e \in Records : Due(e) /\ copies[e] = 0 => (copies'[e] > 0 \/ Due(e)'))
  BY NothingLeaves
<1> QED
  BY <1>1, <1>2, <1>3, LubeTypeCorrect, PTL DEF LubeSpec, NothingFallsBehind
=============================================================================
