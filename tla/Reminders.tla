----------------------------- MODULE Reminders -----------------------------
(***************************************************************************)
(* The reminders job (homeautoshop/core/notifications.py): what is worth   *)
(* mentioning is collected once, then each enabled channel is told what it *)
(* has not been told within the cooldown.  A digest is sent first and      *)
(* recorded after; the worker may die in between, and the job runs again.  *)
(* A send that raises is taken for one that told nobody, which a timeout    *)
(* need not be.                                                            *)
(*                                                                         *)
(* Time is kept as ages that stop at Cooldown: `recorded` is the age of    *)
(* the newest NotificationSent, `heard` of what really went out.           *)
(***************************************************************************)
EXTENDS Integers, FiniteSets

CONSTANTS
  Channels,   \* NotificationChannel ids
  Working,    \* those whose send always returns
  Alerts,     \* dedupe keys
  Heeds,      \* per channel the alerts it is for: all, or those not routine
  Cooldown,   \* REMINDER_COOLDOWN_DAYS
  MaxDeaths,  \* bound on the worker's deaths
  NoChannel   \* nobody is being told

ASSUME RemindersAssumption ==
  /\ Working \subseteq Channels
  /\ Heeds \in [Channels -> SUBSET Alerts]
  /\ Cooldown \in Nat \ {0}
  /\ MaxDeaths \in Nat
  /\ NoChannel \notin Channels

VARIABLES
  active,      \* the alerts collect() would find
  enabled,     \* the channels with is_enabled
  recorded,    \* age of the newest record of an alert on a channel
  heard,       \* age of its last delivery
  run,         \* the channels still to be told, or that no run is on
  found,       \* the digest the run collected
  telling,     \* the channel whose digest has been sent
  message,     \* what was in it
  deaths,
  unrecorded,  \* what a channel heard last without its being recorded
  twice        \* what it was told within the cooldown of a telling on record

remVars == <<active, enabled, recorded, heard, run, found, telling, message,
             deaths, unrecorded, twice>>

Pairs == Channels \X Alerts
NoRun == [on |-> FALSE, left |-> {}]

RemTypeOK ==
  /\ active \subseteq Alerts
  /\ enabled \subseteq Channels
  /\ recorded \in [Pairs -> 0..Cooldown]
  /\ heard \in [Pairs -> 0..Cooldown]
  /\ run \in [on : BOOLEAN, left : SUBSET Channels]
  /\ found \subseteq Alerts
  /\ telling \in Channels \cup {NoChannel}
  /\ message \subseteq Alerts
  /\ deaths \in 0..MaxDeaths
  /\ unrecorded \subseteq Pairs /\ twice \subseteq Pairs

RemInit ==
  /\ active = {} /\ enabled = Channels
  /\ recorded = [p \in Pairs |-> Cooldown]
  /\ heard = [p \in Pairs |-> Cooldown]
  /\ run = NoRun /\ found = {}
  /\ telling = NoChannel /\ message = {}
  /\ deaths = 0 /\ unrecorded = {} /\ twice = {}

-----------------------------------------------------------------------------
(* The world: something falls due or is dealt with, a channel is switched, *)
(* a day passes.                                                           *)

Change(a) ==
  /\ active' = IF a \in active THEN active \ {a} ELSE active \cup {a}
  /\ UNCHANGED <<enabled, recorded, heard, run, found, telling, message, deaths,
                 unrecorded, twice>>

Toggle(c) ==
  /\ enabled' = IF c \in enabled THEN enabled \ {c} ELSE enabled \cup {c}
  /\ UNCHANGED <<active, recorded, heard, run, found, telling, message, deaths,
                 unrecorded, twice>>

Older(age) == [p \in Pairs |-> IF age[p] < Cooldown THEN age[p] + 1 ELSE age[p]]

DayPasses ==
  /\ recorded' = Older(recorded)
  /\ heard' = Older(heard)
  /\ UNCHANGED <<active, enabled, run, found, telling, message, deaths, unrecorded, twice>>

-----------------------------------------------------------------------------
(* run().                                                                  *)

\* The channels are listed, then the digest is collected; with nothing to say
\* nothing is said.
StartRun ==
  /\ ~run.on /\ enabled # {} /\ active # {}
  /\ run' = [on |-> TRUE, left |-> enabled]
  /\ found' = active
  /\ UNCHANGED <<active, enabled, recorded, heard, telling, message, deaths,
                 unrecorded, twice>>

\* Slip: what was said on any channel is taken for said on all.
MutAlreadySaid(c, a) == \E d \in Channels : recorded[<<d, a>>] < Cooldown

\* _already_said(): recorded within the cooldown.
AlreadySaid(c, a) == recorded[<<c, a>>] < Cooldown

\* digest_for().
DigestFor(c) == {a \in found \cap Heeds[c] : ~AlreadySaid(c, a)}

Told(c, S) == {c} \X S

\* What is left when c has had its turn.
After(c) ==
  IF run.left = {c} THEN NoRun ELSE [run EXCEPT !.left = @ \ {c}]

Skip(c) ==
  /\ telling = NoChannel /\ c \in run.left
  /\ DigestFor(c) = {}
  /\ run' = After(c)
  /\ UNCHANGED <<active, enabled, recorded, heard, found, telling, message, deaths,
                 unrecorded, twice>>

\* The channel's digest arrives.
Arrives(c) ==
  LET now == Told(c, DigestFor(c)) IN
    /\ heard' = [p \in Pairs |-> IF p \in now THEN 0 ELSE heard[p]]
    /\ twice' = twice \cup {p \in now \ unrecorded : heard[p] < Cooldown}

\* deliver() sends ...
Send(c) ==
  /\ telling = NoChannel /\ c \in run.left
  /\ DigestFor(c) # {}
  /\ telling' = c
  /\ message' = DigestFor(c)
  /\ Arrives(c)
  /\ UNCHANGED <<active, enabled, recorded, run, found, deaths, unrecorded>>

\* Slip: nothing is recorded.
MutRecord ==
  /\ telling # NoChannel
  /\ unrecorded' = unrecorded \ Told(telling, message)
  /\ run' = After(telling)
  /\ telling' = NoChannel /\ message' = {}
  /\ UNCHANGED <<active, enabled, recorded, heard, found, deaths, twice>>

\* ... and, when that returned, records.
Record ==
  /\ telling # NoChannel
  /\ recorded' = [p \in Pairs |-> IF p \in Told(telling, message) THEN 0 ELSE recorded[p]]
  /\ unrecorded' = unrecorded \ Told(telling, message)
  /\ run' = After(telling)
  /\ telling' = NoChannel /\ message' = {}
  /\ UNCHANGED <<active, enabled, heard, found, deaths, twice>>

\* A send that raises says so on the channel, and the next has its turn; a push
\* subscription that is gone switches its channel off.  Nothing arrived, or it did and
\* the answer was late or could not be read: deliver() makes no difference.
Fail(c) ==
  /\ telling = NoChannel /\ c \in run.left \ Working
  /\ DigestFor(c) # {}
  /\ run' = After(c)
  /\ \/ enabled' = enabled \ {c}
     \/ UNCHANGED enabled
  /\ \/ UNCHANGED <<heard, twice, unrecorded>>
     \/ /\ Arrives(c)
        /\ unrecorded' = unrecorded \cup Told(c, DigestFor(c))
  /\ UNCHANGED <<active, recorded, found, telling, message, deaths>>

Die ==
  /\ run.on /\ deaths < MaxDeaths
  /\ deaths' = deaths + 1
  /\ run' = NoRun
  /\ unrecorded' = unrecorded \cup (IF telling = NoChannel THEN {} ELSE Told(telling, message))
  /\ telling' = NoChannel /\ message' = {}
  /\ UNCHANGED <<active, enabled, recorded, heard, found, twice>>

RemNext ==
  \/ \E a \in Alerts : Change(a)
  \/ \E c \in Channels : Toggle(c) \/ Skip(c) \/ Send(c) \/ Fail(c)
  \/ DayPasses \/ StartRun \/ Record \/ Die

RunStep == (\E c \in Channels : Skip(c) \/ Send(c) \/ Fail(c)) \/ Record

\* The job comes round (ScheduleGoesOn of JobScheduler), a run that goes on ends,
\* days pass.
RemFairness == WF_remVars(StartRun) /\ WF_remVars(RunStep) /\ WF_remVars(DayPasses)

RemSpec == RemInit /\ [][RemNext]_remVars /\ RemFairness

-----------------------------------------------------------------------------
(* Properties.                                                             *)

\* A channel is told nothing again within the cooldown, unless the last time could not
\* be recorded: the worker died between sending and recording, or the send raised
\* although it had arrived.  (Once it is recorded the cooldown counts again.)
ToldOnce == twice = {}

\* What stays true is said to every channel that is on and works, again and again
\* as the cooldown runs out, whatever becomes of the other channels.
EveryAlertIsHeard ==
  \A c \in Working : \A a \in Heeds[c] :
    (a \in active /\ c \in enabled)
      ~> (heard[<<c, a>>] = 0 \/ a \notin active \/ c \notin enabled)
=============================================================================
