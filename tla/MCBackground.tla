---------------------------- MODULE MCBackground ----------------------------
(* Two kinds of work behind the screens, side by side: media and reminders.   *)
(* They share no state, so a behaviour moves one of them, which `moving`      *)
(* names.                                                                     *)
EXTENDS MediaPipeline, Reminders

CONSTANTS mail, push, service

VARIABLE moving

AllHeed == [ch \in Channels |-> Alerts]

BackInit ==
  /\ moving \in {"media", "reminders"}
  /\ MediaInit /\ RemInit

Media(A) == moving = "media" /\ A /\ UNCHANGED <<moving, remVars>>
Reminder(A) == moving = "reminders" /\ A /\ UNCHANGED <<moving, mediaVars>>

BackNext == Media(MediaNext) \/ Reminder(RemNext)

backVars == <<moving, mediaVars, remVars>>

\* MediaFairness and RemFairness, each of the component that moves.
BackFairness ==
  /\ \A m \in Files : WF_backVars(Media(RunOcr(m))) /\ WF_backVars(Media(RunDerive(m)))
  /\ WF_backVars(Media(SweepReads)) /\ WF_backVars(Media(SweepQueues))
  /\ WF_backVars(Reminder(StartRun)) /\ WF_backVars(Reminder(RunStep))
  /\ WF_backVars(Reminder(DayPasses))

BackSpec == BackInit /\ [][BackNext]_backVars /\ BackFairness
=============================================================================
