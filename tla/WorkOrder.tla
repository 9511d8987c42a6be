----------------------------- MODULE WorkOrder -----------------------------
(***************************************************************************)
(* A work order and its job items (homeautoshop/work/models.py, views.py,  *)
(* and the two job operations of api/urls.py), over the schedule of the    *)
(* vehicle it is on: "doing the work in a work order is the act of         *)
(* resetting the schedule".                                                *)
(*                                                                         *)
(* The operator's requests come one at a time; the worker's refresh of the *)
(* schedule runs beside them.  The vehicle has a meter.                    *)
(***************************************************************************)
EXTENDS ServiceSchedule

CONSTANT Jobs  \* the order's JobItems

VARIABLES
  order,    \* WorkOrder: status, started_at and completed_at are set, odometer_out
  jobs,     \* JobItem: status, completed_at is set, service_item
  credited  \* how many ServiceCompletions name the job item

work    == <<order, jobs, credited>>
allVars == <<scheduleVars, work>>

OrderStatus == {"planned", "in_progress", "waiting_on_parts", "on_hold", "complete", "abandoned"}
JobStatus == {"todo", "doing", "done", "skipped"}

Order == [status : OrderStatus, started : BOOLEAN, completed : BOOLEAN, out : Meters \cup {None}]
Job == [status : JobStatus, completed : BOOLEAN, service : Items \cup {NoItem}]

UpkeepTypeOK ==
  /\ ScheduleTypeOK
  /\ order \in Order
  /\ jobs \in [Jobs -> Job]
  /\ credited \in [Jobs -> Nat]

Init ==
  /\ ScheduleInit
  /\ order = [status |-> "planned", started |-> FALSE, completed |-> FALSE, out |-> None]
  /\ jobs \in [Jobs -> {[status |-> "todo", completed |-> FALSE, service |-> i] :
                          i \in {j \in Items : Listed(j)} \cup {NoItem}}]
  /\ credited = [j \in Jobs |-> 0]

-----------------------------------------------------------------------------

\* TRANSITIONS
MayBecome(s) ==
  CASE s = "planned" -> {"in_progress", "waiting_on_parts", "abandoned"}
    [] s = "in_progress" -> {"planned", "waiting_on_parts", "on_hold", "complete", "abandoned"}
    [] s = "waiting_on_parts" -> {"planned", "in_progress", "on_hold", "abandoned"}
    [] s = "on_hold" -> {"planned", "in_progress", "waiting_on_parts", "abandoned"}
    [] OTHER -> {"planned", "in_progress"}

\* Slip: a reopened order keeps the date it was completed on.
MutMove(s) ==
  [order EXCEPT !.status = s, !.started = @ \/ s = "in_progress"]

\* What any move but the one to "complete" leaves: reopened, an order is no
\* longer completed.
Move(s) ==
  [order EXCEPT !.status = s, !.started = @ \/ s = "in_progress",
                !.completed = @ /\ order.status # "complete"]

\* transition_to(): to anything but "complete".  Waiting needs a reason, which
\* the request brings or the order has.
TransitionTo(s) ==
  /\ Ask
  /\ s \in MayBecome(order.status) \ {"complete"}
  /\ order' = Move(s)
  /\ UNCHANGED <<shop, adds, refresher, jobs, credited>>

\* Closing out needs a reading, this one or one from before.  The work order's
\* own page adds it to the vehicle's readings; the API does not.
Complete ==
  /\ Ask
  /\ "complete" \in MayBecome(order.status)
  /\ \E out \in (Meters \cup {order.out}) \ {None} :
       /\ order' = [order EXCEPT !.status = "complete", !.completed = TRUE, !.out = out]
       /\ \/ meter' = out /\ rows' = Refreshed(out)
          \/ UNCHANGED <<meter, rows>>
  /\ UNCHANGED <<today, history, adds, refresher, jobs, credited>>

\* Pressed once more: no transition, and the reading is recorded again.
CompleteAgain ==
  /\ Ask
  /\ order.status = "complete"
  /\ meter' = order.out
  /\ rows' = Refreshed(order.out)
  /\ UNCHANGED <<today, history, adds, refresher, work>>

\* Slip: whether the work was recorded before is not asked.
MutSaveJob(j, s, i) ==
  LET newlyDone == s = "done" /\ ~jobs[j].completed
      at == IF order.out # None THEN order.out ELSE meter
  IN  /\ jobs' = [jobs EXCEPT ![j] = [status |-> s, completed |-> s = "done", service |-> i]]
      /\ IF newlyDone /\ i # NoItem
         THEN /\ Put(i, Completed(rows[i], today, Reading(today, at)))
              /\ history' = history \cup {[item |-> i, on |-> today]}
              /\ credited' = [credited EXCEPT ![j] = @ + 1]
         ELSE UNCHANGED <<rows, history, credited>>

\* JobItem.save(): doing the work is resetting the schedule, once.
SaveJob(j, s, i) ==
  LET newlyDone == s = "done" /\ ~jobs[j].completed
      at == IF order.out # None THEN order.out ELSE meter
  IN  /\ jobs' = [jobs EXCEPT ![j] = [status |-> s, completed |-> s = "done", service |-> i]]
      /\ IF newlyDone /\ i # NoItem /\ credited[j] = 0
         THEN /\ Put(i, Completed(rows[i], today, Reading(today, at)))
              /\ history' = history \cup {[item |-> i, on |-> today]}
              /\ credited' = [credited EXCEPT ![j] = @ + 1]
         ELSE UNCHANGED <<rows, history, credited>>

JobItemToggle(j) ==
  /\ Ask
  /\ SaveJob(j, IF jobs[j].status \in {"done", "skipped"} THEN "todo" ELSE "done",
             jobs[j].service)
  /\ UNCHANGED <<today, meter, adds, refresher, order>>

\* The form offers this vehicle's items; a captured write sets the status only.
JobItemEdit(j) ==
  /\ Ask
  /\ \E s \in JobStatus, i \in {k \in Items : Listed(k)} \cup {NoItem, jobs[j].service} :
       SaveJob(j, s, i)
  /\ UNCHANGED <<today, meter, adds, refresher, order>>

Shop ==
  \/ Operator /\ UNCHANGED work
  \/ \E s \in OrderStatus : TransitionTo(s)
  \/ Complete \/ CompleteAgain
  \/ \E j \in Jobs : JobItemToggle(j) \/ JobItemEdit(j)

Next == \/ Shop
        \/ (RefreshStep \/ Midnight) /\ UNCHANGED work

\* The worker runs maintenance.refresh again and again (JobScheduler).
Spec == Init /\ [][Next]_allVars /\ WF_allVars(RefreshStep /\ UNCHANGED work)

-----------------------------------------------------------------------------

\* However often it is undone, reopened, relinked and done again, a job item is
\* one service in the vehicle's history.
OneCompletionPerJob == \A j \in Jobs : credited[j] <= 1

\* The date an interval runs from is that of a service in the history: whatever
\* screen it was entered on, and whatever a late refresh writes back.  (Not so for
\* a row whose add was cut off between its two transactions.)
AnchorIsRecorded ==
  \A i \in Items \ ({adding} \cup cut) :
    rows[i].doneOn # None => [item |-> i, on |-> rows[i].doneOn] \in history

\* "Back-filling an older service must not rewind a schedule": nothing the
\* operator does takes a baseline back.  Only the refresh can, by saving a row
\* it read before.
Rewound(i) ==
  /\ rows[i].doneOn # None
  /\ rows'[i].doneOn = None \/ rows'[i].doneOn < rows[i].doneOn

ServicesNeverRewind == [][\A i \in Items : Rewound(i) => saving = i]_allVars

\* A completed order was started, says when it was completed and at what
\* reading; one that is open again does not say it is completed.
ClosedOut ==
  /\ order.completed = (order.status = "complete")
  /\ order.status = "complete" => order.started /\ order.out # None

\* The stored status, which all the lists read, comes to be the status, however
\* the meter and the calendar move and whatever a late refresh wrote.
StatusIsRight(i) == Tracked(i) => rows[i].status = Recalculated(rows[i], today, meter).status

StatusCatchesUp == \A i \in Items : []<>StatusIsRight(i)

\* "Completing a job item linked to a service item writes one of these and
\* rolls the interval forward": when the service is recorded, the interval runs
\* from that day, or from a later one.
TheWorkResetsTheSchedule ==
  [][\A j \in Jobs : credited'[j] > credited[j] =>
       LET done == rows'[jobs'[j].service]
       IN  done.doneOn # None /\ done.doneOn >= today]_allVars
=============================================================================
