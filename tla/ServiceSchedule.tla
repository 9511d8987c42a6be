-------------------------- MODULE ServiceSchedule --------------------------
(***************************************************************************)
(* One vehicle's maintenance schedule (homeautoshop/maintenance/models.py, *)
(* services.py, views.py): when each item was last done, when it is next   *)
(* due, and the status that is stored because every list reads it.         *)
(*                                                                         *)
(* The status has two outside inputs, the meter and the calendar.  The     *)
(* operator's requests come one at a time and are one transaction each,    *)
(* but for the add form's two; beside them the worker's daily              *)
(* `maintenance.refresh` reads all items at once and then, one by one,     *)
(* reads the meter, recalculates its copy and saves the whole row.  What   *)
(* the operator does in between is not in the copy.                        *)
(*                                                                         *)
(* A date is the number of a day and a month so many days; hours, which    *)
(* are counted like distance, and the look-ahead, a setting, are left out. *)
(***************************************************************************)
EXTENDS Integers, FiniteSets

CONSTANTS
  Items,        \* AssetServiceItem rows, numbered
  None,         \* SQL NULL
  NoItem,
  Meters,       \* readings of the meter; the code takes 0 for none
  Intervals,    \* [miles, days] an operator may ask for; 0 is a blank
  DefinitionOf, \* DefinitionOf[i]: the service i is a row of
  Template,     \* Template[i]: what the schedule template says of it
  DueSoonMiles, DueSoonDays, SnoozeDays,
  MaxDay,       \* bound: the last day
  MaxRequests   \* bound: what the operator does altogether

Interval == [miles : Nat, days : Nat]

ASSUME ScheduleAssumption ==
  /\ Meters \subseteq Nat \ {0}
  /\ None \notin Int
  /\ Items \subseteq Nat
  /\ NoItem \notin Items
  /\ Intervals \subseteq Interval
  /\ Template \in [Items -> Interval]
  /\ DueSoonMiles \in Nat /\ DueSoonDays \in Nat /\ SnoozeDays \in Nat
  /\ MaxDay \in Nat /\ MaxRequests \in Nat

VARIABLES
  today,    \* timezone.localdate()
  meter,    \* asset.current_usage
  rows,     \* the items as they are stored
  history,  \* ServiceCompletion: which item, on which day
  asked,    \* what the operator has done so far
  adding,   \* the row service_item_add has saved and not yet completed
  cut,      \* rows it saved and was killed before it completed
  asOf,     \* refresh_fleet: the day it began,
  todo,     \*   the items it has yet to come to,
  copy,     \*   its instances,
  saving    \*   and the one it is about to save

shop      == <<today, meter, rows, history>>
adds      == <<adding, cut>>
refresher == <<asOf, todo, copy, saving>>
scheduleVars == <<shop, asked, adds, refresher>>

ServiceStatus == {"ok", "due_soon", "overdue", "snoozed", "disabled"}

Row == [listed : {"absent", "listed", "removed"}, status : ServiceStatus,
        miles : Nat, days : Nat,
        doneOn : Int \cup {None}, doneAt : Int \cup {None},
        dueOn : Int \cup {None}, dueAt : Int \cup {None},
        snooze : Int \cup {None}]

Blank == [listed |-> "absent", status |-> "ok", miles |-> 0, days |-> 0,
          doneOn |-> None, doneAt |-> None, dueOn |-> None, dueAt |-> None,
          snooze |-> None]

ScheduleTypeOK ==
  /\ today \in 0..MaxDay
  /\ meter \in Meters \cup {None}
  /\ rows \in [Items -> Row]
  /\ history \subseteq [item : Items, on : Int]
  /\ asked \in 0..MaxRequests
  /\ adding \in Items \cup {NoItem} /\ cut \subseteq Items
  /\ asOf \in 0..MaxDay
  /\ todo \subseteq Items
  /\ copy \in [Items -> Row]
  /\ saving \in Items \cup {NoItem}

-----------------------------------------------------------------------------
(* recalculate(), _status_for(), complete(), refresh().                    *)

\* An interval from the last service, or from where the meter and the calendar
\* are now when there is none.
NextDueAt(row, m) ==
  IF row.miles = 0 THEN None
  ELSE IF row.doneAt # None THEN row.doneAt + row.miles
  ELSE IF m # None THEN m + row.miles
  ELSE None

NextDueOn(row, day) ==
  IF row.days = 0 THEN None
  ELSE (IF row.doneOn # None THEN row.doneOn ELSE day) + row.days

\* First to arrive wins.
StatusFor(row, day, m) ==
  LET past(margin) == \/ row.dueOn # None /\ row.dueOn < day + margin.days
                      \/ row.dueAt # None /\ m # None /\ row.dueAt < m + margin.miles
  IN  IF row.snooze # None /\ row.snooze >= day THEN "snoozed"
      ELSE IF past([days |-> 0, miles |-> 0]) THEN "overdue"
      ELSE IF past([days |-> DueSoonDays + 1, miles |-> DueSoonMiles + 1]) THEN "due_soon"
      ELSE "ok"

\* An ignored item is left as it is.
Recalculated(row, day, m) ==
  IF row.status = "disabled" THEN row
  ELSE LET due == [row EXCEPT !.dueAt = NextDueAt(row, m), !.dueOn = NextDueOn(row, day)]
       IN  [due EXCEPT !.status = StatusFor(due, day, m)]

\* Slip: an older service rewinds the baseline.
MutCompleted(row, on, at) ==
  IF row.status = "disabled" THEN row
  ELSE Recalculated([row EXCEPT !.doneOn = on, !.doneAt = IF at = None THEN @ ELSE at,
                                !.snooze = None], today, meter)

\* The row complete() leaves.  The baseline only moves forward; recalculate()
\* saves it, and returns before the save when the item is ignored.
Completed(row, on, at) ==
  IF row.status = "disabled" \/ (row.doneOn # None /\ on < row.doneOn) THEN row
  ELSE Recalculated([row EXCEPT !.doneOn = on, !.doneAt = IF at = None THEN @ ELSE at,
                                !.snooze = None], today, meter)

\* Work recorded as it happens takes the meter as it reads.
Reading(on, at) == IF at = None /\ on >= today THEN meter ELSE at

Listed(i) == rows[i].listed = "listed"

Siblings(i) == {k \in Items \ {i} : DefinitionOf[k] = DefinitionOf[i]}

\* unique_asset_service_item: a row cannot be saved alive beside another of its
\* service.
Unlisted(i) == \A k \in Siblings(i) : ~Listed(k)

\* The rows of a service are numbered as they are inserted.
IsNew(i) == rows[i].listed = "absent" /\ \A k \in Siblings(i) : k < i => rows[k].listed # "absent"

Tracked(i) == Listed(i) /\ rows[i].status # "disabled"

\* refresh_asset()
Refreshed(m) == [i \in Items |-> IF Listed(i) THEN Recalculated(rows[i], today, m) ELSE rows[i]]

Moved(old, new) == <<old.dueOn, old.dueAt, old.status>> # <<new.dueOn, new.dueAt, new.status>>

-----------------------------------------------------------------------------

\* A schedule template was applied to some of the items on day 0.
ScheduleInit ==
  /\ today = 0
  /\ meter \in Meters \cup {None}
  /\ \E S \in SUBSET Items :
       /\ \A i \in S : \A k \in Siblings(i) : i < k
       /\ rows = [i \in Items |->
                IF i \in S
                THEN Recalculated([Blank EXCEPT !.listed = "listed", !.miles = Template[i].miles,
                                                !.days = Template[i].days], 0, meter)
                ELSE Blank]
  /\ history = {}
  /\ asked = 0
  /\ adding = NoItem /\ cut = {}
  /\ asOf = 0
  /\ todo = {}
  /\ copy = [i \in Items |-> Blank]
  /\ saving = NoItem

\* One request of the operator's, when there is no other.
Ask == adding = NoItem /\ asked < MaxRequests /\ asked' = asked + 1

Put(i, row) == rows' = [rows EXCEPT ![i] = row]

\* A request that changes one row.
RowRequest(i, row) ==
  /\ Ask
  /\ Put(i, row)
  /\ UNCHANGED <<today, meter, history, adds, refresher>>

\* The items' page brings them up to date before it shows them.
AssetSchedule ==
  /\ Ask
  /\ rows' = Refreshed(meter)
  /\ UNCHANGED <<today, meter, history, adds, refresher>>

\* UsageReading.save(): a reading arrives, or goes to the trash and the meter
\* falls back to the one before it.
SaveReading ==
  /\ Ask
  /\ meter' \in Meters \cup {None}
  /\ rows' = Refreshed(meter')
  /\ UNCHANGED <<today, history, adds, refresher>>

\* apply_template(): a removed row is revived, and tracked again; there is a new
\* one when there was none.
ApplyTemplate(i) ==
  /\ ~Listed(i) /\ Unlisted(i)
  /\ rows[i].listed = "absent" => IsNew(i) /\ \A k \in Siblings(i) : rows[k].listed = "absent"
  /\ RowRequest(i, Recalculated([rows[i] EXCEPT
       !.listed = "listed",
       !.status = IF @ = "disabled" THEN "ok" ELSE @,
       !.miles = Template[i].miles,
       !.days = Template[i].days], today, meter))

\* item.save(): a row of its own, whatever was removed before.
ServiceItemAdd(i) ==
  /\ IsNew(i) /\ Unlisted(i)
  /\ Ask
  /\ \E every \in Intervals, on \in (0..today) \cup {None}, at \in Meters \cup {None} :
       /\ every.miles > 0 \/ every.days > 0
       /\ Put(i, [Blank EXCEPT !.listed = "listed", !.miles = every.miles, !.days = every.days,
                               !.doneOn = on, !.doneAt = at])
  /\ adding' = i
  /\ UNCHANGED <<today, meter, history, cut, refresher>>

\* Slip: the date is an anchor and no service.
MutServiceItemAdded ==
  /\ adding # NoItem
  /\ Put(adding, Recalculated(rows[adding], today, meter))
  /\ adding' = NoItem
  /\ UNCHANGED <<today, meter, history, asked, cut, refresher>>

\* complete(): a date that has happened is a service that happened; a reading
\* alone is an anchor and no more.
ServiceItemAdded ==
  /\ adding # NoItem
  /\ LET new == rows[adding]
     IN  \/ /\ new.doneOn # None
            /\ Put(adding, Completed(new, new.doneOn, Reading(new.doneOn, new.doneAt)))
            /\ history' = history \cup {[item |-> adding, on |-> new.doneOn]}
         \/ /\ new.doneOn = None
            /\ Put(adding, Recalculated(new, today, meter))
            /\ UNCHANGED history
  /\ adding' = NoItem
  /\ UNCHANGED <<today, meter, asked, cut, refresher>>

\* The worker is killed between the two.
ServiceItemCutOff ==
  /\ adding # NoItem
  /\ cut' = cut \cup {adding}
  /\ adding' = NoItem
  /\ UNCHANGED <<shop, asked, refresher>>

ServiceItemUpdate(i) ==
  /\ Listed(i)
  /\ \E every \in Intervals :
       RowRequest(i, Recalculated([rows[i] EXCEPT !.miles = every.miles, !.days = every.days],
                                  today, meter))

\* The date typed may be of any day, the reading left out.
ServiceItemComplete(i) ==
  /\ Listed(i)
  /\ Ask
  /\ \E on \in 0..MaxDay, at \in Meters \cup {None} :
       /\ Put(i, Completed(rows[i], on, Reading(on, at)))
       /\ history' = history \cup {[item |-> i, on |-> on]}
  /\ UNCHANGED <<today, meter, adds, refresher>>

Snooze(i) ==
  /\ Listed(i)
  /\ RowRequest(i, Recalculated([rows[i] EXCEPT !.snooze = today + SnoozeDays], today, meter))

Ignore(i) == Listed(i) /\ RowRequest(i, [rows[i] EXCEPT !.status = "disabled"])

Track(i) ==
  /\ Listed(i)
  /\ RowRequest(i, Recalculated([rows[i] EXCEPT !.status = "ok", !.snooze = None], today, meter))

\* Only a plan, never a record.
ServiceItemRemove(i) ==
  /\ Listed(i)
  /\ \A done \in history : done.item # i
  /\ RowRequest(i, [rows[i] EXCEPT !.listed = "removed"])

Operator ==
  \/ AssetSchedule
  \/ SaveReading
  \/ \E i \in Items :
       \/ ApplyTemplate(i) \/ ServiceItemAdd(i) \/ ServiceItemUpdate(i)
       \/ ServiceItemComplete(i) \/ Snooze(i) \/ Ignore(i) \/ Track(i)
       \/ ServiceItemRemove(i)
  \/ ServiceItemAdded \/ ServiceItemCutOff

-----------------------------------------------------------------------------
(* refresh_fleet(), in the worker.                                         *)

Idle == todo = {} /\ saving = NoItem

\* Slip: only what already wants attention is looked at.
MutRefreshLoad ==
  /\ Idle
  /\ todo' = {i \in Items : Listed(i) /\ rows[i].status \in {"overdue", "due_soon"}}
  /\ todo' # {}
  /\ copy' = [i \in Items |-> IF i \in todo' THEN rows[i] ELSE Blank]
  /\ asOf' = today
  /\ UNCHANGED <<shop, asked, adds, saving>>

\* One query for all of them.
RefreshLoad ==
  /\ Idle
  /\ todo' = {i \in Items : Tracked(i)}
  /\ todo' # {}
  /\ copy' = [i \in Items |-> IF i \in todo' THEN rows[i] ELSE Blank]
  /\ asOf' = today
  /\ UNCHANGED <<shop, asked, adds, saving>>

\* The meter is read, the copy recalculated; it is saved if it moved.
RefreshFigure(i) ==
  LET new == Recalculated(copy[i], asOf, meter)
  IN  /\ i \in todo
      /\ saving = NoItem
      /\ todo' = todo \ {i}
      /\ IF Moved(copy[i], new)
         THEN saving' = i /\ copy' = [copy EXCEPT ![i] = new]
         ELSE saving' = NoItem /\ copy' = [copy EXCEPT ![i] = Blank]
      /\ UNCHANGED <<shop, asked, adds, asOf>>

\* item.save(): every column, as the copy has it, alive.  Where that row was
\* removed and the service added again, it is refused, and the job fails.
RefreshSave ==
  /\ saving # NoItem
  /\ saving' = NoItem
  /\ \/ /\ Unlisted(saving)
        /\ Put(saving, copy[saving])
        /\ copy' = [copy EXCEPT ![saving] = Blank]
        /\ UNCHANGED todo
     \/ /\ ~Unlisted(saving)
        /\ todo' = {}
        /\ copy' = [i \in Items |-> Blank]
        /\ UNCHANGED rows
  /\ UNCHANGED <<today, meter, history, asked, adds, asOf>>

RefreshStep == RefreshLoad \/ (\E i \in Items : RefreshFigure(i)) \/ RefreshSave

Midnight ==
  /\ today < MaxDay
  /\ today' = today + 1
  /\ UNCHANGED <<meter, rows, history, asked, adds, refresher>>
=============================================================================
