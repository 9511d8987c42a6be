-------------------------- MODULE WorkOrderProofs --------------------------
(***************************************************************************)
(* What WorkOrder and ServiceSchedule keep for every set of items, jobs    *)
(* and readings, every schedule and any number of requests.                *)
(***************************************************************************)
EXTENDS WorkOrder, TLAPS

(***************************************************************************)
(* What the functions of maintenance/services.py do to a row.              *)
(***************************************************************************)

\* recalculate() writes the due columns and the status of a row, no other.
LEMMA RecalculatedRow ==
  ASSUME NEW row \in Row, NEW day \in Int, NEW m \in Int \cup {None}
  PROVE  /\ Recalculated(row, day, m) \in Row
         /\ Recalculated(row, day, m).doneOn = row.doneOn
         /\ Recalculated(row, day, m).listed = row.listed
<1> DEFINE at == NextDueAt(row, m)
           on == NextDueOn(row, day)
           due == [row EXCEPT !.dueAt = at, !.dueOn = on]
<1>1. at \in Int \cup {None} /\ on \in Int \cup {None}
  BY ScheduleAssumption DEF NextDueAt, NextDueOn, Row
<1> HIDE DEF at, on
<1>2. /\ due \in Row
      /\ due.doneOn = row.doneOn
      /\ due.listed = row.listed
  BY <1>1 DEF Row
<1> DEFINE s == StatusFor(due, day, m)
<1>3. s \in ServiceStatus
  BY DEF StatusFor, ServiceStatus
<1> HIDE DEF s, due
<1>4. [due EXCEPT !.status = s] \in Row
  BY <1>2, <1>3 DEF Row
<1>5. Recalculated(row, day, m) = IF row.status = "disabled" THEN row ELSE [due EXCEPT !.status = s]
  BY Zenon DEF Recalculated, due, s, at, on
<1> QED BY <1>2, <1>4, <1>5 DEF Row

\* complete() leaves a row whose baseline is as it was or the day of the work,
\* and never an earlier one.
LEMMA CompletedRow ==
  ASSUME NEW row \in Row, NEW on \in Int, NEW at \in Int \cup {None},
         today \in Int, meter \in Int \cup {None}
  PROVE  /\ Completed(row, on, at) \in Row
         /\ Completed(row, on, at).listed = row.listed
         /\ Completed(row, on, at).doneOn \in {row.doneOn, on}
         /\ row.doneOn # None => /\ Completed(row, on, at).doneOn # None
                                 /\ Completed(row, on, at).doneOn >= row.doneOn
<1> DEFINE new == [row EXCEPT !.doneOn = on, !.doneAt = IF at = None THEN row.doneAt ELSE at,
                              !.snooze = None]
<1>1. new \in Row /\ new.doneOn = on /\ new.listed = row.listed
  BY DEF Row
<1>2. Completed(row, on, at) =
        IF row.status = "disabled" \/ (row.doneOn # None /\ on < row.doneOn) THEN row
        ELSE Recalculated(new, today, meter)
  BY Zenon DEF Completed
<1> HIDE DEF new
<1>3. /\ Recalculated(new, today, meter) \in Row
      /\ Recalculated(new, today, meter).doneOn = on
      /\ Recalculated(new, today, meter).listed = row.listed
  BY <1>1, RecalculatedRow
<1>4. row.doneOn \in Int \cup {None} /\ on # None
  BY ScheduleAssumption DEF Row
<1>5. CASE row.status = "disabled" \/ (row.doneOn # None /\ on < row.doneOn)
  BY <1>2, <1>4, <1>5
<1>6. CASE ~(row.status = "disabled" \/ (row.doneOn # None /\ on < row.doneOn))
  BY <1>2, <1>3, <1>4, <1>6
<1> QED BY <1>5, <1>6

LEMMA BlankRow == Blank \in Row /\ Blank.doneOn = None
BY DEF Blank, Row, ServiceStatus

(***************************************************************************)
(* The invariant.                                                          *)
(***************************************************************************)

\* What a refresh holds in memory was read from a row, so a baseline it may
\* write back is of a recorded service too, or of one that is about to be, and the
\* row is not a new one.
CopyIsKept ==
  /\ saving \notin todo
  /\ \A i \in Items \ ({adding} \cup cut) :
       copy[i].doneOn # None => [item |-> i, on |-> copy[i].doneOn] \in history
  /\ \A i \in Items :
       /\ i \notin todo \cup {saving} => copy[i].doneOn = None
       /\ i \in todo \cup {saving} =>
            /\ copy[i].listed # "absent" /\ rows[i].listed # "absent"
            /\ i = adding => copy[i].doneOn = rows[i].doneOn

\* The row the add form has saved is one.
AddIsStored == adding # NoItem => rows[adding].listed # "absent"

\* An item that was never added has no baseline, and no job is linked to it.
NewIsBlank ==
  /\ \A i \in Items : rows[i].listed = "absent" => rows[i].doneOn = None
  /\ \A j \in Jobs : jobs[j].service # NoItem => rows[jobs[j].service].listed # "absent"

UpkeepInv ==
  /\ UpkeepTypeOK
  /\ AnchorIsRecorded
  /\ CopyIsKept
  /\ AddIsStored
  /\ NewIsBlank

\* What every step does to the rows.
RowsKept ==
  /\ rows' \in [Items -> Row]
  /\ AnchorIsRecorded'
  /\ \A i \in Items :
       /\ rows'[i].listed = "absent" => rows'[i] = rows[i]
       /\ Rewound(i) => saving = i

LEMMA NewStaysBlank ==
  ASSUME UpkeepInv, RowsKept, UpkeepTypeOK',
         \A j \in Jobs : \/ jobs'[j].service \in {jobs[j].service, NoItem}
                         \/ rows[jobs'[j].service].listed # "absent"
  PROVE  NewIsBlank'
<1>1. \A i \in Items : rows'[i].listed = "absent" => rows'[i].doneOn = None
  BY DEF UpkeepInv, NewIsBlank, RowsKept
<1>2. ASSUME NEW j \in Jobs, jobs'[j].service # NoItem
      PROVE  rows'[jobs'[j].service].listed # "absent"
  <2>1. jobs'[j].service \in Items
    BY <1>2 DEF UpkeepTypeOK, Job
  <2>2. rows[jobs'[j].service].listed # "absent"
    BY <1>2 DEF UpkeepInv, NewIsBlank
  <2> QED BY <2>1, <2>2 DEF RowsKept
<1> QED BY <1>1, <1>2 DEF NewIsBlank

\* A step that is none of the refresh's, of the calendar's or of an add.
LEMMA KeptInv ==
  ASSUME UpkeepInv, RowsKept, UpkeepTypeOK', UNCHANGED <<refresher, adds>>, adding = NoItem,
         history \subseteq history',
         \A j \in Jobs : \/ jobs'[j].service \in {jobs[j].service, NoItem}
                         \/ rows[jobs'[j].service].listed # "absent"
  PROVE  UpkeepInv'
<1>1. /\ UNCHANGED <<adding, cut, todo, copy, saving>>
      /\ \A i \in Items : rows[i].listed # "absent" => rows'[i].listed # "absent"
  BY DEF refresher, adds, RowsKept
<1>2. CopyIsKept'
  BY <1>1, ScheduleAssumption DEF UpkeepInv, CopyIsKept
<1>3. AddIsStored'
  BY <1>1 DEF AddIsStored
<1> QED BY <1>2, <1>3, NewStaysBlank DEF UpkeepInv, RowsKept

\* A step that leaves the rows alone.
LEMMA StillKept ==
  ASSUME UpkeepInv, UpkeepTypeOK', CopyIsKept', UNCHANGED <<rows, history, jobs, adds>>
  PROVE  UpkeepInv' /\ RowsKept
<1>1. rows \in [Items -> Row] /\ AnchorIsRecorded' /\ AddIsStored'
  BY DEF UpkeepInv, UpkeepTypeOK, ScheduleTypeOK, AnchorIsRecorded, AddIsStored, adds
<1>2. ASSUME NEW i \in Items PROVE ~Rewound(i)
  BY <1>1 DEF Rewound, Row
<1>3. RowsKept
  BY <1>1, <1>2 DEF RowsKept
<1> QED BY <1>1, <1>3, NewStaysBlank DEF UpkeepInv

\* Every other row that is excused from being recorded stays so.
Excused(i) == i \in {adding} \cup cut

\* A row put in place of item i's, with a baseline that is in the history and
\* is not before the one it replaces.
LEMMA PutRow ==
  ASSUME UpkeepInv,
         NEW i \in Items, NEW row \in Row, Put(i, row),
         row.listed # "absent",
         history \subseteq history',
         \A k \in Items \ {i} : Excused(k) => Excused(k)',
         ~Excused(i)' /\ row.doneOn # None => [item |-> i, on |-> row.doneOn] \in history',
         rows[i].doneOn # None => row.doneOn # None /\ row.doneOn >= rows[i].doneOn
  PROVE  RowsKept
<1>1. rows' = [rows EXCEPT ![i] = row]
  BY DEF Put
<1>2. rows \in [Items -> Row] /\ AnchorIsRecorded
  BY DEF UpkeepInv, UpkeepTypeOK, ScheduleTypeOK
<1>3. rows' \in [Items -> Row] /\ rows'[i] = row
  BY <1>1, <1>2
<1>4. \A k \in Items \ {i} : rows'[k] = rows[k]
  BY <1>1, <1>2
<1>5. AnchorIsRecorded'
  BY <1>2, <1>3, <1>4 DEF AnchorIsRecorded, Excused
<1>6. ASSUME NEW k \in Items
      PROVE  /\ rows'[k].listed = "absent" => rows'[k] = rows[k]
             /\ ~Rewound(k)
  <2>1. rows[k].doneOn \in Int \cup {None} /\ row.doneOn \in Int \cup {None} /\ None \notin Int
    BY <1>2, ScheduleAssumption DEF Row
  <2>2. CASE k = i
    BY <1>3, <2>1, <2>2 DEF Rewound
  <2>3. CASE k # i
    BY <1>4, <2>1, <2>3 DEF Rewound
  <2> QED BY <2>2, <2>3
<1> QED BY <1>3, <1>5, <1>6 DEF RowsKept

LEMMA Numbers ==
  /\ \A m \in Meters \cup {None} : m \in Int \cup {None}
  /\ \A day \in 0..MaxDay : day \in Int
  /\ SnoozeDays \in Int
<1>1. Meters \subseteq Int
  BY ScheduleAssumption
<1>2. MaxDay \in Nat /\ SnoozeDays \in Nat
  BY ScheduleAssumption
<1> QED BY <1>1, <1>2

\* What the arguments of the requests are.
LEMMA Ranges ==
  ASSUME UpkeepTypeOK
  PROVE  /\ today \in Int /\ asOf \in Int
         /\ meter \in Int \cup {None}
         /\ rows \in [Items -> Row]
         /\ copy \in [Items -> Row]
BY Numbers DEF UpkeepTypeOK, ScheduleTypeOK

LEMMA InitInv == Init => UpkeepInv
<1> SUFFICES ASSUME Init PROVE UpkeepInv
  OBVIOUS
<1>1. PICK S \in SUBSET Items :
        rows = [i \in Items |->
                 IF i \in S
                 THEN Recalculated([Blank EXCEPT !.listed = "listed", !.miles = Template[i].miles,
                                                 !.days = Template[i].days], 0, meter)
                 ELSE Blank]
  BY DEF Init, ScheduleInit
<1>2. meter \in Int \cup {None}
  BY Numbers DEF Init, ScheduleInit
<1>3. ASSUME NEW i \in Items
      PROVE  rows[i] \in Row /\ rows[i].doneOn = None
  <2> DEFINE new == [Blank EXCEPT !.listed = "listed", !.miles = Template[i].miles,
                                  !.days = Template[i].days]
  <2>1. Template[i].miles \in Nat /\ Template[i].days \in Nat
    BY ScheduleAssumption DEF Interval
  <2>2. new \in Row /\ new.doneOn = None
    BY <2>1, BlankRow DEF Row
  <2> HIDE DEF new
  <2>3. Recalculated(new, 0, meter) \in Row /\ Recalculated(new, 0, meter).doneOn = None
    BY <1>2, <2>2, RecalculatedRow
  <2>4. rows[i] = IF i \in S THEN Recalculated(new, 0, meter) ELSE Blank
    BY <1>1 DEF new
  <2> QED BY <2>3, <2>4, BlankRow
<1>4. rows \in [Items -> Row]
  <2>1. DOMAIN rows = Items /\ rows = [i \in Items |-> rows[i]]
    BY <1>1
  <2> QED BY <2>1, <1>3
<1>5. copy \in [Items -> Row] /\ \A i \in Items : copy[i].doneOn = None
  BY BlankRow DEF Init, ScheduleInit
<1>6. ScheduleTypeOK
  <2>1. 0 \in 0..MaxDay /\ 0 \in 0..MaxRequests
    BY ScheduleAssumption
  <2> QED BY <1>4, <1>5, <2>1 DEF Init, ScheduleInit, ScheduleTypeOK
<1>7. order \in Order /\ jobs \in [Jobs -> Job] /\ credited \in [Jobs -> Nat]
  <2>1. \A i \in {j \in Items : Listed(j)} \cup {NoItem} :
          [status |-> "todo", completed |-> FALSE, service |-> i] \in Job
    BY DEF Job, JobStatus
  <2>2. jobs \in [Jobs -> Job]
    BY <2>1 DEF Init
  <2> QED BY <2>2 DEF Init, Order, OrderStatus
<1>8. CopyIsKept /\ AddIsStored
  BY <1>5, ScheduleAssumption DEF Init, ScheduleInit, CopyIsKept, AddIsStored
<1>9. NewIsBlank
  <2>1. ASSUME NEW j \in Jobs, jobs[j].service # NoItem
        PROVE  rows[jobs[j].service].listed # "absent"
    BY <2>1 DEF Init, Listed
  <2> QED BY <1>3, <2>1 DEF NewIsBlank
<1> QED BY <1>3, <1>6, <1>7, <1>8, <1>9 DEF UpkeepInv, UpkeepTypeOK, AnchorIsRecorded

(***************************************************************************)
(* The requests on the schedule.                                           *)
(***************************************************************************)

\* A request that keeps the baseline of the row it changes.
LEMMA RowRequested ==
  ASSUME UpkeepInv, UNCHANGED work,
         NEW i \in Items, NEW row \in Row,
         row.doneOn = rows[i].doneOn, row.listed # "absent", RowRequest(i, row)
  PROVE  UpkeepInv' /\ RowsKept
<1>1. RowsKept
  <2>1. history' = history /\ Put(i, row) /\ \A k \in Items : Excused(k)' = Excused(k)
    BY DEF RowRequest, adds, Excused
  <2>2. ~Excused(i) /\ row.doneOn # None => [item |-> i, on |-> row.doneOn] \in history
    BY DEF UpkeepInv, AnchorIsRecorded, Excused
  <2>3. rows[i].doneOn # None => row.doneOn # None /\ row.doneOn >= rows[i].doneOn
    BY DEF Row
  <2> QED BY <2>1, <2>2, <2>3, PutRow
<1>2. UpkeepTypeOK'
  BY <1>1, ScheduleAssumption
  DEF UpkeepInv, UpkeepTypeOK, ScheduleTypeOK, RowRequest, Ask, adds, refresher, work, RowsKept
<1> QED BY <1>1, <1>2, KeptInv DEF RowRequest, Ask, work

\* A request that recalculates what it changed.
LEMMA RecalculatedRequest ==
  ASSUME UpkeepInv, UNCHANGED work,
         NEW i \in Items, NEW row \in Row,
         row.doneOn = rows[i].doneOn, row.listed # "absent",
         RowRequest(i, Recalculated(row, today, meter))
  PROVE  UpkeepInv' /\ RowsKept
<1>1. today \in Int /\ meter \in Int \cup {None}
  BY Ranges DEF UpkeepInv
<1>2. /\ Recalculated(row, today, meter) \in Row
      /\ Recalculated(row, today, meter).doneOn = rows[i].doneOn
      /\ Recalculated(row, today, meter).listed # "absent"
  BY <1>1, RecalculatedRow
<1> QED BY <1>2, RowRequested

\* Every row brought up to date, with the meter as it is or as it comes to be.
LEMMA RefreshedInv ==
  ASSUME UpkeepInv, NEW m \in Int \cup {None}, rows' = Refreshed(m), UNCHANGED <<history, adds>>
  PROVE  RowsKept
<1>1. /\ rows' \in [Items -> Row]
      /\ \A i \in Items : /\ rows'[i].doneOn = rows[i].doneOn
                          /\ rows'[i].listed = "absent" => rows'[i] = rows[i]
  <2>1. today \in Int /\ rows \in [Items -> Row]
    BY Ranges DEF UpkeepInv
  <2>2. rows' = [i \in Items |->
                  IF Listed(i) THEN Recalculated(rows[i], today, m) ELSE rows[i]]
    BY DEF Refreshed
  <2>3. ASSUME NEW i \in Items
        PROVE  /\ rows'[i] \in Row
               /\ rows'[i].doneOn = rows[i].doneOn
               /\ rows'[i].listed = "absent" => rows'[i] = rows[i]
    BY <2>1, <2>2, RecalculatedRow DEF Listed
  <2> QED BY <2>2, <2>3
<1>2. AnchorIsRecorded'
  BY <1>1 DEF UpkeepInv, AnchorIsRecorded, adds
<1>3. ASSUME NEW i \in Items PROVE ~Rewound(i)
  BY <1>1, Ranges DEF UpkeepInv, Rewound, Row
<1> QED BY <1>1, <1>2, <1>3 DEF RowsKept

\* A service entered: on the add form, on the item's row, by a job item.
LEMMA CompletedInv ==
  ASSUME UpkeepInv, NEW i \in Items, NEW on \in Int, NEW at \in Int \cup {None},
         rows[i].listed # "absent",
         \A k \in Items : Excused(k) => Excused(k)' \/ (k = i /\ rows[i].doneOn = on),
         Put(i, Completed(rows[i], on, at)),
         history' = history \cup {[item |-> i, on |-> on]}
  PROVE  RowsKept
<1>1. today \in Int /\ meter \in Int \cup {None} /\ rows[i] \in Row
  BY Ranges DEF UpkeepInv
<1> DEFINE new == Completed(rows[i], on, at)
<1>2. /\ new \in Row
      /\ new.doneOn \in {rows[i].doneOn, on}
      /\ new.listed # "absent"
      /\ rows[i].doneOn # None => new.doneOn # None /\ new.doneOn >= rows[i].doneOn
  BY <1>1, CompletedRow
<1>3. history \subseteq history'
  OBVIOUS
<1>4. ~Excused(i)' /\ new.doneOn # None => [item |-> i, on |-> new.doneOn] \in history'
  <2> SUFFICES ASSUME ~Excused(i)', new.doneOn # None
               PROVE  [item |-> i, on |-> new.doneOn] \in history'
    OBVIOUS
  <2>1. CASE new.doneOn = on
    BY <2>1
  <2>2. CASE new.doneOn = rows[i].doneOn /\ rows[i].doneOn # on
    <3>1. ~Excused(i)
      BY <2>2
    <3> QED BY <2>2, <3>1 DEF UpkeepInv, AnchorIsRecorded, Excused
  <2> QED BY <1>2, <2>1, <2>2
<1> HIDE DEF new
<1>5. Put(i, new)
  BY DEF new
<1> QED BY <1>2, <1>3, <1>4, <1>5, PutRow

LEMMA ReadingRange ==
  ASSUME UpkeepTypeOK, NEW on, NEW at \in Int \cup {None}
  PROVE  Reading(on, at) \in Int \cup {None}
BY Ranges DEF Reading

LEMMA OperatorKeeps ==
  ASSUME UpkeepInv, Operator, UNCHANGED work
  PROVE  UpkeepInv' /\ RowsKept
<1>1. UpkeepTypeOK
  BY DEF UpkeepInv
<1>2. CASE AssetSchedule
  <2>1. RowsKept
    BY <1>1, <1>2, Ranges, RefreshedInv DEF AssetSchedule
  <2>2. UpkeepTypeOK'
    BY <1>1, <1>2, <2>1, ScheduleAssumption
    DEF UpkeepTypeOK, ScheduleTypeOK, AssetSchedule, Ask, adds, refresher, work, RowsKept
  <2> QED BY <1>2, <2>1, <2>2, KeptInv DEF AssetSchedule, Ask, work
<1>3. CASE SaveReading
  <2>1. meter' \in Int \cup {None}
    BY <1>3, Numbers DEF SaveReading
  <2>2. RowsKept
    BY <1>3, <2>1, RefreshedInv DEF SaveReading
  <2>3. UpkeepTypeOK'
    BY <1>1, <1>3, <2>2, ScheduleAssumption
    DEF UpkeepTypeOK, ScheduleTypeOK, SaveReading, Ask, adds, refresher, work, RowsKept
  <2> QED BY <1>3, <2>2, <2>3, KeptInv DEF SaveReading, Ask, work
<1>4. ASSUME NEW i \in Items, ApplyTemplate(i)
      PROVE  UpkeepInv' /\ RowsKept
  <2> DEFINE row == [rows[i] EXCEPT !.listed = "listed",
                                    !.status = IF @ = "disabled" THEN "ok" ELSE @,
                                    !.miles = Template[i].miles,
                                    !.days = Template[i].days]
  <2>1. Template[i].miles \in Nat /\ Template[i].days \in Nat
    BY ScheduleAssumption DEF Interval
  <2>2. row \in Row /\ row.doneOn = rows[i].doneOn /\ row.listed # "absent"
    BY <1>1, <2>1, Ranges DEF Row, ServiceStatus
  <2>3. RowRequest(i, Recalculated(row, today, meter))
    BY <1>4 DEF ApplyTemplate
  <2> HIDE DEF row
  <2> QED BY <2>2, <2>3, RecalculatedRequest
<1>5. ASSUME NEW i \in Items, ServiceItemAdd(i)
      PROVE  UpkeepInv' /\ RowsKept
  <2>1. PICK every \in Intervals, on \in (0..today) \cup {None}, at \in Meters \cup {None} :
          Put(i, [Blank EXCEPT !.listed = "listed", !.miles = every.miles, !.days = every.days,
                               !.doneOn = on, !.doneAt = at])
    BY <1>5 DEF ServiceItemAdd
  <2> DEFINE new == [Blank EXCEPT !.listed = "listed", !.miles = every.miles, !.days = every.days,
                                  !.doneOn = on, !.doneAt = at]
  <2>2. on \in Int \cup {None} /\ at \in Int \cup {None}
    BY <1>1, Numbers, Ranges
  <2>3. every.miles \in Nat /\ every.days \in Nat
    BY ScheduleAssumption DEF Interval
  <2>4. new \in Row /\ new.doneOn = on /\ new.listed # "absent"
    BY <2>2, <2>3, BlankRow DEF Row
  <2>5. Put(i, new)
    BY <2>1
  <2> HIDE DEF new
  <2>6. /\ rows[i].listed = "absent" /\ rows[i].doneOn = None
        /\ adding = NoItem /\ adding' = i
        /\ UNCHANGED <<today, meter, history, cut, todo, copy, saving, asOf, jobs, order, credited>>
    BY <1>5 DEF ServiceItemAdd, IsNew, Ask, UpkeepInv, NewIsBlank, refresher, work
  <2>7. RowsKept
    <3>1. Excused(i)' /\ \A k \in Items : Excused(k) => Excused(k)'
      BY <2>6, ScheduleAssumption DEF Excused
    <3> QED BY <2>4, <2>5, <2>6, <3>1, PutRow
  <2>8. asked' \in 0..MaxRequests
    BY <1>1, <1>5, ScheduleAssumption DEF UpkeepTypeOK, ScheduleTypeOK, ServiceItemAdd, Ask
  <2>9. UpkeepTypeOK'
    BY <1>1, <2>6, <2>7, <2>8 DEF UpkeepTypeOK, ScheduleTypeOK, RowsKept
  <2>10. rows' = [rows EXCEPT ![i] = new] /\ rows'[i].listed # "absent"
    BY <1>1, <2>4, <2>5, Ranges DEF Put
  <2>11. i \notin todo \cup {saving} /\ copy[i].doneOn = None
    BY <2>6 DEF UpkeepInv, CopyIsKept
  <2>12. CopyIsKept'
    BY <1>1, <2>6, <2>10, <2>11, Ranges, ScheduleAssumption DEF UpkeepInv, CopyIsKept
  <2>13. AddIsStored'
    BY <2>6, <2>10 DEF AddIsStored
  <2> QED BY <2>6, <2>7, <2>9, <2>12, <2>13, NewStaysBlank DEF UpkeepInv, RowsKept
<1>12. CASE ServiceItemAdded
  <2>1. /\ adding \in Items /\ adding' = NoItem
        /\ rows[adding] \in Row /\ rows[adding].listed # "absent"
        /\ UNCHANGED <<today, meter, asked, cut, todo, copy, saving, asOf, jobs, order, credited>>
    BY <1>1, <1>12, Ranges
    DEF ServiceItemAdded, UpkeepInv, UpkeepTypeOK, ScheduleTypeOK, AddIsStored, refresher, work
  <2> DEFINE row == rows[adding]
             Stays == copy[adding].doneOn # None
                      => [item |-> adding, on |-> copy[adding].doneOn] \in history'
             Recorded == history' \subseteq [item : Items, on : Int]
  <2>2. ASSUME row.doneOn # None,
               Put(adding, Completed(row, row.doneOn, Reading(row.doneOn, row.doneAt))),
               history' = history \cup {[item |-> adding, on |-> row.doneOn]}
        PROVE  RowsKept /\ Recorded /\ Stays
    <3>1. row.doneOn \in Int /\ row.doneAt \in Int \cup {None}
      BY <2>1, <2>2 DEF Row
    <3>2. Reading(row.doneOn, row.doneAt) \in Int \cup {None}
      BY <1>1, <3>1, ReadingRange
    <3>3. \A k \in Items : Excused(k) => Excused(k)' \/ k = adding
      BY <2>1 DEF Excused
    <3>4. RowsKept
      BY <2>1, <2>2, <3>1, <3>2, <3>3, CompletedInv
    <3>5. history' \subseteq [item : Items, on : Int]
      BY <1>1, <2>1, <2>2, <3>1 DEF UpkeepTypeOK, ScheduleTypeOK
    <3>6. copy[adding].doneOn \in {row.doneOn, None}
      BY <2>1 DEF UpkeepInv, CopyIsKept
    <3> QED BY <2>1, <2>2, <3>4, <3>5, <3>6
  <2>3. ASSUME row.doneOn = None, Put(adding, Recalculated(row, today, meter)), UNCHANGED history
        PROVE  RowsKept /\ Recorded /\ Stays
    <3>1. /\ Recalculated(row, today, meter) \in Row
          /\ Recalculated(row, today, meter).doneOn = None
          /\ Recalculated(row, today, meter).listed # "absent"
      BY <1>1, <2>1, <2>3, Ranges, RecalculatedRow
    <3>2. \A k \in Items : Excused(k) => Excused(k)' \/ k = adding
      BY <2>1 DEF Excused
    <3>3. RowsKept
      BY <2>1, <2>3, <3>1, <3>2, PutRow
    <3>4. copy[adding].doneOn = None
      BY <2>1, <2>3 DEF UpkeepInv, CopyIsKept
    <3>5. history' \subseteq [item : Items, on : Int]
      BY <1>1, <2>3 DEF UpkeepTypeOK, ScheduleTypeOK
    <3> QED BY <2>1, <2>3, <3>3, <3>4, <3>5
  <2>4. /\ RowsKept
        /\ history \subseteq history'
        /\ Recorded /\ Stays
    BY <1>12, <2>2, <2>3 DEF ServiceItemAdded
  <2>5. UpkeepTypeOK'
    BY <1>1, <2>1, <2>4 DEF UpkeepTypeOK, ScheduleTypeOK, RowsKept
  <2>6. CopyIsKept'
    <3>1. \A k \in Items : rows[k].listed # "absent" => rows'[k].listed # "absent"
      BY <2>4 DEF RowsKept
    <3> QED BY <2>1, <2>4, <3>1, ScheduleAssumption DEF UpkeepInv, CopyIsKept
  <2>7. AddIsStored'
    BY <2>1 DEF AddIsStored
  <2> QED BY <2>1, <2>4, <2>5, <2>6, <2>7, NewStaysBlank DEF UpkeepInv, RowsKept
<1>13. CASE ServiceItemCutOff
  <2>1. /\ adding \in Items /\ adding' = NoItem /\ cut' = cut \cup {adding}
        /\ UNCHANGED <<shop, asked, refresher, work>>
    BY <1>1, <1>13 DEF ServiceItemCutOff, UpkeepTypeOK, ScheduleTypeOK
  <2>2. UpkeepTypeOK'
    BY <1>1, <2>1 DEF UpkeepTypeOK, ScheduleTypeOK, shop, refresher, work
  <2>3. CopyIsKept' /\ AnchorIsRecorded' /\ AddIsStored'
    BY <2>1, ScheduleAssumption
    DEF UpkeepInv, CopyIsKept, AnchorIsRecorded, AddIsStored, shop, refresher
  <2>4. RowsKept
    <3>1. rows \in [Items -> Row] /\ UNCHANGED rows
      BY <1>1, <2>1, Ranges DEF shop
    <3>2. \A i \in Items : ~Rewound(i)
      BY <3>1 DEF Rewound, Row
    <3> QED BY <2>3, <3>1, <3>2 DEF RowsKept
  <2> QED BY <2>1, <2>2, <2>3, <2>4, NewStaysBlank DEF UpkeepInv, work
<1>6. ASSUME NEW i \in Items, ServiceItemUpdate(i)
      PROVE  UpkeepInv' /\ RowsKept
  <2>1. PICK every \in Intervals :
          RowRequest(i, Recalculated([rows[i] EXCEPT !.miles = every.miles, !.days = every.days],
                                     today, meter))
    BY <1>6 DEF ServiceItemUpdate
  <2> DEFINE row == [rows[i] EXCEPT !.miles = every.miles, !.days = every.days]
  <2>2. every.miles \in Nat /\ every.days \in Nat
    BY ScheduleAssumption DEF Interval
  <2>3. row \in Row /\ row.doneOn = rows[i].doneOn /\ row.listed # "absent"
    BY <1>1, <1>6, <2>2, Ranges DEF Row, ServiceItemUpdate, Listed
  <2>4. RowRequest(i, Recalculated(row, today, meter))
    BY <2>1
  <2> HIDE DEF row
  <2> QED BY <2>3, <2>4, RecalculatedRequest
<1>7. ASSUME NEW i \in Items, ServiceItemComplete(i)
      PROVE  UpkeepInv' /\ RowsKept
  <2>1. PICK on \in 0..MaxDay, at \in Meters \cup {None} :
          /\ Put(i, Completed(rows[i], on, Reading(on, at)))
          /\ history' = history \cup {[item |-> i, on |-> on]}
    BY <1>7 DEF ServiceItemComplete
  <2>2. on \in Int /\ Reading(on, at) \in Int \cup {None}
    BY <1>1, Numbers, ReadingRange
  <2>3. rows[i] \in Row /\ rows[i].listed # "absent"
    BY <1>1, <1>7, Ranges DEF ServiceItemComplete, Listed
  <2>4. \A k \in Items : Excused(k) => Excused(k)'
    BY <1>7 DEF ServiceItemComplete, adds, Excused
  <2>5. RowsKept
    BY <2>1, <2>2, <2>3, <2>4, CompletedInv
  <2>6. history' \subseteq [item : Items, on : Int]
    BY <1>1, <2>1, <2>2 DEF UpkeepTypeOK, ScheduleTypeOK
  <2>7. UpkeepTypeOK'
    BY <1>1, <1>7, <2>5, <2>6, ScheduleAssumption
    DEF UpkeepTypeOK, ScheduleTypeOK, ServiceItemComplete, Ask, adds, refresher, work, RowsKept
  <2>8. history \subseteq history'
    BY <2>1
  <2> QED BY <1>7, <2>5, <2>7, <2>8, KeptInv DEF ServiceItemComplete, Ask, work
<1>8. ASSUME NEW i \in Items, Snooze(i)
      PROVE  UpkeepInv' /\ RowsKept
  <2> DEFINE row == [rows[i] EXCEPT !.snooze = today + SnoozeDays]
  <2>1. row \in Row /\ row.doneOn = rows[i].doneOn /\ row.listed # "absent"
    BY <1>1, <1>8, Numbers, Ranges DEF Row, Snooze, Listed
  <2>2. RowRequest(i, Recalculated(row, today, meter))
    BY <1>8 DEF Snooze
  <2> HIDE DEF row
  <2> QED BY <2>1, <2>2, RecalculatedRequest
<1>9. ASSUME NEW i \in Items, Ignore(i)
      PROVE  UpkeepInv' /\ RowsKept
  <2> DEFINE row == [rows[i] EXCEPT !.status = "disabled"]
  <2>1. row \in Row /\ row.doneOn = rows[i].doneOn /\ row.listed # "absent"
    BY <1>1, <1>9, Ranges DEF Row, ServiceStatus, Ignore, Listed
  <2>2. RowRequest(i, row)
    BY <1>9 DEF Ignore
  <2> HIDE DEF row
  <2> QED BY <2>1, <2>2, RowRequested
<1>10. ASSUME NEW i \in Items, Track(i)
       PROVE  UpkeepInv' /\ RowsKept
  <2> DEFINE row == [rows[i] EXCEPT !.status = "ok", !.snooze = None]
  <2>1. rows[i] \in Row /\ rows[i].listed # "absent" /\ "ok" \in ServiceStatus
    BY <1>1, <1>10, Ranges DEF ServiceStatus, Track, Listed
  <2>3. row \in Row /\ row.doneOn = rows[i].doneOn /\ row.listed # "absent"
    BY <2>1 DEF Row
  <2>2. RowRequest(i, Recalculated(row, today, meter))
    BY <1>10 DEF Track
  <2> HIDE DEF row
  <2> QED BY <2>2, <2>3, RecalculatedRequest
<1>11. ASSUME NEW i \in Items, ServiceItemRemove(i)
       PROVE  UpkeepInv' /\ RowsKept
  <2> DEFINE row == [rows[i] EXCEPT !.listed = "removed"]
  <2>1. row \in Row /\ row.doneOn = rows[i].doneOn /\ row.listed # "absent"
    BY <1>1, Ranges DEF Row
  <2>2. RowRequest(i, row)
    BY <1>11 DEF ServiceItemRemove
  <2> HIDE DEF row
  <2> QED BY <2>1, <2>2, RowRequested
<1> QED
  BY <1>2, <1>3, <1>4, <1>5, <1>6, <1>7, <1>8, <1>9, <1>10, <1>11, <1>12, <1>13 DEF Operator

(***************************************************************************)
(* The worker and the calendar.                                            *)
(***************************************************************************)

LEMMA RefreshKeeps ==
  ASSUME UpkeepInv, RefreshStep, UNCHANGED work
  PROVE  UpkeepInv' /\ RowsKept
<1>1. UpkeepTypeOK /\ ScheduleTypeOK
  BY DEF UpkeepInv, UpkeepTypeOK
<1>2. CASE RefreshLoad
  <2>1. /\ copy' = [i \in Items |-> IF i \in todo' THEN rows[i] ELSE Blank]
        /\ todo' \subseteq {i \in Items : Listed(i)}
        /\ UNCHANGED <<today, meter, rows, history, asked, adding, cut, saving>>
        /\ saving = NoItem
        /\ asOf' = today
    BY <1>2 DEF RefreshLoad, shop, adds, Idle, Tracked
  <2>2. copy' \in [Items -> Row]
    BY <1>1, <2>1, Ranges, BlankRow
  <2>3. CopyIsKept'
    <3>1. ASSUME NEW i \in Items, i \in todo'
          PROVE  copy'[i] = rows[i] /\ rows[i].listed # "absent"
      BY <2>1, <3>1 DEF Listed
    <3>2. ASSUME NEW i \in Items, i \notin todo'
          PROVE  copy'[i].doneOn = None
      BY <2>1, <3>2, BlankRow
    <3> QED BY <2>1, <3>1, <3>2, ScheduleAssumption DEF CopyIsKept, UpkeepInv, AnchorIsRecorded
  <2>4. UpkeepTypeOK'
    BY <1>1, <2>1, <2>2 DEF UpkeepTypeOK, ScheduleTypeOK, work
  <2>5. UNCHANGED <<rows, history, jobs, adds>>
    BY <2>1 DEF work, adds
  <2> QED BY <2>3, <2>4, <2>5, StillKept
<1>3. ASSUME NEW i \in Items, RefreshFigure(i)
      PROVE  UpkeepInv' /\ RowsKept
  <2> DEFINE new == Recalculated(copy[i], asOf, meter)
  <2>1. new \in Row /\ new.doneOn = copy[i].doneOn /\ new.listed = copy[i].listed
    BY <1>1, Ranges, RecalculatedRow
  <2>2. /\ i \in todo /\ saving = NoItem
        /\ todo' = todo \ {i}
        /\ \/ saving' = i /\ copy' = [copy EXCEPT ![i] = new]
           \/ saving' = NoItem /\ copy' = [copy EXCEPT ![i] = Blank]
        /\ UNCHANGED <<today, meter, rows, history, asked, adding, cut, asOf>>
    BY <1>1, <1>3 DEF RefreshFigure, shop, adds
  <2> HIDE DEF new
  <2>3. copy' \in [Items -> Row]
    BY <1>1, <2>1, <2>2, BlankRow, Ranges
  <2>4. CopyIsKept'
    <3>1. saving' \notin todo'
      BY <1>1, <2>2, ScheduleAssumption DEF ScheduleTypeOK
    <3>2. ASSUME NEW k \in Items, k # i
          PROVE  copy'[k] = copy[k] /\ (k \in todo' \cup {saving'} <=> k \in todo \cup {saving})
      BY <1>1, <2>2, <3>2, Ranges, ScheduleAssumption
    <3>3. CASE saving' = i /\ copy' = [copy EXCEPT ![i] = new]
      <4>1. copy'[i].doneOn = copy[i].doneOn /\ copy'[i].listed = copy[i].listed
        BY <1>1, <2>1, <3>3, Ranges
      <4> QED BY <2>2, <3>1, <3>2, <3>3, <4>1 DEF UpkeepInv, CopyIsKept
    <3>4. CASE saving' = NoItem /\ copy' = [copy EXCEPT ![i] = Blank]
      <4>1. copy'[i].doneOn = None /\ i \notin todo' \cup {saving'}
        BY <1>1, <2>2, <3>4, BlankRow, Ranges, ScheduleAssumption
      <4> QED BY <2>2, <3>1, <3>2, <4>1 DEF UpkeepInv, CopyIsKept
    <3> QED BY <2>2, <3>3, <3>4
  <2>5. UpkeepTypeOK'
    BY <1>1, <2>2, <2>3 DEF UpkeepTypeOK, ScheduleTypeOK, work
  <2>6. UNCHANGED <<rows, history, jobs, adds>>
    BY <2>2 DEF work, adds
  <2> QED BY <2>4, <2>5, <2>6, StillKept
<1>4. ASSUME saving # NoItem, saving' = NoItem, Unlisted(saving), Put(saving, copy[saving]),
             copy' = [copy EXCEPT ![saving] = Blank],
             UNCHANGED <<today, meter, history, asked, adds, asOf, todo>>
      PROVE  UpkeepInv' /\ RowsKept
  <2>1. /\ saving \in Items
        /\ rows' = [rows EXCEPT ![saving] = copy[saving]]
        /\ UNCHANGED <<adding, cut>>
    BY <1>1, <1>4 DEF Put, ScheduleTypeOK, adds
  <2>2. rows' \in [Items -> Row] /\ copy' \in [Items -> Row]
    BY <1>1, <1>4, <2>1, BlankRow, Ranges
  <2>3. /\ saving \notin todo
        /\ copy[saving].listed # "absent"
        /\ saving = adding => copy[saving].doneOn = rows[saving].doneOn
        /\ saving \notin {adding} \cup cut /\ copy[saving].doneOn # None
             => [item |-> saving, on |-> copy[saving].doneOn] \in history
    BY <2>1 DEF UpkeepInv, CopyIsKept
  <2>4. /\ rows'[saving] = copy[saving]
        /\ copy'[saving].doneOn = None
        /\ \A k \in Items \ {saving} : rows'[k] = rows[k] /\ copy'[k] = copy[k]
    BY <1>1, <1>4, <2>1, BlankRow, Ranges
  <2>5. RowsKept
    <3>1. AnchorIsRecorded'
      BY <1>4, <2>1, <2>3, <2>4 DEF UpkeepInv, AnchorIsRecorded
    <3>2. ASSUME NEW i \in Items
          PROVE  /\ rows'[i].listed = "absent" => rows'[i] = rows[i]
                 /\ Rewound(i) => saving = i
      <4>1. CASE i = saving
        BY <2>3, <2>4, <4>1
      <4>2. CASE i # saving
        BY <1>1, <2>4, <4>2, Ranges DEF Rewound, Row
      <4> QED BY <4>1, <4>2
    <3> QED BY <2>2, <3>1, <3>2 DEF RowsKept
  <2>6. CopyIsKept'
    <3>1. ASSUME NEW k \in Items, k # saving
          PROVE  k \in todo' \cup {saving'} <=> k \in todo \cup {saving}
      BY <1>4, <3>1, ScheduleAssumption
    <3>2. saving \notin todo' \cup {saving'} /\ saving' \notin todo'
      BY <1>1, <1>4, <2>3, ScheduleAssumption DEF ScheduleTypeOK
    <3> QED BY <1>4, <2>1, <2>4, <3>1, <3>2 DEF UpkeepInv, CopyIsKept
  <2>7. AddIsStored'
    BY <1>1, <2>1, <2>3, <2>4 DEF UpkeepInv, AddIsStored, ScheduleTypeOK
  <2>8. UpkeepTypeOK'
    BY <1>1, <1>4, <2>1, <2>2 DEF UpkeepTypeOK, ScheduleTypeOK, work
  <2>9. UNCHANGED jobs
    BY DEF work
  <2> QED BY <2>5, <2>6, <2>7, <2>8, <2>9, NewStaysBlank DEF UpkeepInv, RowsKept
<1>5. ASSUME saving' = NoItem, todo' = {}, copy' = [i \in Items |-> Blank],
             UNCHANGED <<today, meter, rows, history, asked, adds, asOf>>
      PROVE  UpkeepInv' /\ RowsKept
  <2>1. copy' \in [Items -> Row] /\ \A i \in Items : copy'[i].doneOn = None
    BY <1>5, BlankRow
  <2>2. CopyIsKept'
    BY <1>5, <2>1, ScheduleAssumption DEF CopyIsKept
  <2>3. UpkeepTypeOK'
    BY <1>1, <1>5, <2>1 DEF UpkeepTypeOK, ScheduleTypeOK, adds, work
  <2>4. UNCHANGED jobs
    BY DEF work
  <2> QED BY <1>5, <2>2, <2>3, <2>4, StillKept
<1>6. CASE RefreshSave
  BY <1>4, <1>5, <1>6 DEF RefreshSave
<1> QED BY <1>2, <1>3, <1>6 DEF RefreshStep

LEMMA MidnightKeeps ==
  ASSUME UpkeepInv, Midnight, UNCHANGED work
  PROVE  UpkeepInv' /\ RowsKept
<1>1. UNCHANGED <<meter, rows, history, asked, adding, cut, asOf, todo, copy, saving>>
  BY DEF Midnight, adds, refresher
<1>2. today' \in 0..MaxDay
  BY ScheduleAssumption DEF UpkeepInv, UpkeepTypeOK, ScheduleTypeOK, Midnight
<1>3. UpkeepTypeOK' /\ CopyIsKept'
  BY <1>1, <1>2 DEF UpkeepInv, UpkeepTypeOK, ScheduleTypeOK, CopyIsKept, work
<1> QED BY <1>1, <1>3, StillKept DEF adds, work

(***************************************************************************)
(* The requests on the work order.                                         *)
(***************************************************************************)

LEMMA AskRange ==
  ASSUME ScheduleTypeOK, Ask
  PROVE  asked' \in 0..MaxRequests
<1>1. MaxRequests \in Nat
  BY ScheduleAssumption
<1> QED BY <1>1 DEF Ask, ScheduleTypeOK

LEMMA OrderKeeps ==
  ASSUME UpkeepInv,
         (\E s \in OrderStatus : TransitionTo(s)) \/ Complete \/ CompleteAgain
  PROVE  UpkeepInv' /\ RowsKept
<1>1. UpkeepTypeOK /\ ScheduleTypeOK
  BY DEF UpkeepInv, UpkeepTypeOK
<1>2. ASSUME NEW s \in OrderStatus, TransitionTo(s)
      PROVE  UpkeepInv' /\ RowsKept
  <2>1. order' \in Order
    BY <1>1, <1>2 DEF TransitionTo, Move, Order, UpkeepTypeOK
  <2>2. asked' \in 0..MaxRequests
    BY <1>1, <1>2, AskRange DEF TransitionTo
  <2>3. UpkeepTypeOK' /\ CopyIsKept'
    BY <1>1, <1>2, <2>1, <2>2
    DEF UpkeepInv, UpkeepTypeOK, ScheduleTypeOK, CopyIsKept, TransitionTo, shop, adds, refresher
  <2> QED BY <1>2, <2>3, StillKept DEF TransitionTo, shop
<1>3. CASE Complete
  <2>1. PICK out \in (Meters \cup {order.out}) \ {None} :
          /\ order' = [order EXCEPT !.status = "complete", !.completed = TRUE, !.out = out]
          /\ \/ meter' = out /\ rows' = Refreshed(out)
             \/ UNCHANGED <<meter, rows>>
    BY <1>3 DEF Complete
  <2>2. out \in Meters
    BY <1>1 DEF UpkeepTypeOK, Order
  <2>3. order' \in Order
    BY <1>1, <2>1, <2>2 DEF Order, OrderStatus, UpkeepTypeOK
  <2>4. asked' \in 0..MaxRequests
    BY <1>1, <1>3, AskRange DEF Complete
  <2>5. CASE meter' = out /\ rows' = Refreshed(out)
    <3>1. out \in Int \cup {None}
      BY <2>2, Numbers
    <3>2. RowsKept
      BY <1>3, <2>5, <3>1, RefreshedInv DEF Complete
    <3>3. UpkeepTypeOK'
      BY <1>1, <1>3, <2>2, <2>3, <2>4, <2>5, <3>2
      DEF UpkeepTypeOK, ScheduleTypeOK, Complete, adds, refresher, RowsKept
    <3> QED BY <1>3, <3>2, <3>3, KeptInv DEF Complete, Ask
  <2>6. CASE UNCHANGED <<meter, rows>>
    <3>1. UpkeepTypeOK' /\ CopyIsKept'
      BY <1>1, <1>3, <2>3, <2>4, <2>6
      DEF UpkeepInv, UpkeepTypeOK, ScheduleTypeOK, CopyIsKept, Complete, adds, refresher
    <3> QED BY <1>3, <2>6, <3>1, StillKept DEF Complete
  <2> QED BY <2>1, <2>5, <2>6
<1>4. CASE CompleteAgain
  <2>1. order.out \in Int \cup {None} /\ meter' \in Meters \cup {None}
    BY <1>1, <1>4, Numbers DEF CompleteAgain, UpkeepTypeOK, Order
  <2>2. RowsKept
    BY <1>4, <2>1, RefreshedInv DEF CompleteAgain
  <2>3. asked' \in 0..MaxRequests
    BY <1>1, <1>4, AskRange DEF CompleteAgain
  <2>4. UpkeepTypeOK'
    BY <1>1, <1>4, <2>1, <2>2, <2>3
    DEF UpkeepTypeOK, ScheduleTypeOK, CompleteAgain, adds, refresher, work, RowsKept
  <2> QED BY <1>4, <2>2, <2>4, KeptInv DEF CompleteAgain, Ask, work
<1> QED BY <1>2, <1>3, <1>4

LEMMA SaveJobKeeps ==
  ASSUME UpkeepInv, Ask, UNCHANGED <<today, meter, adds, refresher, order>>,
         NEW j \in Jobs, NEW s \in JobStatus, NEW i \in Items \cup {NoItem},
         i # NoItem => rows[i].listed # "absent",
         SaveJob(j, s, i)
  PROVE  UpkeepInv' /\ RowsKept
<1>1. UpkeepTypeOK /\ ScheduleTypeOK
  BY DEF UpkeepInv, UpkeepTypeOK
<1> DEFINE job == [status |-> s, completed |-> s = "done", service |-> i]
           at == IF order.out # None THEN order.out ELSE meter
<1>2. jobs' = [jobs EXCEPT ![j] = job]
  BY DEF SaveJob
<1>3. job \in Job
  BY DEF Job
<1>4. /\ jobs' \in [Jobs -> Job]
      /\ \A k \in Jobs : jobs'[k].service \in {jobs[k].service, i}
  BY <1>1, <1>2, <1>3 DEF UpkeepTypeOK
<1> HIDE DEF job
<1>5. asked' \in 0..MaxRequests
  BY <1>1, AskRange
<1>6. CASE UNCHANGED <<rows, history, credited>>
  <2>1. UpkeepTypeOK'
    BY <1>1, <1>4, <1>5, <1>6 DEF UpkeepTypeOK, ScheduleTypeOK, adds, refresher
  <2>2. RowsKept
    <3>1. rows \in [Items -> Row] /\ AnchorIsRecorded'
      BY <1>1, <1>6 DEF UpkeepInv, ScheduleTypeOK, AnchorIsRecorded, adds
    <3>2. ASSUME NEW k \in Items PROVE ~Rewound(k)
      BY <1>6, <3>1 DEF Rewound, Row
    <3> QED BY <1>6, <3>1, <3>2 DEF RowsKept
  <2> QED BY <1>4, <1>6, <2>1, <2>2, KeptInv DEF Ask
<1>7. CASE /\ i # NoItem
           /\ Put(i, Completed(rows[i], today, Reading(today, at)))
           /\ history' = history \cup {[item |-> i, on |-> today]}
           /\ credited' = [credited EXCEPT ![j] = @ + 1]
  <2>1. order.out \in Int \cup {None} /\ meter \in Int \cup {None}
    BY <1>1, Numbers, Ranges DEF UpkeepTypeOK, Order
  <2>2. at \in Int \cup {None}
    BY <2>1
  <2> HIDE DEF at
  <2>3. Reading(today, at) \in Int \cup {None}
    BY <1>1, <2>2, ReadingRange
  <2>4. i \in Items /\ today \in Int /\ rows[i] \in Row
    BY <1>1, <1>7, Ranges
  <2>5. RowsKept
    <3>1. \A k \in Items : Excused(k) => Excused(k)'
      BY DEF Excused, adds
    <3> QED BY <1>7, <2>3, <2>4, <3>1, CompletedInv
  <2>6. history' \subseteq [item : Items, on : Int] /\ history \subseteq history'
    BY <1>1, <1>7, <2>4 DEF ScheduleTypeOK
  <2>7. credited' \in [Jobs -> Nat]
    BY <1>1, <1>7 DEF UpkeepTypeOK
  <2>8. UpkeepTypeOK'
    BY <1>1, <1>4, <1>5, <2>5, <2>6, <2>7
    DEF UpkeepTypeOK, ScheduleTypeOK, adds, refresher, RowsKept
  <2> QED BY <1>4, <2>5, <2>6, <2>8, KeptInv DEF Ask
<1> QED BY <1>6, <1>7 DEF SaveJob

LEMMA JobKeeps ==
  ASSUME UpkeepInv, NEW j \in Jobs, JobItemToggle(j) \/ JobItemEdit(j)
  PROVE  UpkeepInv' /\ RowsKept
<1>1. jobs[j].service \in Items \cup {NoItem}
  BY DEF UpkeepInv, UpkeepTypeOK, Job
<1>2. jobs[j].service # NoItem => rows[jobs[j].service].listed # "absent"
  BY DEF UpkeepInv, NewIsBlank
<1>3. CASE JobItemToggle(j)
  <2> DEFINE s == IF jobs[j].status \in {"done", "skipped"} THEN "todo" ELSE "done"
  <2>1. s \in JobStatus
    BY DEF JobStatus
  <2>2. SaveJob(j, s, jobs[j].service) /\ Ask /\ UNCHANGED <<today, meter, adds, refresher, order>>
    BY <1>3 DEF JobItemToggle
  <2> HIDE DEF s
  <2> QED BY <1>1, <1>2, <2>1, <2>2, SaveJobKeeps
<1>4. CASE JobItemEdit(j)
  <2>1. Ask /\ UNCHANGED <<today, meter, adds, refresher, order>>
    BY <1>4 DEF JobItemEdit
  <2>2. PICK s \in JobStatus, i \in {k \in Items : Listed(k)} \cup {NoItem, jobs[j].service} :
          SaveJob(j, s, i)
    BY <1>4 DEF JobItemEdit
  <2>3. i \in Items \cup {NoItem} /\ (i # NoItem => rows[i].listed # "absent")
    BY <1>1, <1>2 DEF Listed
  <2> QED BY <2>1, <2>2, <2>3, SaveJobKeeps
<1> QED BY <1>3, <1>4

(***************************************************************************)
(* The theorems.                                                           *)
(***************************************************************************)

LEMMA UpkeepInvStep ==
  ASSUME UpkeepInv, [Next]_allVars
  PROVE  UpkeepInv' /\ RowsKept
<1>1. CASE Shop
  BY <1>1, OperatorKeeps, OrderKeeps, JobKeeps DEF Shop
<1>2. CASE (RefreshStep \/ Midnight) /\ UNCHANGED work
  BY <1>2, RefreshKeeps, MidnightKeeps
<1>3. CASE UNCHANGED allVars
  <2>1. UpkeepTypeOK' /\ CopyIsKept'
    BY <1>3 DEF UpkeepInv, UpkeepTypeOK, ScheduleTypeOK, CopyIsKept,
                allVars, scheduleVars, shop, adds, refresher, work
  <2> QED BY <1>3, <2>1, StillKept DEF allVars, scheduleVars, shop, work
<1> QED BY <1>1, <1>2, <1>3 DEF Next

THEOREM UpkeepInvariant == Spec => []UpkeepInv
<1>1. UpkeepInv /\ [Next]_allVars => UpkeepInv'
  BY UpkeepInvStep
<1> QED BY <1>1, InitInv, PTL DEF Spec

\* Every row, copy, job and order is one the tables can hold, whatever the
\* requests, the refreshes and the days.
THEOREM UpkeepTypeCorrect == Spec => []UpkeepTypeOK
<1>1. UpkeepInv => UpkeepTypeOK
  BY DEF UpkeepInv
<1> QED BY <1>1, UpkeepInvariant, PTL

\* An interval runs from a service that is in the history, and from nothing a
\* late refresh made up; a row the add form saved and has not completed, or was
\* killed before it did, is the only one that may say otherwise.
THEOREM AnchorIsRecordedHolds == Spec => []AnchorIsRecorded
<1>1. UpkeepInv => AnchorIsRecorded
  BY DEF UpkeepInv
<1> QED BY <1>1, UpkeepInvariant, PTL

\* Back-filling never rewinds: only the refresh can take a baseline back, by
\* saving the row it read before.
THEOREM ServicesNeverRewindHolds == Spec => ServicesNeverRewind
<1>1. UpkeepInv /\ [Next]_allVars => [\A i \in Items : Rewound(i) => saving = i]_allVars
  BY UpkeepInvStep DEF RowsKept
<1> QED BY <1>1, UpkeepInvariant, PTL DEF Spec, ServicesNeverRewind

\* A job item is one service in the history, however often it is done again.
THEOREM OneCompletionPerJobHolds == Spec => []OneCompletionPerJob
<1>1. Init => OneCompletionPerJob
  BY DEF Init, OneCompletionPerJob
<1>2. ASSUME UpkeepInv, OneCompletionPerJob, [Next]_allVars
      PROVE  OneCompletionPerJob'
  <2>1. credited \in [Jobs -> Nat] /\ \A j \in Jobs : credited[j] <= 1
    BY <1>2 DEF UpkeepInv, UpkeepTypeOK, OneCompletionPerJob
  <2>2. ASSUME NEW j \in Jobs, NEW s, NEW i, SaveJob(j, s, i)
        PROVE  OneCompletionPerJob'
    <3>1. \/ UNCHANGED credited
          \/ credited[j] = 0 /\ credited' = [credited EXCEPT ![j] = @ + 1]
      BY <2>2 DEF SaveJob
    <3> QED BY <2>1, <3>1 DEF OneCompletionPerJob
  <2>3. ASSUME NEW j \in Jobs, JobItemToggle(j) \/ JobItemEdit(j)
        PROVE  OneCompletionPerJob'
    BY <2>2, <2>3 DEF JobItemToggle, JobItemEdit
  <2>4. CASE UNCHANGED credited
    BY <2>1, <2>4 DEF OneCompletionPerJob
  <2> QED
    BY <1>2, <2>3, <2>4
    DEF Next, Shop, TransitionTo, Complete, CompleteAgain, allVars, work
<1>3. UpkeepInv /\ OneCompletionPerJob /\ [Next]_allVars => OneCompletionPerJob'
  BY <1>2
<1> QED BY <1>1, <1>3, UpkeepInvariant, PTL DEF Spec

\* Only an order that is in progress is completed, and it was started.
Started == order.status = "in_progress" => order.started

\* Completed means started, dated and read; open again means not completed.
THEOREM ClosedOutHolds == Spec => []ClosedOut
<1> DEFINE Inv == ClosedOut /\ Started
<1>1. ASSUME Init PROVE Inv
  <2>1. order.status = "planned" /\ ~order.completed /\ order.completed \in BOOLEAN
    BY <1>1 DEF Init
  <2> QED BY <2>1 DEF ClosedOut, Started
<1>2. ASSUME UpkeepInv, Inv, [Next]_allVars
      PROVE  Inv'
  <2>1. order \in Order
    BY <1>2 DEF UpkeepInv, UpkeepTypeOK
  <2>2. ASSUME NEW s \in OrderStatus, TransitionTo(s)
        PROVE  Inv'
    <3>1. order' = Move(s) /\ s # "complete"
      BY <2>2 DEF TransitionTo
    <3>2. /\ order'.status = s
          /\ order'.started = (order.started \/ s = "in_progress")
          /\ order'.completed = (order.completed /\ order.status # "complete")
      BY <2>1, <3>1 DEF Move, Order
    <3> QED BY <1>2, <3>1, <3>2 DEF ClosedOut, Started
  <2>3. CASE Complete
    <3>1. order.status = "in_progress"
      BY <2>1, <2>3 DEF Complete, MayBecome, Order, OrderStatus
    <3>2. PICK out \in (Meters \cup {order.out}) \ {None} :
            order' = [order EXCEPT !.status = "complete", !.completed = TRUE, !.out = out]
      BY <2>3 DEF Complete
    <3>3. /\ order'.status = "complete"
          /\ order'.completed = TRUE
          /\ order'.started = order.started
          /\ order'.out # None
      BY <2>1, <3>2 DEF Order
    <3> QED BY <1>2, <3>1, <3>3 DEF ClosedOut, Started
  <2>4. CASE UNCHANGED order
    BY <1>2, <2>4 DEF ClosedOut, Started
  <2> QED
    BY <1>2, <2>2, <2>3, <2>4
    DEF Next, Shop, CompleteAgain, JobItemToggle, JobItemEdit, allVars, work
<1>3. UpkeepInv /\ Inv /\ [Next]_allVars => Inv'
  BY <1>2
<1>4. Inv => ClosedOut
  OBVIOUS
<1> QED BY <1>1, <1>3, <1>4, UpkeepInvariant, PTL DEF Spec
=============================================================================
