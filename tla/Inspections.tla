---------------------------- MODULE Inspections ----------------------------
(***************************************************************************)
(* One inspection and the work it raises (homeautoshop/inspections/        *)
(* services.py, views.py, models.py).  Every answer is a save of the whole *)
(* result, the link to the job item made of it included, from the row the  *)
(* request read; the conversion reads what is flagged and has no item, and *)
(* then makes the items and saves the results.  A job item that the trash  *)
(* gives up takes the link with it (SET_NULL).                             *)
(*                                                                         *)
(* Measurements, photos and the overall verdict are left out: a threshold  *)
(* proposes one of the same answers, and a missing photo is a refusal.     *)
(* Discarding the inspection hides it and changes nothing in it.           *)
(***************************************************************************)
EXTENDS Integers, FiniteSets

CONSTANTS
  Results,   \* what is looked at: a point at a position
  AdHoc,     \* those a person adds by hand
  Requests,  \* requests at once
  Items,     \* job items there may ever be
  NoItem,
  NoResult

ASSUME InspectionAssumption ==
  /\ AdHoc \subseteq Results
  /\ IsFiniteSet(Results) /\ IsFiniteSet(Items)
  /\ NoItem \notin Items
  /\ NoResult \notin Results

VARIABLES
  inspection,  \* its status
  slot,        \* the rows of results
  made,        \* the result a job item was made of
  gone,        \* the items that were destroyed
  request,     \* what each request has read
  crossed      \* results saved over a link that was written after they were read

inspectVars == <<inspection, slot, made, gone, request, crossed>>

\* "" is an answer nobody gave, "flagged" is attention or fail, and "fine" the others:
\* pass, not applicable, not inspected.
Answers == {"", "fine", "flagged"}
Slot == [row : {"unused", "there", "removed"}, status : Answers, link : Items \cup {NoItem}]
Blank == [row |-> "there", status |-> "", link |-> NoItem]
NoRequest == [at |-> "idle", on |-> {}, copy |-> [r \in Results |-> Blank]]

InspectTypeOK ==
  /\ inspection \in {"draft", "complete", "abandoned"}
  /\ slot \in [Results -> Slot]
  /\ made \in [Items -> Results \cup {NoResult}]
  /\ gone \subseteq Items
  /\ request \in [Requests -> [at : {"idle", "record", "convert", "abandon", "resume", "add"},
                               on : SUBSET Results, copy : [Results -> Slot]]]
  /\ crossed \subseteq Results

\* start(): a result for every point and position of the template.
InspectInit ==
  /\ inspection = "draft"
  /\ slot = [r \in Results |-> IF r \in AdHoc THEN [Blank EXCEPT !.row = "unused"] ELSE Blank]
  /\ made = [i \in Items |-> NoResult]
  /\ gone = {} /\ crossed = {}
  /\ request = [q \in Requests |-> NoRequest]

-----------------------------------------------------------------------------
There(r) == slot[r].row = "there"

Opens(q, at, on) ==
  /\ request[q].at = "idle"
  /\ request' = [request EXCEPT ![q] =
       [at |-> at, on |-> on,
        copy |-> [r \in Results |-> IF r \in on THEN slot[r] ELSE Blank]]]

Answered(q) == request' = [request EXCEPT ![q] = NoRequest]

\* The link the request read is not the one that stands.
Overwrites(q, rs) == {r \in rs : slot[r].link # request[q].copy[r].link}

-----------------------------------------------------------------------------
(* result_record() and record().                                           *)

OpenRecord(q, r) ==
  /\ There(r)
  /\ Opens(q, "record", {r})
  /\ UNCHANGED <<inspection, slot, made, gone, crossed>>

\* Without an answer the one that was read is written again; a row that was removed is
\* inserted again; a link to an item that was destroyed is an error.
SaveRecord(q) ==
  /\ request[q].at = "record"
  /\ \E r \in request[q].on, answer \in Answers :
       LET old == request[q].copy[r] IN
         IF old.link \in gone
         THEN UNCHANGED <<slot, crossed>>
         ELSE /\ slot' = [slot EXCEPT ![r] =
                            [old EXCEPT !.status = IF answer = "" THEN @ ELSE answer]]
              /\ crossed' = crossed \cup Overwrites(q, {r})
  /\ Answered(q)
  /\ UNCHANGED <<inspection, made, gone>>

-----------------------------------------------------------------------------
(* The inspection as a whole: complete(), abandon(), resume(), add_check(),*)
(* result_remove().                                                        *)

\* From any status.
Complete ==
  /\ inspection' = "complete"
  /\ slot' = [r \in Results |->
                IF There(r) /\ slot[r].status = ""
                THEN [slot[r] EXCEPT !.status = "fine"] ELSE slot[r]]
  /\ UNCHANGED <<made, gone, request, crossed>>

\* The status is asked of the row that was read.
OpenStatus(q, at) ==
  /\ \/ at \in {"abandon", "add"} /\ inspection = "draft"
     \/ at = "resume" /\ inspection = "abandoned"
  /\ Opens(q, at, {})
  /\ UNCHANGED <<inspection, slot, made, gone, crossed>>

SaveStatus(q) ==
  /\ \/ request[q].at = "abandon" /\ inspection' = "abandoned"
     \/ request[q].at = "resume" /\ inspection' = "draft"
  /\ Answered(q)
  /\ UNCHANGED <<slot, made, gone, crossed>>

AddCheck(q) ==
  /\ request[q].at = "add"
  /\ \E r \in AdHoc : slot[r].row = "unused" /\ slot' = [slot EXCEPT ![r] = Blank]
  /\ Answered(q)
  /\ UNCHANGED <<inspection, made, gone, crossed>>

RemoveCheck(r) ==
  /\ r \in AdHoc /\ There(r)
  /\ slot' = [slot EXCEPT ![r].row = "removed"]
  /\ UNCHANGED <<inspection, made, gone, request, crossed>>

-----------------------------------------------------------------------------
(* inspection_convert() and convert_to_work_order().                       *)

\* Slip: what was converted already is not left out.
MutConvertible == {r \in Results : There(r) /\ slot[r].status = "flagged"}

Convertible ==
  {r \in Results : There(r) /\ slot[r].status = "flagged" /\ slot[r].link = NoItem}

OpenConvert(q) ==
  /\ Convertible # {}
  /\ Opens(q, "convert", Convertible)
  /\ UNCHANGED <<inspection, slot, made, gone, crossed>>

\* One transaction: an item for each, and the results saved with it.
Convert(q) ==
  LET on == request[q].on
      free == {i \in Items : made[i] = NoResult}
      new == CHOOSE f \in [on -> free] : \A r, s \in on : f[r] = f[s] => r = s
  IN /\ request[q].at = "convert"
     /\ Cardinality(on) <= Cardinality(free)
     /\ made' = [i \in Items |->
                   IF \E r \in on : new[r] = i THEN CHOOSE r \in on : new[r] = i ELSE made[i]]
     /\ slot' = [r \in Results |->
                   IF r \in on THEN [request[q].copy[r] EXCEPT !.link = new[r]] ELSE slot[r]]
     /\ crossed' = crossed \cup Overwrites(q, on)
     /\ Answered(q)
     /\ UNCHANGED <<inspection, gone>>

\* The item was put in the trash, which keeps the link, and was destroyed.
DestroyItem(i) ==
  /\ made[i] # NoResult /\ i \notin gone
  /\ gone' = gone \cup {i}
  /\ slot' = [r \in Results |-> IF slot[r].link = i THEN [slot[r] EXCEPT !.link = NoItem]
                                ELSE slot[r]]
  /\ UNCHANGED <<inspection, made, request, crossed>>

InspectNext ==
  \/ \E q \in Requests :
       \/ \E r \in Results : OpenRecord(q, r)
       \/ SaveRecord(q)
       \/ \E at \in {"abandon", "resume", "add"} : OpenStatus(q, at)
       \/ SaveStatus(q) \/ AddCheck(q)
       \/ OpenConvert(q) \/ Convert(q)
  \/ Complete
  \/ \E r \in Results : RemoveCheck(r)
  \/ \E i \in Items : DestroyItem(i)

InspectSpec == InspectInit /\ [][InspectNext]_inspectVars

-----------------------------------------------------------------------------
(* Properties.                                                             *)

\* convert_to_work_order(): a finding is turned into work once, however often the button
\* is pressed, the result answered again, and the inspection signed off, abandoned or
\* resumed; again only when the item was destroyed, or when the row was saved
\* by a request that had read it before the link was written.
OneItemPerFinding ==
  \A r \in Results \ crossed : Cardinality({i \in Items \ gone : made[i] = r}) <= 1
=============================================================================
