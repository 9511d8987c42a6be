-------------------------- MODULE LubeLoggerSync --------------------------
(***************************************************************************)
(* Pulling one vehicle's records from LubeLogger and pushing readings back *)
(* (homeautoshop/core/integrations/sync.py and importer.py).  A sync reads *)
(* the kinds of records one request after the other, writes what is new in *)
(* one transaction, then moves the marker the next window starts from,     *)
(* then pushes.  The job and the Sync button may run at once.              *)
(*                                                                         *)
(* A record that was copied is linked, by which it is linked again; not     *)
(* every kind is.  What is pushed becomes a record at the source; that it  *)
(* comes back with the next pull is left out.  A push that raises may have  *)
(* been recorded there: a timeout is caught like a refusal.                *)
(***************************************************************************)
EXTENDS Integers, FiniteSets

CONSTANTS
  Records,      \* records at the source
  KindOf,       \* what each is, see Kinds
  Own,          \* readings taken in the garage
  Syncers,      \* the job and the button
  MaxDay,       \* bound on the calendar
  Overlap,      \* OVERLAP_DAYS
  FirstRun,     \* FIRST_RUN_DAYS
  MaxTroubles,  \* bound on failed requests, bad rows and dead processes
  NoDate        \* a record without a date; a marker that was never set

\* The endpoints that are read in turn, and a fuel record that cost nothing.
Kinds == {"odometer", "fuel", "free fuel", "service", "note"}
Endpoint(k) == IF k = "free fuel" THEN "fuel" ELSE k

ASSUME LubeAssumption ==
  /\ KindOf \in [Records -> Kinds]
  /\ IsFiniteSet(Syncers)
  /\ Records \cap Own = {}
  /\ MaxDay \in Nat /\ Overlap \in Nat /\ FirstRun \in Nat /\ MaxTroubles \in Nat
  /\ Overlap < FirstRun   \* 14 and 90 days
  /\ NoDate \notin Int

VARIABLES
  today,
  entered,   \* the records at the source
  dated,     \* the date on each
  copies,    \* how often each was written here
  linked,     \* those with an ExternalRef
  marker,    \* lubelogger.last_sync
  sync,      \* what each sync is doing
  pushes,    \* how often a reading was sent
  sent,      \* the readings with a lubelogger_push marker
  troubles,
  unnoted    \* how often a reading was sent without anybody noting it

lubeVars == <<today, entered, dated, copies, linked, marker, sync, pushes, sent,
              troubles, unnoted>>

Endpoints == {Endpoint(KindOf[e]) : e \in Records}
Readings == Own \cup {e \in Records : KindOf[e] = "service"}
Dates == 0..MaxDay

Rest == [at |-> "idle", started |-> 0, since |-> 0, todo |-> {}, errors |-> FALSE,
         rows |-> {}, queue |-> {}, now |-> {}]

Syncs == [at : {"idle", "reading", "marking", "pushing"}, started : Dates, since : Int,
          todo : SUBSET Endpoints, errors : BOOLEAN, rows : SUBSET Records,
          queue : SUBSET Readings, now : SUBSET Readings]

LubeTypeOK ==
  /\ today \in Dates
  /\ entered \subseteq Records /\ linked \subseteq Records
  /\ dated \in [Records -> Dates \cup {NoDate}]
  /\ copies \in [Records -> Nat]
  /\ marker \in Dates \cup {NoDate}
  /\ sync \in [Syncers -> Syncs]
  /\ pushes \in [Readings -> Nat]
  /\ sent \subseteq Readings
  /\ unnoted \in [Readings -> Nat]
  /\ troubles \in 0..MaxTroubles

LubeInit ==
  /\ today = 0
  /\ entered = {} /\ linked = {}
  /\ dated = [e \in Records |-> NoDate]
  /\ copies = [e \in Records |-> 0]
  /\ marker = NoDate
  /\ sync = [s \in Syncers |-> Rest]
  /\ pushes = [r \in Readings |-> 0]
  /\ sent = {}
  /\ unnoted = [r \in Readings |-> 0]
  /\ troubles = 0

-----------------------------------------------------------------------------
\* window_start().
WindowStart(m, now) == IF m = NoDate THEN now - FirstRun ELSE m - Overlap

\* What _import_row() lets through: not linked, not older than the window; a record
\* without a date is never old.
Wanted(e, since) ==
  /\ e \in entered \ linked
  /\ dated[e] = NoDate \/ dated[e] >= since

\* The kinds whose copy is linked under the kind it is looked up by: _note() links
\* nothing, _fuel() links the expense.
Links(k) == k \notin {"note", "free fuel"}

\* The next sync would copy it.
Due(e) == Wanted(e, WindowStart(marker, today))

SetSync(s, new) == sync' = [sync EXCEPT ![s] = new]

\* The source: somebody enters a record, no more than the overlap late.
EnterRecord(e, d) ==
  /\ e \notin entered
  /\ d # NoDate => d >= today - Overlap
  /\ entered' = entered \cup {e}
  /\ dated' = [dated EXCEPT ![e] = d]
  /\ UNCHANGED <<today, copies, linked, marker, sync, pushes, sent, troubles, unnoted>>

\* Requests time out within seconds: a sync sees one midnight at most.
Tomorrow ==
  /\ today < MaxDay
  /\ \A s \in Syncers : sync[s].at # "idle" => sync[s].started = today
  /\ today' = today + 1
  /\ UNCHANGED <<entered, dated, copies, linked, marker, sync, pushes, sent, troubles, unnoted>>

-----------------------------------------------------------------------------
(* run().                                                                  *)

Begin(s) ==
  /\ sync[s].at = "idle"
  /\ SetSync(s, [Rest EXCEPT !.at = "reading", !.started = today,
                         !.since = WindowStart(marker, today), !.todo = Endpoints])
  /\ UNCHANGED <<today, entered, dated, copies, linked, marker, pushes, sent, troubles, unnoted>>

Fetch(s, k) ==
  /\ sync[s].at = "reading" /\ k \in sync[s].todo
  /\ SetSync(s, [sync[s] EXCEPT !.todo = @ \ {k},
               !.rows = @ \cup {e \in entered : Endpoint(KindOf[e]) = k /\ Wanted(e, sync[s].since)}])
  /\ UNCHANGED <<today, entered, dated, copies, linked, marker, pushes, sent, troubles, unnoted>>

\* An endpoint does not answer; a row cannot be read, and is left out; a number is
\* formatted for some locale, and the rest is not read.
Fails(s) ==
  /\ sync[s].at = "reading" /\ sync[s].todo # {}
  /\ troubles < MaxTroubles
  /\ troubles' = troubles + 1
  /\ \E k \in sync[s].todo, bad \in SUBSET entered :
       \/ SetSync(s, [sync[s] EXCEPT !.todo = @ \ {k}, !.errors = TRUE,
               !.rows = @ \cup {e \in entered \ bad : Endpoint(KindOf[e]) = k
                                                        /\ Wanted(e, sync[s].since)}])
       \/ SetSync(s, [sync[s] EXCEPT !.todo = {}, !.errors = TRUE])
  /\ UNCHANGED <<today, entered, dated, copies, linked, marker, pushes, sent, unnoted>>

\* The transaction of run_import().
Import(s) ==
  LET rows == sync[s].rows IN
    /\ sync[s].at = "reading" /\ sync[s].todo = {}
    /\ copies' = [e \in Records |-> copies[e] + (IF e \in rows THEN 1 ELSE 0)]
    /\ linked' = linked \cup {e \in rows : Links(KindOf[e])}
    /\ SetSync(s, [sync[s] EXCEPT !.at = "marking", !.rows = {}])
    /\ UNCHANGED <<today, entered, dated, marker, pushes, sent, troubles, unnoted>>

\* Slip: the end of the run.
MutMarkerAtEnd(s) == IF sync[s].errors THEN marker ELSE today

\* What the marker is set to: the start of a run without errors.
NewMarker(s) == IF sync[s].errors THEN marker ELSE sync[s].started

\* Where the push is: what is left of its list, and the reading it has just sent.
Pushing(s, q, r) ==
  [Rest EXCEPT !.at = "pushing", !.started = sync[s].started, !.queue = q, !.now = r]
Going(s, q, r) == IF q = {} /\ r = {} THEN Rest ELSE Pushing(s, q, r)

\* push_odometer() lists what it did not import and did not send: readings of imported
\* services are not linked, and so are listed.
Unsent == {r \in Readings : r \in Own \/ copies[r] > 0} \ sent

MoveMarker(s) ==
  /\ sync[s].at = "marking"
  /\ marker' = NewMarker(s)
  /\ SetSync(s, Going(s, Unsent, {}))
  /\ UNCHANGED <<today, entered, dated, copies, linked, pushes, sent, troubles, unnoted>>

\* Slip: what was sent stays in the list.
MutPush(s, r) ==
  /\ sync[s].at = "pushing" /\ sync[s].now = {} /\ r \in sync[s].queue
  /\ pushes' = [pushes EXCEPT ![r] = @ + 1]
  /\ SetSync(s, Going(s, sync[s].queue, {r}))
  /\ UNCHANGED <<today, entered, dated, copies, linked, marker, sent, troubles, unnoted>>

\* The reading is sent; an exception is logged, whatever the server made of the request,
\* and the next one has its turn.
Push(s, r) ==
  /\ sync[s].at = "pushing" /\ sync[s].now = {} /\ r \in sync[s].queue
  /\ \/ /\ pushes' = [pushes EXCEPT ![r] = @ + 1]
        /\ SetSync(s, Going(s, sync[s].queue \ {r}, {r}))
        /\ UNCHANGED <<troubles, unnoted>>
     \/ /\ troubles < MaxTroubles
        /\ troubles' = troubles + 1
        /\ \E n \in {0, 1} : /\ pushes' = [pushes EXCEPT ![r] = @ + n]
                            /\ unnoted' = [unnoted EXCEPT ![r] = @ + n]
        /\ SetSync(s, Going(s, sync[s].queue \ {r}, {}))
  /\ UNCHANGED <<today, entered, dated, copies, linked, marker, sent>>

MarkSent(s) ==
  /\ sync[s].at = "pushing" /\ sync[s].now # {}
  /\ sent' = sent \cup sync[s].now
  /\ SetSync(s, Going(s, sync[s].queue, {}))
  /\ UNCHANGED <<today, entered, dated, copies, linked, marker, pushes, troubles, unnoted>>

\* The process dies: a transaction that is not committed never was.
Stops(s) ==
  /\ sync[s].at # "idle" /\ troubles < MaxTroubles
  /\ troubles' = troubles + 1
  /\ unnoted' = [r \in Readings |-> unnoted[r] + (IF r \in sync[s].now THEN 1 ELSE 0)]
  /\ SetSync(s, Rest)
  /\ UNCHANGED <<today, entered, dated, copies, linked, marker, pushes, sent>>

LubeNext ==
  \/ \E e \in Records : \E d \in Dates \cup {NoDate} : EnterRecord(e, d)
  \/ Tomorrow
  \/ \E s \in Syncers :
       \/ Begin(s) \/ \E k \in Endpoints : Fetch(s, k)
       \/ Fails(s) \/ Import(s) \/ MoveMarker(s)
       \/ \E r \in Readings : Push(s, r)
       \/ MarkSent(s) \/ Stops(s)

LubeSpec == LubeInit /\ [][LubeNext]_lubeVars

-----------------------------------------------------------------------------
(* Properties.                                                             *)

\* A record that was never copied and that the next sync would copy is copied or stays
\* in its window: no failed request, bad row, dead process, or second sync moves the
\* marker past a record that was entered within the overlap of its date.  (A record of a
\* kind that is not linked leaves the window after its copy.)
NothingFallsBehind ==
  [][marker # NoDate =>
       \A e \in Records : Due(e) /\ copies[e] = 0
                            => (copies'[e] > 0 \/ Due(e)')]_lubeVars

\* "Re-running the import skips records already copied" (HELP.md): a record comes
\* over once, or once for each sync that read it before another had linked it.
CopiedOnce == \A e \in Records : copies[e] <= Cardinality(Syncers)

\* A reading is sent once, or once for each sync that listed it at the same time, and
\* again only for a time nobody could note: the process died between sending and
\* noting, or the send raised although it was recorded.
SentOnce == \A r \in Readings : pushes[r] <= Cardinality(Syncers) + unnoted[r]
=============================================================================
