---------------------------- MODULE OfflineSync ----------------------------
(***************************************************************************)
(* The offline write queue: the browser's half (static/offline.js,         *)
(* static/queue.js) and the server's (`sync_batch` and `_apply_batch` in   *)
(* homeautoshop/api/urls.py, RevisionedModel.save).                        *)
(*                                                                         *)
(* The tabs of one browser share two IndexedDB stores, each read or        *)
(* written in transactions of its own.  A tab drains the queue in one      *)
(* POST, and `draining` stops it, not its neighbours, from starting        *)
(* another; Background Sync and the `online` event wake every tab at once. *)
(* A gunicorn worker applies the items in turn, outside any transaction,   *)
(* and finishes even when nobody waits for its answer any more.            *)
(*                                                                         *)
(* A write is the number its UUIDv7 orders it by.  All work is about one   *)
(* vehicle, one work order and one job item, which others edit and delete. *)
(***************************************************************************)
EXTENDS Integers, FiniteSets

CONSTANTS
  Writes,    \* the client ids, in the order they are minted
  Tabs,      \* tabs open on the app
  Calls,     \* gunicorn workers, numbered
  NoTab,     \* nobody waits for the answer
  NoWrite,
  MayAsk,    \* MayAsk[w]: the operations write w may be captured with
  Cap,       \* items[:200]
  MaxFaults  \* bound: connections lost, workers killed, tabs closed, edits and
             \* deletes by others

Ops == {"reading", "note", "job"}

ASSUME OfflineAssumption ==
  /\ Writes \subseteq Nat \ {0}
  /\ NoWrite \notin Writes
  /\ NoTab \notin Tabs
  /\ Calls \subseteq Nat
  /\ MayAsk \in [Writes -> SUBSET Ops]
  /\ Cap \in Nat \ {0}
  /\ MaxFaults \in Nat

VARIABLES
  queue,      \* STORE
  conflicts,  \* CONFLICTS
  op,         \* what a write asks for, "none" before it is captured
  rev,        \* payload.revision, 0 when there is none
  theirs,     \* conflict.current_revision of a write in CONFLICTS, or 0
  from,       \* the write this one retries, or NoWrite
  dropped,    \* writes the operator discarded or retried
  phase,      \* where a tab is in drain()
  batch,      \* the items it has still to settle
  result,     \* the results it was given
  filed,      \* those it has put in CONFLICTS and not yet deleted from STORE
  hand,       \* what the operator's click is in the middle of
  todo,       \* items a call has still to apply
  doing,      \* how far it is with the first of them
  results,    \* what it will answer
  caller,     \* the tab that waits for it
  named,      \* rows whose primary key is a client id
  rows,       \* rows[w]: how many times w was written
  jobRev,     \* JobItem.revision
  gone,       \* the operations whose vehicle, work order or job item is in the trash
  faults      \* of what MaxFaults bounds, how many so far

store   == <<queue, conflicts>>
entries == <<op, rev, from>>
drainer == <<phase, batch, result, filed>>
calls   == <<todo, doing, results, caller>>
tables  == <<named, rows, jobRev, gone>>
browser == <<store, entries, theirs, dropped, drainer, hand>>
offVars == <<browser, calls, tables, faults>>

Phase == {"idle", "waiting", "settling"}
Status == {"none", "ok", "conflict", "refused"}
Doing == {"idle", "item", "recording", "naming", "inserting", "writing"}
Hand == {"free", "clearing", "requeueing"}

FreeHand == [does |-> "free", tab |-> NoTab, write |-> NoWrite, revision |-> 0, keep |-> FALSE]

OffTypeOK ==
  /\ queue \subseteq Writes /\ conflicts \subseteq Writes /\ dropped \subseteq Writes
  /\ op \in [Writes -> Ops \cup {"none"}]
  /\ rev \in [Writes -> Nat]
  /\ theirs \in [Writes -> Nat]
  /\ from \in [Writes -> Writes \cup {NoWrite}]
  /\ phase \in [Tabs -> Phase]
  /\ batch \in [Tabs -> SUBSET Writes]
  /\ result \in [Tabs -> [Writes -> [status : Status, revision : Nat]]]
  /\ filed \in [Tabs -> SUBSET Writes]
  /\ hand \in [does : Hand, tab : Tabs \cup {NoTab}, write : Writes \cup {NoWrite},
               revision : Nat, keep : BOOLEAN]
  /\ todo \in [Calls -> SUBSET Writes]
  /\ doing \in [Calls -> Doing]
  /\ results \in [Calls -> [Writes -> [status : Status, revision : Nat]]]
  /\ caller \in [Calls -> Tabs \cup {NoTab}]
  /\ named \subseteq Writes
  /\ rows \in [Writes -> Nat]
  /\ jobRev \in Nat
  /\ gone \subseteq Ops
  /\ faults \in Nat

NoResult == [w \in Writes |-> [status |-> "none", revision |-> 0]]

OffInit ==
  /\ queue = {} /\ conflicts = {} /\ dropped = {}
  /\ op = [w \in Writes |-> "none"]
  /\ rev = [w \in Writes |-> 0]
  /\ theirs = [w \in Writes |-> 0]
  /\ from = [w \in Writes |-> NoWrite]
  /\ phase = [t \in Tabs |-> "idle"]
  /\ batch = [t \in Tabs |-> {}]
  /\ result = [t \in Tabs |-> NoResult]
  /\ filed = [t \in Tabs |-> {}]
  /\ hand = FreeHand
  /\ todo = [c \in Calls |-> {}]
  /\ doing = [c \in Calls |-> "idle"]
  /\ results = [c \in Calls |-> NoResult]
  /\ caller = [c \in Calls |-> NoTab]
  /\ named = {}
  /\ rows = [w \in Writes |-> 0]
  /\ jobRev = 1
  /\ gone = {}
  /\ faults = 0

Captured == {w \in Writes : op[w] # "none"}

\* The first of a set of writes.
FirstOf(w, S) == w \in S /\ \A v \in S : w <= v

-----------------------------------------------------------------------------
(* The browser: capture, drain, settle.                                    *)

\* enqueue(): the next id is minted, and the write put in STORE.
Enqueue(what, revision, old) ==
  \E w \in Writes :
    /\ FirstOf(w, Writes \ Captured)
    /\ op' = [op EXCEPT ![w] = what]
    /\ rev' = [rev EXCEPT ![w] = revision]
    /\ from' = [from EXCEPT ![w] = old]
    /\ queue' = queue \cup {w}

\* A capture, with the revision the page showed or with none.
Capture ==
  /\ \E w \in Writes : \E what \in MayAsk[w] :
       \E revision \in IF what = "job" THEN {0, jobRev} ELSE {0} :
         FirstOf(w, Writes \ Captured) /\ Enqueue(what, revision, NoWrite)
  /\ UNCHANGED <<conflicts, theirs, dropped, drainer, hand, calls, tables, faults>>

\* drain(), unless this tab is at it: everything waiting is read and posted, and
\* a worker takes the first 200 items of it.
Drain(t, c) ==
  /\ phase[t] = "idle"
  /\ queue # {}
  /\ FirstOf(c, {d \in Calls : doing[d] = "idle"})
  /\ phase' = [phase EXCEPT ![t] = "waiting"]
  /\ batch' = [batch EXCEPT ![t] = queue]
  /\ todo' = [todo EXCEPT ![c] = {w \in queue : Cardinality({v \in queue : v < w}) < Cap}]
  /\ doing' = [doing EXCEPT ![c] = "item"]
  /\ caller' = [caller EXCEPT ![c] = t]
  /\ UNCHANGED <<store, entries, theirs, dropped, result, filed, hand, results, tables, faults>>

\* Nobody waits any more for the calls of tab t.
Abandon(t) ==
  /\ caller' = [c \in Calls |-> IF caller[c] = t THEN NoTab ELSE caller[c]]
  /\ results' = [c \in Calls |-> IF caller[c] = t THEN NoResult ELSE results[c]]

Fault == faults < MaxFaults /\ faults' = faults + 1

\* The connection is lost: the queue is untouched.
FetchFails(t) ==
  /\ phase[t] = "waiting"
  /\ Fault
  /\ phase' = [phase EXCEPT ![t] = "idle"]
  /\ batch' = [batch EXCEPT ![t] = {}]
  /\ Abandon(t)
  /\ UNCHANGED <<store, entries, theirs, dropped, result, filed, hand, todo, doing, tables>>

\* Slip: `draining` stays set after the last item.
MutSettled(t, w) ==
  /\ queue' = queue \ {w}
  /\ batch' = [batch EXCEPT ![t] = @ \ {w}]
  /\ filed' = [filed EXCEPT ![t] = @ \ {w}]
  /\ UNCHANGED <<phase, result>>

\* The item is deleted from STORE; after the last of them draining = false.
Settled(t, w) ==
  /\ queue' = queue \ {w}
  /\ batch' = [batch EXCEPT ![t] = @ \ {w}]
  /\ filed' = [filed EXCEPT ![t] = @ \ {w}]
  /\ IF batch[t] = {w}
     THEN /\ phase' = [phase EXCEPT ![t] = "idle"]
          /\ result' = [result EXCEPT ![t] = NoResult]
     ELSE UNCHANGED <<phase, result>>

Refused(t, w) == result[t][w].status \in {"conflict", "refused"}

\* A write the server has taken is deleted from STORE.
SettleTaken(t, w) ==
  /\ phase[t] = "settling"
  /\ w \in batch[t]
  /\ result[t][w].status = "ok"
  /\ Settled(t, w)
  /\ UNCHANGED <<conflicts, entries, theirs, dropped, hand, calls, tables, faults>>

\* Slip: what the server refuses is deleted like what it takes.
MutSettleFile(t, w) ==
  /\ phase[t] = "settling"
  /\ w \in batch[t] \ filed[t]
  /\ Refused(t, w)
  /\ Settled(t, w)
  /\ UNCHANGED <<conflicts, entries, theirs, dropped, hand, calls, tables, faults>>

\* One it refuses is put in CONFLICTS...
SettleFile(t, w) ==
  /\ phase[t] = "settling"
  /\ w \in batch[t] \ filed[t]
  /\ Refused(t, w)
  /\ conflicts' = conflicts \cup {w}
  /\ theirs' = [theirs EXCEPT ![w] = result[t][w].revision]
  /\ filed' = [filed EXCEPT ![t] = @ \cup {w}]
  /\ UNCHANGED <<queue, entries, dropped, phase, batch, result, hand, calls, tables, faults>>

\* ...and deleted from STORE in a transaction after that.
SettleMoved(t, w) ==
  /\ phase[t] = "settling"
  /\ w \in filed[t]
  /\ Settled(t, w)
  /\ UNCHANGED <<conflicts, entries, theirs, dropped, hand, calls, tables, faults>>

-----------------------------------------------------------------------------
(* The inspector: discard, keep mine.  Its steps run beside the drain of   *)
(* the same tab.                                                           *)

\* Discard, or in the conflict list keep mine, is pressed: discard() deletes the
\* write from STORE...
Press(t, w, keep) ==
  /\ hand = FreeHand
  /\ w \in IF keep THEN conflicts ELSE queue \cup conflicts
  /\ hand' = [does |-> "clearing", tab |-> t, write |-> w, keep |-> keep,
              revision |-> IF keep THEN theirs[w] ELSE 0]
  /\ dropped' = dropped \cup {w}
  /\ queue' = queue \ {w}
  /\ UNCHANGED <<conflicts, entries, theirs, drainer, calls, tables, faults>>

\* ...and then from CONFLICTS.
Clear ==
  /\ hand.does = "clearing"
  /\ conflicts' = conflicts \ {hand.write}
  /\ theirs' = [theirs EXCEPT ![hand.write] = 0]
  /\ hand' = IF hand.keep THEN [hand EXCEPT !.does = "requeueing"] ELSE FreeHand
  /\ UNCHANGED <<queue, entries, dropped, drainer, calls, tables, faults>>

\* Slip: mine is kept with the revision that was refused.
MutKeepMine ==
  /\ hand.does = "requeueing"
  /\ Enqueue(op[hand.write], rev[hand.write], hand.write)
  /\ hand' = FreeHand
  /\ UNCHANGED <<conflicts, theirs, dropped, drainer, calls, tables, faults>>

\* retry(): a new write, with the revision the server reported, or with the old
\* one when it reported none.
KeepMine ==
  /\ hand.does = "requeueing"
  /\ Enqueue(op[hand.write],
             IF hand.revision # 0 THEN hand.revision ELSE rev[hand.write],
             hand.write)
  /\ hand' = FreeHand
  /\ UNCHANGED <<conflicts, theirs, dropped, drainer, calls, tables, faults>>

\* A tab is closed or reloaded, whatever it is in the middle of.
CloseTab(t) ==
  /\ Fault
  /\ phase' = [phase EXCEPT ![t] = "idle"]
  /\ batch' = [batch EXCEPT ![t] = {}]
  /\ result' = [result EXCEPT ![t] = NoResult]
  /\ filed' = [filed EXCEPT ![t] = {}]
  /\ hand' = IF hand.tab = t THEN FreeHand ELSE hand
  /\ Abandon(t)
  /\ UNCHANGED <<store, entries, theirs, dropped, todo, doing, tables>>

-----------------------------------------------------------------------------
(* The server: sync_batch() and _apply_batch(), a statement at a time.     *)

\* The item is answered, and the next one is begun.  (What nobody waits for is
\* not kept.)
Report(c, w, status, revision) ==
  /\ results' = [results EXCEPT ![c] = IF caller[c] = NoTab THEN @ ELSE
                     [@ EXCEPT ![w] = [status |-> status, revision |-> revision]]]
  /\ todo' = [todo EXCEPT ![c] = @ \ {w}]
  /\ doing' = [doing EXCEPT ![c] = "item"]
  /\ UNCHANGED caller

GoOn(c, next) ==
  /\ doing' = [doing EXCEPT ![c] = next]
  /\ UNCHANGED <<todo, results, caller>>

AtItem(c, w, where) == doing[c] = where /\ FirstOf(w, todo[c])

Elsewhere == <<browser, faults>>

\* get_object_or_404() does not find what the item is about: 422, with no revision.
NotFound(c, w) == op[w] \in gone /\ Report(c, w, "refused", 0)

\* reading.create, note.create: a row with this id means it is a replay.
LookUp(c, w) ==
  /\ AtItem(c, w, "item")
  /\ op[w] \in {"reading", "note"}
  /\ \/ NotFound(c, w)
     \/ op[w] \notin gone /\ w \in named /\ Report(c, w, "ok", 0)
     \/ /\ op[w] \notin gone /\ w \notin named
        /\ GoOn(c, IF op[w] = "reading" THEN "recording" ELSE "inserting")
  /\ UNCHANGED <<Elsewhere, tables>>

\* record_reading() commits a row under an id of the server's...
RecordReading(c, w) ==
  /\ AtItem(c, w, "recording")
  /\ rows' = [rows EXCEPT ![w] = @ + 1]
  /\ GoOn(c, "naming")
  /\ UNCHANGED <<Elsewhere, named, jobRev, gone>>

\* ...which the update after it changes to the client's, unless there is one.
NameReading(c, w) ==
  /\ AtItem(c, w, "naming")
  /\ IF w \in named
     THEN Report(c, w, "refused", 0) /\ UNCHANGED named
     ELSE Report(c, w, "ok", 0) /\ named' = named \cup {w}
  /\ UNCHANGED <<Elsewhere, rows, jobRev, gone>>

\* Slip: the note is saved under an id of its own.
MutInsertNote(c, w) ==
  /\ AtItem(c, w, "inserting")
  /\ Report(c, w, "ok", 0)
  /\ rows' = [rows EXCEPT ![w] = @ + 1]
  /\ UNCHANGED <<Elsewhere, named, jobRev, gone>>

\* The note is inserted under the client's id.
InsertNote(c, w) ==
  /\ AtItem(c, w, "inserting")
  /\ IF w \in named
     THEN Report(c, w, "refused", 0) /\ UNCHANGED <<named, rows>>
     ELSE /\ Report(c, w, "ok", 0)
          /\ named' = named \cup {w}
          /\ rows' = [rows EXCEPT ![w] = @ + 1]
  /\ UNCHANGED <<Elsewhere, jobRev, gone>>

\* job_item.status: save(expected_revision) reads the revision...
CheckRevision(c, w) ==
  /\ AtItem(c, w, "item")
  /\ op[w] = "job"
  /\ \/ NotFound(c, w)
     \/ "job" \notin gone /\ rev[w] \notin {0, jobRev} /\ Report(c, w, "conflict", jobRev)
     \/ "job" \notin gone /\ rev[w] \in {0, jobRev} /\ GoOn(c, "writing")
  /\ UNCHANGED <<Elsewhere, tables>>

\* ...and then writes the row as it was read, alive and whatever its revision is
\* by now.
WriteJob(c, w) ==
  /\ AtItem(c, w, "writing")
  /\ jobRev' = jobRev + 1
  /\ gone' = gone \ {"job"}
  /\ rows' = [rows EXCEPT ![w] = @ + 1]
  /\ Report(c, w, "ok", 0)
  /\ UNCHANGED <<Elsewhere, named>>

\* All items are answered, to the tab if it still waits.
Answer(c) ==
  /\ doing[c] = "item"
  /\ todo[c] = {}
  /\ doing' = [doing EXCEPT ![c] = "idle"]
  /\ caller' = [caller EXCEPT ![c] = NoTab]
  /\ \/ /\ caller[c] = NoTab
        /\ UNCHANGED <<phase, batch, result>>
     \/ /\ caller[c] # NoTab
        /\ phase' = [phase EXCEPT ![caller[c]] = "settling"]
        /\ result' = [result EXCEPT ![caller[c]] = results[c]]
        /\ batch' = [batch EXCEPT ![caller[c]] = {w \in @ : results[c][w].status # "none"}]
  /\ results' = [results EXCEPT ![c] = NoResult]
  /\ UNCHANGED <<store, entries, theirs, dropped, filed, hand, todo, tables, faults>>

\* The worker is killed between two statements.
CallDies(c) ==
  /\ doing[c] # "idle"
  /\ Fault
  /\ doing' = [doing EXCEPT ![c] = "idle"]
  /\ todo' = [todo EXCEPT ![c] = {}]
  /\ results' = [results EXCEPT ![c] = NoResult]
  /\ caller' = [caller EXCEPT ![c] = NoTab]
  /\ phase' = [t \in Tabs |-> IF caller[c] = t THEN "idle" ELSE phase[t]]
  /\ batch' = [t \in Tabs |-> IF caller[c] = t THEN {} ELSE batch[t]]
  /\ UNCHANGED <<store, entries, theirs, dropped, result, filed, hand, tables>>

\* Somebody else saves the job item.
JobEdited ==
  /\ Fault
  /\ jobRev' = jobRev + 1
  /\ UNCHANGED <<browser, calls, named, rows, gone>>

\* Somebody deletes what a kind of write is about; a delete is a save, which moves
\* the job item's revision on.
Deleted(what) ==
  /\ what \notin gone
  /\ Fault
  /\ gone' = gone \cup {what}
  /\ jobRev' = IF what = "job" THEN jobRev + 1 ELSE jobRev
  /\ UNCHANGED <<browser, calls, named, rows>>

\* It is taken out of the trash; the job item only by the admin, whose update
\* leaves the revision alone.
Restored(what) ==
  /\ what \in gone
  /\ gone' = gone \ {what}
  /\ UNCHANGED <<browser, calls, named, rows, jobRev, faults>>

-----------------------------------------------------------------------------

SettleStep(t) == \E w \in Writes : SettleTaken(t, w) \/ SettleFile(t, w) \/ SettleMoved(t, w)

ServerStep(c) ==
  \/ \E w \in Writes : \/ LookUp(c, w) \/ RecordReading(c, w) \/ NameReading(c, w)
                       \/ InsertNote(c, w)
                       \/ CheckRevision(c, w) \/ WriteJob(c, w)
  \/ Answer(c)

OffNext ==
  \/ \E t \in Tabs : \/ FetchFails(t) \/ SettleStep(t) \/ CloseTab(t)
                     \/ \E c \in Calls : Drain(t, c)
                     \/ \E w \in Writes : \E keep \in BOOLEAN : Press(t, w, keep)
  \/ Capture \/ Clear \/ KeepMine
  \/ \E c \in Calls : ServerStep(c) \/ CallDies(c)
  \/ JobEdited
  \/ \E what \in Ops : Deleted(what) \/ Restored(what)

\* The code gives no timer: a drain happens on page load, on `online`, on a
\* capture and on request, so its fairness is that somebody comes back.
OffFairness ==
  /\ WF_offVars(\E t \in Tabs, c \in Calls : Drain(t, c))
  /\ WF_offVars(\E t \in Tabs : SettleStep(t))
  /\ WF_offVars(\E c \in Calls : ServerStep(c))

OffSpec == OffInit /\ [][OffNext]_offVars /\ OffFairness

-----------------------------------------------------------------------------

Landed == {w \in Writes : rows[w] > 0}

\* offline.js: "losing a garage capture impossible": a captured write waits, or
\* is in the conflict list, or is on the server, or somebody let it go.
NothingLost == Captured \subseteq queue \cup conflicts \cup Landed \cup dropped

\* offline.js: "The client mints the id", "Every retry story downstream depends
\* on this one decision": however often and by however many tabs at once a note
\* is posted, it is there once.
NoteLandsOnce == \A w \in Writes : op[w] = "note" => rows[w] <= 1

\* _apply_batch: "a replay hits the primary key and is accepted rather than
\* duplicating", said of readings.
ReadingLandsOnce == \A w \in Writes : op[w] = "reading" => rows[w] <= 1

\* retry(): "retrying with the stale revision, would 409 forever": mine goes out
\* again with a later revision than the one it was refused for.  (A change refused
\* because the job item is in the trash names none, and goes out as it was.)
KeepMineMovesOn ==
  [][\A w \in Captured' \ Captured :
       op'[w] = "job" /\ from'[w] # NoWrite /\ hand.revision # 0 => rev'[w] > rev[from'[w]]]_offVars

\* A write does not wait for ever: it lands, or it is shown as a conflict, or
\* somebody lets it go.
EveryCaptureSettles == \A w \in Writes : w \in queue ~> w \notin queue
=============================================================================
