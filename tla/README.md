# HomeAutoShop: a TLA+ verification project

HomeAutoShop is a Django application for a home garage: vehicles, their
maintenance, work orders, parts on a shelf, purchases, diagnostics. It runs as
three gunicorn processes, one `run_worker` process, a Postgres database, and an
offline-capable client in the browser (`docker-compose.yml`). There is no
`ATOMIC_REQUESTS`: every ORM statement commits on its own unless the code says
`transaction.atomic`, and only `parts/services.py:consume` takes row locks. What
is hard about the program is therefore what happens between two statements of
one request or job, and most of the models here are about that.

Paths below are relative to `src/homeautoshop/` unless they start with `static/`
or a top-level file.

## Inventory

| Component | State | Operations | What is hard | What makes it correct |
|---|---|---|---|---|
| Job queue (`core/jobs.py`) | `Job` rows, a worker's in-memory batch | enqueue, `reclaim`, `claim`, `run_one`, `drain` | crashes inside handlers, locks that age, whole-row saves of stale instances | attempts are accounted for, `done` means done, every job settles |
| Scheduler and backups screen (`core/schedule.py`, `core/views_settings.py`) | stamps of the last run, rows in flight | `tick`, Back up now, Give up | check-then-insert, orphans that block a type, giving up on a live job | a recurring type goes on for ever; bounded pile-up |
| Shelf (`parts/`) | `StockLot`, `StockTransaction`, kits | add, edit, delete, use, count, open and close a kit | quantities decided on unlocked reads, saves of whole rows | quantity is the projection of the ledger; nothing from nowhere |
| Purchasing (`purchasing/`) | `Purchase`, `PurchaseLine` | receive, take back, correct, remove, add | stale lines, refilled lots, status derived while others write | line, shelf and order agree |
| Order importers (`purchasing/importers/`) | lines keyed by external reference | import, re-import | re-import against received lines | a re-import changes nothing that was received |
| Offline queue (`static/offline.js`, `static/queue.js`) and sync API (`api/urls.py`) | two IndexedDB stores, per-tab `draining` | enqueue, drain, settle, discard, retry; `/sync/batch` | lost answers, two tabs, replays, conflicts, tabs that close | nothing captured is lost or written twice |
| Entities (`core/models.py`, `core/views.py`, `core/admin.py`) | `deleted_at`, `revision` | soft delete with cascade, restore, Delete permanently, `purge_trash`, revision check | shared timestamps, two statements each, check-then-write | restore brings back exactly what the delete took; nothing is destroyed inside the window |
| Service worker (`static/sw.js`) | three caches | network-first, cache-first, drop on write | a read in flight across a write | never a page that predates one's own edit, online |
| Work orders (`work/`) | status, items, dates | transitions, closing items, parts needed | reopening, two closers, completions | dates that follow the status, one completion per item |
| Parts readiness (`work/parts_readiness.py`) | none (computed) | claims on the shelf by date | shared stock | no part is promised twice |
| Maintenance (`maintenance/`) | `AssetServiceItem` status and baselines | recalculate, complete, refresh, snooze | stored statuses that go stale, month ends | stored status is the status |
| Diagnostics (`diagnostics/`) | sessions, codes | draft, re-parse, re-read, confirm, supersede, discard, restore | re-reading what is confirmed, in any order | a scan stands in the history once; what was vouched for stays |
| Media (`mediafiles/`) | `Media`, jobs for it | ingest, derive, OCR, sweep, retry, rederive | crash between store and enqueue, cap before filter | every file's text is read |
| Backup and retention (`core/backup.py`) | directories | run, prune, restore | pruning | the newest are kept |
| Notifications (`core/notifications.py`) | `NotificationSent` | collect, deliver | crash between send and record, one channel of several failing | once per cooldown, and again when it runs out |
| Runtime settings (`core/runtime.py`) | overlay, generation | save, restart | two processes, read-increment-write | a stale process knows it is stale |
| LubeLogger sync (`core/integrations/`) | `ExternalRef`, last sync | import, pull, push | a marker that moves past failures, push before marker, job beside button | no record falls behind the window; a reading is sent once |
| Accounts (`accounts/`, `core/views_setup.py`) | users, roles | first run, create, demote, deactivate, delete | the check is about a row the form has changed; check-then-act | an administrator remains |
| Inspections (`inspections/`) | `Inspection`, `InspectionResult` | answer, sign off, abandon, resume, add and remove a check, convert | whole-row saves beside the conversion | a finding becomes one job item |

Fluid samples, vehicles and VINs, costs, search, labels, CSV and the scan-tool
formats are mostly data entry and parsing. `PROJECT.json` lists every
component with its status and every hazard with its line.

## The modules

### JobQueue, JobLifecycle, JobQueueProofs

`JobQueue` models `core/jobs.py` statement by statement. A row is its `state`,
its `attempts`, and two facts about time: `due` (`run_after` has passed) and
`stale` (`locked_at` is older than `JOB_STALE_AFTER_MINUTES`). A worker is a
program counter in `drain()`, the rows of its last SELECT (`todo`), its claimed
`batch`, and the `attempts` its instances hold (`seen`), because `job.save()`
writes the whole row from memory. `Crash` loses the memory of a process,
`HandlerKills` is a handler that takes its process with it, `Restart` is the
restart policy of `docker-compose.yml`. A handler is its outcome: it returns,
raises, or kills.

`JobLifecycle` is what the queue promises of one job, with no worker, lock or
batch in it; `ImplementsLifecycle` says that `JobQueue` with one worker refines it.

Fairness: a live worker keeps executing (`WF` on its step as a whole, never on a
handler's success), a dead one is restarted, time passes.

### JobScheduler, JobQueueProofs

Composes `JobQueue` with the recurring schedule (`tick`: due? in flight? create,
stamp — four statements) and the backups screen (check, then insert; show, read,
save), whose buttons enqueue and give up on the same rows.

### StockLedger, InventoryProofs

Lots, their quantity and their append-only ledger. A view reads its lot before
the transaction that writes; the values read are kept (`seen`, `picked`) until
the write. The writes of one transaction are one step: they are `F() + delta`
under the lock the first of them takes. A save of the whole lot (`lot_edit`)
writes the quantity it read. The ledger is represented by what its readers ask:
per lot and reason, the sum and the number of rows, and whether any was
negative.

### Receiving, ReceivingProofs

Extends `StockLedger` with one purchase order: lines, the order's status and
date. `receive()` and `unreceive()` are transactions that lock nothing before
they write; the model gives each of their reads a step (view, decide, settle)
and their writes the last one. The line, the order and a refilled lot are saved
whole, from what was read. The screens that correct a line ask for no minimum: a
line's quantity and part (`ordered`, `linePart`) may become any, zero, less than
zero and none included. The screen that edits the order may set any status, the
cart's too, and saves the date as it read it (`OrderEdit`); it derives nothing.

### OfflineSync, OfflineSyncProofs

Both halves of the offline queue. In the browser: the stores `queue` (STORE) and
`conflicts` (CONFLICTS) shared by all tabs, each IndexedDB transaction one step;
per tab where it is in `drain()` (`phase`, `batch`, `result`, and `filed` for the
item that is in CONFLICTS and not yet out of STORE); and the operator's click on
the queue page, whose `discard()` deletes from two stores in two transactions and
whose `retry()` enqueues after that. On the server: each gunicorn worker applies
the items of its call one statement at a time (`todo`, `doing`), goes on when
nobody waits any more (`caller`), and answers at the end. `rows[w]` counts how
often write `w` was written, `named` holds the client ids that are primary keys,
`jobRev` is the revision of the one job item all job writes are about. What a kind
of write is about may be deleted and come back (`gone`): such a write is refused
without a revision, `NotFound`.

A write is the number its UUIDv7 orders it by. Not modelled: `work_order.status`
and unknown operations (no new interleaving: the first is a check and a
transition like `job_item.status`, the second a refusal), validation failures of
a reading, two clicks on the queue page at once, and a page whose list of
conflicts is older than the store.

Fairness: `WF` on a drain, on settling, on the server's steps. The code has no
timer; a drain starts on page load, on `online`, after a capture and on request,
so fairness of a drain says that somebody comes back to the app.

### ServiceSchedule, WorkOrder, WorkOrderProofs

`ServiceSchedule` is one vehicle's maintenance schedule. A row is an
`AssetServiceItem`: whether it is listed, its status, its two intervals, when
and at what reading it was last done (`doneOn`, `doneAt`), when it is due
(`dueOn`, `dueAt`), and its snooze. `Recalculated`, `StatusFor`, `Completed` and
`Refreshed` are `recalculate`, `_status_for`, the second half of `complete` and
`refresh_asset`. Each of the operator's requests is one step but the add form's,
which saves the row and then completes it (`ServiceItemAdd`, `ServiceItemAdded`),
and may be killed in between (`adding`, `cut`). A service that was removed and is
added again is a second row of the same definition; `unique_asset_service_item`
lets one of them be alive, so a refresh that still holds the first is refused and
its job fails (`RefreshSave`). The worker's
`refresh_fleet` is not: it loads all tracked items (`RefreshLoad`), and then for
each reads the meter and recalculates its copy (`RefreshFigure`) and saves the
whole row (`RefreshSave`), while the operator goes on. Days are numbers and a
month is so many of them; engine hours, components and the order of the list
are left out, and the look-ahead, which is a setting, is a constant. A reading
that goes to the trash lets the meter fall back, so `SaveReading` may set any
reading.

`WorkOrder` composes the schedule with one work order and its job items:
`TRANSITIONS` and `transition_to`, closing out with a reading (from the page,
which adds it to the vehicle's, and from the API, which does not), and
`JobItem.save`, which records a service the first time the job is done.
`credited` counts the `ServiceCompletion`s that name a job item.

Fairness: `WF` on the refresh's steps. The worker runs `maintenance.refresh`
daily, and that a recurring type goes on for ever is `ScheduleGoesOn` of
`JobScheduler`.

### Trash, RecordsProofs

A purchase order and its lines as the record that takes others with it. A soft
delete is `Cascade` (the lines that are alive get the new timestamp) and then
`StampHead`; a restore is `RestoreHead` and then `Revive`, which brings back the
lines whose timestamp equals the order's. Beside them: a line removed or added
on its own, the trash's Delete permanently, `purge_trash` (lines by age first,
then orders, whose lines the database's cascade destroys with them), and the
admin, which moves rows one by one. Any of these may be cut off between two
statements (`CutShort`). A row holds its timestamp, `Alive`, `Never` or `Gone`.

### DiagnosticCodes, RecordsProofs

Scans of one vehicle and one trouble code. Each request is one step (upload,
confirm and promotion are transactions); the hazard is the order of requests
weeks apart: a confirmed scan read again becomes a new draft that supersedes it,
drafts are confirmed in any order, discarded, restored, their codes promoted to
work and closed by it. The reading that a confirmation adds to the meter is left
out: `record_meter` looks and then inserts, two statements that do not see the
trash, and nothing here reads what it writes.

### LubeLoggerSync, UpkeepProofs

One vehicle's records at a LubeLogger server and here. A sync (`job` or
`button`) opens a window from the last-sync marker and fetches one kind of record
after another, any of which may fail; imports in one transaction; moves the
marker when there were no errors; then pushes the readings taken here one by one,
and marks each as sent after it was sent. A push that raises may have been recorded
by the server, a timeout being caught like a refusal: then nobody notes it, and
`unnoted` counts it. What differs between kinds of records
is how they are linked (`Links`). The calendar is the dates records carry.

### PartsReadiness, RecordsProofs

What `parts_readiness.for_work_order` tells each work order about one part:
`Needed`, `Outstanding`, `CommittedElsewhere` (what earlier claims of open jobs
leave), `FreeFor`, `Short`, `Ready`, over the claims, usages and stock every
screen of a work order changes. Nothing is reserved: the figures are recomputed
from rows that other jobs change, and the properties are about what two jobs are
told at the same time.

### ConfigGeneration, UpkeepProofs

The settings that need a restart. A save puts one row per key, reads the
generation, and puts it back raised: separate statements, of several people at
once, any of whom may die in between. A process reads the overlay, then records
the generation, then runs; `is_stale` compares the two. The worker exits when it
is stale, the web process is reloaded by the screen.

### MediaPipeline, Reminders, UpkeepProofs

`MediaPipeline`: an upload stores the file, queues its preview and its text in
three statements; jobs read it, fail or are killed with their worker; the hourly
sweep takes the newest `Cap` of the backlog and leaves out those in the queue
afterwards; an operator switches OCR, retries, rederives. A job's inside is
`JobQueue`'s, so here it is one step with its outcomes, among them that it is given
up untried because it shared a batch with a file that kills the worker
(`GivenUpUntried`), and that the final save of `ocr()` fails or nothing is stored
behind the row, so that the file stays as it was (`Mute`).

`Reminders`: one run collects what is due, then for each channel builds the
digest of what it was not told within the cooldown, sends it, and records it;
the worker may die between the two, and a send may raise, before its message
arrived or after (`Fail`).

Fairness: the worker's jobs and the sweep, which recur (`ScheduleGoesOn`); a
daily run of the reminders and the passing of days. Nothing an operator does.

### Accounts, UpkeepProofs

First run, and who can administer afterwards. A request reads the account
(`UserRead`), asks whether the change would leave nobody who can administer
(`UserCheck`), and saves (`SaveProfile` writes every column it read, `SetActive`
one, `DeleteUser` the row). The check asks the table and not the object, onto
which the form has already written the new role. Django's own admin is mounted
beside these screens and edits the same rows, role, flags, `is_active` and deletion,
and asks nothing (`AdminSite`). `overtaken` remembers that two changes which take
somebody away met between check and save, that a profile was saved over an
`is_active` that had changed, or that Django's admin took the last administrator.

### Inspections, RecordsProofs

One inspection. An answer is read (`OpenRecord`) and saved (`SaveRecord`) as a
whole row, its link to a job item included; a conversion lists what is flagged
and has no item (`OpenConvert`), and makes the items and saves the results in one
transaction (`Convert`). Around them signing off, which asks nothing of the
status, abandoning and resuming, which ask the row they read, checks added and
removed by hand, and the destruction of a job item, which takes the link with it.
`crossed` holds the results whose link was written over by a request that had
read it before.

### Side by side

`MCRecords` and `MCBackground` each hold several components that share no state.
Interleaving them would multiply states and show nothing, so the initial state
picks one component (`moving`) and only that one moves.

## Runs

| Run | Question | Result |
|---|---|---|
| `JobQueue_one` | one worker, a job that kills it each time, one that nothing handles, a further crash, locks that age while the worker lives | accounting, refinement of `JobLifecycle`, every job settles |
| `JobScheduler_live` | can an orphan, a late save or an operator stop a recurring type? how many rows can pile up? | no; a type is in flight, or about to be, once, and once more for each press of Back up now |
| `Receiving_serial` | every screen of an order and of the shelf but the opening and closing of kits, one request at a time, two lots and two lines | projection, never negative, drawn lots stay, line and shelf agree, what the order says that nobody chose is what its lines say, with its date, lots with a history are not refilled |
| `Receiving_race` | two requests on one line of kits, its quantity corrected meanwhile, and on what is in them | within the order, used came in, nothing from nowhere |
| `StockLedger_boxes` | do boxes balance? | no: two boxes opened in turn come back as one (finding) |
| `OfflineSync_queue` | two tabs, two workers, an answer lost or a worker killed or a tab closed, the job edited or what a write is about deleted | nothing lost, a note once, a kept change moves on when its refusal named a revision, every capture settles |
| `OfflineSync_twice` | is a replayed reading recorded once? | no: two tabs record it twice (finding) |
| `WorkOrder_shop` | every screen of a job and of the schedule, a service removed and added again included, beside the refresh | one completion per job, every baseline is a recorded service (an add that was cut off aside), only the refresh rewinds one, the stored status comes to be right |
| `WorkOrder_ignored` | does the work reset the schedule? | not when the item is ignored (finding) |
| `Records_side` | trash; codes; LubeLogger sync; parts readiness; settings; accounts; inspections, one at a time | lines rejoin their order, the window is kept; a re-reading replaces, what was vouched for stays; nothing falls behind the marker, a reading is sent once per sync that saw it, and again only for a time nobody could note; no part promised twice, a shortage is seen by somebody; a stale process knows; somebody manages, unless two changes meet or Django's admin takes the last one; one item per finding |
| `LubeLogger_notes` | is a record that was copied skipped? | not a note (finding) |
| `Background_live` | media; reminders | every file's text is read or tried once those that kill the worker stay away, a channel is told once per cooldown unless the last telling could not be recorded, and hears again |

`CHECK_DEADLOCK FALSE` stands in the runs whose system really may stop: when
`MaxEntries`, `Lots`, `Writes`, `Sessions`, `MaxClock` or another bound is used up
there is nothing left to do.

### Bounds

* Jobs. Rows interact only by sharing a batch, a drain limit or a worker, so two
  that do and one nothing handles suffice. Two attempts let a job fail with tries
  left and without. One crash that no handler caused comes on top of every death
  the poisonous handler causes. A second worker, whose late save meets a newer row,
  is not in the run: `AttemptBudget` and `DoneMeansFinished` are theorems for any
  number of workers, and there it is they that say so. `MaxPresses`
  bounds the backups screen: pressing Back up now for ever would be a row in flight
  for ever.
* Shelf. Two or three lots: a kit lot and the lots of one opening, or of two;
  quantities are one and two, so partial draws, draws across lots and exact draws
  all happen. `MaxEntries` bounds the ledger of a lot and is a guard of `Post`
  only: a longer history repeats the sums of a shorter one. Two requests are the
  shortest race. In `Receiving_serial` every line is of two, so that it can be partly
  received and taken back from two lots. In `Receiving_race` its quantity is corrected
  between none, which counts as complete, and two; what a corrected quantity does to
  the status is left to `SerialStatusFollowsLines`. There the order was closed by hand, so that its status stands still, which nothing there reads; no run
  has a line without a part, which is refused at the first step and which the
  theorems include.
* Offline queue. Two tabs and two workers are the shortest race; two writes, of
  which one may be the retry of the other, make the cap of one bind, which stands
  for `items[:200]`. `MaxFaults = 1` puts one failure, edit or deletion
  anywhere in every behaviour; what was deleted may come back at any time.
  The theorems below have none of these bounds.
* Schedule. Two rows of one service: the one that was removed and the one that is
  added in its place. Intervals asked for by hand are of days, so that a baseline's
  date matters; the template's have miles as well. Three requests are: do or complete
  something, undo it, do it again; or one in each gap of a refresh. Two days are that
  of a service and its due day, a snooze lasts the day it is given, and an item comes
  to be overdue by its miles. Two readings let the meter rise, fall back and be missing. The
  operator stops after `MaxRequests`, so `StatusCatchesUp` says that the refresh
  repairs what it and the operator left, not that it wins against a stream of
  changes.
* Trash. Three rows: a line deleted on its own, one that goes with the order, one
  added later. One request at a time, each of which may be cut off: two purges
  and restores that interleave do destroy what is alive, see below. `MaxClock`
  of 5 lets a row be deleted, restored, deleted again and grow old.
* Codes. Two scans, two reports, two days and two readings: a re-reading and what
  it replaces, on the same or another day.
* LubeLogger. One record, one reading, two syncs, one failure. `FirstRun` is
  longer than `Overlap`, as in the code, and `MaxDay` of 2 lets a record be
  entered after its date and fall out of the window.
* Readiness. Two work orders and three claims: one that is dropped and made again.
* Settings. One key with two values, three saves: the third puts back the value a
  process booted with.
* Accounts. Two accounts and two requests, beside Django's admin.
* Inspections. A template's point and one added by hand, two items, two requests:
  two findings converted, or one twice.
* Media. Three files, of which one kills its worker every time and one is never
  read. `Cap` is 2, larger than the number of files that hold a place of it for
  ever: with as many as the cap the rest is never looked at. The property speaks of
  behaviours in which files that kill stop coming back (`<>[]~Deadly`): those whose
  preview kills are given up, those whose text is asked for come back with every
  sweep, and as long as they do, what is claimed with them may be given up untried
  each time. Of such behaviours nothing is promised.
* Reminders. A channel that works and one that does not, a death, a cooldown of 2.

### What the models showed besides the findings

Behaviours that contradict no statement of the repository, and so no run refutes:

* Two workers that reclaim at once both save the row, and a job can be claimed
  twice; the shipped topology has one worker.
* Giving up on a running backup is undone by the live worker's save of the whole
  row; a tick and the button can both enqueue.
* With the edit form beside a draw, the form's save of the whole lot undoes the
  draw; two presses of Receive stock twice and count once; a receipt taken back
  while the part is drawn leaves the lot at minus one. The serial runs and the
  assumptions of the theorems mark these off.
* Two clients with one revision both pass `RevisionedModel.save`, and a replay of
  a job write after a lost answer is refused against its own effect.
* Keep mine discards before it queues again; a tab closed in between loses the
  change. The model counts a change as let go from the press on.
* A change to a job item that is in the trash is refused without a revision. Keep
  mine then sends it as it was, and it is refused again, until the item is restored,
  which only Django's admin does (a job item is no kind of record the trash lists).
* The save of a job item writes `deleted_at` as it was read: an item deleted between
  the check of the revision and the write is alive again.
* A discard during a drain does not recall what was posted: it lands, or comes
  back as a conflict.

* A refresh that read an item before it was completed, snoozed, ignored or
  removed undoes that when it saves the row. The completion stays in the history
  (`AnchorIsRecorded` holds); the baseline is the one before.
* Adding back by hand a service that was removed inserts a second row, where the
  docstring of `service_item_remove` (`maintenance/views.py:579`) speaks of the
  same row revived. From then on a late save of the removed row violates
  `unique_asset_service_item`, and the refresh job fails.
* An add that is killed between `item.save()` and `complete()` leaves a row whose
  baseline is in no history.
* A service entered for a past day without a reading keeps the reading of the
  service before it as the baseline, where the comment in `complete`
  (`maintenance/services.py:341`) says that `recalculate` falls back to the
  meter now.
* A job item that is relinked after its service was recorded records nothing for
  the new item; two people who toggle one job item at the same moment would both
  find it not yet recorded (requests are one step each in the model).
* Completing through the API records no reading with the vehicle; completing from
  the page once more records the reading a second time.

Jobs, shelf and orders:

* A job that shared a batch with one that kills the worker is charged for its
  deaths, and may fail without having been tried (`core/jobs.py:4` speaks of a job
  that exhausts its attempts). With `media.ocr` this may happen again at every sweep.
* An order can be filed by hand as received with nothing received and no date, or
  as ordered with a date, and stays so until the next receipt, reversal or correction.
* A line with something received refuses the correction of its quantity; a
  correction that read the line before the receipt is saved over it, quantity
  received and all, and line and shelf disagree.
* A kit that is opened and then taken back from the order takes one of its parts
  back, since they carry its purchase line. When a count adds units to a lot, more
  can be taken back from it than came with the line
  (`purchasing/models.py:417` and following).

Trash and admin:

* The admin's restore brings back the order alone and its delete takes the
  selection; lines restored one by one below an order in the trash are destroyed
  with the order. docs/HELP.md:1290 says what a delete takes along for the screens;
  the admin's Delete permanently is left out of the model.
* With two requests at once, a purge beside a restore destroys what is alive, and
  two deletes stamp order and lines apart.

Records:

* A report uploaded twice before either reading is confirmed gives two drafts, and
  both can be confirmed; the replacement docs/HELP.md:898 promises is decided at
  the upload.
* The claims of a work order in the trash still count as committed, because
  `_committed_elsewhere` asks for the status only. Parts received for a later job
  are taken by an earlier claim. "Order what is missing" pressed twice drafts twice.
* A send that times out after its message arrived, or a push that times out after
  LubeLogger recorded it, is taken for one that failed, and is done again at the next
  run. `unrecorded` and `unnoted` mark these off in `ToldOnce` and `SentOnce`.
* LubeLogger: the readings that imported services made are pushed back, and pushed
  readings come back as records. The records of a vehicle that is matched to one
  here later than the window reaches are never asked for. A note that falls out of
  the window was copied before.
* A boot that straddles a save records the new generation with the old settings,
  and a slow saver puts a smaller generation back; a save that dies before the
  generation is raised announces nothing. `straddled` and `unannounced` mark these
  off in `StaleIsKnown`.
* The preview of a file whose upload died before it was queued comes only with
  `rederive`; no property says otherwise.
* Two administrators who deactivate each other at the same moment leave nobody, as
  does a profile form that was read before its account was reactivated, and as does
  Django's admin, which asks nothing before it demotes, deactivates or deletes the
  last one. Two arrivals at the setup page make two administrators.
* An answer saved from a row that was read before the conversion takes the link to
  the job item away, and the next conversion makes a second item; so do two
  conversions at once. A result can be answered after the inspection was signed off,
  and a check that was removed comes back when an answer to it is saved.

## Proofs

The theorems hold for any sets of jobs, workers, lots, parts, requests, tabs and
writes, under the named assumptions on constants. Where a theorem needs more, its
statement says so, and there are three such hypotheses: one worker process (the
topology of `docker-compose.yml`), one request (or clerk) at a time, and no edit
form among the screens. Each stands where the code gives the promise only then,
and what goes wrong without it is among the observations above.

Every safety invariant and action property of a passing run is stated by a
theorem; the run shows it on a small instance, the theorem for all of them.

`SumTheorems` is what the others need to know of a finite sum: that it is an
integer, does not depend on the order it is taken in, changes with its terms,
splits with its set, and is bounded by them. `SumFunctionOnSet` is a fold, so
these are inductions over finite sets. The library's induction theorem takes an
operator and cannot be instantiated; the argument is made instead on a smallest
set for which a statement fails, from the well-foundedness of inclusion.

`JobQueueProofs`, about `JobQueue` and `JobScheduler`:

* `TypeCorrect`, and from it `AttemptBudgetHolds`: each save writes a state and
  the attempts that justify it together, so the budget holds however late a save
  lands. The strengthening is on memory: a worker's instances hold at most
  `MaxAttempts - 1` before they are charged.
* `DoneMeansFinishedHolds`: a worker in the success branch holds a job whose
  handler has returned.
* With one worker (`ASSUME` that any two workers are the same): `StartsBoundedHolds`
  and `LifecycleImplemented`, from `OneWorkerInv`, which says that the worker's
  memory and the table agree (`Lockstep`) and that the table has charged every
  entry of a handler but the running one (`TriesCharged`). Neither half is
  inductive alone: the charge of a reclaimed row comes from an instance, and
  what the instance holds from what the table held.
* `SchedulerTypes`, and with one worker `OneWorkerBoundsPileUp`, from `PileInv`.
  The rows in flight are not what is counted: a row that an operator gave up on
  comes back with the late save of the worker that holds it. `Alive` counts the
  rows that are in flight or in some worker's memory, and with the ticks and the
  presses that are about to insert they are at most one and the presses so far.
  A tick that finds nothing in flight is between two drains, so its worker holds
  nothing (`AtRest`) and `Alive` is empty; with a second worker it need not be.

`InventoryProofs`, about the shelf (`StockLedger`) and the order (`Receiving`):

* `TypeCorrect`, from `ShelfInv`: a lot that exists is of a part, and a request in
  the middle of something is about a lot that exists.
* `ProjectionHolds`, for any number of requests at once, without the edit form.
  The lemma behind it (`Posted`) is that one transaction moves quantity and ledger
  by the same delta; `Books` adds that a lot that does not exist yet has neither.
* With one request at a time: `SerialNonNegative`, `SerialDrawnIsKept` and
  `SerialProjection` (edit form included), from `Calm`, whose part `ReadsHold`
  says that what the request read is still so.
* `WithinOrderHolds`, for any number of requests at once and any quantities: a request
  saves the line as it read it, the quantity ordered with the quantity received,
  however old the read is, and what it decided to move fits between the two
  (`WithinLine`). The bound
  survives a correction beside a receipt, and the race that makes line and shelf
  disagree.

`ReceivingProofs`, about the order with the shelf beside it:

* `ReceivingTypes`, for any number of requests: a refill writes a lot that exists
  (`RefillStands`), even one that moved meanwhile.
* With one request at a time: `SerialLineMatchesShelf`, `ReceivingProjection`,
  `ReceivingNonNegative`, `ReceivingDrawnIsKept`, `SerialRefillsNoHistory`, from
  `Serial`. It ties four accounts together: what the line says, what its lots
  brought in (`Agree`, a sum over lots), what the request in flight has still to
  write (`AtHand`), and the shelf. `SerialStatusFollowsLines` is the action
  property of the order's status and date, from the same: whatever was filed by hand
  before, whoever derives the status derives it from the lines as they are.
* `NothingFromNowhereHolds`, for any number of requests, kits inside kits included,
  from `KitInv` and `OutBounded`. The property is a sum over all lots of one
  opening and part; what is inductive says of each such lot that the boxes that
  filled it filled a lot of every other loose part as well (`Together`), and the
  same of what a request has read before it puts a box together, because
  `close_kit()` reads outside its transaction (`ReadSo`).
* `UsedCameInHolds`, for any number of requests without the edit form, from
  `Fair`: what was used of an uncounted lot, and that with what it still holds, are
  both covered by what came in. The first alone is not inductive, since a draw is bounded by what
  the lot holds; the second says too little of a lot that is below nothing.

`RecordsProofs`, about `Trash`, `DiagnosticCodes`, `Inspections`, `PartsReadiness`:

* `TrashTypes`; with one clerk `RestoreBringsItsOwn` (`LinesRejoin`) and
  `RetentionKept` (`WindowIsKept`), from `TrashInv`: no stamp lies in the future
  (`SoFar`), a request between its two statements knows where the order stands
  (`Knows`), and every line in the trash went with the order or is one that
  `removed` or `lost` remembers (`Accounted`). Requests that are cut off between
  statements are in it.
* `DiagTypeCorrect`; `RereadReplacesHolds` and `VouchedStaysHolds`, for any
  sessions, reports, days and readings. The strengthening
  (`Replaced`) speaks of every scan that was ever confirmed, in the trash or not:
  the one it re-read is in the trash or was taken back out.
* `InspectionTypes`; `FindingConvertedOnce`, for any number of requests: a result
  that was not saved over knows its item (`KnowsItsItem`), and a conversion lists
  only results without one (`ReadBefore`).
* `ReadinessTypes`; `PromisedOnce` and `ShortageShown`, for any number of work
  orders and claims. These are statements about sums in one state: the argument
  takes the last job in the line of those that were told the parts are here, and
  adds what is set aside for everybody before it.

`OfflineSyncProofs`:

* `OffTypeCorrect`; `NothingLostHolds`: from `TrueAnswers` (whoever holds an "ok"
  holds the truth), `RowsExist` and `ClearedLast` (STORE is deleted from after
  CONFLICTS was written, CONFLICTS after the write was let go).
* `NoteLandsOnceHolds`: from `OneRowPerName`, which counts a note's rows exactly,
  and `InItsBranch`, which keeps the readings' two-statement insert away from it.
* `KeepMineMovesOnHolds`: from `SoundAnswers`, followed from the worker to the tab,
  and `SoundConflicts`, which takes it over: a refusal that named a revision named a
  later one than the write went out with. The property is about the step that keeps
  such a change (`RetryMovesOn`).

`WorkOrderProofs`:

* `UpkeepTypeCorrect` and `AnchorIsRecordedHolds`, from `UpkeepInv`. What the
  tables hold is not inductive, because the refresh writes back what it read:
  `CopyIsKept` says that a baseline it holds is in the history too, or, of the row the
  add form has not completed yet, is the one that row has.
* `ServicesNeverRewindHolds`: every step keeps the rows in the sense of
  `RowsKept`. For that an item that was never added must have no baseline and no
  job (`NewIsBlank`), so that adding it replaces none.
* `OneCompletionPerJobHolds` and `ClosedOutHolds`, the latter with `Started`: an
  order is completed from `in_progress` only.

`UpkeepProofs`, about `ConfigGeneration`, `Accounts`, `Reminders`, `LubeLoggerSync`:

* `ConfigTypeCorrect`; `StaleIsKnownHolds`, from the invariant that what a process does not
  run it knows of, or somebody who is still saving will tell it: the saver is the
  witness, handed on from the put of a setting to the put of the generation.
* `AccountTypeCorrect`; `SomebodyManagesHolds`, for any number of requests at once:
  a change that takes somebody away and is past its check has another account that
  can administer (`Spared`), and keeps it as long as no second such change passes.
  Two that meet set `overtaken`: the check and the save are separate statements
  without a lock, so then the code promises nothing, and neither does the theorem.
  Nor does it when Django's admin takes the last administrator away; of its other
  edits it does.
* `RemTypeCorrect`; `ToldOnceHolds`, from the invariant that the record of an
  alert is never older than its last delivery, except while that delivery waits to
  be recorded, or the worker died with it, or its send raised.
* `LubeTypeCorrect`; `SentOnceHolds`, from an account of each reading: until it is
  marked, every time it was sent and could be noted has a sync that still holds it;
  once it is, only the syncs that listed it before can send it again, each once.
* `NothingFallsBehindHolds`, an action property, from `WindowInv`. Of each sync it
  says what would be spared if it moved the marker now (`Spares`): a record before
  the new window comes with the sync, or was before the window already. A sync
  begun yesterday can set the marker back behind one begun today, so it must also
  be known that no record re-enters the window then (`Reached`). That takes
  `Overlap < FirstRun`, an assumption of the module; they are 14 and 90 days in
  the code, and with equal ones TLC finds a record that is lost.

### What the attempts corrected

Three properties held in their runs and were false; each is now stated as the code
keeps it.

* `BoundedPileUp` counted rows in flight against the enqueuers at work. With one
  worker, three rows and two presses, an operator gives up on rows a worker holds,
  presses again, and the late saves bring the old rows back. The run holds two
  rows and one press (more does not finish), and the bound is now the one of the
  theorem. It is one worker's: of two, both may find nothing in flight.
* `NothingFromNowhere` and `UsedCameIn` overlooked boxes inside boxes, where one
  reason counts a lot's coming in and its being opened, and a box closed twice. The
  run's ledgers are too short for either.
* `NothingFallsBehind` forbade that a record leave the window without being copied
  in that step. A note is copied and not linked, so it leaves the window later; the
  property is about records that were never copied. The run holds a service.

### Only model-checked

* Liveness under fairness: `EveryJobSettles`, `ScheduleGoesOn`,
  `EveryCaptureSettles`, `StatusCatchesUp`, `EveryFileIsRead`, `EveryAlertIsHeard`.
  It needs `ENABLED`, which is out of the prover's reach.
* `MediaPipeline`, whose only property is liveness, and the runs that end in a
  counterexample.


## Not modelled

* Order importers (`purchasing/importers/`): text parsing, apart from the re-import,
  which saves the order's fields before it finds a received line and reports that
  nothing changed; it would be a further screen of `Receiving`.
* The page cache (`static/sw.js`): the steps are the browser's, and the code only
  names when a cached page is dropped.
* Backup and restore, parsing of scans, VINs, plates and fluid reports, costs,
  reports, search, labels, CSV: file formats and read-only sums with no state
  between two calls. `prune_backups` and `split_kit_cost` are pure functions that
  unit tests reach.
* A kit's definition edited while one is open; cores; time entries, tools and
  sub-orders of a work order; the helpers' per-vehicle policy; inspection templates.
* The REST API other than the batch: plain reads and the writes of the screens.
* Django's admin, except where it takes part in what is modelled: the trash
  (`Trash`), a job item's restore (`OfflineSync`), accounts (`Accounts`). It edits
  rows of every kind without the screens' checks.

What is left to do: the re-import as a further screen of `Receiving`; a refinement
of an abstract shelf (parts that come in and go out) by `StockLedger`, for which
`ProjectionHolds` is the step that matters; the safety of `MediaPipeline`, whose
runs ask for liveness only.
