--------------------------- MODULE MediaPipeline ---------------------------
(***************************************************************************)
(* Files and what is made of them (homeautoshop/mediafiles/services.py,    *)
(* views.py; core/jobs.py): an upload is stored and two jobs are queued    *)
(* for it, a preview and a reading of its text.  Reading may be switched   *)
(* off; what was stored meanwhile stays `pending`, and an hourly sweep     *)
(* queues the backlog, so many at a time.                                  *)
(*                                                                         *)
(* Each request and the sweep are several statements, and processes die    *)
(* between them.  A job is its row in flight and its outcome: that a row   *)
(* in flight is run, and after so many deaths given up, is what JobQueue   *)
(* shows (EveryJobSettles).  Jobs are claimed by the batch, and the deaths *)
(* of the worker are charged to all of it: a job can be given up untried   *)
(* because of another.                                                     *)
(***************************************************************************)
EXTENDS Integers, FiniteSets

CONSTANTS
  Files,     \* Media ids, in the order they are created
  Wanted,    \* those whose kind or role asks for their text
  Pictures,  \* those whose mime type could have a preview
  Killers,   \* files on which the worker is killed, every time
  Mute,      \* files ocr() never comes to a status for: nothing is stored behind the
             \* row, or the text it read is refused by the database
  Cap,       \* how many of the backlog one sweep looks at (500)
  MaxFaults, \* bound on deaths that no file is to blame for
  MaxAsked   \* bound on what operators ask for: retries, switches, rederive

ASSUME MediaAssumption ==
  /\ Files \subseteq Nat
  /\ Wanted \subseteq Files /\ Pictures \subseteq Files
  /\ Killers \subseteq Files /\ Mute \subseteq Files
  /\ Cap \in Nat /\ MaxFaults \in Nat /\ MaxAsked \in Nat

VARIABLES
  ingest,   \* where the request that stores a file is
  text,     \* ocr_status
  thumb,    \* the files with a thumbnail
  drawing,  \* the files with a media.derive in flight
  reading,  \* how many media.ocr of a file are in flight
  on,       \* OCR_ENABLED
  sweep,    \* what the running sweep is going to queue, and whether it runs
  owed,     \* files a request marked pending and has not queued yet
  faults,   \* how many processes have died
  asked     \* how many times an operator has asked for something

mediaVars == <<ingest, text, thumb, drawing, reading, on, sweep, owed, faults, asked>>

Resting == [busy |-> FALSE, queue |-> {}]

\* A file is in one of its request's steps, through it, or was cut off.
Ingest == {"absent", "stored", "drawn", "in", "cut"}

MediaTypeOK ==
  /\ ingest \in [Files -> Ingest]
  /\ text \in [Files -> {"n/a", "pending", "done", "failed"}]
  /\ thumb \subseteq Files /\ drawing \subseteq Files
  /\ reading \in [Files -> 0..3]
  /\ on \in BOOLEAN
  /\ sweep \in [busy : BOOLEAN, queue : SUBSET Files]
  /\ owed \subseteq Files
  /\ faults \in 0..MaxFaults
  /\ asked \in 0..MaxAsked

MediaInit ==
  /\ ingest = [m \in Files |-> "absent"]
  /\ text = [m \in Files |-> "n/a"]
  /\ thumb = {} /\ drawing = {}
  /\ reading = [m \in Files |-> 0]
  /\ on = TRUE
  /\ sweep = Resting
  /\ owed = {}
  /\ faults = 0
  /\ asked = 0

Stored(m) == ingest[m] # "absent"
With(status) == {m \in Files : text[m] = status}
Queue(S) == [m \in Files |-> IF m \in S THEN reading[m] + 1 ELSE reading[m]]

-----------------------------------------------------------------------------
(* ingest(): the row, then the preview's job, then the reading's.          *)

Store(m) ==
  /\ ~Stored(m) /\ \A q \in Files : q < m => Stored(q)
  /\ ingest' = [ingest EXCEPT ![m] = "stored"]
  /\ text' = [text EXCEPT ![m] = IF m \in Wanted THEN "pending" ELSE @]
  /\ UNCHANGED <<thumb, drawing, reading, on, sweep, owed, faults, asked>>

QueueDerive(m) ==
  /\ ingest[m] = "stored"
  /\ ingest' = [ingest EXCEPT ![m] = "drawn"]
  /\ drawing' = drawing \cup {m}
  /\ UNCHANGED <<text, thumb, reading, on, sweep, owed, faults, asked>>

QueueOcr(m) ==
  /\ ingest[m] = "drawn"
  /\ ingest' = [ingest EXCEPT ![m] = "in"]
  /\ reading' = IF m \in Wanted /\ on THEN Queue({m}) ELSE reading
  /\ UNCHANGED <<text, thumb, drawing, on, sweep, owed, faults, asked>>

\* The request dies; what it had not queued it never queues.
IngestDies(m) ==
  /\ ingest[m] \in {"stored", "drawn"}
  /\ faults < MaxFaults
  /\ faults' = faults + 1
  /\ ingest' = [ingest EXCEPT ![m] = IF @ = "stored" THEN "cut" ELSE "in"]
  /\ UNCHANGED <<text, thumb, drawing, reading, on, sweep, owed, asked>>

-----------------------------------------------------------------------------
(* Marking files pending again: request_text() of one that was not to be   *)
(* read, the health screen's retry of all that failed.                     *)

Press == asked < MaxAsked /\ asked' = asked + 1

Mark(S) ==
  /\ owed = {} /\ S # {}
  /\ Press
  /\ text' = [m \in Files |-> IF m \in S THEN "pending" ELSE text[m]]
  /\ owed' = S
  /\ UNCHANGED <<ingest, thumb, drawing, reading, on, sweep, faults>>

RequestText == \E m \in With("n/a") : Stored(m) /\ Mark({m})
RetryFailed == Mark(With("failed"))

QueueMarked ==
  /\ owed # {}
  /\ owed' = {}
  /\ reading' = IF on THEN Queue(owed) ELSE reading
  /\ UNCHANGED <<ingest, text, thumb, drawing, on, sweep, faults, asked>>

MarkDies ==
  /\ owed # {} /\ faults < MaxFaults
  /\ owed' = {}
  /\ faults' = faults + 1
  /\ UNCHANGED <<ingest, text, thumb, drawing, reading, on, sweep, asked>>

\* The rederive command: files that could have a picture and have no thumbnail (with
\* --all, or have one), without a job for it.
Rederive ==
  \E all \in BOOLEAN :
    LET targets == {m \in Pictures : Stored(m) /\ (all \/ m \notin thumb)} \ drawing IN
      /\ targets # {}
      /\ Press
      /\ drawing' = drawing \cup targets
      /\ UNCHANGED <<ingest, text, thumb, reading, on, sweep, owed, faults>>

SwitchOcr ==
  /\ Press
  /\ on' = ~on
  /\ UNCHANGED <<ingest, text, thumb, drawing, reading, sweep, owed, faults>>

-----------------------------------------------------------------------------
(* media.ocr_sweep: reads the backlog and what is queued, then queues.     *)

Backlog == {m \in Files : Stored(m) /\ text[m] = "pending"}

\* Slip: the cap takes the newest that were ever stored.
MutNewest(S) == {m \in S : Cardinality({q \in Files : q > m}) < Cap}

\* The newest Cap of S; media are ordered by -created_at.
Newest(S) == {m \in S : Cardinality({q \in S : q > m}) < Cap}

InQueue == {m \in Files : reading[m] > 0}

SweepReads ==
  /\ on /\ ~sweep.busy
  /\ sweep' = [busy |-> TRUE, queue |-> Newest(Backlog) \ InQueue]
  /\ UNCHANGED <<ingest, text, thumb, drawing, reading, on, owed, faults, asked>>

SweepQueues ==
  /\ sweep.busy
  /\ reading' = Queue(sweep.queue)
  /\ sweep' = Resting
  /\ UNCHANGED <<ingest, text, thumb, drawing, on, owed, faults, asked>>

-----------------------------------------------------------------------------
(* The worker.                                                             *)

\* A file that kills the worker is in the queue.
Deadly == \E k \in Killers : reading[k] > 0 \/ k \in drawing

\* reclaim() gives a job up that was never run: it was in the batch of one that killed
\* the worker, or the worker was killed otherwise, too often.
GivenUpUntried ==
  \/ Deadly /\ UNCHANGED faults
  \/ faults < MaxFaults /\ faults' = faults + 1

\* derive() of m ends, with or without a thumbnail; the job of a file that kills the
\* worker, and of one that shared its batch, ends in nothing.
RunDerive(m) ==
  /\ m \in drawing
  /\ drawing' = drawing \ {m}
  /\ \/ m \notin Killers /\ thumb' = thumb \cup ({m} \cap Pictures) /\ UNCHANGED faults
     \/ UNCHANGED <<thumb, faults>>
     \/ GivenUpUntried /\ UNCHANGED thumb
  /\ UNCHANGED <<ingest, text, reading, on, sweep, owed, asked>>

\* What ocr() makes of a file.
Readings(m) ==
  IF ~on \/ m \in Killers \cup Mute THEN {text[m]} ELSE {"done", "failed"}

RunOcr(m) ==
  /\ reading[m] > 0
  /\ reading' = [reading EXCEPT ![m] = @ - 1]
  /\ \/ /\ \E t \in Readings(m) : text' = [text EXCEPT ![m] = t]
        /\ UNCHANGED faults
     \/ GivenUpUntried /\ UNCHANGED text
  /\ UNCHANGED <<ingest, thumb, drawing, on, sweep, owed, asked>>

MediaNext ==
  \/ \E m \in Files : \/ Store(m) \/ QueueDerive(m) \/ QueueOcr(m) \/ IngestDies(m)
                      \/ RunDerive(m) \/ RunOcr(m)
  \/ RequestText \/ RetryFailed \/ QueueMarked \/ MarkDies
  \/ Rederive \/ SwitchOcr
  \/ SweepReads \/ SweepQueues

\* The worker reads what is queued, and the sweep comes round.  No request needs to
\* go on.
MediaFairness ==
  /\ \A m \in Files : WF_mediaVars(RunOcr(m)) /\ WF_mediaVars(RunDerive(m))
  /\ WF_mediaVars(SweepReads) /\ WF_mediaVars(SweepQueues)

MediaSpec == MediaInit /\ [][MediaNext]_mediaVars /\ MediaFairness

-----------------------------------------------------------------------------
(* Properties.                                                             *)

\* Once no file that kills the worker comes back into the queue, what waits to be read
\* is read, or tried, as long as OCR stays on: whatever request died before it queued
\* the job, however often the job was given up with its neighbours, and though a sweep
\* looks at few files and some of those (fewer than the cap) wait for ever.
EveryFileIsRead ==
  \A m \in Files \ (Killers \cup Mute) :
    <>[]~Deadly => ((Stored(m) /\ text[m] = "pending") ~> (text[m] # "pending" \/ ~on))
=============================================================================
