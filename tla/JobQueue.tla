------------------------------ MODULE JobQueue ------------------------------
(***************************************************************************)
(* The Postgres-backed job queue of homeautoshop/core/jobs.py: the Job     *)
(* table, the worker processes that drain it, and what a worker's death    *)
(* leaves behind.                                                          *)
(*                                                                         *)
(* There is no enclosing transaction anywhere in jobs.py, so every ORM     *)
(* statement is a step of its own.  `job.save()` is a full-row UPDATE by   *)
(* primary key from the in-memory instance: whatever that instance held is *)
(* what the row becomes.  `seen[w][j]` is the only field of the instance   *)
(* that a save carries over from an earlier read (the others are assigned  *)
(* just before it), so it is the only one kept.                            *)
(*                                                                         *)
(* Time is two facts about a row rather than a clock: `due` (run_after has *)
(* passed) and `stale` (locked_at is older than JOB_STALE_AFTER_MINUTES).  *)
(***************************************************************************)
EXTENDS Integers, FiniteSets

CONSTANTS
  Jobs,          \* identities of rows of the Job table
  Workers,       \* run_worker processes
  NoJob,         \* "no row": what a worker that holds nothing is running
  MaxAttempts,   \* Job.max_attempts
  DrainLimit,    \* drain(limit=100)
  Poison,        \* jobs whose handler kills the process that runs it
  Unhandled,     \* jobs whose type has no entry in HANDLERS
  Timely,        \* TRUE: no lock goes stale while its worker is alive
  MaxCrashes     \* bound on the deaths a handler did not cause

ASSUME JobQueueAssumption ==
  /\ NoJob \notin Jobs
  /\ MaxAttempts \in Nat \ {0}
  /\ DrainLimit \in Nat \ {0}
  /\ Poison \subseteq Jobs
  /\ Unhandled \subseteq Jobs
  /\ Timely \in BOOLEAN
  /\ MaxCrashes \in Nat

VARIABLES
  state,     \* Job.state, or "absent" for a row not yet inserted
  attempts,  \* Job.attempts
  due,       \* run_after <= now
  stale,     \* locked_at < now - JOB_STALE_AFTER_MINUTES (read on RUNNING rows)
  pc,        \* where each worker is in drain()
  todo,      \* the rows of the worker's last SELECT it has yet to visit
  seen,      \* attempts in the worker's in-memory instance of a row
  batch,     \* the worker's `claimed` list, less the jobs it has run
  current,   \* the row the worker is refreshing or running
  starts,    \* how many times the handler of a job was entered
  finishes,  \* how many times it returned
  crashes    \* deaths so far that no handler caused

rows   == <<state, attempts, due, stale>>
memory == <<todo, seen, batch, current>>
vars   == <<rows, pc, memory, starts, finishes, crashes>>

JobState == {"absent", "pending", "running", "done", "failed"}
Phase == {"idle", "reclaim", "claim", "refresh", "next", "running",
          "returned", "raised", "down"}

TypeOK ==
  /\ state \in [Jobs -> JobState]
  /\ attempts \in [Jobs -> Nat]
  /\ due \in [Jobs -> BOOLEAN]
  /\ stale \in [Jobs -> BOOLEAN]
  /\ pc \in [Workers -> Phase]
  /\ todo \in [Workers -> SUBSET Jobs]
  /\ seen \in [Workers -> [Jobs -> Nat]]
  /\ batch \in [Workers -> SUBSET Jobs]
  /\ current \in [Workers -> Jobs \cup {NoJob}]
  /\ starts \in [Jobs -> Nat]
  /\ finishes \in [Jobs -> Nat]
  /\ crashes \in 0..MaxCrashes

Init ==
  /\ state = [j \in Jobs |-> "absent"]
  /\ attempts = [j \in Jobs |-> 0]
  /\ due = [j \in Jobs |-> FALSE]
  /\ stale = [j \in Jobs |-> FALSE]
  /\ pc = [w \in Workers |-> "idle"]
  /\ todo = [w \in Workers |-> {}]
  /\ seen = [w \in Workers |-> [j \in Jobs |-> 0]]
  /\ batch = [w \in Workers |-> {}]
  /\ current = [w \in Workers |-> NoJob]
  /\ starts = [j \in Jobs |-> 0]
  /\ finishes = [j \in Jobs |-> 0]
  /\ crashes = 0

-----------------------------------------------------------------------------
(* Rows and locks, as the processes see them.                              *)

InFlight(j) == state[j] \in {"pending", "running"}

\* Slip: nothing reclaims, and `locked_at` is read by nothing.
MutNothingStalled == {}

\* The rows reclaim() selects: RUNNING under a lock past the cutoff.
Stalled == {j \in Jobs : state[j] = "running" /\ stale[j]}

\* The rows claim() may select: PENDING with run_after <= now.
Ready == {j \in Jobs : state[j] = "pending" /\ due[j]}

\* A living worker claimed this job and has not yet saved an outcome.
Holds(w, j) == j \in batch[w] \/ j = current[w]
Held(j) == \E w \in Workers : Holds(w, j)

\* Slip: one try too many.
MutExhausted(n) == n > MaxAttempts

\* The test both save paths make before they put a job back.
Exhausted(n) == n >= MaxAttempts

\* job.save() of an instance whose attempts are n.  A lock is only ever read
\* on a RUNNING row and claim() stamps a new one, so it is forgotten here.
Save(j, st, n, isDue) ==
  /\ state' = [state EXCEPT ![j] = st]
  /\ attempts' = [attempts EXCEPT ![j] = n]
  /\ due' = [due EXCEPT ![j] = isDue]
  /\ stale' = [stale EXCEPT ![j] = FALSE]

\* Slip: a retry that never gives up.
MutSaveForever(j, n) == Save(j, "pending", n, FALSE)

\* What a try that did not succeed becomes: the dead-letter state when the
\* attempts are used up, otherwise PENDING again behind a backoff.
SaveUnfinished(j, n) ==
  Save(j, IF Exhausted(n) THEN "failed" ELSE "pending", n, FALSE)

-----------------------------------------------------------------------------
(* The world around the workers.                                           *)

\* Job.objects.create(...), from any process.
Enqueue(j) ==
  /\ state[j] = "absent"
  /\ Save(j, "pending", 0, TRUE)
  /\ UNCHANGED <<pc, memory, starts, finishes, crashes>>

\* run_after = now + backoff() passes.
BackoffElapses(j) ==
  /\ state[j] = "pending"
  /\ ~due[j]
  /\ due' = [due EXCEPT ![j] = TRUE]
  /\ UNCHANGED <<state, attempts, stale, pc, memory, starts, finishes, crashes>>

\* JOB_STALE_AFTER_MINUTES pass since locked_at.  The lock of a whole batch is
\* stamped once, when it is claimed, and nothing renews it.
LockAges(j) ==
  /\ state[j] = "running"
  /\ ~stale[j]
  /\ Timely => ~Held(j)
  /\ stale' = [stale EXCEPT ![j] = TRUE]
  /\ UNCHANGED <<state, attempts, due, pc, memory, starts, finishes, crashes>>

-----------------------------------------------------------------------------
(* drain(): reclaim(), then claim(limit), then run_one() on each claim.    *)

\* reclaim(): one SELECT reads every stalled row into memory.
SelectStalled(w) ==
  /\ pc[w] = "idle"
  /\ pc' = [pc EXCEPT ![w] = "reclaim"]
  /\ todo' = [todo EXCEPT ![w] = Stalled]
  /\ seen' = [seen EXCEPT ![w] = [j \in Jobs |-> IF j \in Stalled
                                                 THEN attempts[j]
                                                 ELSE seen[w][j]]]
  /\ UNCHANGED <<rows, batch, current, starts, finishes, crashes>>

\* Slip: the death is not charged as an attempt.
MutReclaimUncharged(w, j) ==
  /\ pc[w] = "reclaim"
  /\ j \in todo[w]
  /\ todo' = [todo EXCEPT ![w] = @ \ {j}]
  /\ SaveUnfinished(j, seen[w][j])
  /\ UNCHANGED <<pc, seen, batch, current, starts, finishes, crashes>>

\* reclaim(): the death is charged as an attempt and the row saved, whatever
\* has happened to it since the SELECT.
ReclaimRow(w, j) ==
  /\ pc[w] = "reclaim"
  /\ j \in todo[w]
  /\ todo' = [todo EXCEPT ![w] = @ \ {j}]
  /\ SaveUnfinished(j, seen[w][j] + 1)
  /\ UNCHANGED <<pc, seen, batch, current, starts, finishes, crashes>>

\* claim(): one SELECT of at most DrainLimit ready rows.
SelectReady(w) ==
  /\ pc[w] = "reclaim"
  /\ todo[w] = {}
  /\ \E S \in SUBSET Ready :
       /\ Cardinality(S) <= DrainLimit
       /\ Cardinality(S) < DrainLimit => S = Ready
       /\ todo' = [todo EXCEPT ![w] = S]
  /\ pc' = [pc EXCEPT ![w] = "claim"]
  /\ UNCHANGED <<rows, seen, batch, current, starts, finishes, crashes>>

\* claim(): UPDATE ... WHERE pk AND state = PENDING.  It matches or it does not.
ClaimRow(w, j) ==
  /\ pc[w] = "claim"
  /\ j \in todo[w]
  /\ todo' = [todo EXCEPT ![w] = @ \ {j}]
  /\ \/ /\ state[j] = "pending"
        /\ state' = [state EXCEPT ![j] = "running"]
        /\ stale' = [stale EXCEPT ![j] = FALSE]
        /\ current' = [current EXCEPT ![w] = j]
        /\ pc' = [pc EXCEPT ![w] = "refresh"]
     \/ /\ state[j] # "pending"
        /\ UNCHANGED <<state, stale, current, pc>>
  /\ UNCHANGED <<attempts, due, seen, batch, starts, finishes, crashes>>

\* claim(): refresh_from_db() after the update matched, then append.
RefreshRow(w) ==
  /\ pc[w] = "refresh"
  /\ seen' = [seen EXCEPT ![w][current[w]] = attempts[current[w]]]
  /\ batch' = [batch EXCEPT ![w] = @ \cup {current[w]}]
  /\ current' = [current EXCEPT ![w] = NoJob]
  /\ pc' = [pc EXCEPT ![w] = "claim"]
  /\ UNCHANGED <<rows, todo, starts, finishes, crashes>>

\* claim() returns its list.
ClaimReturns(w) ==
  /\ pc[w] = "claim"
  /\ todo[w] = {}
  /\ pc' = [pc EXCEPT ![w] = "next"]
  /\ UNCHANGED <<rows, memory, starts, finishes, crashes>>

\* run_one(): attempts += 1 in memory, and the handler is entered.
StartJob(w, j) ==
  /\ pc[w] = "next"
  /\ j \in batch[w] \ Unhandled
  /\ batch' = [batch EXCEPT ![w] = @ \ {j}]
  /\ current' = [current EXCEPT ![w] = j]
  /\ seen' = [seen EXCEPT ![w][j] = @ + 1]
  /\ starts' = [starts EXCEPT ![j] = @ + 1]
  /\ pc' = [pc EXCEPT ![w] = "running"]
  /\ UNCHANGED <<rows, todo, finishes, crashes>>

\* run_one(): no handler for the type, so it fails at once.
RejectJob(w, j) ==
  /\ pc[w] = "next"
  /\ j \in batch[w] \cap Unhandled
  /\ batch' = [batch EXCEPT ![w] = @ \ {j}]
  /\ seen' = [seen EXCEPT ![w][j] = @ + 1]
  /\ Save(j, "failed", seen[w][j] + 1, FALSE)
  /\ UNCHANGED <<pc, todo, current, starts, finishes, crashes>>

\* The handler's work is done; the row does not know it yet.
HandlerReturns(w) ==
  /\ pc[w] = "running"
  /\ current[w] \notin Poison
  /\ finishes' = [finishes EXCEPT ![current[w]] = @ + 1]
  /\ pc' = [pc EXCEPT ![w] = "returned"]
  /\ UNCHANGED <<rows, memory, starts, crashes>>

HandlerRaises(w) ==
  /\ pc[w] = "running"
  /\ current[w] \notin Poison
  /\ pc' = [pc EXCEPT ![w] = "raised"]
  /\ UNCHANGED <<rows, memory, starts, finishes, crashes>>

\* Slip: the success branch is reached whether or not the handler raised.
MutSaveDoneAnyway(w) ==
  /\ pc[w] \in {"returned", "raised"}
  /\ Save(current[w], "done", seen[w][current[w]], FALSE)
  /\ current' = [current EXCEPT ![w] = NoJob]
  /\ pc' = [pc EXCEPT ![w] = "next"]
  /\ UNCHANGED <<todo, seen, batch, starts, finishes, crashes>>

\* run_one(): the save that ends it, on either branch.
SaveOutcome(w) ==
  LET j == current[w]
      n == seen[w][j]
  IN  /\ \/ pc[w] = "returned" /\ Save(j, "done", n, FALSE)
         \/ pc[w] = "raised" /\ SaveUnfinished(j, n)
      /\ current' = [current EXCEPT ![w] = NoJob]
      /\ pc' = [pc EXCEPT ![w] = "next"]
      /\ UNCHANGED <<todo, seen, batch, starts, finishes, crashes>>

\* drain() has run its whole batch.
DrainReturns(w) ==
  /\ pc[w] = "next"
  /\ batch[w] = {}
  /\ pc' = [pc EXCEPT ![w] = "idle"]
  /\ UNCHANGED <<rows, memory, starts, finishes, crashes>>

-----------------------------------------------------------------------------
(* A process dies with all it held in memory; compose restarts it.         *)

LoseMemory(w) ==
  /\ pc' = [pc EXCEPT ![w] = "down"]
  /\ todo' = [todo EXCEPT ![w] = {}]
  /\ seen' = [seen EXCEPT ![w] = [j \in Jobs |-> 0]]
  /\ batch' = [batch EXCEPT ![w] = {}]
  /\ current' = [current EXCEPT ![w] = NoJob]

\* A redeploy, an OOM elsewhere, the host going down.
Crash(w) ==
  /\ pc[w] # "down"
  /\ crashes < MaxCrashes
  /\ crashes' = crashes + 1
  /\ LoseMemory(w)
  /\ UNCHANGED <<rows, starts, finishes>>

\* The handler takes the process with it, every time it is entered.
HandlerKills(w) ==
  /\ pc[w] = "running"
  /\ current[w] \in Poison
  /\ LoseMemory(w)
  /\ UNCHANGED <<rows, starts, finishes, crashes>>

Restart(w) ==
  /\ pc[w] = "down"
  /\ pc' = [pc EXCEPT ![w] = "idle"]
  /\ UNCHANGED <<rows, memory, starts, finishes, crashes>>

-----------------------------------------------------------------------------

\* What a live worker does on its own; it has an action enabled in each phase.
WorkerStep(w) ==
  \/ SelectStalled(w)
  \/ \E j \in Jobs : ReclaimRow(w, j)
  \/ SelectReady(w)
  \/ \E j \in Jobs : ClaimRow(w, j)
  \/ RefreshRow(w)
  \/ ClaimReturns(w)
  \/ \E j \in Jobs : StartJob(w, j)
  \/ \E j \in Jobs : RejectJob(w, j)
  \/ HandlerReturns(w)
  \/ HandlerRaises(w)
  \/ SaveOutcome(w)
  \/ DrainReturns(w)
  \/ HandlerKills(w)

Next ==
  \/ \E j \in Jobs : Enqueue(j) \/ BackoffElapses(j) \/ LockAges(j)
  \/ \E w \in Workers : WorkerStep(w) \/ Crash(w) \/ Restart(w)

Spec == Init /\ [][Next]_vars

\* A live process keeps executing, compose restarts a dead one, time passes.
Fairness ==
  /\ \A w \in Workers : WF_vars(WorkerStep(w)) /\ WF_vars(Restart(w))
  /\ \A j \in Jobs : WF_vars(BackoffElapses(j)) /\ WF_vars(LockAges(j))

FairSpec == Spec /\ Fairness

-----------------------------------------------------------------------------
(* Safety.                                                                 *)

\* The attempt budget: a row still in flight has a try left, and a row in the
\* dead-letter state has none (or never had a handler to try).  It holds for
\* any number of workers however late their full-row saves land, because each
\* save carries a state and the attempts that justify it together.
AttemptBudget ==
  \A j \in Jobs :
    /\ InFlight(j) => attempts[j] < MaxAttempts
    /\ state[j] = "failed" => Exhausted(attempts[j]) \/ j \in Unhandled

\* A row says DONE only if the handler has returned for it: a crash, a reclaim
\* or another worker's save never turns unfinished work into finished work.
DoneMeansFinished == \A j \in Jobs : state[j] = "done" => finishes[j] > 0

\* reclaim()'s reason for counting a death: a handler that kills its worker is
\* entered at most max_attempts times, crashes and restarts included.
StartsBounded == \A j \in Jobs : starts[j] <= MaxAttempts

\* The queue implements the promise it makes of a single job.
Lifecycle == INSTANCE JobLifecycle WITH phase <- state, tries <- starts
ImplementsLifecycle == Lifecycle!Spec

(* With one worker, its memory and the table agree.                        *)

\* What the worker has selected, claimed or started is RUNNING in the table,
\* and its instances carry the attempts the table carries (one more for the
\* job being run).  Neither handler entries nor memory outlive their claim.
Lockstep ==
  \A w \in Workers :
    /\ pc[w] \notin {"reclaim", "claim", "refresh"} => todo[w] = {}
    /\ pc[w] \in {"idle", "down", "reclaim"} => batch[w] = {}
    /\ pc[w] = "reclaim" =>
         \A j \in todo[w] : state[j] = "running" /\ seen[w][j] = attempts[j]
    /\ \A j \in batch[w] : /\ state[j] = "running"
                           /\ seen[w][j] = attempts[j]
                           /\ starts[j] <= attempts[j]
    /\ pc[w] = "refresh" => /\ state[current[w]] = "running"
                            /\ current[w] \notin batch[w]
                            /\ starts[current[w]] <= attempts[current[w]]
    /\ pc[w] \in {"running", "returned", "raised"} =>
         /\ state[current[w]] = "running"
         /\ current[w] \notin batch[w]
         /\ seen[w][current[w]] = attempts[current[w]] + 1
         /\ starts[current[w]] > 0

\* The table accounts for every entry of a handler: a row at rest has been
\* charged for all of them, a RUNNING row for all but the latest.
TriesCharged ==
  \A j \in Jobs :
    /\ attempts[j] <= MaxAttempts
    /\ state[j] = "absent" => starts[j] = 0
    /\ starts[j] <= attempts[j] + (IF state[j] = "running" THEN 1 ELSE 0)

\* Inductive where there is one worker process: the two facts above.
OneWorkerInv == Lockstep /\ TriesCharged

(* Liveness.                                                               *)

\* Every job put on the queue ends done or failed: an orphan does not stay
\* RUNNING, and a handler that always kills its worker does not spin for ever.
EveryJobSettles ==
  \A j \in Jobs : state[j] = "pending" ~> state[j] \in {"done", "failed"}
=============================================================================
