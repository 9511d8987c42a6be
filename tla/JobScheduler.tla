----------------------------- MODULE JobScheduler -----------------------------
(***************************************************************************)
(* Who puts recurring work on the job queue, and who takes it off: the     *)
(* worker loop of run_worker.py with schedule.tick(), and the backups      *)
(* screen (backup_now, backup_stop of core/views_settings.py) running in   *)
(* the web processes.  The queue itself is JobQueue.                       *)
(*                                                                         *)
(* Rows are never deleted, but a settled row is read by nothing that is    *)
(* modelled here, so its identity is used again for the next row created   *)
(* (Create): the finite set Jobs then bounds the rows alive at one time.   *)
(***************************************************************************)
EXTENDS JobQueue

CONSTANTS
  Types,      \* job types
  Recurring,  \* the types of schedule.recurring()
  Manual,     \* the types backup_now and backup_stop act on
  TypeOf,     \* the type of each row
  Requests,   \* web processes serving the backups screen
  MaxPresses, \* bound on the backups enqueued by hand
  NoType      \* "no type": what a tick that is between types is looking at

ASSUME JobSchedulerAssumption ==
  /\ Recurring \subseteq Types
  /\ Manual \subseteq Types
  /\ TypeOf \in [Jobs -> Types]
  /\ MaxPresses \in Nat
  /\ NoType \notin Types
  /\ IsFiniteSet(Jobs) /\ IsFiniteSet(Requests)

VARIABLES
  elapsed,   \* now - Setting "schedule.last.<type>" >= its interval (or unset)
  minute,    \* 60 s have passed since this worker's last tick
  tickPc,    \* where each worker is in tick()
  tickTodo,  \* the types of this tick's plan still to be looked at
  tickType,  \* the type being looked at
  reqPc,     \* where each operator is on the screen
  reqJob,    \* the row a request to give up has read
  presses    \* backups enqueued by hand so far

schedule  == <<elapsed, minute, tickPc, tickTodo, tickType>>
screen    == <<reqPc, reqJob, presses>>
schedVars == <<vars, schedule, screen>>

TickPhase == {"off", "plan", "exists", "create", "stamp", "drain"}

SchedTypeOK ==
  /\ TypeOK
  /\ elapsed \in [Recurring -> BOOLEAN]
  /\ minute \in [Workers -> BOOLEAN]
  /\ tickPc \in [Workers -> TickPhase]
  /\ tickTodo \in [Workers -> SUBSET Recurring]
  /\ tickType \in [Workers -> Recurring \cup {NoType}]
  /\ reqPc \in [Requests -> {"idle", "create", "offered", "stop"}]
  /\ reqJob \in [Requests -> Jobs \cup {NoJob}]
  /\ presses \in 0..MaxPresses

SchedInit ==
  /\ Init
  /\ elapsed = [t \in Recurring |-> TRUE]
  /\ minute = [w \in Workers |-> TRUE]
  /\ tickPc = [w \in Workers |-> "off"]
  /\ tickTodo = [w \in Workers |-> {}]
  /\ tickType = [w \in Workers |-> NoType]
  /\ reqPc = [r \in Requests |-> "idle"]
  /\ reqJob = [r \in Requests |-> NoJob]
  /\ presses = 0

-----------------------------------------------------------------------------
(* The guard every enqueuer uses, and the insert it guards.                *)

InFlightOf(t) == {j \in Jobs : TypeOf[j] = t /\ InFlight(j)}

\* A row no process holds in memory.
Unreferenced(j) ==
  /\ \A w \in Workers : j \notin todo[w] /\ ~Holds(w, j)
  /\ \A r \in Requests : reqJob[r] # j

\* Job.objects.create(type=t)
Create(t) ==
  \E j \in Jobs :
    /\ TypeOf[j] = t
    /\ ~InFlight(j)
    /\ Unreferenced(j)
    /\ Save(j, "pending", 0, TRUE)
    /\ starts' = [starts EXCEPT ![j] = 0]
    /\ finishes' = [finishes EXCEPT ![j] = 0]
    /\ UNCHANGED <<pc, memory, crashes>>

-----------------------------------------------------------------------------
(* tick(), once a minute at the head of the worker loop.                   *)

MinutePasses(w) ==
  /\ ~minute[w]
  /\ minute' = [minute EXCEPT ![w] = TRUE]
  /\ UNCHANGED <<vars, screen, elapsed, tickPc, tickTodo, tickType>>

IntervalElapses(t) ==
  /\ ~elapsed[t]
  /\ elapsed' = [elapsed EXCEPT ![t] = TRUE]
  /\ UNCHANGED <<vars, screen, minute, tickPc, tickTodo, tickType>>

TickStart(w) ==
  /\ pc[w] = "idle"
  /\ tickPc[w] = "off"
  /\ minute[w]
  /\ tickPc' = [tickPc EXCEPT ![w] = "plan"]
  /\ tickTodo' = [tickTodo EXCEPT ![w] = Recurring]
  /\ UNCHANGED <<vars, screen, elapsed, minute, tickType>>

\* The stamp of the next type is read; a type that is not due is skipped.
TickDue(w, t) ==
  /\ tickPc[w] = "plan"
  /\ t \in tickTodo[w]
  /\ tickTodo' = [tickTodo EXCEPT ![w] = @ \ {t}]
  /\ \/ /\ elapsed[t]
        /\ tickType' = [tickType EXCEPT ![w] = t]
        /\ tickPc' = [tickPc EXCEPT ![w] = "exists"]
     \/ ~elapsed[t] /\ UNCHANGED <<tickType, tickPc>>
  /\ UNCHANGED <<vars, screen, elapsed, minute>>

\* Slip: a job still waiting does not count as one.
MutTickPastPending(w) ==
  /\ tickPc[w] = "exists"
  /\ \/ /\ \A j \in InFlightOf(tickType[w]) : state[j] = "pending"
        /\ tickPc' = [tickPc EXCEPT ![w] = "create"]
        /\ UNCHANGED tickType
     \/ /\ \E j \in InFlightOf(tickType[w]) : state[j] = "running"
        /\ tickPc' = [tickPc EXCEPT ![w] = "plan"]
        /\ tickType' = [tickType EXCEPT ![w] = NoType]
  /\ UNCHANGED <<vars, screen, elapsed, minute, tickTodo>>

\* A pending or running job of the type means the last has not finished.
TickExists(w) ==
  /\ tickPc[w] = "exists"
  /\ \/ /\ InFlightOf(tickType[w]) = {}
        /\ tickPc' = [tickPc EXCEPT ![w] = "create"]
        /\ UNCHANGED tickType
     \/ /\ InFlightOf(tickType[w]) # {}
        /\ tickPc' = [tickPc EXCEPT ![w] = "plan"]
        /\ tickType' = [tickType EXCEPT ![w] = NoType]
  /\ UNCHANGED <<vars, screen, elapsed, minute, tickTodo>>

TickCreate(w) ==
  /\ tickPc[w] = "create"
  /\ Create(tickType[w])
  /\ tickPc' = [tickPc EXCEPT ![w] = "stamp"]
  /\ UNCHANGED <<elapsed, minute, tickTodo, tickType, reqPc, reqJob, presses>>

\* Setting.put("schedule.last.<type>", now)
TickStamp(w) ==
  /\ tickPc[w] = "stamp"
  /\ elapsed' = [elapsed EXCEPT ![tickType[w]] = FALSE]
  /\ tickPc' = [tickPc EXCEPT ![w] = "plan"]
  /\ tickType' = [tickType EXCEPT ![w] = NoType]
  /\ UNCHANGED <<vars, screen, minute, tickTodo>>

TickReturns(w) ==
  /\ tickPc[w] = "plan"
  /\ tickTodo[w] = {}
  /\ tickPc' = [tickPc EXCEPT ![w] = "drain"]
  /\ minute' = [minute EXCEPT ![w] = FALSE]
  /\ UNCHANGED <<vars, screen, elapsed, tickTodo, tickType>>

-----------------------------------------------------------------------------
(* The rest of the worker loop: drain() unless a tick is due or under way. *)
(* A process that dies forgets its tick, and ticks first when it is back.  *)
(* Exiting for changed configuration is a death at the loop head.          *)

ForgetTick(w) ==
  /\ tickPc' = [tickPc EXCEPT ![w] = "off"]
  /\ tickTodo' = [tickTodo EXCEPT ![w] = {}]
  /\ tickType' = [tickType EXCEPT ![w] = NoType]
  /\ minute' = [minute EXCEPT ![w] = TRUE]
  /\ UNCHANGED elapsed

\* drain() begins: the minute was not up, or this pass has ticked.
BeginDrain(w) ==
  /\ tickPc[w] = "drain" \/ (tickPc[w] = "off" /\ ~minute[w])
  /\ SelectStalled(w)
  /\ tickPc' = [tickPc EXCEPT ![w] = "off"]
  /\ UNCHANGED <<elapsed, minute, tickTodo, tickType, screen>>

DrainStep(w) ==
  /\ pc[w] # "idle"
  /\ WorkerStep(w)
  /\ IF pc'[w] = "down" THEN ForgetTick(w) ELSE UNCHANGED schedule
  /\ UNCHANGED screen

LoopCrash(w) == Crash(w) /\ ForgetTick(w) /\ UNCHANGED screen

LoopRestart(w) == Restart(w) /\ UNCHANGED <<schedule, screen>>

TickStep(w) ==
  \/ TickStart(w)
  \/ \E t \in Recurring : TickDue(w, t)
  \/ TickExists(w)
  \/ TickCreate(w)
  \/ TickStamp(w)
  \/ TickReturns(w)

-----------------------------------------------------------------------------
(* The backups screen.                                                     *)

\* backup_now: nothing of this kind is in flight.
BackupNowCheck(r) ==
  /\ reqPc[r] = "idle"
  /\ presses < MaxPresses
  /\ \E t \in Manual : InFlightOf(t) = {}
  /\ presses' = presses + 1
  /\ reqPc' = [reqPc EXCEPT ![r] = "create"]
  /\ UNCHANGED <<vars, schedule, reqJob>>

BackupNowCreate(r) ==
  /\ reqPc[r] = "create"
  /\ \E t \in Manual : Create(t)
  /\ reqPc' = [reqPc EXCEPT ![r] = "idle"]
  /\ UNCHANGED <<schedule, reqJob, presses>>

\* The page calls the row it shows stalled, by the rule reclaim() uses, and
\* offers to give up on it.
BackupsPage(r) ==
  /\ reqPc[r] = "idle"
  /\ \E j \in Stalled : TypeOf[j] \in Manual
  /\ reqPc' = [reqPc EXCEPT ![r] = "offered"]
  /\ UNCHANGED <<vars, schedule, reqJob, presses>>

\* backup_stop: whichever row is in flight when the button is pressed, or none.
BackupStopRead(r) ==
  /\ reqPc[r] = "offered"
  /\ \/ \E t \in Manual : \E j \in InFlightOf(t) :
          /\ reqPc' = [reqPc EXCEPT ![r] = "stop"]
          /\ reqJob' = [reqJob EXCEPT ![r] = j]
     \/ /\ \A t \in Manual : InFlightOf(t) = {}
        /\ reqPc' = [reqPc EXCEPT ![r] = "idle"]
        /\ UNCHANGED reqJob
  /\ UNCHANGED <<vars, schedule, presses>>

\* save(update_fields=[state, last_error, finished_at]): attempts are left.
BackupStopSave(r) ==
  LET j == reqJob[r]
  IN  /\ reqPc[r] = "stop"
      /\ Save(j, "failed", attempts[j], FALSE)
      /\ reqPc' = [reqPc EXCEPT ![r] = "idle"]
      /\ reqJob' = [reqJob EXCEPT ![r] = NoJob]
      /\ UNCHANGED <<pc, memory, starts, finishes, crashes, schedule, presses>>

BackupStop(r) == BackupsPage(r) \/ BackupStopRead(r) \/ BackupStopSave(r)

-----------------------------------------------------------------------------

Clock ==
  \/ \E j \in Jobs : (BackoffElapses(j) \/ LockAges(j)) /\ UNCHANGED <<schedule, screen>>
  \/ \E w \in Workers : MinutePasses(w)
  \/ \E t \in Recurring : IntervalElapses(t)

Loop(w) == BeginDrain(w) \/ DrainStep(w) \/ TickStep(w)

SchedNext ==
  \/ Clock
  \/ \E w \in Workers : Loop(w) \/ LoopCrash(w) \/ LoopRestart(w)
  \/ \E r \in Requests : BackupNowCheck(r) \/ BackupNowCreate(r) \/ BackupStop(r)

SchedSpec == SchedInit /\ [][SchedNext]_schedVars

\* A live process keeps executing, compose restarts a dead one, time passes.
SchedFairSpec ==
  /\ SchedSpec
  /\ \A w \in Workers : /\ WF_schedVars(Loop(w))
                        /\ WF_schedVars(LoopRestart(w))
                        /\ WF_schedVars(MinutePasses(w))
  /\ \A t \in Recurring : WF_schedVars(IntervalElapses(t))
  /\ \A j \in Jobs :
       /\ WF_schedVars(BackoffElapses(j) /\ UNCHANGED <<schedule, screen>>)
       /\ WF_schedVars(LockAges(j) /\ UNCHANGED <<schedule, screen>>)

-----------------------------------------------------------------------------

\* schedule.py: enqueuing is guarded, "so a worker restarted in a loop cannot pile
\* up a thousand backups".  Check and insert are two statements, and a row given
\* up on comes back with the late save of the worker that holds it, so the guard
\* is not a lock.  What it does give where one worker process runs: a type that
\* only tick() enqueues is never in flight twice, and a type of the backups
\* screen once more than was pressed, those about to insert included.
Enqueuers(t) ==
  {w \in Workers : tickPc[w] = "create" /\ tickType[w] = t}
    \cup {r \in Requests : reqPc[r] = "create" /\ t \in Manual}

BoundedPileUp ==
  \A t \in Recurring :
    Cardinality(InFlightOf(t)) + Cardinality(Enqueuers(t))
      <= 1 + (IF t \in Manual THEN presses ELSE 0)

\* No worker death, however often, no giving up and no late save ends a recurring
\* type for good: its interval having elapsed, a tick sooner or later finds nothing
\* in flight and stamps it.
ScheduleGoesOn == \A t \in Recurring : elapsed[t] ~> ~elapsed[t]
=============================================================================
