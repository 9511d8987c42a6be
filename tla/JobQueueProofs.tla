--------------------------- MODULE JobQueueProofs ---------------------------
(***************************************************************************)
(* What holds of the job queue, and of the scheduler and the backups       *)
(* screen that fill it, for every set of jobs, every number of attempts    *)
(* and any history of crashes.                                             *)
(*                                                                         *)
(* Two results need nothing of the topology: the attempt budget, and that  *)
(* a done job finished.  The other two are about the topology that is      *)
(* shipped, one worker process: then the memory of the worker and the rows *)
(* it holds agree (Lockstep), which bounds the tries of every job and      *)
(* makes the queue an implementation of JobLifecycle.                      *)
(*                                                                         *)
(* The scheduler's guard is a look followed by an insert.  Its bound is    *)
(* argued by counting, for each type, the rows that are or may come back   *)
(* in flight (Alive), the ticks and the presses about to insert (PileInv). *)
(***************************************************************************)
EXTENDS JobScheduler, FiniteSetTheorems, TLAPS

USE JobQueueAssumption

-----------------------------------------------------------------------------
(* Type correctness.                                                       *)

LEMMA TypeInit == Init => TypeOK
BY DEF Init, TypeOK, JobState, Phase

LEMMA SaveType ==
  ASSUME TypeOK, NEW j \in Jobs, NEW st \in JobState, NEW n \in Nat,
         NEW d \in BOOLEAN, Save(j, st, n, d)
  PROVE  /\ state' \in [Jobs -> JobState]
         /\ attempts' \in [Jobs -> Nat]
         /\ due' \in [Jobs -> BOOLEAN]
         /\ stale' \in [Jobs -> BOOLEAN]
BY DEF TypeOK, Save

LEMMA SaveUnfinishedType ==
  ASSUME TypeOK, NEW j \in Jobs, NEW n \in Nat, SaveUnfinished(j, n)
  PROVE  /\ state' \in [Jobs -> JobState]
         /\ attempts' \in [Jobs -> Nat]
         /\ due' \in [Jobs -> BOOLEAN]
         /\ stale' \in [Jobs -> BOOLEAN]
<1>1. (IF Exhausted(n) THEN "failed" ELSE "pending") \in JobState
  BY DEF JobState
<1>2. QED
  BY <1>1, SaveType DEF SaveUnfinished

\* The row a worker refreshes or runs is a row.
CurrentIsJob ==
  \A w \in Workers :
    pc[w] \in {"refresh", "running", "returned", "raised"} => current[w] \in Jobs

TypeInv == TypeOK /\ CurrentIsJob

LEMMA TypeStep == TypeInv /\ [Next]_vars => TypeInv'
<1> SUFFICES ASSUME TypeInv, [Next]_vars PROVE TypeInv'
  OBVIOUS
<1> USE DEF TypeInv, TypeOK, CurrentIsJob, Phase, rows, memory
<1>1. ASSUME NEW j \in Jobs, Enqueue(j) PROVE TypeInv'
  BY <1>1, SaveType DEF Enqueue, JobState
<1>2. ASSUME NEW j \in Jobs, BackoffElapses(j) PROVE TypeInv'
  BY <1>2 DEF BackoffElapses
<1>3. ASSUME NEW j \in Jobs, LockAges(j) PROVE TypeInv'
  BY <1>3 DEF LockAges
<1>4. ASSUME NEW w \in Workers, SelectStalled(w) PROVE TypeInv'
  BY <1>4 DEF SelectStalled, Stalled
<1>5. ASSUME NEW w \in Workers, NEW j \in Jobs, ReclaimRow(w, j) PROVE TypeInv'
  BY <1>5, SaveUnfinishedType DEF ReclaimRow
<1>6. ASSUME NEW w \in Workers, SelectReady(w) PROVE TypeInv'
  BY <1>6 DEF SelectReady, Ready
<1>7. ASSUME NEW w \in Workers, NEW j \in Jobs, ClaimRow(w, j) PROVE TypeInv'
  <2>1. CASE state[j] = "pending"
    <3>1. /\ state' = [state EXCEPT ![j] = "running"]
          /\ stale' = [stale EXCEPT ![j] = FALSE]
          /\ current' = [current EXCEPT ![w] = j]
          /\ pc' = [pc EXCEPT ![w] = "refresh"]
          /\ todo' = [todo EXCEPT ![w] = @ \ {j}]
          /\ UNCHANGED <<attempts, due, seen, batch, starts, finishes, crashes>>
      BY <1>7, <2>1 DEF ClaimRow
    <3>2. TypeOK'
      BY <3>1 DEF JobState
    <3>3. CurrentIsJob'
      BY <3>1
    <3>4. QED
      BY <3>2, <3>3
  <2>2. CASE state[j] # "pending"
    BY <1>7, <2>2 DEF ClaimRow
  <2>3. QED
    BY <2>1, <2>2
<1>8. ASSUME NEW w \in Workers, RefreshRow(w) PROVE TypeInv'
  BY <1>8 DEF RefreshRow
<1>9. ASSUME NEW w \in Workers, ClaimReturns(w) PROVE TypeInv'
  BY <1>9 DEF ClaimReturns
<1>10. ASSUME NEW w \in Workers, NEW j \in Jobs, StartJob(w, j) PROVE TypeInv'
  <2>1. TypeOK'
    BY <1>10 DEF StartJob
  <2>2. CurrentIsJob'
    BY <1>10 DEF StartJob
  <2>3. QED
    BY <2>1, <2>2
<1>11. ASSUME NEW w \in Workers, NEW j \in Jobs, RejectJob(w, j) PROVE TypeInv'
  <2>1. seen[w][j] + 1 \in Nat
    OBVIOUS
  <2>2. /\ state' \in [Jobs -> JobState]
        /\ attempts' \in [Jobs -> Nat]
        /\ due' \in [Jobs -> BOOLEAN]
        /\ stale' \in [Jobs -> BOOLEAN]
    BY <1>11, <2>1 DEF RejectJob, Save, JobState
  <2>3. QED
    BY <1>11, <2>2 DEF RejectJob
<1>12. ASSUME NEW w \in Workers, HandlerReturns(w) PROVE TypeInv'
  BY <1>12 DEF HandlerReturns
<1>13. ASSUME NEW w \in Workers, HandlerRaises(w) PROVE TypeInv'
  BY <1>13 DEF HandlerRaises
<1>14. ASSUME NEW w \in Workers, SaveOutcome(w) PROVE TypeInv'
  <2>1. current[w] \in Jobs /\ seen[w][current[w]] \in Nat
    <3>1. pc[w] \in {"returned", "raised"}
      BY <1>14 DEF SaveOutcome
    <3>2. QED
      BY <3>1
  <2>2. /\ state' \in [Jobs -> JobState]
        /\ attempts' \in [Jobs -> Nat]
        /\ due' \in [Jobs -> BOOLEAN]
        /\ stale' \in [Jobs -> BOOLEAN]
    BY <1>14, <2>1, SaveType, SaveUnfinishedType DEF SaveOutcome, JobState
  <2>3. QED
    BY <1>14, <2>2 DEF SaveOutcome
<1>15. ASSUME NEW w \in Workers, DrainReturns(w) PROVE TypeInv'
  BY <1>15 DEF DrainReturns
<1>16. ASSUME NEW w \in Workers, HandlerKills(w) PROVE TypeInv'
  BY <1>16 DEF HandlerKills, LoseMemory
<1>17. ASSUME NEW w \in Workers, Crash(w) PROVE TypeInv'
  BY <1>17 DEF Crash, LoseMemory
<1>18. ASSUME NEW w \in Workers, Restart(w) PROVE TypeInv'
  BY <1>18 DEF Restart
<1>19. CASE UNCHANGED vars
  BY <1>19 DEF vars
<1>20. QED
  BY <1>1, <1>2, <1>3, <1>4, <1>5, <1>6, <1>7, <1>8, <1>9, <1>10, <1>11, <1>12,
     <1>13, <1>14, <1>15, <1>16, <1>17, <1>18, <1>19 DEF Next, WorkerStep

LEMMA TypeInvInvariant == Spec => []TypeInv
<1>1. Init => TypeInv
  BY TypeInit DEF TypeInv, CurrentIsJob, Init
<1>2. QED
  BY <1>1, TypeStep, PTL DEF Spec

\* Every variable of the queue keeps its type, whatever interleaves.
THEOREM TypeCorrect == Spec => []TypeOK
BY TypeInvInvariant, PTL DEF TypeInv

-----------------------------------------------------------------------------
(* Accounting: true of any number of workers, however late a save lands.   *)

\* A worker about to save DONE holds a job whose handler has returned.
ReturnedFinished ==
  \A w \in Workers : pc[w] = "returned" => finishes[current[w]] > 0

Accounting == AttemptBudget /\ DoneMeansFinished /\ ReturnedFinished

\* A save that gives up on a try keeps the budget: it goes back on the queue
\* only with a try left.
LEMMA SaveUnfinishedBudget ==
  ASSUME TypeOK, AttemptBudget, DoneMeansFinished,
         NEW j \in Jobs, NEW n \in Nat, SaveUnfinished(j, n),
         UNCHANGED finishes
  PROVE  AttemptBudget' /\ DoneMeansFinished'
<1> USE DEF TypeOK, SaveUnfinished, Save, Exhausted
<1>1. AttemptBudget'
  BY DEF AttemptBudget, InFlight
<1>2. DoneMeansFinished'
  BY DEF DoneMeansFinished
<1>3. QED
  BY <1>1, <1>2

LEMMA AccountingStep ==
  TypeInv /\ Accounting /\ [Next]_vars => Accounting'
<1> SUFFICES ASSUME TypeInv, Accounting, [Next]_vars PROVE Accounting'
  OBVIOUS
<1> USE DEF TypeInv, TypeOK, Accounting, rows, memory
<1>1. ASSUME NEW j \in Jobs, Enqueue(j) PROVE Accounting'
  BY <1>1 DEF Enqueue, Save, AttemptBudget, DoneMeansFinished, ReturnedFinished,
              InFlight, Exhausted
<1>2. ASSUME NEW w \in Workers, NEW j \in Jobs, ReclaimRow(w, j) PROVE Accounting'
  <2>1. seen[w][j] + 1 \in Nat
    OBVIOUS
  <2>2. AttemptBudget' /\ DoneMeansFinished'
    BY <1>2, <2>1, SaveUnfinishedBudget DEF ReclaimRow
  <2>3. ReturnedFinished'
    BY <1>2 DEF ReclaimRow, ReturnedFinished
  <2>4. QED
    BY <2>2, <2>3
<1>3. ASSUME NEW w \in Workers, NEW j \in Jobs, ClaimRow(w, j) PROVE Accounting'
  <2>1. AttemptBudget' /\ DoneMeansFinished'
    BY <1>3 DEF ClaimRow, AttemptBudget, DoneMeansFinished, InFlight, Exhausted
  <2>2. ReturnedFinished'
    BY <1>3 DEF ClaimRow, ReturnedFinished
  <2>3. QED
    BY <2>1, <2>2
<1>4. ASSUME NEW w \in Workers, NEW j \in Jobs, RejectJob(w, j) PROVE Accounting'
  BY <1>4 DEF RejectJob, Save, AttemptBudget, DoneMeansFinished,
              ReturnedFinished, InFlight, Exhausted
<1>5. ASSUME NEW w \in Workers, HandlerReturns(w) PROVE Accounting'
  <2>1. current[w] \in Jobs
    BY <1>5 DEF HandlerReturns, CurrentIsJob
  <2>2. \A k \in Jobs : finishes'[k] >= finishes[k] /\ finishes'[k] \in Nat
    BY <1>5, <2>1 DEF HandlerReturns
  <2>3. AttemptBudget' /\ DoneMeansFinished'
    BY <1>5, <2>2 DEF HandlerReturns, AttemptBudget, DoneMeansFinished,
                      InFlight, Exhausted
  <2>4. ASSUME NEW v \in Workers, pc'[v] = "returned"
        PROVE  finishes'[current'[v]] > 0
    <3>1. CASE v = w
      BY <1>5, <2>1, <3>1 DEF HandlerReturns
    <3>2. CASE v # w
      BY <1>5, <2>2, <2>4, <3>2 DEF HandlerReturns, ReturnedFinished, CurrentIsJob
    <3>3. QED
      BY <3>1, <3>2
  <2>5. QED
    BY <2>3, <2>4 DEF ReturnedFinished
<1>6. ASSUME NEW w \in Workers, SaveOutcome(w) PROVE Accounting'
  <2>1. current[w] \in Jobs
    <3>1. pc[w] \in {"returned", "raised"}
      BY <1>6 DEF SaveOutcome
    <3>2. QED
      BY <3>1 DEF CurrentIsJob
  <2>2. seen[w][current[w]] \in Nat
    BY <2>1
  <2>3. ReturnedFinished'
    BY <1>6 DEF SaveOutcome, ReturnedFinished
  <2>4. CASE pc[w] = "raised"
    BY <1>6, <2>1, <2>2, <2>3, <2>4, SaveUnfinishedBudget DEF SaveOutcome
  <2>5. CASE pc[w] = "returned"
    <3>1. finishes[current[w]] > 0 /\ UNCHANGED finishes
      BY <1>6, <2>5 DEF SaveOutcome, ReturnedFinished
    <3>2. Save(current[w], "done", seen[w][current[w]], FALSE)
      BY <1>6, <2>5 DEF SaveOutcome
    <3>3. AttemptBudget' /\ DoneMeansFinished'
      BY <2>1, <2>2, <3>1, <3>2 DEF Save, AttemptBudget, DoneMeansFinished,
                                    InFlight, Exhausted
    <3>4. QED
      BY <2>3, <3>3
  <2>6. QED
    BY <1>6, <2>4, <2>5 DEF SaveOutcome
<1>7. ASSUME NEW w \in Workers,
             \/ SelectStalled(w)
             \/ SelectReady(w)
             \/ RefreshRow(w)
             \/ ClaimReturns(w)
             \/ \E j \in Jobs : StartJob(w, j)
             \/ HandlerRaises(w)
             \/ DrainReturns(w)
             \/ HandlerKills(w)
             \/ Crash(w)
             \/ Restart(w)
      PROVE  Accounting'
  <2>1. UNCHANGED <<state, attempts, finishes>>
    BY <1>7 DEF SelectStalled, SelectReady, RefreshRow, ClaimReturns, StartJob,
                HandlerRaises, DrainReturns, HandlerKills, Crash, Restart
  <2>2. \A v \in Workers :
          pc'[v] = "returned" => pc[v] = "returned" /\ current'[v] = current[v]
    BY <1>7 DEF SelectStalled, SelectReady, RefreshRow, ClaimReturns, StartJob,
                HandlerRaises, DrainReturns, HandlerKills, Crash, Restart,
                LoseMemory
  <2>3. QED
    BY <2>1, <2>2 DEF AttemptBudget, DoneMeansFinished, ReturnedFinished,
                      InFlight, Exhausted
<1>8. ASSUME NEW j \in Jobs, BackoffElapses(j) \/ LockAges(j) PROVE Accounting'
  BY <1>8 DEF BackoffElapses, LockAges, AttemptBudget, DoneMeansFinished,
              ReturnedFinished, InFlight, Exhausted
<1>9. CASE UNCHANGED vars
  BY <1>9 DEF vars, AttemptBudget, DoneMeansFinished, ReturnedFinished,
              InFlight, Exhausted
<1>10. QED
  BY <1>1, <1>2, <1>3, <1>4, <1>5, <1>6, <1>7, <1>8, <1>9 DEF Next, WorkerStep

LEMMA AccountingInvariant == Spec => []Accounting
<1>1. Init => Accounting
  BY DEF Init, Accounting, AttemptBudget, DoneMeansFinished, ReturnedFinished,
         InFlight
<1>2. QED
  BY <1>1, AccountingStep, TypeInvInvariant, PTL DEF Spec

\* No interleaving of claims, reclaims, stale saves and crashes, by any number
\* of workers, puts a job with no try left back on the queue or buries one that
\* has a try left.
THEOREM AttemptBudgetHolds == Spec => []AttemptBudget
BY AccountingInvariant, PTL DEF Accounting

\* Nor does any of them mark a job done whose handler never returned.
THEOREM DoneMeansFinishedHolds == Spec => []DoneMeansFinished
BY AccountingInvariant, PTL DEF Accounting

-----------------------------------------------------------------------------
(* One worker: its memory and the table agree.                             *)

LEMMA OneWorkerStep ==
  ASSUME \A v, w \in Workers : v = w
  PROVE  TypeInv /\ Accounting /\ OneWorkerInv /\ [Next]_vars => OneWorkerInv'
<1> SUFFICES ASSUME TypeInv, Accounting, OneWorkerInv, [Next]_vars
             PROVE  OneWorkerInv'
  OBVIOUS
<1> USE DEF TypeInv, TypeOK, OneWorkerInv, rows, memory
<1>0. \A j \in Jobs : InFlight(j) => attempts[j] + 1 <= MaxAttempts
  BY DEF Accounting, AttemptBudget
<1>1. ASSUME NEW j \in Jobs, Enqueue(j) PROVE OneWorkerInv'
  <2>1. Lockstep'
    BY <1>1 DEF Enqueue, Save, Lockstep, CurrentIsJob
  <2>2. TriesCharged'
    BY <1>1 DEF Enqueue, Save, TriesCharged
  <2>3. QED
    BY <2>1, <2>2
<1>2. ASSUME NEW w \in Workers, NEW j \in Jobs, ReclaimRow(w, j) PROVE OneWorkerInv'
  <2>1. state[j] = "running" /\ seen[w][j] = attempts[j]
    BY <1>2 DEF ReclaimRow, Lockstep
  <2>2. seen[w][j] + 1 <= MaxAttempts
    BY <1>0, <2>1 DEF InFlight
  <2>3. TriesCharged'
    BY <1>2, <2>1, <2>2 DEF ReclaimRow, SaveUnfinished, Save, TriesCharged
  <2>4. Lockstep'
    BY <1>2 DEF ReclaimRow, SaveUnfinished, Save, Lockstep
  <2>5. QED
    BY <2>3, <2>4
<1>3. ASSUME NEW w \in Workers, NEW j \in Jobs, ClaimRow(w, j) PROVE OneWorkerInv'
  <2>1. CASE state[j] = "pending"
    <3>1. /\ state' = [state EXCEPT ![j] = "running"]
          /\ current' = [current EXCEPT ![w] = j]
          /\ pc[w] = "claim"
          /\ pc' = [pc EXCEPT ![w] = "refresh"]
          /\ todo' = [todo EXCEPT ![w] = @ \ {j}]
          /\ UNCHANGED <<attempts, due, seen, batch, starts, finishes, crashes>>
      BY <1>3, <2>1 DEF ClaimRow
    <3>2. j \notin batch[w]
      BY <2>1 DEF Lockstep
    <3>3. starts[j] <= attempts[j]
      BY <2>1 DEF TriesCharged
    <3>4. TriesCharged'
      BY <2>1, <3>1 DEF TriesCharged
    <3>5. Lockstep'
      BY <2>1, <3>1, <3>2, <3>3 DEF Lockstep
    <3>6. QED
      BY <3>4, <3>5
  <2>2. CASE state[j] # "pending"
    <3>1. /\ pc[w] = "claim"
          /\ todo' = [todo EXCEPT ![w] = @ \ {j}]
          /\ UNCHANGED <<state, attempts, seen, batch, current, pc, starts>>
      BY <1>3, <2>2 DEF ClaimRow
    <3>2. QED
      BY <3>1 DEF Lockstep, TriesCharged
  <2>3. QED
    BY <2>1, <2>2
<1>4. ASSUME NEW w \in Workers, RefreshRow(w) PROVE OneWorkerInv'
  <2>1. /\ current[w] \in Jobs
        /\ state[current[w]] = "running"
        /\ starts[current[w]] <= attempts[current[w]]
    BY <1>4 DEF RefreshRow, Lockstep, CurrentIsJob
  <2>2. Lockstep'
    BY <1>4, <2>1 DEF RefreshRow, Lockstep
  <2>3. TriesCharged'
    BY <1>4 DEF RefreshRow, TriesCharged
  <2>4. QED
    BY <2>2, <2>3
<1>5. ASSUME NEW w \in Workers, NEW j \in Jobs, StartJob(w, j) PROVE OneWorkerInv'
  <2>1. /\ state[j] = "running"
        /\ seen[w][j] = attempts[j]
        /\ starts[j] <= attempts[j]
    BY <1>5 DEF StartJob, Lockstep
  <2>2. Lockstep'
    BY <1>5, <2>1 DEF StartJob, Lockstep
  <2>3. TriesCharged'
    BY <1>5, <2>1 DEF StartJob, TriesCharged
  <2>4. QED
    BY <2>2, <2>3
<1>6. ASSUME NEW w \in Workers, NEW j \in Jobs, RejectJob(w, j) PROVE OneWorkerInv'
  <2>1. /\ state[j] = "running"
        /\ seen[w][j] = attempts[j]
        /\ starts[j] <= attempts[j]
    BY <1>6 DEF RejectJob, Lockstep
  <2>2. attempts[j] + 1 <= MaxAttempts
    BY <1>0, <2>1 DEF InFlight
  <2>3. Lockstep'
    BY <1>6 DEF RejectJob, Save, Lockstep
  <2>4. TriesCharged'
    BY <1>6, <2>1, <2>2 DEF RejectJob, Save, TriesCharged
  <2>5. QED
    BY <2>3, <2>4
<1>7. ASSUME NEW w \in Workers, HandlerReturns(w) \/ HandlerRaises(w)
      PROVE  OneWorkerInv'
  <2>1. /\ pc[w] = "running"
        /\ \E p \in {"returned", "raised"} : pc' = [pc EXCEPT ![w] = p]
        /\ UNCHANGED <<state, attempts, todo, seen, batch, current, starts>>
    BY <1>7 DEF HandlerReturns, HandlerRaises
  <2>2. Lockstep'
    BY <2>1 DEF Lockstep
  <2>3. TriesCharged'
    BY <2>1 DEF TriesCharged
  <2>4. QED
    BY <2>2, <2>3
<1>8. ASSUME NEW w \in Workers, SaveOutcome(w) PROVE OneWorkerInv'
  <2>1. pc[w] \in {"returned", "raised"}
    BY <1>8 DEF SaveOutcome
  <2>2. /\ current[w] \in Jobs
        /\ state[current[w]] = "running"
        /\ current[w] \notin batch[w]
        /\ seen[w][current[w]] = attempts[current[w]] + 1
    BY <2>1 DEF Lockstep, CurrentIsJob
  <2>3. seen[w][current[w]] <= MaxAttempts
    BY <1>0, <2>2 DEF InFlight
  <2>4. \E st \in {"pending", "done", "failed"} :
          /\ state' = [state EXCEPT ![current[w]] = st]
          /\ attempts' = [attempts EXCEPT ![current[w]] = seen[w][current[w]]]
    BY <1>8 DEF SaveOutcome, SaveUnfinished, Save
  <2>5. TriesCharged'
    BY <1>8, <2>2, <2>3, <2>4 DEF SaveOutcome, TriesCharged
  <2>6. Lockstep'
    BY <1>8, <2>1, <2>2, <2>4 DEF SaveOutcome, Lockstep
  <2>7. QED
    BY <2>5, <2>6
<1>9. ASSUME NEW w \in Workers, SelectStalled(w) PROVE OneWorkerInv'
  <2>1. /\ pc[w] = "idle"
        /\ UNCHANGED <<state, attempts, starts, batch, current>>
        /\ pc' = [pc EXCEPT ![w] = "reclaim"]
    BY <1>9 DEF SelectStalled
  <2>2. \A j \in todo'[w] : state[j] = "running" /\ seen'[w][j] = attempts[j]
    BY <1>9 DEF SelectStalled, Stalled
  <2>3. \A v \in Workers : v # w => todo'[v] = todo[v] /\ seen'[v] = seen[v]
    BY <1>9 DEF SelectStalled
  <2>4. Lockstep'
    BY <2>1, <2>2, <2>3 DEF Lockstep
  <2>5. TriesCharged'
    BY <2>1 DEF TriesCharged
  <2>6. QED
    BY <2>4, <2>5
<1>10. ASSUME NEW w \in Workers, SelectReady(w) PROVE OneWorkerInv'
  BY <1>10 DEF SelectReady, Lockstep, TriesCharged
<1>11. ASSUME NEW w \in Workers, ClaimReturns(w) \/ DrainReturns(w) \/ Restart(w)
       PROVE  OneWorkerInv'
  BY <1>11 DEF ClaimReturns, DrainReturns, Restart, Lockstep, TriesCharged
<1>12. ASSUME NEW w \in Workers, HandlerKills(w) \/ Crash(w) PROVE OneWorkerInv'
  BY <1>12 DEF HandlerKills, Crash, LoseMemory, Lockstep, TriesCharged
<1>13. ASSUME NEW j \in Jobs, BackoffElapses(j) \/ LockAges(j) PROVE OneWorkerInv'
  BY <1>13 DEF BackoffElapses, LockAges, Lockstep, TriesCharged
<1>14. CASE UNCHANGED vars
  BY <1>14 DEF vars, Lockstep, TriesCharged
<1>15. QED
  BY <1>1, <1>2, <1>3, <1>4, <1>5, <1>6, <1>7, <1>8, <1>9, <1>10, <1>11, <1>12,
     <1>13, <1>14 DEF Next, WorkerStep

LEMMA OneWorkerInvariant ==
  ASSUME \A v, w \in Workers : v = w
  PROVE  Spec => []OneWorkerInv
<1>1. Init => OneWorkerInv
  BY DEF Init, OneWorkerInv, Lockstep, TriesCharged
<1>2. TypeInv /\ Accounting /\ OneWorkerInv /\ [Next]_vars => OneWorkerInv'
  BY OneWorkerStep
<1>3. QED
  BY <1>1, <1>2, TypeInvInvariant, AccountingInvariant, PTL DEF Spec

\* With one worker process, no handler is entered more than max_attempts times,
\* even one that kills the process each time and is reclaimed after each death.
THEOREM StartsBoundedHolds ==
  ASSUME \A v, w \in Workers : v = w
  PROVE  Spec => []StartsBounded
<1>1. TypeInv /\ Accounting /\ OneWorkerInv => StartsBounded
  <2>1. SUFFICES ASSUME TypeInv, Accounting, OneWorkerInv, NEW j \in Jobs
                 PROVE  starts[j] <= MaxAttempts
    BY DEF StartsBounded
  <2>2. /\ attempts[j] <= MaxAttempts
        /\ starts[j] <= attempts[j] + (IF state[j] = "running" THEN 1 ELSE 0)
        /\ state[j] = "running" => attempts[j] < MaxAttempts
    BY <2>1 DEF OneWorkerInv, TriesCharged, Accounting, AttemptBudget, InFlight
  <2>3. starts[j] \in Nat /\ attempts[j] \in Nat
    BY <2>1 DEF TypeInv, TypeOK
  <2>4. QED
    BY <2>2, <2>3
<1>2. QED
  BY <1>1, TypeInvInvariant, AccountingInvariant, OneWorkerInvariant, PTL

-----------------------------------------------------------------------------
(* One worker: the queue implements what it promises of each job.          *)

LEMMA LifecycleStep ==
  ASSUME \A v, w \in Workers : v = w
  PROVE  TypeInv /\ Accounting /\ OneWorkerInv /\ [Next]_vars
           => [Lifecycle!Next]_(Lifecycle!lifecycleVars)
<1> SUFFICES ASSUME TypeInv, Accounting, OneWorkerInv, [Next]_vars
             PROVE  [Lifecycle!Next]_(Lifecycle!lifecycleVars)
  OBVIOUS
<1> USE DEF TypeInv, TypeOK, rows, memory, Lifecycle!lifecycleVars
<1> DEFINE Stutter == UNCHANGED <<state, starts>>
<1>0. \A j \in Jobs : Lifecycle!Submit(j) \/ Lifecycle!Take(j) \/ Lifecycle!Try(j)
                      \/ Lifecycle!GiveBack(j) \/ Lifecycle!Finish(j)
                      \/ Lifecycle!Bury(j) => Lifecycle!Next
  BY DEF Lifecycle!Next
<1>1. ASSUME NEW j \in Jobs, Enqueue(j) PROVE Lifecycle!Next
  BY <1>0, <1>1 DEF Enqueue, Save, Lifecycle!Submit, Lifecycle!Move
<1>2. ASSUME NEW w \in Workers, NEW j \in Jobs, ReclaimRow(w, j) PROVE Lifecycle!Next
  <2>1. state[j] = "running"
    BY <1>2 DEF ReclaimRow, OneWorkerInv, Lockstep
  <2>2. QED
    BY <1>0, <1>2, <2>1 DEF ReclaimRow, SaveUnfinished, Save, Lifecycle!GiveBack,
                            Lifecycle!Bury, Lifecycle!Move
<1>3. ASSUME NEW w \in Workers, NEW j \in Jobs, ClaimRow(w, j)
      PROVE  Lifecycle!Next \/ Stutter
  BY <1>0, <1>3 DEF ClaimRow, Lifecycle!Take, Lifecycle!Move
<1>4. ASSUME NEW w \in Workers, NEW j \in Jobs, StartJob(w, j) PROVE Lifecycle!Next
  <2>1. /\ state[j] = "running"
        /\ starts[j] <= attempts[j]
        /\ attempts[j] < MaxAttempts
    BY <1>4 DEF StartJob, OneWorkerInv, Lockstep, Accounting, AttemptBudget, InFlight
  <2>2. starts[j] < MaxAttempts
    BY <2>1
  <2>3. QED
    BY <1>0, <1>4, <2>1, <2>2 DEF StartJob, Lifecycle!Try
<1>5. ASSUME NEW w \in Workers, NEW j \in Jobs, RejectJob(w, j) PROVE Lifecycle!Next
  <2>1. state[j] = "running"
    BY <1>5 DEF RejectJob, OneWorkerInv, Lockstep
  <2>2. QED
    BY <1>0, <1>5, <2>1 DEF RejectJob, Save, Lifecycle!Bury, Lifecycle!Move
<1>6. ASSUME NEW w \in Workers, SaveOutcome(w) PROVE Lifecycle!Next
  <2>1. pc[w] \in {"returned", "raised"}
    BY <1>6 DEF SaveOutcome
  <2>2. /\ current[w] \in Jobs
        /\ state[current[w]] = "running"
        /\ starts[current[w]] > 0
    BY <2>1 DEF CurrentIsJob, OneWorkerInv, Lockstep
  <2>3. /\ \E st \in {"pending", "done", "failed"} :
             state' = [state EXCEPT ![current[w]] = st]
        /\ UNCHANGED starts
    BY <1>6 DEF SaveOutcome, SaveUnfinished, Save
  <2>4. QED
    BY <1>0, <2>2, <2>3 DEF Lifecycle!GiveBack, Lifecycle!Finish, Lifecycle!Bury,
                            Lifecycle!Move
<1>7. ASSUME NEW w \in Workers,
             \/ SelectStalled(w)
             \/ SelectReady(w)
             \/ RefreshRow(w)
             \/ ClaimReturns(w)
             \/ HandlerReturns(w)
             \/ HandlerRaises(w)
             \/ DrainReturns(w)
             \/ HandlerKills(w)
             \/ Crash(w)
             \/ Restart(w)
      PROVE  Stutter
  BY <1>7 DEF SelectStalled, SelectReady, RefreshRow, ClaimReturns, HandlerReturns,
              HandlerRaises, DrainReturns, HandlerKills, Crash, Restart
<1>8. ASSUME NEW j \in Jobs, BackoffElapses(j) \/ LockAges(j) PROVE Stutter
  BY <1>8 DEF BackoffElapses, LockAges
<1>9. CASE UNCHANGED vars
  BY <1>9 DEF vars
<1>10. QED
  BY <1>1, <1>2, <1>3, <1>4, <1>5, <1>6, <1>7, <1>8, <1>9 DEF Next, WorkerStep

\* With one worker process, the queue implements JobLifecycle: a done job was
\* tried, what is done or failed stays so, and tries never exceed the limit.
THEOREM LifecycleImplemented ==
  ASSUME \A v, w \in Workers : v = w
  PROVE  Spec => ImplementsLifecycle
<1>1. Init => Lifecycle!Init
  BY DEF Init, Lifecycle!Init
<1>2. TypeInv /\ Accounting /\ OneWorkerInv /\ [Next]_vars
        => [Lifecycle!Next]_(Lifecycle!lifecycleVars)
  BY LifecycleStep
<1>3. Spec => [](TypeInv /\ Accounting /\ OneWorkerInv)
  BY TypeInvInvariant, AccountingInvariant, OneWorkerInvariant, PTL
<1>4. QED
  BY <1>1, <1>2, <1>3, PTL DEF Spec, ImplementsLifecycle, Lifecycle!Spec

-----------------------------------------------------------------------------
(* The scheduler and the backups screen beside the queue.                  *)

USE JobSchedulerAssumption

\* A tick that has found a type due, and a request that gives up, know of what.
TickTypes ==
  /\ elapsed \in [Recurring -> BOOLEAN]
  /\ minute \in [Workers -> BOOLEAN]
  /\ tickPc \in [Workers -> TickPhase]
  /\ tickTodo \in [Workers -> SUBSET Recurring]
  /\ tickType \in [Workers -> Recurring \cup {NoType}]
  /\ \A w \in Workers : tickPc[w] \in {"exists", "create", "stamp"} => tickType[w] \in Recurring

ScreenTypes ==
  /\ reqPc \in [Requests -> {"idle", "create", "offered", "stop"}]
  /\ reqJob \in [Requests -> Jobs \cup {NoJob}]
  /\ presses \in 0..MaxPresses
  /\ \A r \in Requests : reqPc[r] = "stop" => reqJob[r] \in Jobs

SchedInv == TypeInv /\ TickTypes /\ ScreenTypes

\* A row inserted is a row like any other, and no worker has it in hand.
LEMMA CreateTypes ==
  ASSUME TypeInv, NEW t, Create(t)
  PROVE  TypeInv' /\ UNCHANGED <<pc, memory, crashes>>
<1> USE DEF TypeInv, TypeOK
<1>1. PICK j \in Jobs : /\ Save(j, "pending", 0, TRUE)
                        /\ starts' = [starts EXCEPT ![j] = 0]
                        /\ finishes' = [finishes EXCEPT ![j] = 0]
                        /\ UNCHANGED <<pc, memory, crashes>>
  BY DEF Create
<1>2. /\ state' \in [Jobs -> JobState] /\ attempts' \in [Jobs -> Nat]
      /\ due' \in [Jobs -> BOOLEAN] /\ stale' \in [Jobs -> BOOLEAN]
  BY <1>1, SaveType DEF JobState
<1>3. UNCHANGED <<pc, todo, seen, batch, current, crashes>>
  BY <1>1 DEF memory
<1>4. CurrentIsJob'
  BY <1>3 DEF CurrentIsJob
<1>5. starts' \in [Jobs -> Nat] /\ finishes' \in [Jobs -> Nat]
  BY <1>1
<1> QED
  BY <1>1, <1>2, <1>3, <1>4, <1>5

LEMMA SchedInitTypes == SchedInit => SchedInv
<1> SUFFICES ASSUME SchedInit PROVE SchedInv
  OBVIOUS
<1>1. TypeInv
  BY TypeInit DEF SchedInit, TypeInv, CurrentIsJob, Init
<1> QED
  BY <1>1 DEF SchedInit, SchedInv, TickTypes, ScreenTypes, TickPhase

LEMMA SchedStepTypes == SchedInv /\ [SchedNext]_schedVars => SchedInv'
<1> SUFFICES ASSUME SchedInv, [SchedNext]_schedVars PROVE SchedInv'
  OBVIOUS
<1>0. TypeInv /\ TickTypes /\ ScreenTypes
  BY DEF SchedInv
<1>a. ASSUME UNCHANGED vars PROVE TypeInv'
  BY <1>0, <1>a, TypeStep
<1>b. ASSUME UNCHANGED schedule PROVE TickTypes'
  BY <1>0, <1>b DEF schedule, TickTypes
<1>c. ASSUME UNCHANGED screen PROVE ScreenTypes'
  BY <1>0, <1>c DEF screen, ScreenTypes
<1>d. ASSUME Next PROVE TypeInv'
  BY <1>0, <1>d, TypeStep
<1>1. CASE UNCHANGED schedVars
  BY <1>1, <1>a, <1>b, <1>c DEF schedVars, SchedInv
<1>2. ASSUME Clock PROVE SchedInv'
  <2>1. ASSUME NEW j \in Jobs, BackoffElapses(j) \/ LockAges(j), UNCHANGED <<schedule, screen>>
        PROVE  SchedInv'
    <3>1. Next
      BY <2>1 DEF Next
    <3> QED
      BY <2>1, <3>1, <1>b, <1>c, <1>d DEF SchedInv
  <2>2. ASSUME NEW w \in Workers, MinutePasses(w) PROVE SchedInv'
    <3>1. TickTypes'
      BY <1>0, <2>2 DEF MinutePasses, TickTypes
    <3> QED
      BY <2>2, <3>1, <1>a, <1>c DEF MinutePasses, SchedInv
  <2>3. ASSUME NEW t \in Recurring, IntervalElapses(t) PROVE SchedInv'
    <3>1. TickTypes'
      BY <1>0, <2>3 DEF IntervalElapses, TickTypes
    <3> QED
      BY <2>3, <3>1, <1>a, <1>c DEF IntervalElapses, SchedInv
  <2> QED
    BY <1>2, <2>1, <2>2, <2>3 DEF Clock
<1>3. ASSUME NEW w \in Workers, Loop(w) PROVE SchedInv'
  <2>1. CASE BeginDrain(w)
    <3>1. Next
      BY <2>1 DEF BeginDrain, Next, WorkerStep
    <3>2. TickTypes'
      BY <1>0, <2>1 DEF BeginDrain, TickTypes, TickPhase
    <3> QED
      BY <2>1, <3>1, <3>2, <1>c, <1>d DEF BeginDrain, SchedInv
  <2>2. CASE DrainStep(w)
    <3>1. Next
      BY <2>2 DEF DrainStep, Next
    <3>2. TickTypes'
      BY <1>0, <2>2, <1>b DEF DrainStep, ForgetTick, TickTypes, TickPhase
    <3> QED
      BY <2>2, <3>1, <3>2, <1>c, <1>d DEF DrainStep, SchedInv
  <2>3. CASE TickStart(w)
    <3>1. TickTypes'
      BY <1>0, <2>3 DEF TickStart, TickTypes, TickPhase
    <3> QED
      BY <2>3, <3>1, <1>a, <1>c DEF TickStart, SchedInv
  <2>4. ASSUME NEW t \in Recurring, TickDue(w, t) PROVE SchedInv'
    <3>1. TickTypes'
      BY <1>0, <2>4 DEF TickDue, TickTypes, TickPhase
    <3> QED
      BY <2>4, <3>1, <1>a, <1>c DEF TickDue, SchedInv
  <2>5. CASE TickExists(w)
    <3>1. TickTypes'
      BY <1>0, <2>5 DEF TickExists, TickTypes, TickPhase
    <3> QED
      BY <2>5, <3>1, <1>a, <1>c DEF TickExists, SchedInv
  <2>6. CASE TickCreate(w)
    <3>1. TypeInv'
      BY <1>0, <2>6, CreateTypes DEF TickCreate
    <3>2. TickTypes'
      BY <1>0, <2>6 DEF TickCreate, TickTypes, TickPhase
    <3>3. UNCHANGED screen
      BY <2>6 DEF TickCreate, screen
    <3> QED
      BY <3>1, <3>2, <3>3, <1>c DEF SchedInv
  <2>7. CASE TickStamp(w)
    <3>1. TickTypes'
      BY <1>0, <2>7 DEF TickStamp, TickTypes, TickPhase
    <3> QED
      BY <2>7, <3>1, <1>a, <1>c DEF TickStamp, SchedInv
  <2>8. CASE TickReturns(w)
    <3>1. TickTypes'
      BY <1>0, <2>8 DEF TickReturns, TickTypes, TickPhase
    <3> QED
      BY <2>8, <3>1, <1>a, <1>c DEF TickReturns, SchedInv
  <2> QED
    BY <1>3, <2>1, <2>2, <2>3, <2>4, <2>5, <2>6, <2>7, <2>8 DEF Loop, TickStep
<1>4. ASSUME NEW w \in Workers, LoopCrash(w) \/ LoopRestart(w) PROVE SchedInv'
  <2>1. Next
    BY <1>4 DEF LoopCrash, LoopRestart, Next
  <2>2. TickTypes'
    BY <1>0, <1>4, <1>b DEF LoopCrash, LoopRestart, ForgetTick, TickTypes, TickPhase
  <2> QED
    BY <1>4, <2>1, <2>2, <1>c, <1>d DEF LoopCrash, LoopRestart, SchedInv
<1>5. ASSUME NEW r \in Requests, BackupNowCheck(r) PROVE SchedInv'
  <2>1. ScreenTypes'
    BY <1>0, <1>5 DEF BackupNowCheck, ScreenTypes
  <2> QED
    BY <1>5, <2>1, <1>a, <1>b DEF BackupNowCheck, SchedInv
<1>6. ASSUME NEW r \in Requests, BackupNowCreate(r) PROVE SchedInv'
  <2>1. TypeInv'
    BY <1>0, <1>6, CreateTypes DEF BackupNowCreate
  <2>2. ScreenTypes'
    BY <1>0, <1>6 DEF BackupNowCreate, ScreenTypes
  <2> QED
    BY <1>6, <2>1, <2>2, <1>b DEF BackupNowCreate, SchedInv
<1>7. ASSUME NEW r \in Requests, BackupsPage(r) \/ BackupStopRead(r) PROVE SchedInv'
  <2>1. ScreenTypes'
    BY <1>0, <1>7 DEF BackupsPage, BackupStopRead, InFlightOf, ScreenTypes
  <2> QED
    BY <1>7, <2>1, <1>a, <1>b DEF BackupsPage, BackupStopRead, SchedInv
<1>8. ASSUME NEW r \in Requests, BackupStopSave(r) PROVE SchedInv'
  <2>1. /\ reqJob[r] \in Jobs /\ Save(reqJob[r], "failed", attempts[reqJob[r]], FALSE)
        /\ attempts[reqJob[r]] \in Nat
        /\ UNCHANGED <<pc, todo, seen, batch, current, starts, finishes, crashes>>
    BY <1>0, <1>8 DEF BackupStopSave, ScreenTypes, memory, TypeInv, TypeOK
  <2>2. /\ state' \in [Jobs -> JobState] /\ attempts' \in [Jobs -> Nat]
        /\ due' \in [Jobs -> BOOLEAN] /\ stale' \in [Jobs -> BOOLEAN]
    BY <1>0, <2>1, SaveType DEF JobState, TypeInv
  <2>3. TypeInv'
    BY <1>0, <2>1, <2>2 DEF TypeInv, TypeOK, CurrentIsJob
  <2>4. ScreenTypes'
    BY <1>0, <1>8 DEF BackupStopSave, ScreenTypes
  <2> QED
    BY <1>8, <2>3, <2>4, <1>b DEF BackupStopSave, SchedInv
<1> QED
  BY <1>1, <1>2, <1>3, <1>4, <1>5, <1>6, <1>7, <1>8 DEF SchedNext, BackupStop

\* Every variable of the scheduler and of the screen keeps its type, and so do the queue's,
\* whose rows they insert and give up on.
THEOREM SchedulerTypes == SchedSpec => []SchedTypeOK
<1>1. SchedSpec => []SchedInv
  BY SchedInitTypes, SchedStepTypes, PTL DEF SchedSpec
<1>2. SchedInv => SchedTypeOK
  BY DEF SchedInv, SchedTypeOK, TypeInv, TickTypes, ScreenTypes
<1> QED
  BY <1>1, <1>2, PTL

\* What a worker has in memory, and when: nothing it selected outlives its drain(), and it
\* holds a row only from the claim to the save.
AtRest(w) ==
  /\ pc[w] \in {"idle", "down"} => todo[w] = {} /\ batch[w] = {}
  /\ pc[w] \notin {"reclaim", "claim", "refresh"} => todo[w] = {}
  /\ pc[w] \notin {"refresh", "running", "returned", "raised"} => current[w] = NoJob

\* A row in flight, or that a worker's late save may put back in flight.
Around(j) == InFlight(j) \/ \E w \in Workers : j \in todo[w] \/ Holds(w, j)

\* No step of the queue but an insert brings up a row that was not about.
QueueKept == /\ \A w \in Workers : AtRest(w)'
             /\ \A j \in Jobs : Around(j)' => Around(j)

LEMMA QueueUntouched ==
  ASSUME TypeInv, \A w \in Workers : AtRest(w), UNCHANGED <<pc, memory>>,
         \A j \in Jobs : InFlight(j)' => InFlight(j)
  PROVE  QueueKept
BY DEF QueueKept, AtRest, Around, Holds, memory

LEMMA WorkerKeepsQueue ==
  ASSUME TypeInv, \A w \in Workers : AtRest(w), NEW w \in Workers,
         WorkerStep(w) \/ Crash(w) \/ Restart(w)
  PROVE  QueueKept
<1> USE DEF QueueKept, TypeInv, TypeOK, AtRest, Around, InFlight, Holds
<1>1. CASE SelectStalled(w)
  BY <1>1 DEF SelectStalled, Stalled, rows, Phase
<1>2. ASSUME NEW j \in Jobs, ReclaimRow(w, j) PROVE QueueKept
  BY <1>2 DEF ReclaimRow, SaveUnfinished, Save, Phase
<1>3. CASE SelectReady(w)
  <2>1. PICK S \in SUBSET Ready : todo' = [todo EXCEPT ![w] = S]
    BY <1>3 DEF SelectReady
  <2>2. \A j \in S : j \in Jobs /\ InFlight(j)
    BY <2>1 DEF Ready
  <2>3. UNCHANGED <<rows, batch, current>> /\ pc[w] = "reclaim" /\ pc' = [pc EXCEPT ![w] = "claim"]
    BY <1>3 DEF SelectReady
  <2> QED
    <3>1. \A v \in Workers : AtRest(v)'
      BY <2>1, <2>3 DEF Phase
    <3>2. state' = state
      BY <2>3 DEF rows
    <3>3. \A j \in Jobs : Around(j)' => Around(j)
      BY <2>1, <2>2, <2>3, <3>2
    <3> QED
      BY <3>1, <3>3
<1>4. ASSUME NEW j \in Jobs, ClaimRow(w, j) PROVE QueueKept
  BY <1>4 DEF ClaimRow, Phase
<1>5. CASE RefreshRow(w)
  <2>1. /\ current[w] \in Jobs /\ current' = [current EXCEPT ![w] = NoJob]
        /\ batch' = [batch EXCEPT ![w] = @ \cup {current[w]}]
        /\ pc[w] = "refresh" /\ pc' = [pc EXCEPT ![w] = "claim"]
        /\ todo' = todo /\ state' = state
    BY <1>5 DEF RefreshRow, rows, CurrentIsJob
  <2>2. \A v \in Workers : AtRest(v)'
    BY <2>1 DEF Phase
  <2>3. \A j \in Jobs : Around(j)' => Around(j)
    BY <2>1, JobQueueAssumption
  <2> QED
    BY <2>2, <2>3
<1>6. CASE ClaimReturns(w)
  BY <1>6 DEF ClaimReturns, rows, memory, Phase
<1>7. ASSUME NEW j \in Jobs, StartJob(w, j) PROVE QueueKept
  BY <1>7 DEF StartJob, rows, Phase
<1>8. ASSUME NEW j \in Jobs, RejectJob(w, j) PROVE QueueKept
  BY <1>8 DEF RejectJob, Save, Phase
<1>9. CASE HandlerReturns(w) \/ HandlerRaises(w)
  BY <1>9 DEF HandlerReturns, HandlerRaises, rows, memory, Phase
<1>10. CASE SaveOutcome(w)
  <2>1. /\ current[w] \in Jobs /\ current' = [current EXCEPT ![w] = NoJob]
        /\ pc[w] \in {"returned", "raised"} /\ pc' = [pc EXCEPT ![w] = "next"]
        /\ UNCHANGED <<todo, batch>>
    BY <1>10 DEF SaveOutcome, Phase, CurrentIsJob
  <2>2. \A j \in Jobs : j # current[w] => state'[j] = state[j]
    BY <1>10, <2>1 DEF SaveOutcome, SaveUnfinished, Save
  <2>3. \A v \in Workers : AtRest(v)'
    BY <2>1 DEF Phase
  <2>4. \A j \in Jobs : Around(j)' => Around(j)
    BY <2>1, <2>2, JobQueueAssumption
  <2> QED
    BY <2>3, <2>4
<1>11. CASE DrainReturns(w)
  BY <1>11 DEF DrainReturns, rows, memory, Phase
<1>12. CASE HandlerKills(w) \/ Crash(w)
  <2>1. /\ pc' = [pc EXCEPT ![w] = "down"] /\ todo' = [todo EXCEPT ![w] = {}]
        /\ batch' = [batch EXCEPT ![w] = {}] /\ current' = [current EXCEPT ![w] = NoJob]
        /\ state' = state
    BY <1>12 DEF HandlerKills, Crash, LoseMemory, rows
  <2>2. \A v \in Workers : AtRest(v)'
    BY <2>1 DEF Phase
  <2>3. \A j \in Jobs : Around(j)' => Around(j)
    BY <2>1, JobQueueAssumption
  <2> QED
    BY <2>2, <2>3
<1>13. CASE Restart(w)
  BY <1>13 DEF Restart, rows, memory, Phase
<1> QED
  BY <1>1, <1>2, <1>3, <1>4, <1>5, <1>6, <1>7, <1>8, <1>9, <1>10, <1>11, <1>12, <1>13
     DEF WorkerStep

-----------------------------------------------------------------------------
(* Counting what is about, and who is about to add to it.                  *)

Alive(t)   == {j \in Jobs : TypeOf[j] = t /\ Around(j)}
Ticking(t) == {w \in Workers : tickPc[w] = "create" /\ tickType[w] = t}
Pressers   == {r \in Requests : reqPc[r] = "create"}
Pressed(t) == IF t \in Manual THEN presses ELSE 0
Pressing(t) == IF t \in Manual THEN Cardinality(Pressers) ELSE 0

\* The operator's share of a type is what was pressed, whether inserted or not; the rest is
\* at most one, and tick() has it only while nothing else of the type is about.
Piled(t) ==
  Cardinality(Alive(t)) + Cardinality(Ticking(t)) + Pressing(t) <= 1 + Pressed(t)

OneWorker == \A v, w \in Workers : v = w

PileInv ==
  /\ \A w \in Workers : AtRest(w) /\ (tickPc[w] # "off" => pc[w] = "idle")
  /\ Cardinality(Pressers) <= presses
  /\ \A t \in Recurring : Piled(t)

LEMMA FiniteCounts ==
  ASSUME OneWorker, NEW t
  PROVE  /\ IsFiniteSet(Alive(t)) /\ IsFiniteSet(Ticking(t)) /\ IsFiniteSet(Pressers)
         /\ Cardinality(Alive(t)) \in Nat /\ Cardinality(Pressers) \in Nat
         /\ Cardinality(Ticking(t)) \in {0, 1}
         /\ Cardinality(Ticking(t)) = 0 <=> Ticking(t) = {}
         /\ Cardinality(Ticking(t)) = 1 <=> \E w \in Workers : w \in Ticking(t)
<1>1. IsFiniteSet(Alive(t)) /\ IsFiniteSet(Pressers)
  BY FS_Subset, JobSchedulerAssumption DEF Alive, Pressers
<1>2. Ticking(t) = {} \/ \E w \in Workers : Ticking(t) = {w}
  BY DEF Ticking, OneWorker
<1>3. IsFiniteSet(Ticking(t)) /\ Cardinality(Ticking(t)) \in {0, 1}
      /\ (Cardinality(Ticking(t)) = 0 <=> Ticking(t) = {})
  <2>1. CASE Ticking(t) = {}
    BY <2>1, FS_EmptySet
  <2>2. ASSUME NEW w \in Workers, Ticking(t) = {w}
        PROVE  IsFiniteSet(Ticking(t)) /\ Cardinality(Ticking(t)) = 1 /\ Ticking(t) # {}
    <3>1. IsFiniteSet({w}) /\ Cardinality({w}) = 1
      BY FS_Singleton
    <3> QED
      BY <2>2, <3>1
  <2> QED
    BY <1>2, <2>1, <2>2
<1>4. Cardinality(Ticking(t)) = 1 <=> \E w \in Workers : w \in Ticking(t)
  BY <1>2, <1>3
<1> QED
  BY <1>1, <1>3, <1>4, FS_CardinalityType

\* Fewer rows, the same ticks and the same presses.
LEMMA NoMorePiled ==
  ASSUME OneWorker, NEW t, Piled(t), \A j \in Jobs : Around(j)' => Around(j),
         Ticking(t)' \subseteq Ticking(t), Pressing(t)' = Pressing(t), Pressed(t)' = Pressed(t),
         presses \in Nat
  PROVE  Piled(t)'
<1>1. Alive(t)' \subseteq Alive(t)
  BY DEF Alive
<1>2. /\ Cardinality(Alive(t)') <= Cardinality(Alive(t)) /\ Cardinality(Alive(t)') \in Nat
      /\ Cardinality(Ticking(t)') <= Cardinality(Ticking(t)) /\ Cardinality(Ticking(t)') \in Nat
  BY <1>1, FiniteCounts, FS_Subset, FS_CardinalityType
<1>3. Cardinality(Alive(t)) \in Nat /\ Cardinality(Ticking(t)) \in Nat
  BY FiniteCounts
<1>4. Pressing(t) \in Nat /\ Pressed(t) \in Nat
  BY FiniteCounts DEF Pressing, Pressed
<1> HIDE DEF Pressing, Pressed
<1> QED
  BY <1>2, <1>3, <1>4 DEF Piled

\* An insert adds one row to what is about, of its own type.
LEMMA CreateAddsOne ==
  ASSUME TypeInv, NEW u, Create(u), OneWorker
  PROVE  /\ Cardinality(Alive(u)') <= Cardinality(Alive(u)) + 1
         /\ \A t : t # u => Alive(t)' = Alive(t)
<1>1. PICK i \in Jobs : /\ TypeOf[i] = u
                        /\ Save(i, "pending", 0, TRUE)
                        /\ UNCHANGED <<pc, memory, crashes>>
  BY DEF Create
<1>2. \A j \in Jobs : j # i => (Around(j)' <=> Around(j))
  <2>1. \A j \in Jobs : j # i => state'[j] = state[j]
    BY <1>1 DEF Save, TypeInv, TypeOK
  <2>2. UNCHANGED <<todo, batch, current>>
    BY <1>1 DEF memory
  <2> QED
    BY <2>1, <2>2 DEF Around, InFlight, Holds
<1>3. Alive(u)' \subseteq Alive(u) \cup {i}
  BY <1>2 DEF Alive
<1>4. \A t : t # u => Alive(t)' = Alive(t)
  BY <1>1, <1>2 DEF Alive
<1>5. IsFiniteSet(Alive(u)) /\ Cardinality(Alive(u)) \in Nat
  BY FiniteCounts
<1>6. /\ IsFiniteSet(Alive(u) \cup {i})
      /\ Cardinality(Alive(u) \cup {i}) <= Cardinality(Alive(u)) + 1
      /\ Cardinality(Alive(u) \cup {i}) \in Nat
  <2>1. IsFiniteSet(Alive(u) \cup {i})
        /\ Cardinality(Alive(u) \cup {i}) = IF i \in Alive(u) THEN Cardinality(Alive(u))
                                            ELSE Cardinality(Alive(u)) + 1
    BY <1>5, FS_AddElement
  <2> QED
    BY <1>5, <2>1
<1>7. Cardinality(Alive(u)') <= Cardinality(Alive(u) \cup {i}) /\ Cardinality(Alive(u)') \in Nat
  BY <1>3, <1>6, FS_Subset, FS_CardinalityType
<1> QED
  BY <1>4, <1>5, <1>6, <1>7

\* A step that inserts nothing, and decides on no insert.
LEMMA QuietStep ==
  ASSUME SchedInv, OneWorker, PileInv, QueueKept,
         \A w \in Workers : tickPc'[w] # "off" => pc'[w] = "idle",
         \A w \in Workers : tickPc'[w] = "create" =>
                              tickPc[w] = "create" /\ tickType'[w] = tickType[w],
         \A r \in Requests : reqPc'[r] = "create" <=> reqPc[r] = "create",
         presses' = presses
  PROVE  PileInv'
<1>1. Pressers' = Pressers
  BY DEF Pressers
<1>2. ASSUME NEW t \in Recurring PROVE Piled(t)'
  <2>1. Ticking(t)' \subseteq Ticking(t)
    BY DEF Ticking
  <2>2. Pressing(t)' = Pressing(t) /\ Pressed(t)' = Pressed(t) /\ presses \in Nat
    BY <1>1 DEF Pressing, Pressed, SchedInv, ScreenTypes
  <2>3. Piled(t) /\ \A j \in Jobs : Around(j)' => Around(j)
    BY DEF PileInv, QueueKept
  <2> QED
    BY <2>1, <2>2, <2>3, NoMorePiled
<1>3. (Cardinality(Pressers) <= presses)'
  BY <1>1 DEF PileInv
<1> QED
  BY <1>2, <1>3 DEF PileInv, QueueKept

LEMMA PileStart == SchedInit /\ OneWorker => PileInv
<1> SUFFICES ASSUME SchedInit, OneWorker PROVE PileInv
  OBVIOUS
<1>1. Pressers = {} /\ presses = 0 /\ Cardinality(Pressers) = 0
  BY FS_EmptySet DEF SchedInit, Pressers
<1>2. ASSUME NEW t \in Recurring PROVE Piled(t)
  <2>1. Alive(t) = {} /\ Ticking(t) = {}
    BY JobQueueAssumption DEF SchedInit, Init, Alive, Around, InFlight, Holds, Ticking
  <2> QED
    BY <1>1, <2>1, FS_EmptySet DEF Piled, Pressing, Pressed
<1>3. \A w \in Workers : AtRest(w) /\ (tickPc[w] # "off" => pc[w] = "idle")
  BY DEF SchedInit, Init, AtRest
<1> QED
  BY <1>1, <1>2, <1>3 DEF PileInv

\* tick() decides to insert: nothing of the type is in flight, and the one worker, between
\* two drains, has nothing in hand that could come back.
LEMMA TickDecides ==
  ASSUME SchedInv, OneWorker, PileInv, NEW w \in Workers, TickExists(w)
  PROVE  PileInv'
<1>1. QueueKept /\ UNCHANGED vars /\ UNCHANGED <<reqPc, presses>>
  <2>1. UNCHANGED vars /\ UNCHANGED <<reqPc, presses>>
    BY DEF TickExists, screen
  <2> QED
    BY <2>1, QueueUntouched DEF vars, rows, InFlight, SchedInv, PileInv
<1>2. \A v \in Workers : tickPc'[v] # "off" => pc'[v] = "idle"
  BY <1>1 DEF TickExists, PileInv, SchedInv, TickTypes, vars
<1>3. CASE InFlightOf(tickType[w]) # {}
  <2>1. \A v \in Workers : tickPc'[v] # "create"
    BY <1>3 DEF TickExists, OneWorker, SchedInv, TickTypes
  <2> QED
    BY <1>1, <1>2, <2>1, QuietStep
<1>4. CASE InFlightOf(tickType[w]) = {}
  <2>1. /\ tickPc[w] = "exists" /\ tickPc' = [tickPc EXCEPT ![w] = "create"]
        /\ tickType' = tickType
    BY <1>4 DEF TickExists
  <2>2. Pressers' = Pressers /\ presses' = presses
    BY <1>1 DEF Pressers
  <2>3. ASSUME NEW t \in Recurring PROVE Piled(t)'
    <3>1. CASE t # tickType[w]
      <4>1. Ticking(t)' \subseteq Ticking(t)
        BY <2>1, <3>1 DEF Ticking, OneWorker
      <4>2. Pressing(t)' = Pressing(t) /\ Pressed(t)' = Pressed(t) /\ presses \in Nat
        BY <2>2 DEF Pressing, Pressed, SchedInv, ScreenTypes
      <4> QED
        BY <1>1, <4>1, <4>2, NoMorePiled DEF PileInv, QueueKept
    <3>2. CASE t = tickType[w]
      <4>1. \A j \in Jobs : TypeOf[j] = t => ~Around(j)
        <5>1. todo[w] = {} /\ batch[w] = {} /\ current[w] = NoJob
          BY <2>1 DEF PileInv, AtRest
        <5> QED
          BY <1>4, <3>2, <5>1, JobQueueAssumption DEF InFlightOf, Around, Holds, OneWorker
      <4>2. Alive(t)' = {}
        BY <1>1, <4>1 DEF Alive, QueueKept
      <4>3. Cardinality(Alive(t)') = 0
        BY <4>2, FS_EmptySet
      <4>4. Cardinality(Ticking(t)') \in {0, 1}
        <5>1. Ticking(t)' = {} \/ \E v \in Workers : Ticking(t)' = {v}
          BY DEF Ticking, OneWorker
        <5> QED
          BY <5>1, FS_EmptySet, FS_Singleton
      <4>5. Cardinality(Pressers) \in Nat /\ Cardinality(Pressers) <= presses
        BY FiniteCounts DEF PileInv
      <4>6. presses \in Nat
        BY DEF SchedInv, ScreenTypes
      <4> QED
        BY <2>2, <4>3, <4>4, <4>5, <4>6 DEF Piled, Pressing, Pressed
    <3> QED
      BY <3>1, <3>2
  <2> QED
    BY <1>1, <1>2, <2>2, <2>3 DEF PileInv, QueueKept
<1> QED
  BY <1>3, <1>4

\* tick() inserts what it has decided to.
LEMMA TickInserts ==
  ASSUME SchedInv, OneWorker, PileInv, NEW w \in Workers, TickCreate(w)
  PROVE  PileInv'
<1>0. PICK u \in Recurring : u = tickType[w] /\ Create(u)
  BY DEF TickCreate, SchedInv, TickTypes
<1>1. /\ Create(u) /\ u = tickType[w] /\ tickPc[w] = "create"
      /\ tickPc' = [tickPc EXCEPT ![w] = "stamp"] /\ UNCHANGED <<tickType, reqPc, presses>>
  BY <1>0 DEF TickCreate
<1>2. UNCHANGED <<pc, todo, batch, current>>
  BY <1>1 DEF Create, memory
<1>3. \A v \in Workers : AtRest(v)' /\ (tickPc'[v] # "off" => pc'[v] = "idle")
  BY <1>1, <1>2 DEF PileInv, AtRest, SchedInv, TickTypes
<1>4. Pressers' = Pressers /\ presses' = presses
  BY <1>1 DEF Pressers
<1>5. /\ Cardinality(Alive(u)') <= Cardinality(Alive(u)) + 1
      /\ \A t : t # u => Alive(t)' = Alive(t)
  BY <1>1, CreateAddsOne DEF SchedInv
<1>6. \A t : Ticking(t)' = {}
  BY <1>1 DEF Ticking, OneWorker, SchedInv, TickTypes
<1>7. w \in Ticking(u) /\ Cardinality(Ticking(u)) = 1
  <2>1. w \in Ticking(u)
    BY <1>1 DEF Ticking
  <2> QED
    BY <2>1, FiniteCounts
<1>8. ASSUME NEW t \in Recurring PROVE Piled(t)'
  <2>1. /\ Cardinality(Alive(t)) \in Nat /\ Cardinality(Alive(t)') \in Nat
        /\ Cardinality(Ticking(t)) \in Nat /\ Cardinality(Ticking(t)') = 0
        /\ Pressing(t) \in Nat /\ Pressed(t) \in Nat
    <3>1. IsFiniteSet(Alive(t)')
      BY FS_Subset, JobSchedulerAssumption DEF Alive
    <3>2. presses \in Nat
      BY DEF SchedInv, ScreenTypes
    <3> QED
      BY <1>6, <3>1, <3>2, FiniteCounts, FS_EmptySet, FS_CardinalityType DEF Pressing, Pressed
  <2>2. Pressing(t)' = Pressing(t) /\ Pressed(t)' = Pressed(t)
    BY <1>4 DEF Pressing, Pressed
  <2>3. Piled(t)
    BY DEF PileInv
  <2>4. Cardinality(Alive(t)') + Cardinality(Ticking(t)')
          <= Cardinality(Alive(t)) + Cardinality(Ticking(t))
    <3>1. CASE t = u
      BY <1>5, <1>7, <2>1, <3>1
    <3>2. CASE t # u
      <4>1. Cardinality(Alive(t)') = Cardinality(Alive(t))
        BY <1>5, <3>2
      <4> QED
        BY <2>1, <4>1
    <3> QED
      BY <3>1, <3>2
  <2> HIDE DEF Pressing, Pressed
  <2> QED
    BY <2>1, <2>2, <2>3, <2>4 DEF Piled
<1> QED
  BY <1>3, <1>4, <1>8 DEF PileInv

\* backup_now has looked: a press is counted before its row is there.
LEMMA PressDecides ==
  ASSUME SchedInv, OneWorker, PileInv, NEW r \in Requests, BackupNowCheck(r)
  PROVE  PileInv'
<1>1. /\ UNCHANGED vars /\ UNCHANGED schedule /\ presses' = presses + 1 /\ presses \in Nat
      /\ reqPc' = [reqPc EXCEPT ![r] = "create"] /\ reqPc[r] = "idle"
  BY DEF BackupNowCheck, SchedInv, ScreenTypes
<1>2. QueueKept
  BY <1>1, QueueUntouched DEF vars, rows, InFlight, SchedInv, PileInv
<1>3. \A w \in Workers : tickPc'[w] # "off" => pc'[w] = "idle"
  BY <1>1 DEF PileInv, schedule, vars
<1>4. /\ Cardinality(Pressers') = Cardinality(Pressers) + 1
      /\ Cardinality(Pressers) \in Nat
  <2>1. Pressers' = Pressers \cup {r} /\ r \notin Pressers
    BY <1>1 DEF Pressers, SchedInv, ScreenTypes
  <2> QED
    BY <2>1, FiniteCounts, FS_AddElement
<1>5. ASSUME NEW t \in Recurring PROVE Piled(t)'
  <2>1. Alive(t)' = Alive(t) /\ Ticking(t)' = Ticking(t)
    BY <1>1 DEF Alive, Ticking, Around, InFlight, Holds, vars, rows, memory, schedule
  <2>2. Piled(t) /\ Cardinality(Alive(t)) \in Nat /\ Cardinality(Ticking(t)) \in Nat
    BY FiniteCounts DEF PileInv
  <2> QED
    BY <1>1, <1>4, <2>1, <2>2 DEF Piled, Pressing, Pressed
<1> QED
  BY <1>1, <1>2, <1>3, <1>4, <1>5 DEF PileInv, QueueKept

\* backup_now inserts.
LEMMA PressInserts ==
  ASSUME SchedInv, OneWorker, PileInv, NEW r \in Requests, BackupNowCreate(r)
  PROVE  PileInv'
<1>1. /\ UNCHANGED schedule /\ presses' = presses /\ presses \in Nat
      /\ reqPc' = [reqPc EXCEPT ![r] = "idle"] /\ reqPc[r] = "create"
  BY DEF BackupNowCreate, SchedInv, ScreenTypes
<1>2. PICK u \in Manual : Create(u)
  BY DEF BackupNowCreate
<1>3. UNCHANGED <<pc, todo, batch, current>>
  BY <1>2 DEF Create, memory
<1>4. \A v \in Workers : AtRest(v)' /\ (tickPc'[v] # "off" => pc'[v] = "idle")
  BY <1>1, <1>3 DEF PileInv, AtRest, schedule
<1>5. /\ Cardinality(Pressers') = Cardinality(Pressers) - 1
      /\ Cardinality(Pressers) \in Nat /\ Cardinality(Pressers') \in Nat
  <2>1. Pressers' = Pressers \ {r} /\ r \in Pressers
    BY <1>1 DEF Pressers, SchedInv, ScreenTypes
  <2> QED
    BY <2>1, FiniteCounts, FS_RemoveElement, FS_CardinalityType
<1>6. /\ Cardinality(Alive(u)') <= Cardinality(Alive(u)) + 1
      /\ \A t : t # u => Alive(t)' = Alive(t)
  BY <1>2, CreateAddsOne DEF SchedInv
<1>7. ASSUME NEW t \in Recurring PROVE Piled(t)'
  <2>1. Ticking(t)' = Ticking(t)
    BY <1>1 DEF Ticking, schedule
  <2>2. /\ Piled(t) /\ Cardinality(Alive(t)) \in Nat /\ Cardinality(Ticking(t)) \in Nat
        /\ Cardinality(Alive(t)') \in Nat
    <3>1. IsFiniteSet(Alive(t)')
      BY FS_Subset, JobSchedulerAssumption DEF Alive
    <3> QED
      BY <3>1, FiniteCounts, FS_CardinalityType DEF PileInv
  <2>3. CASE t = u
    BY <1>1, <1>2, <1>5, <1>6, <2>1, <2>2, <2>3 DEF Piled, Pressing, Pressed
  <2>4. CASE t # u
    BY <1>1, <1>5, <1>6, <2>1, <2>2, <2>4 DEF Piled, Pressing, Pressed
  <2> QED
    BY <2>3, <2>4
<1> QED
  BY <1>1, <1>4, <1>5, <1>7 DEF PileInv

LEMMA PileStep ==
  ASSUME SchedInv, OneWorker, PileInv, [SchedNext]_schedVars
  PROVE  PileInv'
<1>0. /\ TypeInv /\ \A w \in Workers : AtRest(w)
      /\ \A w \in Workers : tickPc[w] # "off" => pc[w] = "idle"
      /\ tickPc \in [Workers -> TickPhase] /\ tickType \in [Workers -> Recurring \cup {NoType}]
      /\ reqPc \in [Requests -> {"idle", "create", "offered", "stop"}]
      /\ pc \in [Workers -> Phase]
  BY DEF SchedInv, TypeInv, TypeOK, TickTypes, ScreenTypes, PileInv
<1>a. ASSUME UNCHANGED vars PROVE QueueKept
  BY <1>0, <1>a, QueueUntouched DEF vars, rows, InFlight
<1>1. CASE UNCHANGED schedVars
  BY <1>0, <1>1, <1>a, QuietStep DEF schedVars, vars, schedule, screen
<1>2. ASSUME Clock PROVE PileInv'
  <2>1. ASSUME NEW j \in Jobs, BackoffElapses(j) \/ LockAges(j), UNCHANGED <<schedule, screen>>
        PROVE  PileInv'
    <3>1. QueueKept
      BY <1>0, <2>1, QueueUntouched DEF BackoffElapses, LockAges, memory, InFlight
    <3> QED
      BY <1>0, <2>1, <3>1, QuietStep DEF BackoffElapses, LockAges, schedule, screen
  <2>2. ASSUME NEW w \in Workers, MinutePasses(w) PROVE PileInv'
    BY <1>0, <2>2, <1>a, QuietStep DEF MinutePasses, vars, screen
  <2>3. ASSUME NEW t \in Recurring, IntervalElapses(t) PROVE PileInv'
    BY <1>0, <2>3, <1>a, QuietStep DEF IntervalElapses, vars, screen
  <2> QED
    BY <1>2, <2>1, <2>2, <2>3 DEF Clock
<1>3. ASSUME NEW w \in Workers, Loop(w) PROVE PileInv'
  <2>1. CASE BeginDrain(w)
    <3>1. QueueKept
      BY <1>0, <2>1, WorkerKeepsQueue DEF BeginDrain, WorkerStep
    <3>2. /\ \A v \in Workers : tickPc'[v] # "off" => pc'[v] = "idle"
          /\ \A v \in Workers : tickPc'[v] = "create" =>
                                 tickPc[v] = "create" /\ tickType'[v] = tickType[v]
      BY <1>0, <2>1 DEF BeginDrain, SelectStalled
    <3> QED
      BY <2>1, <3>1, <3>2, QuietStep DEF BeginDrain, screen
  <2>2. CASE DrainStep(w)
    <3>1. QueueKept
      BY <1>0, <2>2, WorkerKeepsQueue DEF DrainStep
    <3>2. \A v \in Workers : v # w => FALSE
      BY DEF OneWorker
    <3>3. tickPc[w] = "off"
      BY <1>0, <2>2 DEF DrainStep
    <3>4. tickPc'[w] = "off"
      BY <1>0, <2>2, <3>3 DEF DrainStep, ForgetTick, schedule
    <3> QED
      BY <2>2, <3>1, <3>2, <3>4, QuietStep DEF DrainStep, screen
  <2>3. CASE TickStart(w)
    BY <1>0, <2>3, <1>a, QuietStep DEF TickStart, vars, screen
  <2>4. ASSUME NEW t \in Recurring, TickDue(w, t) PROVE PileInv'
    <3>1. /\ \A v \in Workers : tickPc'[v] # "off" => pc'[v] = "idle"
          /\ \A v \in Workers : tickPc'[v] = "create" =>
                                 tickPc[v] = "create" /\ tickType'[v] = tickType[v]
      BY <1>0, <2>4 DEF TickDue, vars, OneWorker
    <3> QED
      BY <2>4, <3>1, <1>a, QuietStep DEF TickDue, vars, screen
  <2>5. CASE TickExists(w)
    BY <2>5, TickDecides
  <2>6. CASE TickCreate(w)
    BY <2>6, TickInserts
  <2>7. CASE TickStamp(w)
    BY <1>0, <2>7, <1>a, QuietStep DEF TickStamp, vars, screen, OneWorker
  <2>8. CASE TickReturns(w)
    BY <1>0, <2>8, <1>a, QuietStep DEF TickReturns, vars, screen
  <2> QED
    BY <1>3, <2>1, <2>2, <2>3, <2>4, <2>5, <2>6, <2>7, <2>8 DEF Loop, TickStep
<1>4. ASSUME NEW w \in Workers, LoopCrash(w) PROVE PileInv'
  <2>1. QueueKept
    BY <1>0, <1>4, WorkerKeepsQueue DEF LoopCrash
  <2>2. /\ \A v \in Workers : tickPc'[v] # "off" => pc'[v] = "idle"
        /\ \A v \in Workers : tickPc'[v] # "create"
    BY <1>0, <1>4 DEF LoopCrash, ForgetTick, OneWorker
  <2> QED
    BY <1>4, <2>1, <2>2, QuietStep DEF LoopCrash, screen
<1>5. ASSUME NEW w \in Workers, LoopRestart(w) PROVE PileInv'
  <2>1. QueueKept
    BY <1>0, <1>5, WorkerKeepsQueue DEF LoopRestart
  <2> QED
    BY <1>0, <1>5, <2>1, QuietStep DEF LoopRestart, Restart, schedule, screen
<1>6. ASSUME NEW r \in Requests, BackupsPage(r) \/ BackupStopRead(r) PROVE PileInv'
  <2>1. UNCHANGED vars /\ UNCHANGED schedule /\ presses' = presses
    BY <1>6 DEF BackupsPage, BackupStopRead
  <2>2. \A q \in Requests : reqPc'[q] = "create" <=> reqPc[q] = "create"
    BY <1>0, <1>6 DEF BackupsPage, BackupStopRead
  <2> QED
    BY <1>0, <2>1, <2>2, <1>a, QuietStep DEF vars, schedule
<1>7. ASSUME NEW r \in Requests, BackupStopSave(r) PROVE PileInv'
  <2>1. /\ Save(reqJob[r], "failed", attempts[reqJob[r]], FALSE)
        /\ UNCHANGED <<pc, memory, schedule, presses>>
        /\ reqPc[r] = "stop" /\ reqPc' = [reqPc EXCEPT ![r] = "idle"]
    BY <1>7 DEF BackupStopSave
  <2>2. \A j \in Jobs : InFlight(j)' => InFlight(j)
    BY <1>0, <2>1 DEF Save, InFlight, TypeInv, TypeOK
  <2>3. QueueKept
    BY <1>0, <2>1, <2>2, QueueUntouched
  <2> QED
    BY <1>0, <2>1, <2>3, QuietStep DEF schedule
<1> QED
  BY <1>1, <1>2, <1>3, <1>4, <1>5, <1>6, <1>7, PressDecides, PressInserts DEF SchedNext, BackupStop

\* What is in flight is about, and who is about to insert is a tick or a press.
LEMMA PileMeansBounded ==
  ASSUME SchedInv, OneWorker, PileInv
  PROVE  BoundedPileUp
<1> SUFFICES ASSUME NEW t \in Recurring
             PROVE  Cardinality(InFlightOf(t)) + Cardinality(Enqueuers(t))
                      <= 1 + (IF t \in Manual THEN presses ELSE 0)
  BY DEF BoundedPileUp
<1>1. InFlightOf(t) \subseteq Alive(t)
  BY DEF InFlightOf, Alive, Around
<1>2. Cardinality(InFlightOf(t)) <= Cardinality(Alive(t)) /\ Cardinality(InFlightOf(t)) \in Nat
  BY <1>1, FiniteCounts, FS_Subset, FS_CardinalityType
<1>3. /\ Cardinality(Alive(t)) \in Nat /\ Cardinality(Ticking(t)) \in Nat
      /\ Cardinality(Pressers) \in Nat /\ presses \in Nat
  BY FiniteCounts DEF SchedInv, ScreenTypes
<1>4. Cardinality(Enqueuers(t)) <= Cardinality(Ticking(t)) + Pressing(t)
      /\ Cardinality(Enqueuers(t)) \in Nat
  <2>1. CASE t \notin Manual
    <3>1. Enqueuers(t) = Ticking(t)
      BY <2>1 DEF Enqueuers, Ticking
    <3> QED
      BY <1>3, <2>1, <3>1 DEF Pressing
  <2>2. CASE t \in Manual /\ Ticking(t) = {}
    <3>1. Enqueuers(t) = Pressers
      BY <2>2 DEF Enqueuers, Ticking, Pressers
    <3> QED
      BY <1>3, <2>2, <3>1, FS_EmptySet DEF Pressing
  <2>3. ASSUME t \in Manual, NEW w \in Workers, w \in Ticking(t)
        PROVE  Cardinality(Enqueuers(t)) <= Cardinality(Ticking(t)) + Pressing(t)
               /\ Cardinality(Enqueuers(t)) \in Nat
    <3>1. Enqueuers(t) = Pressers \cup {w}
      BY <2>3 DEF Enqueuers, Ticking, Pressers, OneWorker
    <3>2. Cardinality(Ticking(t)) = 1
      BY <2>3, FiniteCounts
    <3>3. Cardinality(Pressers \cup {w}) \in {Cardinality(Pressers), Cardinality(Pressers) + 1}
      BY FiniteCounts, FS_AddElement
    <3> QED
      BY <1>3, <2>3, <3>1, <3>2, <3>3 DEF Pressing
  <2> QED
    BY <2>1, <2>2, <2>3 DEF Ticking
<1>5. Piled(t)
  BY DEF PileInv
<1>6. Pressing(t) \in Nat /\ Pressed(t) \in Nat
  BY <1>3 DEF Pressing, Pressed
<1>7. Pressed(t) = IF t \in Manual THEN presses ELSE 0
  BY DEF Pressed
<1> QED
  BY <1>2, <1>3, <1>4, <1>5, <1>6, <1>7 DEF Piled

\* What the guard of an enqueue gives where one worker runs, for any number of rows, types,
\* operators and presses: deaths, restarts, giving up and late saves included, a type only
\* tick() enqueues is in flight once, and one of the backups screen once more than was
\* pressed.
THEOREM OneWorkerBoundsPileUp ==
  ASSUME \A v, w \in Workers : v = w
  PROVE  SchedSpec => []BoundedPileUp
<1>0. OneWorker
  BY DEF OneWorker
<1>1. SchedInit => SchedInv /\ PileInv
  BY <1>0, SchedInitTypes, PileStart
<1>2. SchedInv /\ PileInv /\ [SchedNext]_schedVars => (SchedInv /\ PileInv)'
  BY <1>0, SchedStepTypes, PileStep
<1>3. SchedInv /\ PileInv => BoundedPileUp
  BY <1>0, PileMeansBounded
<1> QED
  BY <1>1, <1>2, <1>3, PTL DEF SchedSpec
=============================================================================
