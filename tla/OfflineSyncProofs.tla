------------------------- MODULE OfflineSyncProofs -------------------------
(***************************************************************************)
(* What holds of the offline queue for any writes, tabs, workers, edits by *)
(* others and failures.                                                    *)
(*                                                                         *)
(* NothingLost rests on the order in which the browser deletes: STORE only *)
(* after a true answer or after CONFLICTS, CONFLICTS only after STORE.     *)
(* NoteLandsOnce rests on the client's id being the primary key of the     *)
(* insert.  KeepMineMovesOn rests on a refusal of a job item naming either *)
(* no revision or one later than the one refused, wherever the answer is   *)
(* by then: with the worker, the tab, the conflict list or the operator's  *)
(* click.                                                                  *)
(***************************************************************************)
EXTENDS OfflineSync, TLAPS

\* The inspector's click is about a write.
HandHoldsWrite == hand.does # "free" => hand.write \in Writes

Typed == OffTypeOK /\ HandHoldsWrite

LEMMA TypedInit == OffInit => Typed
BY OfflineAssumption
   DEF OffInit, Typed, OffTypeOK, HandHoldsWrite, NoResult, FreeHand, Phase, Status, Doing, Hand, Ops

\* The revision with which mine is kept.
Resent == IF hand.revision # 0 THEN hand.revision ELSE rev[hand.write]

\* The types of a result list after an answer to one item.
LEMMA ReportTyped ==
  ASSUME NEW c \in Calls, NEW w \in Writes, NEW s \in Status, NEW n \in Nat,
         OffTypeOK, Report(c, w, s, n)
  PROVE  /\ results' \in [Calls -> [Writes -> [status : Status, revision : Nat]]]
         /\ todo' \in [Calls -> SUBSET Writes]
         /\ doing' \in [Calls -> Doing]
         /\ caller' \in [Calls -> Tabs \cup {NoTab}]
BY DEF OffTypeOK, Report, Doing

\* The types of the entries after an enqueue.
LEMMA EnqueueTyped ==
  ASSUME OffTypeOK, NEW what \in Ops \cup {"none"}, NEW revision \in Nat,
         NEW old \in Writes \cup {NoWrite}, Enqueue(what, revision, old)
  PROVE  /\ op' \in [Writes -> Ops \cup {"none"}]
         /\ rev' \in [Writes -> Nat]
         /\ from' \in [Writes -> Writes \cup {NoWrite}]
         /\ queue' \subseteq Writes
BY DEF OffTypeOK, Enqueue

\* The types of what a tab keeps of a batch after an item is settled.
LEMMA SettledTyped ==
  ASSUME OffTypeOK, NEW t \in Tabs, NEW w \in Writes, Settled(t, w)
  PROVE  /\ queue' \subseteq Writes
         /\ phase' \in [Tabs -> Phase]
         /\ batch' \in [Tabs -> SUBSET Writes]
         /\ filed' \in [Tabs -> SUBSET Writes]
         /\ result' \in [Tabs -> [Writes -> [status : Status, revision : Nat]]]
<1>1. queue' \subseteq Writes /\ batch' \in [Tabs -> SUBSET Writes] /\ filed' \in [Tabs -> SUBSET Writes]
  BY DEF OffTypeOK, Settled
<1>2. NoResult \in [Writes -> [status : Status, revision : Nat]]
  BY DEF NoResult, Status
<1>3. phase' \in [Tabs -> Phase] /\ result' \in [Tabs -> [Writes -> [status : Status, revision : Nat]]]
  <2>. /\ phase \in [Tabs -> Phase]
       /\ result \in [Tabs -> [Writes -> [status : Status, revision : Nat]]]
    BY DEF OffTypeOK
  <2>1. CASE batch[t] = {w}
    <3>1. phase' = [phase EXCEPT ![t] = "idle"] /\ result' = [result EXCEPT ![t] = NoResult]
      BY <2>1 DEF Settled
    <3> QED
      BY <1>2, <3>1 DEF Phase
  <2>2. CASE batch[t] # {w}
    BY <2>2 DEF Settled
  <2> QED
    BY <2>1, <2>2
<1> QED
  BY <1>1, <1>3

LEMMA TypedStep == Typed /\ [OffNext]_offVars => Typed'
<1>1. SUFFICES ASSUME Typed, [OffNext]_offVars PROVE Typed'
  OBVIOUS
<1>. USE OfflineAssumption DEF Typed, OffTypeOK, HandHoldsWrite
<1>2. CASE UNCHANGED offVars
  BY <1>1, <1>2 DEF offVars, browser, store, entries, drainer, calls, tables
<1>3. CASE Capture
  <2>1. PICK what \in Ops, revision \in Nat : Enqueue(what, revision, NoWrite)
    BY <1>1, <1>3 DEF Capture
  <2> QED
    BY <1>1, <1>3, <2>1, EnqueueTyped DEF Capture, drainer, calls, tables
<1>4. CASE KeepMine
  <2>1. hand.write \in Writes /\ hand.revision \in Nat
    BY <1>1, <1>4 DEF KeepMine
  <2>2. op[hand.write] \in Ops \cup {"none"} /\ Resent \in Nat
    BY <1>1, <2>1 DEF Resent
  <2>3. Enqueue(op[hand.write], Resent, hand.write)
    BY <1>4 DEF KeepMine, Resent
  <2>4. /\ op' \in [Writes -> Ops \cup {"none"}]
        /\ rev' \in [Writes -> Nat]
        /\ from' \in [Writes -> Writes \cup {NoWrite}]
        /\ queue' \subseteq Writes
    BY <1>1, <2>1, <2>2, <2>3, EnqueueTyped
  <2>5. hand' \in [does : Hand, tab : Tabs \cup {NoTab}, write : Writes \cup {NoWrite},
                   revision : Nat, keep : BOOLEAN] /\ hand'.does = "free"
    BY <1>4 DEF KeepMine, FreeHand, Hand
  <2> QED
    BY <1>1, <1>4, <2>4, <2>5 DEF KeepMine, drainer, calls, tables
<1>5. CASE Clear
  BY <1>1, <1>5 DEF Clear, FreeHand, Hand, entries, drainer, calls, tables
<1>6. CASE JobEdited
  BY <1>1, <1>6 DEF JobEdited, Fault, browser, store, entries, drainer, calls, tables
<1>16. ASSUME NEW what \in Ops, Deleted(what) \/ Restored(what) PROVE Typed'
  <2>1. gone' \subseteq Ops /\ jobRev' \in Nat /\ faults' \in Nat
    BY <1>1, <1>16 DEF Deleted, Restored, Fault
  <2>2. UNCHANGED <<browser, calls, named, rows>>
    BY <1>16 DEF Deleted, Restored
  <2> QED
    BY <1>1, <2>1, <2>2 DEF browser, store, entries, drainer, calls
<1>7. ASSUME NEW t \in Tabs, NEW c \in Calls, Drain(t, c) PROVE Typed'
  BY <1>1, <1>7 DEF Drain, Phase, Doing, store, entries, drainer, calls, tables
<1>8. ASSUME NEW t \in Tabs, FetchFails(t) PROVE Typed'
  BY <1>1, <1>8 DEF FetchFails, Abandon, NoResult, Status, Fault, Phase, Doing, store, entries, drainer, calls, tables
<1>9. ASSUME NEW t \in Tabs, NEW w \in Writes, SettleTaken(t, w) \/ SettleMoved(t, w)
      PROVE Typed'
  BY <1>1, <1>9, SettledTyped DEF SettleTaken, SettleMoved, entries, calls, tables
<1>15. ASSUME NEW t \in Tabs, NEW w \in Writes, SettleFile(t, w) PROVE Typed'
  <2>1. result[t][w].revision \in Nat
    BY <1>1
  <2> QED
    BY <1>1, <1>15, <2>1 DEF SettleFile, entries, calls, tables
<1>10. ASSUME NEW t \in Tabs, CloseTab(t) PROVE Typed'
  BY <1>1, <1>10 DEF CloseTab, Abandon, NoResult, FreeHand, Hand, Status, Fault, Phase, store, entries, drainer, calls, tables
<1>11. ASSUME NEW t \in Tabs, NEW w \in Writes, NEW keep \in BOOLEAN, Press(t, w, keep) PROVE Typed'
  BY <1>1, <1>11 DEF Press, Hand, entries, drainer, calls, tables
<1>12. ASSUME NEW c \in Calls, CallDies(c) PROVE Typed'
  BY <1>1, <1>12 DEF CallDies, NoResult, Status, Fault, Phase, Doing, store, entries, drainer, calls, tables
<1>13. ASSUME NEW c \in Calls, Answer(c) PROVE Typed'
  <2>1. NoResult \in [Writes -> [status : Status, revision : Nat]]
    BY DEF NoResult, Status
  <2>2. /\ results' \in [Calls -> [Writes -> [status : Status, revision : Nat]]]
        /\ doing' \in [Calls -> Doing]
        /\ caller' \in [Calls -> Tabs \cup {NoTab}]
    BY <1>1, <1>13, <2>1 DEF Answer, Doing
  <2>3. /\ phase' \in [Tabs -> Phase]
        /\ batch' \in [Tabs -> SUBSET Writes]
        /\ result' \in [Tabs -> [Writes -> [status : Status, revision : Nat]]]
    <3>1. CASE caller[c] = NoTab
      BY <1>1, <1>13, <3>1 DEF Answer
    <3>2. CASE caller[c] # NoTab
      <4>1. /\ phase' = [phase EXCEPT ![caller[c]] = "settling"]
            /\ result' = [result EXCEPT ![caller[c]] = results[c]]
            /\ batch' = [batch EXCEPT ![caller[c]] = {w \in @ : results[c][w].status # "none"}]
        BY <1>13, <3>2 DEF Answer
      <4>2. results[c] \in [Writes -> [status : Status, revision : Nat]]
        BY <1>1
      <4> QED
        BY <1>1, <4>1, <4>2 DEF Phase
    <3> QED
      BY <3>1, <3>2
  <2> QED
    BY <1>1, <1>13, <2>2, <2>3 DEF Answer, store, entries, tables
<1>14. ASSUME NEW c \in Calls, NEW w \in Writes,
              LookUp(c, w) \/ RecordReading(c, w) \/ NameReading(c, w)
                \/ InsertNote(c, w) \/ CheckRevision(c, w) \/ WriteJob(c, w)
       PROVE  Typed'
  <2>1. \/ \E s \in Status, n \in Nat : Report(c, w, s, n)
        \/ \E d \in Doing : GoOn(c, d)
    BY <1>1, <1>14
       DEF LookUp, NotFound, RecordReading, NameReading, InsertNote, CheckRevision, WriteJob, Status, Doing
  <2>2. /\ results' \in [Calls -> [Writes -> [status : Status, revision : Nat]]]
        /\ todo' \in [Calls -> SUBSET Writes]
        /\ doing' \in [Calls -> Doing]
        /\ caller' \in [Calls -> Tabs \cup {NoTab}]
    <3>1. ASSUME NEW d \in Doing, GoOn(c, d) PROVE doing' \in [Calls -> Doing] /\ UNCHANGED <<todo, results, caller>>
      BY <1>1, <3>1 DEF GoOn
    <3> QED
      BY <1>1, <2>1, <3>1, ReportTyped
  <2>3. named' \subseteq Writes /\ rows' \in [Writes -> Nat] /\ jobRev' \in Nat /\ gone' \subseteq Ops
    <3>1. CASE LookUp(c, w) \/ CheckRevision(c, w)
      BY <1>1, <3>1 DEF LookUp, CheckRevision, tables
    <3>2. CASE RecordReading(c, w)
      BY <1>1, <3>2 DEF RecordReading
    <3>3. CASE WriteJob(c, w)
      BY <1>1, <3>3 DEF WriteJob
    <3>4. CASE NameReading(c, w)
      BY <1>1, <3>4 DEF NameReading
    <3>5. CASE InsertNote(c, w)
      <4>1. CASE w \in named
        BY <1>1, <3>5, <4>1 DEF InsertNote
      <4>2. CASE w \notin named
        <5>1. /\ named' = named \cup {w}
              /\ rows' = [rows EXCEPT ![w] = @ + 1]
              /\ jobRev' = jobRev /\ gone' = gone
          BY <3>5, <4>2 DEF InsertNote
        <5> QED
          BY <1>1, <5>1
      <4> QED
        BY <4>1, <4>2
    <3> QED
      BY <1>14, <3>1, <3>2, <3>3, <3>4, <3>5
  <2>4. UNCHANGED <<browser, faults>>
    BY <1>14 DEF LookUp, RecordReading, NameReading, InsertNote, CheckRevision, WriteJob, Elsewhere
  <2> QED
    BY <1>1, <2>2, <2>3, <2>4 DEF browser, store, entries, drainer
<1> QED
  BY <1>1, <1>2, <1>3, <1>4, <1>5, <1>6, <1>7, <1>8, <1>9, <1>10, <1>11, <1>12, <1>13, <1>14, <1>15, <1>16
     DEF OffNext, SettleStep, ServerStep

\* Every part of the queue keeps its type, whatever the tabs, the workers and
\* the faults are.
THEOREM OffTypeCorrect == OffSpec => []OffTypeOK
<1>1. OffTypeOK /\ HandHoldsWrite => OffTypeOK
  OBVIOUS
<1> QED
  BY TypedInit, TypedStep, PTL DEF OffSpec, Typed

-----------------------------------------------------------------------------
(* Nothing captured is lost.                                               *)

\* Whoever is told that a write is taken is told the truth, the moment of the
\* answer or any later one.
TrueAnswers ==
  /\ \A c \in Calls, w \in Writes : results[c][w].status = "ok" => w \in Landed
  /\ \A t \in Tabs, w \in Writes : result[t][w].status = "ok" => w \in Landed

\* A row under a client's id exists, and so does one about to be renamed.
RowsExist ==
  /\ named \subseteq Landed
  /\ \A c \in Calls, w \in Writes : AtItem(c, w, "naming") => w \in Landed

\* What a tab is about to delete from STORE is in CONFLICTS, or was let go; what
\* the inspector is about to delete from CONFLICTS was let go.
ClearedLast ==
  /\ \A t \in Tabs : filed[t] \subseteq conflicts \cup dropped
  /\ hand.does = "clearing" => hand.write \in dropped

Kept == NothingLost /\ TrueAnswers /\ RowsExist /\ ClearedLast

LEMMA KeptInit == OffInit => Kept
BY DEF OffInit, Kept, NothingLost, TrueAnswers, RowsExist, ClearedLast, NoResult, FreeHand, AtItem,
       Captured, Landed

\* Something is deleted or restored.
Trashing == \E what \in Ops : Deleted(what) \/ Restored(what)

\* Rows are written, never taken away.
LEMMA LandedGrows == Typed /\ [OffNext]_offVars => Landed \subseteq Landed'
<1>1. SUFFICES ASSUME Typed, [OffNext]_offVars PROVE Landed \subseteq Landed'
  OBVIOUS
<1>. rows \in [Writes -> Nat]
  BY <1>1 DEF Typed, OffTypeOK
<1>2. CASE UNCHANGED rows
  BY <1>2 DEF Landed
<1>3. ASSUME NEW w \in Writes, rows' = [rows EXCEPT ![w] = @ + 1] PROVE Landed \subseteq Landed'
  BY <1>3 DEF Landed
<1>4. ASSUME NEW t \in Tabs PROVE
        /\ SettleStep(t) \/ FetchFails(t) \/ CloseTab(t) => UNCHANGED rows
        /\ \A c \in Calls : Drain(t, c) => UNCHANGED rows
        /\ \A w \in Writes, keep \in BOOLEAN : Press(t, w, keep) => UNCHANGED rows
  BY DEF SettleStep, SettleTaken, SettleFile, SettleMoved, FetchFails, CloseTab, Drain, Press, tables
<1>5. Capture \/ Clear \/ KeepMine \/ JobEdited \/ Trashing \/ UNCHANGED offVars => UNCHANGED rows
  BY DEF Capture, Clear, KeepMine, JobEdited, Trashing, Deleted, Restored, offVars, tables
<1>6. ASSUME NEW c \in Calls PROVE
        /\ Answer(c) \/ CallDies(c) => UNCHANGED rows
        /\ \A w \in Writes : LookUp(c, w) \/ NameReading(c, w) \/ CheckRevision(c, w) => UNCHANGED rows
        /\ \A w \in Writes : RecordReading(c, w) \/ InsertNote(c, w) \/ WriteJob(c, w)
             => UNCHANGED rows \/ rows' = [rows EXCEPT ![w] = @ + 1]
  BY DEF Answer, CallDies, LookUp, NameReading, CheckRevision, RecordReading, InsertNote, WriteJob, tables
<1> QED
  BY <1>1, <1>2, <1>3, <1>4, <1>5, <1>6 DEF OffNext, ServerStep, Trashing

\* An enqueue captures at most the write it puts in STORE.
LEMMA EnqueueWaits ==
  ASSUME Typed, NEW what, NEW revision, NEW old, Enqueue(what, revision, old)
  PROVE  \E w \in Writes : queue' = queue \cup {w} /\ Captured' \subseteq Captured \cup {w}
BY DEF Typed, OffTypeOK, Enqueue, Captured

LEMMA NoResultIsNone == \A w \in Writes : NoResult[w].status = "none"
BY DEF NoResult

LEMMA KeptStep == Typed /\ Kept /\ [OffNext]_offVars => Kept'
<1>1. SUFFICES ASSUME Typed, Kept, [OffNext]_offVars PROVE Kept'
  OBVIOUS
<1>2. Landed \subseteq Landed'
  BY <1>1, LandedGrows
<1>. USE <1>2 DEF Kept
<1>3. CASE UNCHANGED offVars
  BY <1>1, <1>3 DEF offVars, browser, store, entries, drainer, calls, tables, NothingLost, TrueAnswers,
       RowsExist, ClearedLast, AtItem, Captured, Landed
<1>4. CASE Capture \/ KeepMine
  <2>1. PICK w \in Writes : queue' = queue \cup {w} /\ Captured' \subseteq Captured \cup {w}
    BY <1>1, <1>4, EnqueueWaits DEF Capture, KeepMine
  <2>2. NothingLost'
    BY <1>1, <1>4, <2>1 DEF NothingLost, Capture, KeepMine
  <2>3. TrueAnswers' /\ RowsExist'
    BY <1>1, <1>4 DEF Capture, KeepMine, TrueAnswers, RowsExist, AtItem, calls, drainer, tables
  <2>4. ClearedLast'
    BY <1>1, <1>4 DEF Capture, KeepMine, ClearedLast, FreeHand, drainer
  <2> QED
    BY <2>2, <2>3, <2>4
<1>5. CASE Clear
  <2>1. NothingLost' /\ ClearedLast'
    BY <1>1, <1>5 DEF Clear, NothingLost, ClearedLast, Captured, entries, drainer, FreeHand
  <2>2. TrueAnswers' /\ RowsExist'
    BY <1>1, <1>5 DEF Clear, TrueAnswers, RowsExist, AtItem, calls, drainer, tables
  <2> QED
    BY <2>1, <2>2
<1>6. ASSUME NEW t \in Tabs, NEW w \in Writes, NEW keep \in BOOLEAN, Press(t, w, keep) PROVE Kept'
  <2>1. NothingLost'
    BY <1>1, <1>6 DEF Press, NothingLost, Captured, entries
  <2>2. ClearedLast'
    BY <1>1, <1>6 DEF Press, ClearedLast, drainer
  <2>3. TrueAnswers' /\ RowsExist'
    BY <1>1, <1>6 DEF Press, TrueAnswers, RowsExist, AtItem, calls, drainer, tables
  <2> QED
    BY <2>1, <2>2, <2>3
<1>7. CASE JobEdited \/ Trashing
  BY <1>1, <1>7 DEF JobEdited, Trashing, Deleted, Restored, browser, store, entries, drainer, calls, NothingLost, TrueAnswers,
       RowsExist, ClearedLast, AtItem, Captured, Landed
<1>8. ASSUME NEW t \in Tabs, NEW w \in Writes, SettleTaken(t, w) \/ SettleMoved(t, w) PROVE Kept'
  <2>1. w \in Landed \cup conflicts \cup dropped
    BY <1>1, <1>8 DEF SettleTaken, SettleMoved, TrueAnswers, ClearedLast
  <2>2. /\ queue' = queue \ {w}
        /\ filed' = [filed EXCEPT ![t] = @ \ {w}]
        /\ result' = result \/ result' = [result EXCEPT ![t] = NoResult]
        /\ UNCHANGED <<conflicts, entries, theirs, dropped, hand, calls, tables, faults>>
    BY <1>8 DEF SettleTaken, SettleMoved, Settled
  <2>3. NothingLost'
    BY <1>1, <2>1, <2>2 DEF NothingLost, Captured, entries
  <2>4. ClearedLast'
    BY <1>1, <2>2 DEF ClearedLast, Typed, OffTypeOK
  <2>5. RowsExist'
    BY <1>1, <2>2 DEF RowsExist, AtItem, calls, tables
  <2>6. TrueAnswers'
    BY <1>1, <2>2, NoResultIsNone DEF TrueAnswers, calls, Typed, OffTypeOK
  <2> QED
    BY <2>3, <2>4, <2>5, <2>6
<1>9. ASSUME NEW t \in Tabs, NEW w \in Writes, SettleFile(t, w) PROVE Kept'
  <2>1. NothingLost'
    BY <1>1, <1>9 DEF SettleFile, NothingLost, Captured, entries
  <2>2. ClearedLast'
    BY <1>1, <1>9 DEF SettleFile, ClearedLast, Typed, OffTypeOK
  <2>3. TrueAnswers' /\ RowsExist'
    BY <1>1, <1>9 DEF SettleFile, TrueAnswers, RowsExist, AtItem, calls, tables
  <2> QED
    BY <2>1, <2>2, <2>3
<1>10. ASSUME NEW t \in Tabs, NEW c \in Calls, Drain(t, c) PROVE Kept'
  <2>1. NothingLost' /\ ClearedLast'
    BY <1>1, <1>10 DEF Drain, NothingLost, ClearedLast, Captured, store, entries
  <2>2. TrueAnswers' /\ RowsExist'
    BY <1>1, <1>10 DEF Drain, TrueAnswers, RowsExist, AtItem, tables, Typed, OffTypeOK
  <2> QED
    BY <2>1, <2>2
<1>11. ASSUME NEW t \in Tabs, FetchFails(t) \/ CloseTab(t) PROVE Kept'
  <2>1. NothingLost'
    BY <1>1, <1>11 DEF FetchFails, CloseTab, NothingLost, Captured, store, entries
  <2>2. ClearedLast'
    BY <1>1, <1>11 DEF FetchFails, CloseTab, ClearedLast, store, FreeHand, Typed, OffTypeOK
  <2>3. RowsExist'
    BY <1>1, <1>11 DEF FetchFails, CloseTab, RowsExist, AtItem, tables
  <2>4. /\ results' = [d \in Calls |-> IF caller[d] = t THEN NoResult ELSE results[d]]
        /\ result' = result \/ result' = [result EXCEPT ![t] = NoResult]
    BY <1>11 DEF FetchFails, CloseTab, Abandon
  <2>5. TrueAnswers'
    BY <1>1, <2>4, NoResultIsNone DEF TrueAnswers, Typed, OffTypeOK
  <2> QED
    BY <2>1, <2>2, <2>3, <2>5
<1>12. ASSUME NEW c \in Calls, CallDies(c) PROVE Kept'
  <2>1. NothingLost' /\ ClearedLast'
    BY <1>1, <1>12 DEF CallDies, NothingLost, ClearedLast, Captured, store, entries
  <2>2. TrueAnswers' /\ RowsExist'
    BY <1>1, <1>12 DEF CallDies, TrueAnswers, RowsExist, AtItem, tables, NoResult, Typed, OffTypeOK
  <2> QED
    BY <2>1, <2>2
<1>13. ASSUME NEW c \in Calls, Answer(c) PROVE Kept'
  <2>1. NothingLost' /\ ClearedLast'
    BY <1>1, <1>13 DEF Answer, NothingLost, ClearedLast, Captured, store, entries
  <2>2. RowsExist'
    BY <1>1, <1>13 DEF Answer, RowsExist, AtItem, tables, Typed, OffTypeOK
  <2>3. /\ results' = [results EXCEPT ![c] = NoResult]
        /\ result' = result \/ result' = [result EXCEPT ![caller[c]] = results[c]]
    BY <1>13 DEF Answer
  <2>4. TrueAnswers'
    BY <1>1, <2>3 DEF TrueAnswers, NoResult, Typed, OffTypeOK
  <2> QED
    BY <2>1, <2>2, <2>4
<1>14. ASSUME NEW c \in Calls, NEW w \in Writes,
              LookUp(c, w) \/ RecordReading(c, w) \/ NameReading(c, w)
                \/ InsertNote(c, w) \/ CheckRevision(c, w) \/ WriteJob(c, w)
       PROVE  Kept'
  <2>1. UNCHANGED <<browser, faults>>
    BY <1>14 DEF LookUp, RecordReading, NameReading, InsertNote, CheckRevision, WriteJob, Elsewhere
  <2>2. NothingLost' /\ ClearedLast'
    BY <1>1, <2>1 DEF NothingLost, ClearedLast, Captured, browser, store, entries, drainer
  <2>3. \/ \E s, n : Report(c, w, s, n) /\ (s = "ok" => w \in Landed')
        \/ \E d : GoOn(c, d)
    BY <1>1, <1>14
       DEF LookUp, NotFound, RecordReading, NameReading, InsertNote, CheckRevision, WriteJob, RowsExist,
           Landed, Typed, OffTypeOK
  <2>4. TrueAnswers'
    <3>1. ASSUME NEW d \in Calls, NEW v \in Writes, results'[d][v].status = "ok" PROVE v \in Landed'
      <4>1. CASE results' = results
        BY <1>1, <3>1, <4>1 DEF TrueAnswers
      <4>2. CASE \E s, n : /\ results' = [results EXCEPT ![c] = [results[c] EXCEPT ![w] = [status |-> s, revision |-> n]]]
                           /\ s = "ok" => w \in Landed'
        <5>1. PICK s, n : /\ results' = [results EXCEPT ![c] = [results[c] EXCEPT ![w] = [status |-> s, revision |-> n]]]
                          /\ s = "ok" => w \in Landed'
          BY <4>2
        <5>2. results \in [Calls -> [Writes -> [status : Status, revision : Nat]]]
          BY <1>1 DEF Typed, OffTypeOK
        <5>3. CASE d = c
          <6>1. results'[d] = [results[c] EXCEPT ![w] = [status |-> s, revision |-> n]]
            BY <5>1, <5>2, <5>3
          <6>2. results[c] \in [Writes -> [status : Status, revision : Nat]]
            BY <5>2
          <6>3. CASE v = w
            BY <3>1, <5>1, <6>1, <6>2, <6>3
          <6>4. CASE v # w
            BY <1>1, <3>1, <5>3, <6>1, <6>2, <6>4 DEF TrueAnswers
          <6> QED
            BY <6>3, <6>4
        <5>4. CASE d # c
          BY <1>1, <3>1, <5>1, <5>2, <5>4 DEF TrueAnswers
        <5> QED
          BY <5>3, <5>4
      <4>3. results \in [Calls -> [Writes -> [status : Status, revision : Nat]]]
        BY <1>1 DEF Typed, OffTypeOK
      <4> QED
        BY <2>3, <4>1, <4>2, <4>3 DEF Report, GoOn
    <3> QED
      BY <1>1, <2>1, <3>1 DEF TrueAnswers, browser, drainer
  <2>5. named' \subseteq Landed'
    BY <1>1, <1>14
       DEF LookUp, RecordReading, NameReading, InsertNote, CheckRevision, WriteJob, RowsExist, tables, Landed,
           Typed, OffTypeOK
  <2>6. ASSUME NEW d \in Calls, NEW v \in Writes, AtItem(d, v, "naming")' PROVE v \in Landed'
    <3>1. CASE d # c
      BY <1>1, <2>3, <2>6, <3>1 DEF Report, GoOn, AtItem, RowsExist, Typed, OffTypeOK
    <3>2. CASE d = c
      <4>1. doing'[c] = "naming" /\ FirstOf(v, todo'[c])
        BY <2>6, <3>2 DEF AtItem
      <4>2. RecordReading(c, w)
        BY <1>1, <1>14, <4>1
           DEF LookUp, NotFound, NameReading, InsertNote, CheckRevision, WriteJob, Report, GoOn, Typed,
               OffTypeOK
      <4>3. v = w
        BY <4>1, <4>2, OfflineAssumption DEF RecordReading, GoOn, AtItem, FirstOf
      <4> QED
        BY <1>1, <4>2, <4>3 DEF RecordReading, Landed, Typed, OffTypeOK
    <3> QED
      BY <3>1, <3>2
  <2> QED
    BY <2>2, <2>4, <2>5, <2>6 DEF RowsExist
<1> QED
  BY <1>1, <1>3, <1>4, <1>5, <1>6, <1>7, <1>8, <1>9, <1>10, <1>11, <1>12, <1>13, <1>14
     DEF OffNext, SettleStep, ServerStep, Trashing

\* Whatever fails, a write that was captured waits, or is in the conflict list,
\* or is on the server, or was let go by the operator.
THEOREM NothingLostHolds == OffSpec => []NothingLost
<1>1. Typed /\ Kept => NothingLost
  BY DEF Kept
<1> QED
  BY <1>1, TypedInit, TypedStep, KeptInit, KeptStep, PTL DEF OffSpec

-----------------------------------------------------------------------------
(* Only what was captured goes around.                                     *)

Known ==
  /\ queue \cup conflicts \subseteq Captured
  /\ \A t \in Tabs : batch[t] \subseteq Captured
  /\ \A c \in Calls : todo[c] \subseteq Captured
  /\ hand.does # "free" => hand.write \in Captured

LEMMA KnownInit == OffInit => Known
BY DEF OffInit, Known, FreeHand

\* An enqueue gives one uncaptured write an operation, and touches no other.
LEMMA EnqueueCaptures ==
  ASSUME Typed, NEW what \in Ops, NEW revision \in Nat, NEW old \in Writes \cup {NoWrite},
         Enqueue(what, revision, old)
  PROVE  \E w \in Writes \ Captured :
           /\ op' = [op EXCEPT ![w] = what]
           /\ rev' = [rev EXCEPT ![w] = revision]
           /\ from' = [from EXCEPT ![w] = old]
           /\ queue' = queue \cup {w}
           /\ Captured' = Captured \cup {w}
<1>1. PICK w \in Writes : /\ w \notin Captured
                          /\ op' = [op EXCEPT ![w] = what]
                          /\ rev' = [rev EXCEPT ![w] = revision]
                          /\ from' = [from EXCEPT ![w] = old]
                          /\ queue' = queue \cup {w}
  BY DEF Enqueue, FirstOf
<1>2. Captured' = Captured \cup {w}
  BY <1>1 DEF Captured, Ops, Typed, OffTypeOK
<1> QED
  BY <1>1, <1>2

\* What a capture or a retry enqueues.
LEMMA EnqueuedOp ==
  ASSUME Typed, Known, Capture \/ KeepMine
  PROVE  \/ \E what \in Ops, revision \in {0, jobRev} : Capture /\ Enqueue(what, revision, NoWrite)
         \/ /\ op[hand.write] \in Ops /\ Resent \in Nat /\ hand.write \in Writes
            /\ KeepMine /\ Enqueue(op[hand.write], Resent, hand.write)
<1>1. CASE Capture
  <2>1. PICK w \in Writes : \E what \in MayAsk[w], revision \in {0, jobRev} : Enqueue(what, revision, NoWrite)
    BY <1>1 DEF Capture
  <2>3. PICK what \in MayAsk[w], revision \in {0, jobRev} : Enqueue(what, revision, NoWrite)
    BY <2>1
  <2>2. what \in Ops
    BY OfflineAssumption
  <2> QED
    BY <1>1, <2>2, <2>3
<1>2. CASE KeepMine
  BY <1>2 DEF KeepMine, Resent, Known, Captured, Typed, OffTypeOK
<1> QED
  BY <1>1, <1>2

\* A capture or a retry, as it looks to the rest of the queue.
LEMMA CaptureOrRetry ==
  ASSUME Typed, Known, Capture \/ KeepMine
  PROVE  \E w \in Writes \ Captured, what \in Ops :
           /\ op' = [op EXCEPT ![w] = what]
           /\ queue' = queue \cup {w}
           /\ Captured' = Captured \cup {w}
           /\ hand' \in {hand, FreeHand}
           /\ UNCHANGED <<conflicts, theirs, dropped, drainer, calls, tables, faults>>
<1>1. CASE \E what \in Ops, revision \in {0, jobRev} : Capture /\ Enqueue(what, revision, NoWrite)
  <2>1. PICK what \in Ops, revision \in Nat : Capture /\ Enqueue(what, revision, NoWrite)
    BY <1>1 DEF Typed, OffTypeOK
  <2> QED
    BY <2>1, EnqueueCaptures DEF Capture
<1>2. CASE /\ op[hand.write] \in Ops /\ Resent \in Nat /\ hand.write \in Writes
           /\ KeepMine /\ Enqueue(op[hand.write], Resent, hand.write)
  BY <1>2, EnqueueCaptures DEF KeepMine
<1> QED
  BY <1>1, <1>2, EnqueuedOp

\* A step of a worker on an item.
ItemStep(c, w) ==
  \/ LookUp(c, w) \/ RecordReading(c, w) \/ NameReading(c, w)
  \/ InsertNote(c, w) \/ CheckRevision(c, w) \/ WriteJob(c, w)

\* Every other step leaves the entries and the rows alone.
LEMMA KnownStep == Typed /\ Known /\ [OffNext]_offVars => Known'
<1>1. SUFFICES ASSUME Typed, Known, [OffNext]_offVars PROVE Known'
  OBVIOUS
<1>2. CASE UNCHANGED offVars
  BY <1>1, <1>2 DEF Known, Captured, offVars, browser, store, entries, drainer, calls, tables
<1>3. CASE Capture \/ KeepMine
  BY <1>1, <1>3, CaptureOrRetry DEF Known, FreeHand, drainer, calls
<1>0. op' = op => Captured' = Captured
  BY DEF Captured
<1>4. CASE Clear
  BY <1>0, <1>1, <1>4 DEF Clear, Known, FreeHand, entries, drainer, calls, Typed, OffTypeOK
<1>12. CASE JobEdited \/ Trashing
  BY <1>0, <1>1, <1>12 DEF JobEdited, Trashing, Deleted, Restored, Known, browser, store, entries, drainer, calls
<1>5. ASSUME NEW t \in Tabs, NEW w \in Writes, NEW keep \in BOOLEAN, Press(t, w, keep) PROVE Known'
  BY <1>0, <1>1, <1>5 DEF Press, Known, entries, drainer, calls
<1>6. ASSUME NEW t \in Tabs, NEW w \in Writes, SettleTaken(t, w) \/ SettleMoved(t, w) PROVE Known'
  <2>1. /\ queue' = queue \ {w} /\ batch' = [batch EXCEPT ![t] = @ \ {w}]
        /\ UNCHANGED <<op, conflicts, hand, todo>>
    BY <1>6 DEF SettleTaken, SettleMoved, Settled, entries, calls
  <2>2. batch \in [Tabs -> SUBSET Writes]
    BY <1>1 DEF Typed, OffTypeOK
  <2> QED
    BY <1>0, <1>1, <2>1, <2>2 DEF Known
<1>7. ASSUME NEW t \in Tabs, NEW w \in Writes, SettleFile(t, w) PROVE Known'
  BY <1>0, <1>1, <1>7 DEF SettleFile, Known, entries, calls, Typed, OffTypeOK
<1>8. ASSUME NEW t \in Tabs, NEW c \in Calls, Drain(t, c) PROVE Known'
  BY <1>0, <1>1, <1>8 DEF Drain, Known, store, entries, Typed, OffTypeOK
<1>9. ASSUME NEW t \in Tabs, FetchFails(t) \/ CloseTab(t) PROVE Known'
  <2>1. /\ batch' = [batch EXCEPT ![t] = {}]
        /\ hand' \in {hand, FreeHand}
        /\ UNCHANGED <<op, queue, conflicts, todo>>
    BY <1>9 DEF FetchFails, CloseTab, store, entries
  <2>2. batch \in [Tabs -> SUBSET Writes]
    BY <1>1 DEF Typed, OffTypeOK
  <2> QED
    BY <1>0, <1>1, <2>1, <2>2 DEF Known, FreeHand
<1>10. ASSUME NEW c \in Calls, Answer(c) \/ CallDies(c) PROVE Known'
  <2>1. UNCHANGED <<op, queue, conflicts, hand>>
    BY <1>10 DEF Answer, CallDies, store, entries
  <2>2. batch \in [Tabs -> SUBSET Writes] /\ todo \in [Calls -> SUBSET Writes]
    BY <1>1 DEF Typed, OffTypeOK
  <2>3. ASSUME NEW t \in Tabs PROVE batch'[t] \subseteq batch[t]
    BY <1>10, <2>2 DEF Answer, CallDies
  <2>4. ASSUME NEW d \in Calls PROVE todo'[d] \subseteq todo[d]
    BY <1>10, <2>2 DEF Answer, CallDies
  <2> QED
    BY <1>0, <1>1, <2>1, <2>3, <2>4 DEF Known
<1>11. ASSUME NEW c \in Calls, NEW w \in Writes, ItemStep(c, w) PROVE Known'
  <2>1. todo' = todo \/ todo' = [todo EXCEPT ![c] = @ \ {w}]
    BY <1>11 DEF ItemStep, LookUp, RecordReading, NameReading, InsertNote, CheckRevision, WriteJob, NotFound,
       Report, GoOn
  <2>2. UNCHANGED browser
    BY <1>11 DEF ItemStep, LookUp, RecordReading, NameReading, InsertNote, CheckRevision, WriteJob, Elsewhere
  <2> QED
    <3>1. todo \in [Calls -> SUBSET Writes]
      BY <1>1 DEF Typed, OffTypeOK
    <3>2. UNCHANGED <<op, queue, conflicts, batch, hand>>
      BY <2>2 DEF browser, store, entries, drainer
    <3> QED
      BY <1>0, <1>1, <2>1, <3>1, <3>2 DEF Known
<1> QED
  BY <1>1, <1>2, <1>3, <1>4, <1>5, <1>6, <1>7, <1>8, <1>9, <1>10, <1>11, <1>12
     DEF OffNext, SettleStep, ServerStep, ItemStep, Trashing

-----------------------------------------------------------------------------
(* A note lands once.                                                      *)

\* A worker in the middle of an item is at a statement of its operation.
InItsBranch ==
  \A c \in Calls, w \in Writes :
    /\ AtItem(c, w, "recording") \/ AtItem(c, w, "naming") => op[w] = "reading"
    /\ AtItem(c, w, "inserting") => op[w] = "note"
    /\ AtItem(c, w, "writing") => op[w] = "job"

\* What a note has in the table is exactly the row under its client id.
OneRowPerName ==
  \A w \in Writes :
    /\ op[w] = "none" => w \notin named
    /\ op[w] \in {"none", "note"} => rows[w] = IF w \in named THEN 1 ELSE 0

Once == InItsBranch /\ OneRowPerName

LEMMA OnceInit == OffInit => Once
BY DEF OffInit, Once, InItsBranch, OneRowPerName, AtItem

\* What a step that is not about an item does to the tables and the workers.
LEMMA NoItemStep ==
  ASSUME Typed, Known, [OffNext]_offVars, \A c \in Calls, w \in Writes : ~ItemStep(c, w)
  PROVE  /\ UNCHANGED <<named, rows>>
         /\ \A c \in Calls : \/ doing'[c] = doing[c] /\ todo'[c] = todo[c]
                             \/ doing'[c] \in {"idle", "item"}
         /\ \/ UNCHANGED op
            \/ \E w \in Writes \ Captured, what \in Ops :
                 op' = [op EXCEPT ![w] = what] /\ UNCHANGED <<doing, todo>>
<1>1. CASE UNCHANGED offVars
  BY <1>1 DEF offVars, browser, entries, calls, tables
<1>2. CASE Capture \/ KeepMine
  BY <1>2, CaptureOrRetry DEF calls, tables
<1>3. CASE Clear \/ JobEdited \/ Trashing
  BY <1>3 DEF Clear, JobEdited, Trashing, Deleted, Restored, browser, entries, calls, tables
<1>4. ASSUME NEW t \in Tabs, NEW w \in Writes, NEW keep \in BOOLEAN, Press(t, w, keep)
      PROVE  UNCHANGED <<named, rows, doing, todo, op>>
  BY <1>4 DEF Press, entries, calls, tables
<1>5. ASSUME NEW t \in Tabs, SettleStep(t) PROVE UNCHANGED <<named, rows, doing, todo, op>>
  BY <1>5 DEF SettleStep, SettleTaken, SettleMoved, SettleFile, entries, calls, tables
<1>6. ASSUME NEW t \in Tabs, FetchFails(t) \/ CloseTab(t) PROVE UNCHANGED <<named, rows, doing, todo, op>>
  BY <1>6 DEF FetchFails, CloseTab, entries, tables
<1>7. ASSUME NEW d \in Calls, (\E t \in Tabs : Drain(t, d)) \/ Answer(d) \/ CallDies(d)
      PROVE  /\ UNCHANGED <<named, rows, op>>
             /\ \A c \in Calls : \/ doing'[c] = doing[c] /\ todo'[c] = todo[c]
                                 \/ doing'[c] \in {"idle", "item"}
  <2>1. doing \in [Calls -> Doing] /\ todo \in [Calls -> SUBSET Writes]
    BY DEF Typed, OffTypeOK
  <2>2. /\ UNCHANGED <<named, rows, op>>
        /\ doing' = [doing EXCEPT ![d] = doing'[d]] /\ doing'[d] \in {"idle", "item"}
        /\ todo' = [todo EXCEPT ![d] = todo'[d]]
    BY <1>7, <2>1 DEF Drain, Answer, CallDies, entries, tables
  <2> QED
    BY <2>1, <2>2
<1> QED
  BY <1>1, <1>2, <1>3, <1>4, <1>5, <1>6, <1>7 DEF OffNext, ServerStep, ItemStep, Trashing

LEMMA OnceStep == Typed /\ Known /\ Once /\ [OffNext]_offVars => Once'
<1>1. SUFFICES ASSUME Typed, Known, Once, [OffNext]_offVars PROVE Once'
  OBVIOUS
<1>2. /\ doing \in [Calls -> Doing] /\ todo \in [Calls -> SUBSET Writes]
      /\ op \in [Writes -> Ops \cup {"none"}] /\ rows \in [Writes -> Nat]
  BY <1>1 DEF Typed, OffTypeOK
<1>3. CASE \A c \in Calls, w \in Writes : ~ItemStep(c, w)
  <2>1. ASSUME NEW c \in Calls, NEW w \in Writes, NEW where \in Doing \ {"idle", "item"}, AtItem(c, w, where)'
        PROVE  AtItem(c, w, where) /\ op'[w] = op[w]
    <3>1. AtItem(c, w, where)
      BY <1>1, <1>3, <2>1, NoItemStep DEF AtItem
    <3>2. op[w] # "none"
      BY <1>1, <3>1 DEF AtItem, FirstOf, Known, Captured
    <3> QED
      BY <1>1, <1>2, <1>3, <3>1, <3>2, NoItemStep DEF Captured
  <2>2. InItsBranch'
    BY <1>1, <2>1 DEF Once, InItsBranch, Doing
  <2>3. OneRowPerName'
    BY <1>1, <1>2, <1>3, NoItemStep DEF Once, OneRowPerName, Captured, Ops
  <2> QED
    BY <2>2, <2>3 DEF Once
<1>4. ASSUME NEW c \in Calls, NEW w \in Writes, ItemStep(c, w) PROVE Once'
  <2>1. UNCHANGED op
    BY <1>4 DEF ItemStep, LookUp, RecordReading, NameReading, InsertNote, CheckRevision, WriteJob, Elsewhere,
       browser, entries
  <2>2. OneRowPerName'
    <3>1. CASE LookUp(c, w) \/ CheckRevision(c, w)
      BY <1>1, <2>1, <3>1 DEF LookUp, CheckRevision, tables, Once, OneRowPerName
    <3>2. CASE RecordReading(c, w) \/ NameReading(c, w)
      <4>1. op[w] = "reading"
        BY <1>1, <3>2 DEF RecordReading, NameReading, Once, InItsBranch
      <4> QED
        BY <1>1, <1>2, <2>1, <3>2, <4>1 DEF RecordReading, NameReading, Once, OneRowPerName
    <3>3. CASE InsertNote(c, w)
      <4>1. op[w] = "note"
        BY <1>1, <3>3 DEF InsertNote, Once, InItsBranch
      <4>2. CASE w \in named
        BY <1>1, <2>1, <3>3, <4>2 DEF InsertNote, Once, OneRowPerName
      <4>3. CASE w \notin named
        BY <1>1, <1>2, <2>1, <3>3, <4>1, <4>3 DEF InsertNote, Once, OneRowPerName
      <4> QED
        BY <4>2, <4>3
    <3>4. CASE WriteJob(c, w)
      <4>1. op[w] = "job"
        BY <1>1, <3>4 DEF WriteJob, Once, InItsBranch
      <4> QED
        BY <1>1, <1>2, <2>1, <3>4, <4>1 DEF WriteJob, Once, OneRowPerName
    <3> QED
      BY <1>4, <3>1, <3>2, <3>3, <3>4 DEF ItemStep
  <2>3. InItsBranch'
    <3>1. \/ todo' = [todo EXCEPT ![c] = @ \ {w}] /\ doing' = [doing EXCEPT ![c] = "item"]
          \/ /\ UNCHANGED todo
             /\ \E next \in Doing : /\ doing' = [doing EXCEPT ![c] = next]
                                    /\ next \in {"recording", "naming"} => op[w] = "reading"
                                    /\ next = "inserting" => op[w] = "note"
                                    /\ next = "writing" => op[w] = "job"
      BY <1>1, <1>4 DEF ItemStep, LookUp, RecordReading, NameReading, InsertNote, CheckRevision, WriteJob,
         NotFound, Report, GoOn, Doing, Once, InItsBranch
    <3>2. \A v \in Writes : FirstOf(v, todo[c]) => v = w
      BY <1>4, OfflineAssumption
         DEF ItemStep, LookUp, RecordReading, NameReading, InsertNote, CheckRevision, WriteJob, AtItem, FirstOf
    <3> QED
      BY <1>1, <1>2, <2>1, <3>1, <3>2 DEF Once, InItsBranch, AtItem
  <2> QED
    BY <2>2, <2>3 DEF Once
<1> QED
  BY <1>3, <1>4

\* A note is in the table once, however many tabs post it, however often, and
\* whichever answers are lost: its primary key is the client's id.
THEOREM NoteLandsOnceHolds == OffSpec => []NoteLandsOnce
<1>1. Once => NoteLandsOnce
  BY DEF Once, OneRowPerName, NoteLandsOnce
<1> QED
  BY <1>1, TypedInit, TypedStep, KnownInit, KnownStep, OnceInit, OnceStep, PTL DEF OffSpec

-----------------------------------------------------------------------------
(* A retry moves on.                                                       *)

\* An answer about a write is about one that was captured, reports no revision
\* the server has not reached, and refuses a job item for a later one or for none.
Sound(answer, w) ==
  /\ answer.revision <= jobRev
  /\ answer.status # "none" => w \in Captured
  /\ answer.status \in {"conflict", "refused"} /\ op[w] = "job" => answer.revision = 0 \/ answer.revision > rev[w]

SoundAnswers ==
  /\ \A c \in Calls, w \in Writes : Sound(results[c][w], w)
  /\ \A t \in Tabs, w \in Writes : Sound(result[t][w], w)

\* What the browser keeps of those answers.
SoundConflicts ==
  /\ \A w \in Writes : rev[w] <= jobRev /\ theirs[w] <= jobRev
  /\ \A w \in conflicts : op[w] = "job" => theirs[w] = 0 \/ theirs[w] > rev[w]
  /\ hand.revision <= jobRev
  /\ hand.does = "requeueing" => hand.keep
  /\ hand.does # "free" /\ hand.keep /\ op[hand.write] = "job"
       => hand.revision = 0 \/ hand.revision > rev[hand.write]

Moving == SoundAnswers /\ SoundConflicts

LEMMA MovingInit == OffInit => Moving
BY DEF OffInit, Moving, SoundAnswers, Sound, SoundConflicts, NoResult, FreeHand

\* How the entries and the job item's revision may change.
LEMMA EntriesGrow ==
  ASSUME Typed, Known, [OffNext]_offVars
  PROVE  /\ jobRev' >= jobRev
         /\ \/ UNCHANGED entries
            \/ \E w \in Writes \ Captured, what \in Ops, revision \in Nat, old \in Writes \cup {NoWrite} :
                 /\ op' = [op EXCEPT ![w] = what]
                 /\ rev' = [rev EXCEPT ![w] = revision]
                 /\ from' = [from EXCEPT ![w] = old]
                 /\ \/ Capture /\ revision \in {0, jobRev} /\ old = NoWrite
                    \/ KeepMine /\ what = op[hand.write] /\ revision = Resent /\ old = hand.write
<1>. jobRev \in Nat
  BY DEF Typed, OffTypeOK
<1>1. CASE UNCHANGED offVars
  BY <1>1 DEF offVars, browser, tables
<1>2. CASE Capture \/ KeepMine
  <2>1. UNCHANGED jobRev
    BY <1>2 DEF Capture, KeepMine, tables
  <2>2. CASE \E what \in Ops, revision \in {0, jobRev} : Capture /\ Enqueue(what, revision, NoWrite)
    <3>1. PICK what \in Ops, revision \in {0, jobRev} : Capture /\ Enqueue(what, revision, NoWrite)
      BY <2>2
    <3> QED
      BY <2>1, <3>1, EnqueueCaptures
  <2>3. CASE /\ op[hand.write] \in Ops /\ Resent \in Nat /\ hand.write \in Writes
             /\ KeepMine /\ Enqueue(op[hand.write], Resent, hand.write)
    BY <2>1, <2>3, EnqueueCaptures
  <2> QED
    BY <1>2, <2>2, <2>3, EnqueuedOp
<1>3. CASE Clear \/ JobEdited \/ Trashing
  BY <1>3 DEF Clear, JobEdited, Trashing, Deleted, Restored, browser, tables
<1>4. ASSUME NEW t \in Tabs PROVE
        /\ SettleStep(t) \/ FetchFails(t) \/ CloseTab(t) => UNCHANGED <<jobRev, entries>>
        /\ \A c \in Calls : Drain(t, c) => UNCHANGED <<jobRev, entries>>
        /\ \A w \in Writes, keep \in BOOLEAN : Press(t, w, keep) => UNCHANGED <<jobRev, entries>>
  BY DEF SettleStep, SettleTaken, SettleFile, SettleMoved, FetchFails, CloseTab, Drain, Press, tables
<1>5. ASSUME NEW c \in Calls PROVE
        /\ Answer(c) \/ CallDies(c) => UNCHANGED <<jobRev, entries>>
        /\ \A w \in Writes : ItemStep(c, w) => jobRev' \in {jobRev, jobRev + 1} /\ UNCHANGED entries
  BY DEF Answer, CallDies, ItemStep, LookUp, NameReading, CheckRevision, RecordReading, InsertNote, WriteJob,
     tables, Elsewhere, browser
<1> QED
  BY <1>1, <1>2, <1>3, <1>4, <1>5 DEF OffNext, ServerStep, ItemStep, Trashing

\* An answer stays sound whatever is captured or saved after it.
LEMMA SoundStays ==
  ASSUME Typed, Known, [OffNext]_offVars,
         NEW w \in Writes, NEW answer \in [status : Status, revision : Nat], Sound(answer, w)
  PROVE  Sound(answer, w)'
<1>1. /\ jobRev \in Nat /\ jobRev' \in Nat /\ jobRev' >= jobRev
      /\ op \in [Writes -> Ops \cup {"none"}] /\ rev \in [Writes -> Nat]
  BY TypedStep, EntriesGrow DEF Typed, OffTypeOK
<1>2. CASE UNCHANGED entries
  BY <1>1, <1>2 DEF Sound, Captured, entries
<1>3. CASE \E v \in Writes \ Captured, what \in Ops, revision \in Nat :
             op' = [op EXCEPT ![v] = what] /\ rev' = [rev EXCEPT ![v] = revision]
  <2>1. PICK v \in Writes \ Captured, what \in Ops, revision \in Nat :
               op' = [op EXCEPT ![v] = what] /\ rev' = [rev EXCEPT ![v] = revision]
    BY <1>3
  <2>2. Captured \subseteq Captured'
    BY <1>1, <2>1 DEF Captured, Ops
  <2>3. CASE answer.status = "none"
    BY <1>1, <2>3 DEF Sound
  <2>4. CASE answer.status # "none"
    BY <1>1, <2>1, <2>2, <2>4 DEF Sound
  <2> QED
    BY <2>3, <2>4
<1> QED
  BY <1>2, <1>3, EntriesGrow

\* Where the answer a worker will give comes from.
LEMMA ResultsCome ==
  ASSUME Typed, [OffNext]_offVars, NEW d \in Calls, NEW v \in Writes,
         \A c \in Calls, w \in Writes : ~ItemStep(c, w)
  PROVE  results'[d][v] \in {results[d][v], NoResult[v]}
<1>. results \in [Calls -> [Writes -> [status : Status, revision : Nat]]]
  BY DEF Typed, OffTypeOK
<1>1. CASE UNCHANGED results
  BY <1>1
<1>2. ASSUME NEW c \in Calls, Answer(c) \/ CallDies(c) PROVE results'[d][v] \in {results[d][v], NoResult[v]}
  BY <1>2 DEF Answer, CallDies
<1>3. ASSUME NEW t \in Tabs, FetchFails(t) \/ CloseTab(t) PROVE results'[d][v] \in {results[d][v], NoResult[v]}
  BY <1>3 DEF FetchFails, CloseTab, Abandon
<1>4. ASSUME NEW t \in Tabs PROVE
        /\ SettleStep(t) => UNCHANGED results
        /\ \A c \in Calls : Drain(t, c) => UNCHANGED results
        /\ \A w \in Writes, keep \in BOOLEAN : Press(t, w, keep) => UNCHANGED results
  BY DEF SettleStep, SettleTaken, SettleFile, SettleMoved, Drain, Press, calls
<1>5. Capture \/ Clear \/ KeepMine \/ JobEdited \/ Trashing \/ UNCHANGED offVars => UNCHANGED results
  BY DEF Capture, Clear, KeepMine, JobEdited, Trashing, Deleted, Restored, offVars, calls
<1> QED
  BY <1>1, <1>2, <1>3, <1>4, <1>5 DEF OffNext, ServerStep, ItemStep, Trashing

\* What a report leaves in the answers of its worker.
LEMMA ReportGives ==
  ASSUME NEW c \in Calls, NEW w \in Writes, NEW s, NEW n, Report(c, w, s, n),
         results \in [Calls -> [Writes -> [status : Status, revision : Nat]]]
  PROVE  \/ UNCHANGED results
         \/ results' = [results EXCEPT ![c] = [results[c] EXCEPT ![w] = [status |-> s, revision |-> n]]]
<1>1. CASE caller[c] = NoTab
  BY <1>1 DEF Report
<1>2. CASE caller[c] # NoTab
  BY <1>2 DEF Report
<1> QED
  BY <1>1, <1>2

\* The answer to an item is sound when it is given.
LEMMA ReportSound ==
  ASSUME Typed, Known, SoundConflicts, NEW c \in Calls, NEW w \in Writes, ItemStep(c, w)
  PROVE  \/ UNCHANGED results
         \/ \E answer \in [status : Status, revision : Nat] :
              /\ results' = [results EXCEPT ![c] = [results[c] EXCEPT ![w] = answer]]
              /\ Sound(answer, w)
<1>1. \/ UNCHANGED results
      \/ Report(c, w, "ok", 0)
      \/ Report(c, w, "refused", 0)
      \/ Report(c, w, "conflict", jobRev) /\ rev[w] \notin {0, jobRev}
  <2>1. CASE LookUp(c, w)
    BY <2>1 DEF LookUp, NotFound, GoOn
  <2>2. CASE RecordReading(c, w)
    BY <2>2 DEF RecordReading, GoOn
  <2>3. CASE NameReading(c, w)
    BY <2>3 DEF NameReading
  <2>4. CASE InsertNote(c, w)
    BY <2>4 DEF InsertNote
  <2>5. CASE CheckRevision(c, w)
    BY <2>5 DEF CheckRevision, NotFound, GoOn
  <2>6. CASE WriteJob(c, w)
    BY <2>6 DEF WriteJob
  <2> QED
    BY <2>1, <2>2, <2>3, <2>4, <2>5, <2>6 DEF ItemStep
<1>2. /\ jobRev \in Nat /\ rev[w] \in Nat /\ rev[w] <= jobRev /\ w \in Captured
      /\ results \in [Calls -> [Writes -> [status : Status, revision : Nat]]]
  BY DEF ItemStep, LookUp, RecordReading, NameReading, InsertNote, CheckRevision, WriteJob, AtItem, FirstOf,
     Known, SoundConflicts, Typed, OffTypeOK
<1>3. /\ Sound([status |-> "ok", revision |-> 0], w)
      /\ Sound([status |-> "refused", revision |-> 0], w)
      /\ rev[w] \notin {0, jobRev} => Sound([status |-> "conflict", revision |-> jobRev], w)
  <2>1. /\ 0 <= jobRev /\ jobRev <= jobRev
        /\ rev[w] # jobRev => jobRev > rev[w]
    <3>1. \A m, n \in Nat : m <= n => 0 <= n /\ n <= n /\ (m # n => n > m)
      OBVIOUS
    <3> QED
      BY <1>2, <3>1
  <2> QED
    BY <1>2, <2>1 DEF Sound
<1>4. /\ [status |-> "ok", revision |-> 0] \in [status : Status, revision : Nat]
      /\ [status |-> "refused", revision |-> 0] \in [status : Status, revision : Nat]
      /\ [status |-> "conflict", revision |-> jobRev] \in [status : Status, revision : Nat]
  BY <1>2 DEF Status
<1>5. CASE Report(c, w, "ok", 0)
  BY <1>2, <1>3, <1>4, <1>5, ReportGives
<1>6. CASE Report(c, w, "refused", 0)
  BY <1>2, <1>3, <1>4, <1>6, ReportGives
<1>7. CASE Report(c, w, "conflict", jobRev) /\ rev[w] \notin {0, jobRev}
  BY <1>2, <1>3, <1>4, <1>7, ReportGives
<1> QED
  BY <1>1, <1>5, <1>6, <1>7

\* Where the answer a tab was given comes from.
LEMMA ResultComes ==
  ASSUME Typed, [OffNext]_offVars, NEW u \in Tabs, NEW v \in Writes
  PROVE  \/ result'[u][v] \in {result[u][v], NoResult[v]}
         \/ \E c \in Calls : result'[u][v] = results[c][v]
<1>. /\ result \in [Tabs -> [Writes -> [status : Status, revision : Nat]]]
  BY DEF Typed, OffTypeOK
<1>1. CASE UNCHANGED result
  BY <1>1
<1>2. ASSUME NEW c \in Calls, Answer(c)
      PROVE  \/ result'[u][v] \in {result[u][v], NoResult[v]}
             \/ \E d \in Calls : result'[u][v] = results[d][v]
  BY <1>2 DEF Answer
<1>3. ASSUME NEW t \in Tabs, CloseTab(t) \/ \E w \in Writes : Settled(t, w)
      PROVE  result'[u][v] \in {result[u][v], NoResult[v]}
  BY <1>3 DEF CloseTab, Settled
<1>4. ASSUME NEW t \in Tabs PROVE
        /\ FetchFails(t) => UNCHANGED result
        /\ \A w \in Writes : /\ SettleFile(t, w) => UNCHANGED result
                             /\ SettleTaken(t, w) \/ SettleMoved(t, w) => Settled(t, w)
        /\ \A c \in Calls : Drain(t, c) => UNCHANGED result
        /\ \A w \in Writes, keep \in BOOLEAN : Press(t, w, keep) => UNCHANGED result
  BY DEF SettleTaken, SettleFile, SettleMoved, FetchFails, Drain, Press, drainer
<1>5. Capture \/ Clear \/ KeepMine \/ JobEdited \/ Trashing \/ UNCHANGED offVars => UNCHANGED result
  BY DEF Capture, Clear, KeepMine, JobEdited, Trashing, Deleted, Restored, offVars, browser, drainer
<1>6. ASSUME NEW c \in Calls PROVE
        CallDies(c) \/ (\E w \in Writes : ItemStep(c, w)) => UNCHANGED result
  BY DEF CallDies, ItemStep, LookUp, NameReading, CheckRevision, RecordReading, InsertNote, WriteJob, Elsewhere,
     browser, drainer
<1> QED
  BY <1>1, <1>2, <1>3, <1>4, <1>5, <1>6 DEF OffNext, SettleStep, ServerStep, ItemStep, Trashing

LEMMA SoundAnswersStep ==
  ASSUME Typed, Known, SoundAnswers, SoundConflicts, [OffNext]_offVars
  PROVE  SoundAnswers'
<1>1. /\ result \in [Tabs -> [Writes -> [status : Status, revision : Nat]]]
      /\ results \in [Calls -> [Writes -> [status : Status, revision : Nat]]]
      /\ \A v \in Writes : NoResult[v] \in [status : Status, revision : Nat]
      /\ \A v \in Writes : Sound(NoResult[v], v)
  BY DEF Typed, OffTypeOK, NoResult, Status, Sound
<1>2. ASSUME NEW u \in Tabs, NEW v \in Writes PROVE Sound(result[u][v], v)'
  <2>1. PICK answer \in [status : Status, revision : Nat] : result'[u][v] = answer /\ Sound(answer, v)
    BY <1>1, ResultComes DEF SoundAnswers
  <2>2. Sound(answer, v)'
    BY <2>1, SoundStays
  <2> QED
    BY <2>1, <2>2 DEF Sound
<1>3. ASSUME NEW d \in Calls, NEW v \in Writes PROVE Sound(results[d][v], v)'
  <2>1. PICK answer \in [status : Status, revision : Nat] : results'[d][v] = answer /\ Sound(answer, v)
    <3>1. CASE \A c \in Calls, w \in Writes : ~ItemStep(c, w)
      BY <1>1, <3>1, ResultsCome DEF SoundAnswers
    <3>2. ASSUME NEW c \in Calls, NEW w \in Writes, ItemStep(c, w)
          PROVE  \E answer \in [status : Status, revision : Nat] : results'[d][v] = answer /\ Sound(answer, v)
      <4>1. CASE UNCHANGED results
        BY <1>1, <4>1 DEF SoundAnswers
      <4>2. ASSUME NEW answer \in [status : Status, revision : Nat], Sound(answer, w),
                   results' = [results EXCEPT ![c] = [results[c] EXCEPT ![w] = answer]]
            PROVE  \E a \in [status : Status, revision : Nat] : results'[d][v] = a /\ Sound(a, v)
        <5>1. results'[d][v] = IF d = c /\ v = w THEN answer ELSE results[d][v]
          BY <1>1, <4>2
        <5> QED
          BY <1>1, <4>2, <5>1 DEF SoundAnswers
      <4> QED
        BY <3>2, <4>1, <4>2, ReportSound
    <3> QED
      BY <3>1, <3>2
  <2>2. Sound(answer, v)'
    BY <2>1, SoundStays
  <2> QED
    BY <2>1, <2>2 DEF Sound
<1> QED
  BY <1>2, <1>3 DEF SoundAnswers

LEMMA SoundConflictsStep ==
  ASSUME Typed, Known, SoundAnswers, SoundConflicts, [OffNext]_offVars
  PROVE  SoundConflicts'
<1>1. /\ jobRev \in Nat /\ jobRev' \in Nat /\ jobRev' >= jobRev
      /\ op \in [Writes -> Ops \cup {"none"}] /\ rev \in [Writes -> Nat] /\ theirs \in [Writes -> Nat]
      /\ hand.revision \in Nat /\ hand.does \in Hand
      /\ conflicts \subseteq Captured
      /\ hand.does # "free" => hand.write \in Captured /\ hand.write \in Writes
  BY TypedStep, EntriesGrow DEF Typed, OffTypeOK, HandHoldsWrite, Known
<1>2. CASE UNCHANGED <<entries, theirs, conflicts, hand>>
  BY <1>1, <1>2 DEF SoundConflicts, entries
<1>3. CASE Capture \/ KeepMine
  <2>1. PICK w \in Writes \ Captured, revision \in Nat :
          /\ \E what \in Ops : op' = [op EXCEPT ![w] = what]
          /\ rev' = [rev EXCEPT ![w] = revision]
          /\ revision <= jobRev
    <3>1. jobRev \in Nat /\ 0 <= jobRev
      BY <1>1
    <3>2. \A old \in Writes \cup {NoWrite}, what \in Ops, revision \in Nat :
             Enqueue(what, revision, old) => \E w \in Writes \ Captured :
               op' = [op EXCEPT ![w] = what] /\ rev' = [rev EXCEPT ![w] = revision]
      BY EnqueueCaptures
    <3>3. \E old \in Writes \cup {NoWrite}, what \in Ops, revision \in Nat :
            revision <= jobRev /\ Enqueue(what, revision, old)
      <4>1. CASE \E what \in Ops, revision \in {0, jobRev} : Capture /\ Enqueue(what, revision, NoWrite)
        <5>1. PICK what \in Ops, revision \in {0, jobRev} : Enqueue(what, revision, NoWrite)
          BY <4>1
        <5>2. revision \in Nat /\ revision <= jobRev
          BY <3>1
        <5> QED
          BY <5>1, <5>2
      <4>2. CASE /\ op[hand.write] \in Ops /\ Resent \in Nat /\ hand.write \in Writes
                 /\ KeepMine /\ Enqueue(op[hand.write], Resent, hand.write)
        BY <4>2 DEF SoundConflicts, Resent
      <4> QED
        BY <1>3, <4>1, <4>2, EnqueuedOp
    <3> QED
      BY <3>2, <3>3
  <2>2. UNCHANGED <<theirs, conflicts>> /\ hand' \in {hand, FreeHand}
    BY <1>3 DEF Capture, KeepMine
  <2>3. \A v \in Writes : rev'[v] <= jobRev' /\ theirs'[v] <= jobRev'
    BY <1>1, <2>1, <2>2 DEF SoundConflicts
  <2>4. \A v \in conflicts' : op'[v] = "job" => theirs'[v] = 0 \/ theirs'[v] > rev'[v]
    BY <1>1, <2>1, <2>2 DEF SoundConflicts, Captured
  <2>5. CASE hand' = FreeHand
    BY <1>1, <2>3, <2>4, <2>5 DEF SoundConflicts, FreeHand
  <2>6. CASE hand' = hand
    BY <1>1, <2>1, <2>3, <2>4, <2>6 DEF SoundConflicts
  <2> QED
    BY <2>2, <2>5, <2>6
<1>4. CASE Clear
  <2>1. /\ conflicts' = conflicts \ {hand.write}
        /\ theirs' = [theirs EXCEPT ![hand.write] = 0]
        /\ UNCHANGED <<op, rev, jobRev>>
    BY <1>4 DEF Clear, entries, tables
  <2>2. \A v \in Writes : rev'[v] <= jobRev' /\ theirs'[v] <= jobRev'
    BY <1>1, <2>1 DEF SoundConflicts
  <2>3. \A v \in conflicts' : op'[v] = "job" => theirs'[v] = 0 \/ theirs'[v] > rev'[v]
    BY <1>1, <2>1 DEF SoundConflicts, Captured
  <2>4. CASE hand' = FreeHand
    BY <1>1, <2>2, <2>3, <2>4 DEF SoundConflicts, FreeHand
  <2>5. CASE hand.keep /\ hand' = [hand EXCEPT !.does = "requeueing"]
    <3>1. hand \in [does : Hand, tab : Tabs \cup {NoTab}, write : Writes \cup {NoWrite},
                    revision : Nat, keep : BOOLEAN]
      BY DEF Typed, OffTypeOK
    <3>2. /\ hand'.does = "requeueing" /\ hand'.keep /\ hand'.write = hand.write
          /\ hand'.revision = hand.revision
      BY <2>5, <3>1
    <3>3. hand.does # "free"
      BY <1>4 DEF Clear
    <3> QED
      BY <1>1, <2>1, <2>2, <2>3, <2>5, <3>2, <3>3 DEF SoundConflicts
  <2> QED
    BY <1>4, <2>4, <2>5 DEF Clear
<1>5. ASSUME NEW t \in Tabs, NEW w \in Writes, NEW keep \in BOOLEAN, Press(t, w, keep) PROVE SoundConflicts'
  <2>1. /\ UNCHANGED <<op, rev, jobRev, theirs, conflicts>>
        /\ hand'.does = "clearing" /\ hand'.write = w /\ hand'.keep = keep
        /\ hand'.revision = IF keep THEN theirs[w] ELSE 0
        /\ keep => w \in conflicts
    BY <1>5 DEF Press, entries, tables
  <2>2. hand'.revision <= jobRev'
    BY <1>1, <2>1 DEF SoundConflicts
  <2>3. keep /\ op[w] = "job" => hand'.revision = 0 \/ hand'.revision > rev[w]
    BY <1>1, <2>1 DEF SoundConflicts
  <2> QED
    BY <1>1, <2>1, <2>2, <2>3 DEF SoundConflicts
<1>6. ASSUME NEW t \in Tabs, NEW w \in Writes, SettleFile(t, w) PROVE SoundConflicts'
  <2>1. /\ UNCHANGED <<op, rev, jobRev, hand>>
        /\ conflicts' = conflicts \cup {w}
        /\ theirs' = [theirs EXCEPT ![w] = result[t][w].revision]
        /\ result[t][w].status \in {"conflict", "refused"}
    BY <1>6 DEF SettleFile, Refused, entries, tables
  <2>2. /\ result[t][w].revision \in Nat /\ result[t][w].revision <= jobRev
        /\ op[w] = "job" => result[t][w].revision = 0 \/ result[t][w].revision > rev[w]
    BY <2>1 DEF SoundAnswers, Sound, Typed, OffTypeOK
  <2> QED
    BY <1>1, <2>1, <2>2 DEF SoundConflicts, Captured
<1>7. ASSUME NEW t \in Tabs, CloseTab(t) PROVE SoundConflicts'
  <2>1. UNCHANGED <<op, rev, jobRev, theirs, conflicts>> /\ hand' \in {hand, FreeHand}
    BY <1>7 DEF CloseTab, store, entries, tables
  <2> QED
    BY <1>1, <2>1 DEF SoundConflicts, FreeHand
<1>8. ASSUME NEW t \in Tabs PROVE
        /\ FetchFails(t) => UNCHANGED <<entries, theirs, conflicts, hand>>
        /\ \A w \in Writes : SettleTaken(t, w) \/ SettleMoved(t, w)
                               => UNCHANGED <<entries, theirs, conflicts, hand>>
        /\ \A c \in Calls : Drain(t, c) => UNCHANGED <<entries, theirs, conflicts, hand>>
  BY DEF SettleTaken, SettleMoved, FetchFails, Drain, store
<1>9. ASSUME NEW c \in Calls PROVE
        Answer(c) \/ CallDies(c) \/ (\E w \in Writes : ItemStep(c, w))
          => UNCHANGED <<entries, theirs, conflicts, hand>>
  BY DEF Answer, CallDies, ItemStep, LookUp, NameReading, CheckRevision, RecordReading, InsertNote, WriteJob,
     Elsewhere, browser, store
<1>10. JobEdited \/ Trashing \/ UNCHANGED offVars => UNCHANGED <<entries, theirs, conflicts, hand>>
  BY DEF JobEdited, Trashing, Deleted, Restored, offVars, browser, store
<1> QED
  BY <1>2, <1>3, <1>4, <1>5, <1>6, <1>7, <1>8, <1>9, <1>10 DEF OffNext, SettleStep, ServerStep, ItemStep, Trashing

\* A retry goes out with the revision the operator's click carries.
LEMMA RetryMovesOn ==
  ASSUME Typed, Known, SoundConflicts, [OffNext]_offVars,
         NEW w \in Captured' \ Captured, op'[w] = "job", from'[w] # NoWrite, hand.revision # 0
  PROVE  rev'[w] > rev[from'[w]]
<1>1. /\ op \in [Writes -> Ops \cup {"none"}] /\ rev \in [Writes -> Nat]
      /\ from \in [Writes -> Writes \cup {NoWrite}]
      /\ w \in Writes
  BY DEF Typed, OffTypeOK, Captured
<1>2. ~UNCHANGED entries
  BY DEF Captured, entries
<1>3. PICK v \in Writes \ Captured, what \in Ops, revision \in Nat, old \in Writes \cup {NoWrite} :
        /\ op' = [op EXCEPT ![v] = what]
        /\ rev' = [rev EXCEPT ![v] = revision]
        /\ from' = [from EXCEPT ![v] = old]
        /\ \/ Capture /\ revision \in {0, jobRev} /\ old = NoWrite
           \/ KeepMine /\ what = op[hand.write] /\ revision = Resent /\ old = hand.write
  BY <1>2, EntriesGrow
<1>4. w = v
  BY <1>1, <1>3 DEF Captured
<1>5. rev'[w] = revision /\ from'[w] = old /\ op'[w] = what
  BY <1>1, <1>3, <1>4
<1>6. KeepMine /\ what = op[hand.write] /\ revision = hand.revision /\ old = hand.write
  BY <1>3, <1>5 DEF Resent
<1>7. hand.does = "requeueing"
  BY <1>6 DEF KeepMine
<1> QED
  BY <1>5, <1>6, <1>7 DEF SoundConflicts

\* However many tabs, workers and editors there are, a job item's change that is
\* kept goes out with a later revision than the change it replaces, whenever the
\* refusal named one.
THEOREM KeepMineMovesOnHolds == OffSpec => KeepMineMovesOn
<1>1. Typed /\ Known /\ Moving /\ [OffNext]_offVars => Moving'
  BY SoundAnswersStep, SoundConflictsStep DEF Moving
<1>2. Typed /\ Known /\ Moving /\ [OffNext]_offVars
        => [\A w \in Captured' \ Captured :
              op'[w] = "job" /\ from'[w] # NoWrite /\ hand.revision # 0
                => rev'[w] > rev[from'[w]]]_offVars
  BY RetryMovesOn DEF Moving
<1> QED
  BY <1>1, <1>2, TypedInit, TypedStep, KnownInit, KnownStep, MovingInit, PTL DEF OffSpec, KeepMineMovesOn
=============================================================================
