------------------------------- MODULE Trash -------------------------------
(***************************************************************************)
(* The trash, with one purchase order and its lines as the record that     *)
(* takes others with it (homeautoshop/core/models.py, BaseModel.delete and *)
(* restore; core/views.py, trash_restore and trash_purge; core/admin.py;   *)
(* the command purge_trash; purchasing/views.py).                          *)
(*                                                                         *)
(* A soft delete is two statements: the lines that are alive get the new   *)
(* timestamp, then the order gets the same one.  A restore is two as well: *)
(* the order comes back, then the lines whose timestamp is the order's.    *)
(* Which lines come back is decided by that equality alone.  `removed` and *)
(* `lost` remember what the timestamps are to stand for: the lines that    *)
(* were deleted on their own, and those a crash left between statements or *)
(* the admin, who moves rows one by one, left behind.                      *)
(***************************************************************************)
EXTENDS Integers, FiniteSets

CONSTANTS
  Rows,      \* PurchaseLine ids
  Clerks,    \* requests that may be under way at once
  Doors,     \* which screens and commands there are
  MaxClock,  \* bound on time, which is what timestamps are made of
  Retention  \* TRASH_RETENTION_DAYS

AllDoors == {"delete", "remove line", "add line", "restore", "purge", "sweep",
             "admin delete", "admin restore"}

ASSUME TrashAssumption ==
  /\ Rows # {}
  /\ Doors \subseteq AllDoors
  /\ MaxClock \in Nat
  /\ Retention \in Nat

VARIABLES
  head,     \* deleted_at of the order
  row,      \* deleted_at of each line
  clock,    \* timezone.now()
  doing,    \* where each request is
  stamp,    \* the timestamp it carries
  target,   \* the line it is about
  removed,  \* lines deleted on their own, and not taken back since
  lost,     \* lines left in the trash by a crash, or with the order moved alone
  wronged   \* rows destroyed while shown, or by purge_trash inside the window

trashVars == <<head, row, clock, doing, stamp, target, removed, lost, wronged>>

\* deleted_at of a row that is alive, that was never written, that is destroyed.
Alive == 0
Never == -1
Gone == -2

Stamps == 1..MaxClock
Dead(t) == t > 0
IsStored(t) == t >= 0

Underway == {"cascading", "stamping", "removing", "recounting", "adding", "restoring",
         "reviving", "purging", "sweeping lines", "sweeping orders"}

TrashTypeOK ==
  /\ head \in Stamps \cup {Alive, Gone}
  /\ row \in [Rows -> Stamps \cup {Alive, Never, Gone}]
  /\ clock \in 0..MaxClock
  /\ doing \in [Clerks -> Underway \cup {"idle"}]
  /\ stamp \in [Clerks -> 0..MaxClock]
  /\ target \in [Clerks -> Rows]
  /\ removed \subseteq Rows /\ lost \subseteq Rows
  /\ wronged \in SUBSET (Rows \cup {"order"})

TrashInit ==
  /\ head = Alive
  /\ row = [n \in Rows |-> IF n = CHOOSE m \in Rows : TRUE THEN Never ELSE Alive]
  /\ clock = 0
  /\ doing = [c \in Clerks |-> "idle"]
  /\ stamp = [c \in Clerks |-> 0]
  /\ target = [c \in Clerks |-> CHOOSE n \in Rows : TRUE]
  /\ removed = {} /\ lost = {} /\ wronged = {}

-----------------------------------------------------------------------------
(* What a statement does to the lines.                                     *)

\* delete(): every line that is alive gets the timestamp.
Cascaded(t) == [n \in Rows |-> IF row[n] = Alive THEN t ELSE row[n]]

\* Slip: all lines in the trash come back.
MutRevivedAll(t) == [n \in Rows |-> IF Dead(row[n]) THEN Alive ELSE row[n]]

\* restore(): the lines that carry the order's timestamp are alive again.
Revived(t) == [n \in Rows |-> IF row[n] = t THEN Alive ELSE row[n]]

\* A hard delete of the order: CASCADE of the database takes every line.
Destroyed == [n \in Rows |-> IF IsStored(row[n]) THEN Gone ELSE row[n]]

\* Slip: the whole trash is taken for expired.
MutExpired(t, now) == Dead(t)

\* deleted_at < now - retention.
Expired(t, now) == Dead(t) /\ t < now - Retention

Carrying(t) == {n \in Rows : row[n] = t}
LiveRows == Carrying(Alive)

-----------------------------------------------------------------------------
(* The requests.  Each reads its row first, and 404s when it is not there. *)

Ask(c, door, next) ==
  /\ door \in Doors
  /\ doing[c] = "idle"
  /\ doing' = [doing EXCEPT ![c] = next]

Go(c, here, next) ==
  /\ doing[c] = here
  /\ doing' = [doing EXCEPT ![c] = next]

\* purchase_delete() reads the order among the living; the admin's action does
\* not leave out what is in the trash.
OpenDelete(c) ==
  /\ \/ head = Alive /\ Ask(c, "delete", "cascading")
     \/ head # Gone /\ Ask(c, "admin delete", "cascading")
  /\ UNCHANGED <<head, row, clock, stamp, target, removed, lost, wronged>>

\* The first statement: one timestamp for all.
Cascade(c) ==
  /\ Go(c, "cascading", "stamping")
  /\ clock < MaxClock
  /\ clock' = clock + 1
  /\ stamp' = [stamp EXCEPT ![c] = clock + 1]
  /\ row' = Cascaded(clock + 1)
  /\ UNCHANGED <<head, target, removed, lost, wronged>>

\* The second: the order itself, if it is still stored.  One that was in the trash
\* has a new timestamp now, and what it took has the old.
StampHead(c) ==
  /\ Go(c, "stamping", "idle")
  /\ head' = IF head = Gone THEN Gone ELSE stamp[c]
  /\ lost' = IF Dead(head) THEN lost \cup Carrying(head) ELSE lost
  /\ UNCHANGED <<row, clock, stamp, target, removed, wronged>>

\* purchase_line_delete(): the order and the line, both alive.
OpenRemove(c, n) ==
  /\ head = Alive /\ row[n] = Alive
  /\ Ask(c, "remove line", "removing")
  /\ target' = [target EXCEPT ![c] = n]
  /\ UNCHANGED <<head, row, clock, stamp, removed, lost, wronged>>

RemoveLine(c) ==
  LET n == target[c] IN
    /\ Go(c, "removing", "recounting")
    /\ clock < MaxClock
    /\ clock' = clock + 1
    /\ row' = [row EXCEPT ![n] = IF IsStored(@) THEN clock + 1 ELSE @]
    /\ removed' = removed \cup {n}
    /\ UNCHANGED <<head, stamp, target, lost, wronged>>

\* recompute_status() saves the whole order as it was read, deleted_at included,
\* unless the order has no line left.
Recount(c) ==
  /\ Go(c, "recounting", "idle")
  /\ head' = IF LiveRows = {} THEN head ELSE Alive
  /\ UNCHANGED <<row, clock, stamp, target, removed, lost, wronged>>

\* purchase_line_add().
OpenAdd(c, n) ==
  /\ head = Alive /\ row[n] = Never
  /\ Ask(c, "add line", "adding")
  /\ target' = [target EXCEPT ![c] = n]
  /\ UNCHANGED <<head, row, clock, stamp, removed, lost, wronged>>

AddLine(c) ==
  LET n == target[c] IN
    /\ Go(c, "adding", "idle")
    /\ row' = [row EXCEPT ![n] = IF head = Gone \/ @ # Never THEN @ ELSE Alive]
    /\ UNCHANGED <<head, clock, stamp, target, removed, lost, wronged>>

\* trash_restore(): the timestamp is read with the order.
OpenRestore(c) ==
  /\ head # Gone
  /\ Ask(c, "restore", "restoring")
  /\ stamp' = [stamp EXCEPT ![c] = head]
  /\ UNCHANGED <<head, row, clock, target, removed, lost, wronged>>

RestoreHead(c) ==
  /\ Go(c, "restoring", IF stamp[c] = Alive THEN "idle" ELSE "reviving")
  /\ head' = IF head = Gone THEN Gone ELSE Alive
  /\ UNCHANGED <<row, clock, stamp, target, removed, lost, wronged>>

Revive(c) ==
  /\ Go(c, "reviving", "idle")
  /\ row' = Revived(stamp[c])
  /\ UNCHANGED <<head, clock, stamp, target, removed, lost, wronged>>

\* trash_purge(): refused for what is not in the trash, as far as was read.
OpenPurge(c) ==
  /\ Dead(head)
  /\ Ask(c, "purge", "purging")
  /\ UNCHANGED <<head, row, clock, stamp, target, removed, lost, wronged>>

Purge(c) ==
  /\ Go(c, "purging", "idle")
  /\ head' = Gone
  /\ row' = Destroyed
  /\ wronged' = wronged \cup (IF head = Alive THEN LiveRows \cup {"order"} ELSE {})
  /\ UNCHANGED <<clock, stamp, target, removed, lost>>

\* purge_trash --yes: the cutoff is taken at the start, lines go before orders.
OpenSweep(c) ==
  /\ Ask(c, "sweep", "sweeping lines")
  /\ stamp' = [stamp EXCEPT ![c] = clock]
  /\ UNCHANGED <<head, row, clock, target, removed, lost, wronged>>

SweepLines(c) ==
  /\ Go(c, "sweeping lines", "sweeping orders")
  /\ row' = [n \in Rows |-> IF Expired(row[n], stamp[c]) THEN Gone ELSE row[n]]
  /\ wronged' = wronged \cup {n \in Rows : Expired(row[n], stamp[c])
                                             /\ row[n] >= clock - Retention}
  /\ UNCHANGED <<head, clock, stamp, target, removed, lost>>

SweepOrders(c) ==
  /\ Go(c, "sweeping orders", "idle")
  /\ IF Expired(head, stamp[c])
       THEN /\ head' = Gone
            /\ row' = Destroyed
            /\ wronged' = wronged \cup {n \in Rows \ lost : Dead(row[n]) /\ row[n] >= clock - Retention}
                            \cup (IF head >= clock - Retention THEN {"order"} ELSE {})
       ELSE UNCHANGED <<head, row, wronged>>
  /\ UNCHANGED <<clock, stamp, target, removed, lost>>

\* The admin: single rows, each one statement, no cascade.
AdminRestoreHead(c) ==
  /\ Ask(c, "admin restore", "idle")
  /\ Dead(head)
  /\ lost' = lost \cup Carrying(head)
  /\ head' = Alive
  /\ UNCHANGED <<row, clock, stamp, target, removed, wronged>>

AdminRestoreLine(c, n) ==
  /\ Ask(c, "admin restore", "idle")
  /\ Dead(row[n])
  /\ row' = [row EXCEPT ![n] = Alive]
  /\ removed' = removed \ {n}
  /\ lost' = lost \ {n}
  /\ UNCHANGED <<head, clock, stamp, target, wronged>>

TimePasses ==
  /\ clock < MaxClock
  /\ clock' = clock + 1
  /\ UNCHANGED <<head, row, doing, stamp, target, removed, lost, wronged>>

\* The process dies: what its next statement was to bring along is lost.
CutShort(c) ==
  /\ doing[c] # "idle"
  /\ doing' = [doing EXCEPT ![c] = "idle"]
  /\ lost' = IF doing[c] \in {"stamping", "reviving"} THEN lost \cup Carrying(stamp[c]) ELSE lost
  /\ UNCHANGED <<head, row, clock, stamp, target, removed, wronged>>

TrashStep(c) ==
  \/ OpenDelete(c) \/ Cascade(c) \/ StampHead(c)
  \/ \E n \in Rows : OpenRemove(c, n) \/ OpenAdd(c, n)
  \/ RemoveLine(c) \/ Recount(c) \/ AddLine(c)
  \/ OpenRestore(c) \/ RestoreHead(c) \/ Revive(c)
  \/ OpenPurge(c) \/ Purge(c)
  \/ OpenSweep(c) \/ SweepLines(c) \/ SweepOrders(c)
  \/ AdminRestoreHead(c) \/ \E n \in Rows : AdminRestoreLine(c, n)
  \/ CutShort(c)

TrashNext ==
  \/ \E c \in Clerks : TrashStep(c)
  \/ TimePasses

TrashSpec == TrashInit /\ [][TrashNext]_trashVars

-----------------------------------------------------------------------------
(* Properties.                                                             *)

Quiet == \A c \in Clerks : doing[c] = "idle"

\* Deleting an order and restoring it gives back the lines it took, and only
\* those: between requests, the lines in the trash below a living order are
\* those that were deleted on their own, that a crash cut off, or that the admin
\* left behind by moving the order without them.
LinesRejoin ==
  (Quiet /\ head = Alive) =>
    {n \in Rows : Dead(row[n])} = {n \in removed \cup lost : IsStored(row[n])}

\* The window is kept: nothing that a screen shows is destroyed, and purge_trash
\* destroys nothing that went to the trash within the retention, unless it was left
\* behind in there and its order is old enough.
WindowIsKept == wronged = {}
=============================================================================
