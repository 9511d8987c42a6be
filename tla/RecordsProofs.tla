--------------------------- MODULE RecordsProofs ----------------------------
(***************************************************************************)
(* Theorems about the records kept beside the work: Trash, DiagnosticCodes, *)
(* Inspections and PartsReadiness, each under its own specification.       *)
(***************************************************************************)
EXTENDS Trash, DiagnosticCodes, Inspections, PartsReadiness, SumTheorems,
        FunctionTheorems

-----------------------------------------------------------------------------
(***************************************************************************)
(* Trash, for any rows, life of the trash and clock.  The types hold with  *)
(* any number of clerks; what a restore brings back and how long a deleted *)
(* row is kept are stated for one clerk, as the model says they must be.   *)
(* What is inductive accounts for the row and its lines together: which    *)
(* lines went with the row, in which pass, and which had gone before.      *)
(***************************************************************************)

Stored == Stamps \cup {Alive, Never, Gone}

\* The statements on the lines leave each a timestamp or a mark.
LEMMA StatementsKeepTypes ==
  ASSUME TrashTypeOK, NEW t \in 0..MaxClock
  PROVE  /\ t # 0 => Cascaded(t) \in [Rows -> Stored]
         /\ Revived(t) \in [Rows -> Stored]
         /\ Destroyed \in [Rows -> Stored]
         /\ [n \in Rows |-> IF Expired(row[n], t) THEN Gone ELSE row[n]] \in [Rows -> Stored]
BY TrashAssumption DEF TrashTypeOK, Stored, Stamps, Alive, Never, Gone, Cascaded, Revived, Destroyed

LEMMA TrashTypeInit == TrashInit => TrashTypeOK
BY TrashAssumption DEF TrashInit, TrashTypeOK, Stamps, Alive, Never, Gone, Underway

\* A request that asks or goes on is somewhere.
LEMMA MovesKeepTypes ==
  ASSUME TrashTypeOK, NEW c \in Clerks, NEW next \in Underway \cup {"idle"},
         doing' = [doing EXCEPT ![c] = next]
  PROVE  doing' \in [Clerks -> Underway \cup {"idle"}]
BY DEF TrashTypeOK

LEMMA TrashTypeStep == TrashTypeOK /\ [TrashNext]_trashVars => TrashTypeOK'
<1> SUFFICES ASSUME TrashTypeOK, [TrashNext]_trashVars PROVE TrashTypeOK'
  OBVIOUS
<1> USE TrashAssumption
<1>0. Underway = {"cascading", "stamping", "removing", "recounting", "adding", "restoring",
                  "reviving", "purging", "sweeping lines", "sweeping orders"}
  BY DEF Underway
<1>1. ASSUME NEW c \in Clerks, OpenDelete(c) PROVE TrashTypeOK'
  <2>1. doing' = [doing EXCEPT ![c] = "cascading"]
    BY <1>1 DEF OpenDelete, Ask
  <2> QED
    BY <1>0, <1>1, <2>1, MovesKeepTypes DEF OpenDelete, TrashTypeOK
<1>2. ASSUME NEW c \in Clerks, Cascade(c) PROVE TrashTypeOK'
  <2>1. clock + 1 \in 1..MaxClock /\ clock + 1 \in 0..MaxClock
    BY <1>2 DEF Cascade, TrashTypeOK
  <2>2. row' \in [Rows -> Stored]
    BY <1>2, <2>1, StatementsKeepTypes DEF Cascade
  <2>3. doing' \in [Clerks -> Underway \cup {"idle"}]
    BY <1>0, <1>2, MovesKeepTypes DEF Cascade, Go
  <2>4. stamp' \in [Clerks -> 0..MaxClock]
    BY <1>2, <2>1 DEF Cascade, TrashTypeOK
  <2> QED
    BY <1>2, <2>1, <2>2, <2>3, <2>4 DEF Cascade, TrashTypeOK, Stored
<1>3. ASSUME NEW c \in Clerks, StampHead(c) PROVE TrashTypeOK'
  <2>1. head' \in Stamps \cup {Alive, Gone}
    <3>1. stamp[c] \in 0..MaxClock /\ head \in Stamps \cup {Alive, Gone}
      BY DEF TrashTypeOK
    <3> QED
      BY <1>3, <3>1 DEF StampHead, Stamps, Alive
  <2>2. lost' \subseteq Rows
    BY <1>3 DEF StampHead, TrashTypeOK, Carrying
  <2>3. doing' \in [Clerks -> Underway \cup {"idle"}]
    BY <1>3, MovesKeepTypes DEF StampHead, Go
  <2> QED
    BY <1>3, <2>1, <2>2, <2>3 DEF StampHead, TrashTypeOK
<1>4. ASSUME NEW c \in Clerks, NEW n \in Rows, OpenRemove(c, n) \/ OpenAdd(c, n)
      PROVE  TrashTypeOK'
  <2>1. doing' \in [Clerks -> Underway \cup {"idle"}]
    BY <1>0, <1>4, MovesKeepTypes DEF OpenRemove, OpenAdd, Ask
  <2> QED
    BY <1>4, <2>1 DEF OpenRemove, OpenAdd, TrashTypeOK
<1>5. ASSUME NEW c \in Clerks, RemoveLine(c) PROVE TrashTypeOK'
  <2>1. clock + 1 \in 1..MaxClock /\ clock + 1 \in 0..MaxClock /\ target[c] \in Rows
    BY <1>5 DEF RemoveLine, TrashTypeOK
  <2>2. row' \in [Rows -> Stored]
    BY <1>5, <2>1 DEF RemoveLine, TrashTypeOK, Stored, Stamps
  <2>3. doing' \in [Clerks -> Underway \cup {"idle"}]
    BY <1>0, <1>5, MovesKeepTypes DEF RemoveLine, Go
  <2> QED
    BY <1>5, <2>1, <2>2, <2>3 DEF RemoveLine, TrashTypeOK, Stored
<1>6. ASSUME NEW c \in Clerks, Recount(c) PROVE TrashTypeOK'
  <2>1. doing' \in [Clerks -> Underway \cup {"idle"}]
    BY <1>6, MovesKeepTypes DEF Recount, Go
  <2> QED
    BY <1>6, <2>1 DEF Recount, TrashTypeOK
<1>7. ASSUME NEW c \in Clerks, AddLine(c) PROVE TrashTypeOK'
  <2>1. doing' \in [Clerks -> Underway \cup {"idle"}]
    BY <1>7, MovesKeepTypes DEF AddLine, Go
  <2>2. row' \in [Rows -> Stored]
    BY <1>7 DEF AddLine, TrashTypeOK, Stored
  <2> QED
    BY <1>7, <2>1, <2>2 DEF AddLine, TrashTypeOK, Stored
<1>8. ASSUME NEW c \in Clerks, OpenRestore(c) PROVE TrashTypeOK'
  <2>1. doing' \in [Clerks -> Underway \cup {"idle"}]
    BY <1>0, <1>8, MovesKeepTypes DEF OpenRestore, Ask
  <2>2. head \in 0..MaxClock
    BY <1>8 DEF OpenRestore, TrashTypeOK, Stamps, Alive
  <2> QED
    BY <1>8, <2>1, <2>2 DEF OpenRestore, TrashTypeOK
<1>9. ASSUME NEW c \in Clerks, RestoreHead(c) PROVE TrashTypeOK'
  <2>1. (IF stamp[c] = Alive THEN "idle" ELSE "reviving") \in Underway \cup {"idle"}
    BY <1>0
  <2>2. doing' \in [Clerks -> Underway \cup {"idle"}]
    BY <1>9, <2>1, MovesKeepTypes DEF RestoreHead, Go
  <2> QED
    BY <1>9, <2>2 DEF RestoreHead, TrashTypeOK
<1>10. ASSUME NEW c \in Clerks, Revive(c) PROVE TrashTypeOK'
  <2>1. doing' \in [Clerks -> Underway \cup {"idle"}]
    BY <1>10, MovesKeepTypes DEF Revive, Go
  <2>2. row' \in [Rows -> Stored]
    BY <1>10, StatementsKeepTypes DEF Revive, TrashTypeOK
  <2> QED
    BY <1>10, <2>1, <2>2 DEF Revive, TrashTypeOK, Stored
<1>11. ASSUME NEW c \in Clerks, OpenPurge(c) PROVE TrashTypeOK'
  <2>1. doing' \in [Clerks -> Underway \cup {"idle"}]
    BY <1>0, <1>11, MovesKeepTypes DEF OpenPurge, Ask
  <2> QED
    BY <1>11, <2>1 DEF OpenPurge, TrashTypeOK
<1>12. ASSUME NEW c \in Clerks, Purge(c) PROVE TrashTypeOK'
  <2>1. doing' \in [Clerks -> Underway \cup {"idle"}]
    BY <1>12, MovesKeepTypes DEF Purge, Go
  <2>2. row' \in [Rows -> Stored]
    BY <1>12, StatementsKeepTypes DEF Purge, TrashTypeOK
  <2>3. wronged' \in SUBSET (Rows \cup {"order"})
    BY <1>12 DEF Purge, TrashTypeOK, LiveRows, Carrying
  <2> QED
    BY <1>12, <2>1, <2>2, <2>3 DEF Purge, TrashTypeOK, Stored
<1>13. ASSUME NEW c \in Clerks, OpenSweep(c) PROVE TrashTypeOK'
  <2>1. doing' \in [Clerks -> Underway \cup {"idle"}]
    BY <1>0, <1>13, MovesKeepTypes DEF OpenSweep, Ask
  <2> QED
    BY <1>13, <2>1 DEF OpenSweep, TrashTypeOK
<1>14. ASSUME NEW c \in Clerks, SweepLines(c) PROVE TrashTypeOK'
  <2>1. doing' \in [Clerks -> Underway \cup {"idle"}]
    BY <1>0, <1>14, MovesKeepTypes DEF SweepLines, Go
  <2>2. row' \in [Rows -> Stored]
    BY <1>14, StatementsKeepTypes DEF SweepLines, TrashTypeOK
  <2>3. wronged' \in SUBSET (Rows \cup {"order"})
    BY <1>14 DEF SweepLines, TrashTypeOK
  <2> QED
    BY <1>14, <2>1, <2>2, <2>3 DEF SweepLines, TrashTypeOK, Stored
<1>15. ASSUME NEW c \in Clerks, SweepOrders(c) PROVE TrashTypeOK'
  <2>1. doing' \in [Clerks -> Underway \cup {"idle"}]
    BY <1>15, MovesKeepTypes DEF SweepOrders, Go
  <2>2. row' \in [Rows -> Stored]
    BY <1>15, StatementsKeepTypes DEF SweepOrders, TrashTypeOK, Stored
  <2>3. wronged' \in SUBSET (Rows \cup {"order"})
    BY <1>15 DEF SweepOrders, TrashTypeOK
  <2>4. head' \in Stamps \cup {Alive, Gone}
    BY <1>15 DEF SweepOrders, TrashTypeOK
  <2> QED
    BY <1>15, <2>1, <2>2, <2>3, <2>4 DEF SweepOrders, TrashTypeOK, Stored
<1>16. ASSUME NEW c \in Clerks, AdminRestoreHead(c) PROVE TrashTypeOK'
  <2>1. doing' \in [Clerks -> Underway \cup {"idle"}]
    BY <1>16, MovesKeepTypes DEF AdminRestoreHead, Ask
  <2> QED
    BY <1>16, <2>1 DEF AdminRestoreHead, TrashTypeOK, Carrying
<1>17. ASSUME NEW c \in Clerks, NEW n \in Rows, AdminRestoreLine(c, n) PROVE TrashTypeOK'
  <2>1. doing' \in [Clerks -> Underway \cup {"idle"}]
    BY <1>17, MovesKeepTypes DEF AdminRestoreLine, Ask
  <2> QED
    BY <1>17, <2>1 DEF AdminRestoreLine, TrashTypeOK
<1>18. ASSUME NEW c \in Clerks, CutShort(c) PROVE TrashTypeOK'
  <2>1. doing' \in [Clerks -> Underway \cup {"idle"}]
    BY <1>18, MovesKeepTypes DEF CutShort
  <2>2. lost' \subseteq Rows
    BY <1>18 DEF CutShort, TrashTypeOK, Carrying
  <2> QED
    BY <1>18, <2>1, <2>2 DEF CutShort, TrashTypeOK
<1>19. CASE TimePasses
  BY <1>19 DEF TimePasses, TrashTypeOK
<1>20. CASE UNCHANGED trashVars
  BY <1>20 DEF trashVars, TrashTypeOK
<1> QED
  BY <1>1, <1>2, <1>3, <1>4, <1>5, <1>6, <1>7, <1>8, <1>9, <1>10, <1>11, <1>12, <1>13,
     <1>14, <1>15, <1>16, <1>17, <1>18, <1>19, <1>20 DEF TrashNext, TrashStep

\* The timestamps stay timestamps.
THEOREM TrashTypes == TrashSpec => []TrashTypeOK
<1> QED
  BY TrashTypeInit, TrashTypeStep, PTL DEF TrashSpec

-----------------------------------------------------------------------------
(* One request at a time.                                                  *)

Alone == \A c, d \in Clerks : c = d

\* Nothing is deleted in the future.
SoFar ==
  /\ head <= clock
  /\ \A n \in Rows : row[n] <= clock
  /\ \A c \in Clerks : stamp[c] <= clock

\* What a request knows of the order between its statements.
Knows ==
  \A c \in Clerks :
    /\ doing[c] = "stamping" =>
         Dead(stamp[c]) /\ head < stamp[c] /\ \A n \in Rows : row[n] <= stamp[c]
    /\ doing[c] = "restoring" => head = stamp[c]
    /\ doing[c] = "reviving" => Dead(stamp[c]) /\ head = Alive
    /\ doing[c] \in {"removing", "recounting", "adding"} => head = Alive
    /\ doing[c] = "removing" => row[target[c]] = Alive
    /\ doing[c] = "purging" => Dead(head)

\* A line that went to the trash with the order, or is on its way to it or back.
WithOrder(n) ==
  \/ row[n] = head
  \/ \E c \in Clerks : doing[c] \in {"stamping", "reviving"} /\ row[n] = stamp[c]

\* The other lines in the trash are those that `removed` and `lost` remember.
Accounted ==
  head # Gone =>
    \A n \in Rows : row[n] # Gone =>
      (n \in removed \cup lost <=> Dead(row[n]) /\ ~WithOrder(n))

\* No line that came with the order, or before, is younger than the order.
NoneYounger ==
  Dead(head) =>
    \A n \in Rows \ lost : Dead(row[n]) =>
      row[n] <= head \/ \E c \in Clerks : doing[c] = "stamping" /\ row[n] = stamp[c]

TrashInv == SoFar /\ Knows /\ Accounted /\ NoneYounger /\ WindowIsKept

LEMMA TrashInvInit == TrashInit => TrashInv
<1> SUFFICES ASSUME TrashInit PROVE TrashInv
  OBVIOUS
<1>1. SoFar /\ Knows
  BY DEF TrashInit, SoFar, Knows, Alive, Never
<1>2. Accounted /\ NoneYounger
  BY DEF TrashInit, Accounted, NoneYounger, Alive, Never, Gone, Dead
<1> QED
  BY <1>1, <1>2 DEF TrashInit, TrashInv, WindowIsKept

\* With nobody else about, where the request goes is where everybody is.
LEMMA OnlyOne ==
  ASSUME TrashTypeOK, Alone, NEW c \in Clerks, NEW next, doing' = [doing EXCEPT ![c] = next]
  PROVE  \A d \in Clerks : d = c /\ doing'[d] = next
BY DEF TrashTypeOK, Alone

\* A value that is stored is a number.
LEMMA TrashNumbers ==
  ASSUME TrashTypeOK
  PROVE  /\ head \in Int /\ clock \in Int /\ clock >= 0
         /\ \A n \in Rows : row[n] \in Int
         /\ \A c \in Clerks : stamp[c] \in Int /\ stamp[c] >= 0 /\ target[c] \in Rows
BY TrashAssumption DEF TrashTypeOK, Stamps, Alive, Never, Gone

\* What the invariant says with one request, before a step and after it.
LEMMA SeenByOne ==
  ASSUME Alone, NEW c \in Clerks
  PROVE  /\ \A n \in Rows : WithOrder(n) <=>
              row[n] = head \/ (doing[c] \in {"stamping", "reviving"} /\ row[n] = stamp[c])
         /\ NoneYounger <=>
              (Dead(head) =>
                 \A n \in Rows \ lost : Dead(row[n]) =>
                   row[n] <= head \/ (doing[c] = "stamping" /\ row[n] = stamp[c]))
BY DEF Alone, WithOrder, NoneYounger

LEMMA SeenByOneNext ==
  ASSUME Alone, NEW c \in Clerks
  PROVE  /\ \A n \in Rows : WithOrder(n)' <=>
              row'[n] = head' \/ (doing'[c] \in {"stamping", "reviving"} /\ row'[n] = stamp'[c])
         /\ NoneYounger' <=>
              (Dead(head') =>
                 \A n \in Rows \ lost' : Dead(row'[n]) =>
                   row'[n] <= head' \/ (doing'[c] = "stamping" /\ row'[n] = stamp'[c]))
BY DEF Alone, WithOrder, NoneYounger, Dead

\* Values that were there before, the time that it is, and marks are not in the future.
LEMMA SoFarStays ==
  ASSUME TrashTypeOK, SoFar, clock' = clock, head' \in {head, Alive, Gone},
         \A n \in Rows : row'[n] \in {row[n], Gone, Alive},
         \A c \in Clerks : stamp'[c] \in {stamp[c], head, clock}
  PROVE  SoFar'
<1>1. 0 <= clock /\ -2 <= clock /\ clock <= clock /\ head <= clock
  BY TrashNumbers DEF SoFar
<1>2. head' <= clock
  BY <1>1 DEF Alive, Gone
<1>3. ASSUME NEW n \in Rows PROVE row'[n] <= clock
  BY <1>1 DEF Alive, Gone, SoFar
<1>4. ASSUME NEW c \in Clerks PROVE stamp'[c] <= clock
  BY <1>1 DEF SoFar
<1> QED
  BY <1>2, <1>3, <1>4 DEF SoFar

\* A request that begins or ends, and changes nothing in the trash.
LEMMA OnlyMoves ==
  ASSUME TrashTypeOK, Alone, TrashInv, NEW c \in Clerks,
         doing[c] \notin {"stamping", "reviving"}, doing'[c] \notin {"stamping", "reviving"},
         UNCHANGED <<head, row, lost, removed, wronged>>
  PROVE  Accounted' /\ NoneYounger' /\ WindowIsKept'
<1>1. \A n \in Rows : WithOrder(n)' <=> WithOrder(n)
  BY SeenByOne, SeenByOneNext
<1>2. Accounted'
  BY <1>1 DEF TrashInv, Accounted
<1>3. NoneYounger'
  BY SeenByOne, SeenByOneNext DEF TrashInv
<1> QED
  BY <1>2, <1>3 DEF TrashInv, WindowIsKept

LEMMA CascadeKeeps ==
  ASSUME TrashTypeOK, Alone, TrashInv, NEW c \in Clerks, Cascade(c)
  PROVE  TrashInv'
<1> USE DEF TrashInv
<1>1. /\ \A d \in Clerks : d = c /\ doing'[d] = "stamping"
      /\ clock' = clock + 1 /\ doing[c] = "cascading"
      /\ stamp'[c] = clock + 1
      /\ row' \in [Rows -> Stored]
      /\ \A n \in Rows : row'[n] = IF row[n] = Alive THEN clock + 1 ELSE row[n]
      /\ UNCHANGED <<head, removed, lost, wronged>>
  <2>1. \A d \in Clerks : d = c /\ doing'[d] = "stamping"
    BY OnlyOne DEF Cascade, Go
  <2>2. \A n \in Rows : row'[n] = IF row[n] = Alive THEN clock + 1 ELSE row[n]
    BY DEF Cascade, Cascaded
  <2>3. row' \in [Rows -> Stored]
    BY TrashTypeStep DEF TrashTypeOK, Stored, TrashNext, TrashStep
  <2> QED
    BY <2>1, <2>2, <2>3 DEF Cascade, Go, TrashTypeOK
<1>2. SoFar'
  BY <1>1, TrashNumbers DEF SoFar
<1>3. Knows'
  BY <1>1, TrashNumbers DEF Knows, SoFar, Dead, TrashTypeOK
<1>4. Accounted'
  <2> SUFFICES ASSUME head # Gone, NEW n \in Rows, row'[n] # Gone
               PROVE  n \in removed \cup lost <=> Dead(row'[n]) /\ ~WithOrder(n)'
    BY <1>1 DEF Accounted
  <2>1. WithOrder(n)' <=> row'[n] = head \/ row'[n] = clock + 1
    BY <1>1, SeenByOneNext
  <2>2. WithOrder(n) <=> row[n] = head
    BY <1>1, SeenByOne
  <2>3. row[n] # Gone /\ row[n] <= clock /\ row[n] \in Int /\ clock \in Int /\ clock >= 0
    BY <1>1, TrashNumbers DEF SoFar, Gone, Alive
  <2>4. n \in removed \cup lost <=> Dead(row[n]) /\ ~WithOrder(n)
    BY <2>3 DEF Accounted
  <2> QED
    BY <1>1, <2>1, <2>2, <2>3, <2>4 DEF Dead, Alive
<1>5. NoneYounger'
  BY <1>1, SeenByOne, SeenByOneNext
<1> QED
  BY <1>1, <1>2, <1>3, <1>4, <1>5 DEF WindowIsKept

LEMMA StampHeadKeeps ==
  ASSUME TrashTypeOK, Alone, TrashInv, NEW c \in Clerks, StampHead(c)
  PROVE  TrashInv'
<1> USE DEF TrashInv
<1>1. /\ \A d \in Clerks : d = c /\ doing'[d] = "idle"
      /\ doing[c] = "stamping"
      /\ head' = IF head = Gone THEN Gone ELSE stamp[c]
      /\ lost' = IF Dead(head) THEN lost \cup Carrying(head) ELSE lost
      /\ UNCHANGED <<row, clock, stamp, target, removed, wronged>>
  BY OnlyOne DEF StampHead, Go
<1>2. /\ Dead(stamp[c]) /\ head < stamp[c] /\ stamp[c] <= clock
      /\ \A n \in Rows : row[n] <= stamp[c]
  BY <1>1 DEF Knows, SoFar
<1>3. SoFar'
  BY <1>1, <1>2 DEF SoFar
<1>4. Knows'
  BY <1>1 DEF Knows
<1>5. Accounted'
  <2> SUFFICES ASSUME head' # Gone, NEW n \in Rows, row[n] # Gone
               PROVE  n \in removed \cup lost' <=> Dead(row[n]) /\ ~WithOrder(n)'
    BY <1>1 DEF Accounted
  <2>1. head # Gone /\ head' = stamp[c]
    BY <1>1
  <2>2. WithOrder(n)' <=> row[n] = stamp[c]
    BY <1>1, <2>1, SeenByOneNext
  <2>3. WithOrder(n) <=> row[n] = head \/ row[n] = stamp[c]
    BY <1>1, SeenByOne
  <2>4. n \in removed \cup lost <=> Dead(row[n]) /\ ~WithOrder(n)
    BY <2>1 DEF Accounted
  <2>5. n \in lost' <=> n \in lost \/ (Dead(head) /\ row[n] = head)
    BY <1>1 DEF Carrying
  <2>6. head \in Int /\ stamp[c] \in Int /\ row[n] \in Int
    BY TrashNumbers
  <2> QED
    BY <1>2, <2>2, <2>3, <2>4, <2>5, <2>6 DEF Dead
<1>6. NoneYounger'
  BY <1>1, <1>2, SeenByOneNext DEF Dead, Gone
<1> QED
  BY <1>1, <1>3, <1>4, <1>5, <1>6 DEF WindowIsKept

LEMMA RemoveLineKeeps ==
  ASSUME TrashTypeOK, Alone, TrashInv, NEW c \in Clerks, RemoveLine(c)
  PROVE  TrashInv'
<1> USE DEF TrashInv
<1>1. /\ \A d \in Clerks : d = c /\ doing'[d] = "recounting"
      /\ clock' = clock + 1 /\ doing[c] = "removing"
      /\ removed' = removed \cup {target[c]}
      /\ UNCHANGED <<head, stamp, target, lost, wronged>>
  BY OnlyOne DEF RemoveLine, Go
<1>2. head = Alive /\ row[target[c]] = Alive /\ target[c] \in Rows
  BY <1>1, TrashNumbers DEF Knows
<1>3. \A n \in Rows : row'[n] = IF n = target[c] THEN clock + 1 ELSE row[n]
  BY <1>2 DEF RemoveLine, TrashTypeOK, IsStored, Alive
<1>4. SoFar'
  BY <1>1, <1>2, <1>3, TrashNumbers DEF SoFar
<1>5. Knows'
  BY <1>1, <1>2 DEF Knows
<1>6. Accounted'
  <2> SUFFICES ASSUME NEW n \in Rows, row'[n] # Gone
               PROVE  n \in removed' \cup lost <=> Dead(row'[n]) /\ ~WithOrder(n)'
    BY <1>1 DEF Accounted
  <2>1. (WithOrder(n)' <=> row'[n] = Alive) /\ (WithOrder(n) <=> row[n] = Alive)
    BY <1>1, <1>2, SeenByOne, SeenByOneNext
  <2>2. CASE n = target[c]
    <3>1. clock + 1 > 0
      BY TrashAssumption DEF TrashTypeOK
    <3> QED
      BY <1>1, <1>3, <2>1, <2>2, <3>1 DEF Dead, Alive
  <2>3. CASE n # target[c]
    BY <1>1, <1>2, <1>3, <2>1, <2>3 DEF Accounted, Alive, Gone
  <2> QED
    BY <2>2, <2>3
<1>7. NoneYounger'
  BY <1>1, <1>2 DEF NoneYounger, Dead, Alive
<1> QED
  BY <1>1, <1>4, <1>5, <1>6, <1>7 DEF WindowIsKept

LEMMA AddLineKeeps ==
  ASSUME TrashTypeOK, Alone, TrashInv, NEW c \in Clerks, AddLine(c)
  PROVE  TrashInv'
<1> USE DEF TrashInv
<1>1. /\ \A d \in Clerks : d = c /\ doing'[d] = "idle"
      /\ doing[c] = "adding"
      /\ UNCHANGED <<head, clock, stamp, target, removed, lost, wronged>>
  BY OnlyOne DEF AddLine, Go
<1>2. head = Alive
  BY <1>1 DEF Knows
<1>3. \A n \in Rows : row'[n] = row[n] \/ (row[n] = Never /\ row'[n] = Alive)
  BY TrashNumbers DEF AddLine, TrashTypeOK
<1>4. SoFar'
  BY <1>1, <1>2, <1>3, TrashNumbers DEF SoFar
<1>5. Knows'
  BY <1>1 DEF Knows
<1>6. Accounted'
  <2> SUFFICES ASSUME NEW n \in Rows, row'[n] # Gone
               PROVE  n \in removed \cup lost <=> Dead(row'[n]) /\ ~WithOrder(n)'
    BY <1>1 DEF Accounted
  <2>1. (WithOrder(n)' <=> row'[n] = Alive) /\ (WithOrder(n) <=> row[n] = Alive)
    BY <1>1, <1>2, SeenByOne, SeenByOneNext
  <2>2. row[n] # Gone
    BY <1>3 DEF Never, Gone
  <2>3. n \in removed \cup lost <=> Dead(row[n]) /\ ~WithOrder(n)
    BY <1>2, <2>2 DEF Accounted, Alive, Gone
  <2> QED
    BY <1>3, <2>1, <2>3 DEF Dead, Alive, Never
<1>7. NoneYounger'
  BY <1>1, <1>2 DEF NoneYounger, Dead, Alive
<1> QED
  BY <1>1, <1>4, <1>5, <1>6, <1>7 DEF WindowIsKept

LEMMA RestoreHeadKeeps ==
  ASSUME TrashTypeOK, Alone, TrashInv, NEW c \in Clerks, RestoreHead(c)
  PROVE  TrashInv'
<1> USE DEF TrashInv
<1>1. /\ \A d \in Clerks : d = c /\ doing'[d] = IF stamp[c] = Alive THEN "idle" ELSE "reviving"
      /\ doing[c] = "restoring"
      /\ head' = IF head = Gone THEN Gone ELSE Alive
      /\ UNCHANGED <<row, clock, stamp, target, removed, lost, wronged>>
  BY OnlyOne DEF RestoreHead, Go
<1>2. head = stamp[c] /\ stamp[c] \in Nat /\ head' = Alive
  BY <1>1, TrashNumbers DEF Knows, Gone
<1>3. SoFar'
  BY <1>1, <1>2, TrashNumbers DEF SoFar, Alive
<1>4. Knows'
  BY <1>1, <1>2 DEF Knows, Dead, Alive
<1>5. Accounted'
  <2> SUFFICES ASSUME NEW n \in Rows, row[n] # Gone
               PROVE  n \in removed \cup lost <=> Dead(row[n]) /\ ~WithOrder(n)'
    BY <1>1 DEF Accounted
  <2>1. WithOrder(n) <=> row[n] = stamp[c]
    BY <1>1, <1>2, SeenByOne
  <2>2. WithOrder(n)' <=> row[n] = Alive \/ (stamp[c] # Alive /\ row[n] = stamp[c])
    BY <1>1, <1>2, SeenByOneNext
  <2>3. n \in removed \cup lost <=> Dead(row[n]) /\ ~WithOrder(n)
    BY <1>2 DEF Accounted, Gone
  <2> QED
    BY <2>1, <2>2, <2>3 DEF Dead, Alive
<1>6. NoneYounger'
  BY <1>2 DEF NoneYounger, Dead, Alive
<1> QED
  BY <1>1, <1>3, <1>4, <1>5, <1>6 DEF WindowIsKept

LEMMA ReviveKeeps ==
  ASSUME TrashTypeOK, Alone, TrashInv, NEW c \in Clerks, Revive(c)
  PROVE  TrashInv'
<1> USE DEF TrashInv
<1>1. /\ \A d \in Clerks : d = c /\ doing'[d] = "idle"
      /\ doing[c] = "reviving"
      /\ UNCHANGED <<head, clock, stamp, target, removed, lost, wronged>>
  BY OnlyOne DEF Revive, Go
<1>2. head = Alive /\ Dead(stamp[c])
  BY <1>1 DEF Knows
<1>3. \A n \in Rows : row'[n] = IF row[n] = stamp[c] THEN Alive ELSE row[n]
  BY DEF Revive, Revived
<1>4. SoFar'
  BY <1>1, <1>2, <1>3, TrashNumbers DEF SoFar
<1>5. Knows'
  BY <1>1 DEF Knows
<1>6. Accounted'
  <2> SUFFICES ASSUME NEW n \in Rows, row'[n] # Gone
               PROVE  n \in removed \cup lost <=> Dead(row'[n]) /\ ~WithOrder(n)'
    BY <1>1 DEF Accounted
  <2>1. WithOrder(n) <=> row[n] = Alive \/ row[n] = stamp[c]
    BY <1>1, <1>2, SeenByOne
  <2>2. WithOrder(n)' <=> row'[n] = Alive
    BY <1>1, <1>2, SeenByOneNext
  <2>3. row[n] # Gone
    BY <1>2, <1>3 DEF Dead, Gone
  <2>4. n \in removed \cup lost <=> Dead(row[n]) /\ ~WithOrder(n)
    BY <1>2, <2>3 DEF Accounted, Gone, Alive
  <2> QED
    BY <1>3, <2>1, <2>2, <2>4 DEF Dead, Alive
<1>7. NoneYounger'
  BY <1>1, <1>2 DEF NoneYounger, Dead, Alive
<1> QED
  BY <1>1, <1>4, <1>5, <1>6, <1>7 DEF WindowIsKept

LEMMA PurgeKeeps ==
  ASSUME TrashTypeOK, Alone, TrashInv, NEW c \in Clerks, Purge(c)
  PROVE  TrashInv'
<1> USE DEF TrashInv
<1>1. /\ \A d \in Clerks : d = c /\ doing'[d] = "idle"
      /\ doing[c] = "purging" /\ head' = Gone
      /\ \A n \in Rows : row'[n] = IF IsStored(row[n]) THEN Gone ELSE row[n]
      /\ wronged' = wronged \cup (IF head = Alive THEN LiveRows \cup {"order"} ELSE {})
      /\ UNCHANGED <<clock, stamp, target, removed, lost>>
  BY OnlyOne DEF Purge, Go, Destroyed
<1>2. head # Alive
  BY <1>1 DEF Knows, Dead, Alive
<1>3. SoFar'
  BY <1>1, TrashNumbers DEF SoFar, Gone
<1>4. Knows' /\ Accounted' /\ NoneYounger'
  BY <1>1 DEF Knows, Accounted, NoneYounger, Dead, Gone
<1> QED
  BY <1>1, <1>2, <1>3, <1>4 DEF WindowIsKept

LEMMA SweepLinesKeeps ==
  ASSUME TrashTypeOK, Alone, TrashInv, NEW c \in Clerks, SweepLines(c)
  PROVE  TrashInv'
<1> USE DEF TrashInv
<1>1. /\ \A d \in Clerks : d = c /\ doing'[d] = "sweeping orders"
      /\ doing[c] = "sweeping lines"
      /\ UNCHANGED <<head, clock, stamp, target, removed, lost>>
  BY OnlyOne DEF SweepLines, Go
<1>9. \A n \in Rows : row'[n] = row[n] \/ row'[n] = Gone
  BY DEF SweepLines
<1>2. stamp[c] <= clock
  BY DEF SoFar
<1>3. wronged' = wronged
  <2>1. \A n \in Rows : ~(Expired(row[n], stamp[c]) /\ row[n] >= clock - Retention)
    BY <1>2, TrashNumbers, TrashAssumption DEF Expired
  <2> QED
    BY <2>1 DEF SweepLines
<1>4. SoFar'
  BY <1>1, <1>9, SoFarStays
<1>5. Knows'
  BY <1>1 DEF Knows
<1>6. Accounted'
  <2> SUFFICES ASSUME head # Gone, NEW n \in Rows, row'[n] # Gone
               PROVE  n \in removed \cup lost <=> Dead(row'[n]) /\ ~WithOrder(n)'
    BY <1>1 DEF Accounted
  <2>1. row'[n] = row[n]
    BY <1>9
  <2>2. WithOrder(n)' <=> WithOrder(n)
    BY <1>1, <2>1, SeenByOne, SeenByOneNext
  <2> QED
    BY <2>1, <2>2 DEF Accounted
<1>7. NoneYounger'
  <2> SUFFICES ASSUME Dead(head), NEW n \in Rows \ lost, Dead(row'[n]) PROVE row'[n] <= head
    BY <1>1, SeenByOneNext
  <2>1. row'[n] = row[n]
    BY <1>9 DEF Dead, Gone
  <2> QED
    BY <1>1, <2>1, SeenByOne
<1> QED
  BY <1>3, <1>4, <1>5, <1>6, <1>7 DEF WindowIsKept

LEMMA SweepOrdersKeeps ==
  ASSUME TrashTypeOK, Alone, TrashInv, NEW c \in Clerks, SweepOrders(c)
  PROVE  TrashInv'
<1> USE DEF TrashInv
<1>1. /\ \A d \in Clerks : d = c /\ doing'[d] = "idle"
      /\ doing[c] = "sweeping orders"
      /\ UNCHANGED <<clock, stamp, target, removed, lost>>
  BY OnlyOne DEF SweepOrders, Go
<1>2. CASE ~Expired(head, stamp[c])
  <2>1. UNCHANGED <<head, row, wronged>>
    BY <1>2 DEF SweepOrders
  <2>2. SoFar' /\ Knows'
    BY <1>1, <2>1 DEF SoFar, Knows
  <2> QED
    BY <1>1, <2>1, <2>2, OnlyMoves
<1>3. CASE Expired(head, stamp[c])
  <2>1. head' = Gone /\ \A n \in Rows : row'[n] = row[n] \/ row'[n] = Gone
    BY <1>3 DEF SweepOrders, Destroyed
  <2>2. head < stamp[c] - Retention /\ Dead(head) /\ stamp[c] <= clock
    BY <1>3 DEF Expired, SoFar
  <2>3. \A n \in Rows \ lost : Dead(row[n]) => row[n] <= head
    BY <1>1, <2>2, SeenByOne
  <2>4. ~(head >= clock - Retention) /\ \A n \in Rows \ lost : Dead(row[n]) => ~(row[n] >= clock - Retention)
    BY <2>2, <2>3, TrashNumbers, TrashAssumption
  <2>5. wronged' = wronged
    BY <1>3, <2>4 DEF SweepOrders
  <2>6. SoFar'
    BY <1>1, <2>1, SoFarStays
  <2>7. Knows'
    BY <1>1 DEF Knows
  <2>8. Accounted' /\ NoneYounger'
    BY <2>1 DEF Accounted, NoneYounger, Dead, Gone
  <2> QED
    BY <2>5, <2>6, <2>7, <2>8 DEF WindowIsKept
<1> QED
  BY <1>2, <1>3

LEMMA AdminKeeps ==
  ASSUME TrashTypeOK, Alone, TrashInv, NEW c \in Clerks,
         AdminRestoreHead(c) \/ \E n \in Rows : AdminRestoreLine(c, n)
  PROVE  TrashInv'
<1> USE DEF TrashInv
<1>1. /\ \A d \in Clerks : d = c /\ doing'[d] = "idle"
      /\ doing[c] = "idle"
      /\ UNCHANGED <<clock, stamp, target, wronged>>
  BY OnlyOne DEF AdminRestoreHead, AdminRestoreLine, Ask
<1>2. Knows' /\ WindowIsKept'
  BY <1>1 DEF Knows, WindowIsKept
<1>3. CASE AdminRestoreHead(c)
  <2>1. /\ Dead(head) /\ head' = Alive /\ UNCHANGED <<row, removed>>
        /\ \A n \in Rows : n \in lost' <=> n \in lost \/ row[n] = head
    BY <1>3 DEF AdminRestoreHead, Carrying
  <2>2. SoFar'
    BY <1>1, <2>1, TrashNumbers DEF SoFar, Alive
  <2>3. \A n \in Rows : (WithOrder(n) <=> row[n] = head) /\ (WithOrder(n)' <=> row[n] = Alive)
    BY <1>1, <2>1, SeenByOne, SeenByOneNext
  <2>4. Accounted'
    BY <2>1, <2>3 DEF Accounted, Dead, Alive, Gone
  <2>5. NoneYounger'
    BY <2>1 DEF NoneYounger, Dead, Alive
  <2> QED
    BY <1>2, <2>2, <2>4, <2>5
<1>4. ASSUME NEW n \in Rows, AdminRestoreLine(c, n) PROVE TrashInv'
  <2>1. /\ Dead(row[n]) /\ UNCHANGED head
        /\ \A m \in Rows : row'[m] = IF m = n THEN Alive ELSE row[m]
        /\ removed' = removed \ {n} /\ lost' = lost \ {n}
    BY <1>4 DEF AdminRestoreLine, TrashTypeOK
  <2>2. SoFar'
    BY <1>1, <2>1, TrashNumbers DEF SoFar, Alive
  <2>3. \A m \in Rows : (WithOrder(m) <=> row[m] = head) /\ (WithOrder(m)' <=> row'[m] = head)
    BY <1>1, <2>1, SeenByOne, SeenByOneNext
  <2>4. Accounted'
    BY <2>1, <2>3 DEF Accounted, Dead, Alive
  <2>5. NoneYounger'
    BY <1>1, <2>1, SeenByOne, SeenByOneNext DEF Dead, Alive
  <2> QED
    BY <1>2, <2>2, <2>4, <2>5
<1> QED
  BY <1>3, <1>4

LEMMA CutShortKeeps ==
  ASSUME TrashTypeOK, Alone, TrashInv, NEW c \in Clerks, CutShort(c)
  PROVE  TrashInv'
<1> USE DEF TrashInv
<1>1. /\ \A d \in Clerks : d = c /\ doing'[d] = "idle"
      /\ UNCHANGED <<head, row, clock, stamp, target, removed, wronged>>
  BY OnlyOne DEF CutShort
<1>2. SoFar' /\ Knows'
  BY <1>1 DEF SoFar, Knows
<1>3. CASE doing[c] \notin {"stamping", "reviving"}
  <2>1. lost' = lost
    BY <1>3 DEF CutShort
  <2> QED
    BY <1>1, <1>2, <1>3, <2>1, OnlyMoves
<1>4. CASE doing[c] \in {"stamping", "reviving"}
  <2>1. \A n \in Rows : n \in lost' <=> n \in lost \/ row[n] = stamp[c]
    BY <1>4 DEF CutShort, Carrying
  <2>2. Dead(stamp[c]) /\ head # stamp[c]
    BY <1>4, TrashNumbers DEF Knows, Dead, Alive
  <2>3. \A n \in Rows : /\ WithOrder(n) <=> row[n] = head \/ row[n] = stamp[c]
                        /\ WithOrder(n)' <=> row[n] = head
    BY <1>1, <1>4, SeenByOne, SeenByOneNext
  <2>4. Accounted'
    BY <1>1, <2>1, <2>2, <2>3 DEF Accounted
  <2>5. NoneYounger'
    BY <1>1, <2>1, SeenByOne, SeenByOneNext
  <2> QED
    BY <1>1, <1>2, <2>4, <2>5 DEF WindowIsKept
<1> QED
  BY <1>3, <1>4

\* A request that opens reads, and one that recounts finds the order alive as it was.
LEMMA ReadingKeeps ==
  ASSUME TrashTypeOK, Alone, TrashInv, NEW c \in Clerks,
         \/ OpenDelete(c) \/ OpenRestore(c) \/ OpenPurge(c) \/ OpenSweep(c) \/ Recount(c)
         \/ \E n \in Rows : OpenRemove(c, n) \/ OpenAdd(c, n)
  PROVE  TrashInv'
<1> USE DEF TrashInv
<1>1. PICK next \in {"cascading", "restoring", "purging", "sweeping lines", "idle", "removing", "adding"} :
        doing' = [doing EXCEPT ![c] = next]
  BY DEF OpenDelete, OpenRestore, OpenPurge, OpenSweep, Recount, OpenRemove, OpenAdd, Ask, Go
<1>2. \A d \in Clerks : d = c /\ doing'[d] = next
  BY <1>1, OnlyOne
<1>3. doing[c] \in {"idle", "recounting"}
  BY DEF OpenDelete, OpenRestore, OpenPurge, OpenSweep, Recount, OpenRemove, OpenAdd, Ask, Go
<1>4. UNCHANGED <<head, row, clock, removed, lost, wronged>>
  <2>1. CASE Recount(c)
    BY <2>1 DEF Recount, Go, Knows
  <2>2. CASE ~Recount(c)
    BY <2>2 DEF OpenDelete, OpenRestore, OpenPurge, OpenSweep, OpenRemove, OpenAdd
  <2> QED
    BY <2>1, <2>2
<1>5. SoFar'
  <2>1. stamp' = stamp \/ stamp' = [stamp EXCEPT ![c] = head] \/ stamp' = [stamp EXCEPT ![c] = clock]
    BY DEF OpenDelete, OpenRestore, OpenPurge, OpenSweep, Recount, OpenRemove, OpenAdd
  <2>2. \A d \in Clerks : stamp'[d] = stamp[d] \/ stamp'[d] = head \/ stamp'[d] = clock
    BY <2>1 DEF TrashTypeOK
  <2> QED
    BY <1>4, <2>2, SoFarStays
<1>6. Knows'
  <2>1. CASE OpenRestore(c)
    BY <1>2, <1>4, <2>1 DEF Knows, OpenRestore, Ask, TrashTypeOK
  <2>2. CASE OpenPurge(c)
    BY <1>2, <1>4, <2>2 DEF Knows, OpenPurge, Ask, TrashTypeOK
  <2>3. CASE \E n \in Rows : OpenRemove(c, n) \/ OpenAdd(c, n)
    BY <1>2, <1>4, <2>3 DEF Knows, OpenRemove, OpenAdd, Ask, TrashTypeOK
  <2>4. CASE OpenDelete(c) \/ OpenSweep(c) \/ Recount(c)
    <3>1. doing'[c] \in {"cascading", "sweeping lines", "idle"}
      BY <2>4 DEF OpenDelete, OpenSweep, Recount, Ask, Go, TrashTypeOK
    <3> QED
      BY <1>2, <3>1 DEF Knows
  <2> QED
    BY <2>1, <2>2, <2>3, <2>4
<1> QED
  BY <1>2, <1>3, <1>4, <1>5, <1>6, OnlyMoves

LEMMA TrashInvStep ==
  ASSUME TrashTypeOK, Alone, TrashInv, [TrashNext]_trashVars
  PROVE  TrashInv'
<1>1. ASSUME NEW c \in Clerks, TrashStep(c) PROVE TrashInv'
  BY <1>1, CascadeKeeps, StampHeadKeeps, RemoveLineKeeps, AddLineKeeps, RestoreHeadKeeps,
     ReviveKeeps, PurgeKeeps, SweepLinesKeeps, SweepOrdersKeeps, AdminKeeps, CutShortKeeps,
     ReadingKeeps
     DEF TrashStep
<1>2. CASE TimePasses
  <2>1. clock' = clock + 1 /\ UNCHANGED <<head, row, doing, stamp, target, removed, lost, wronged>>
    BY <1>2 DEF TimePasses
  <2>2. SoFar'
    BY <2>1, TrashNumbers DEF TrashInv, SoFar
  <2> QED
    BY <2>1, <2>2
       DEF TrashInv, Knows, Accounted, WithOrder, NoneYounger, WindowIsKept
<1>3. CASE UNCHANGED trashVars
  BY <1>3 DEF trashVars, TrashInv, SoFar, Knows, Accounted, WithOrder, NoneYounger, WindowIsKept
<1> QED
  BY <1>1, <1>2, <1>3 DEF TrashNext

LEMMA AccountedRejoins == TrashTypeOK /\ TrashInv => LinesRejoin
<1> SUFFICES ASSUME TrashTypeOK, TrashInv, Quiet, head = Alive, NEW n \in Rows
             PROVE  Dead(row[n]) <=> n \in removed \cup lost /\ IsStored(row[n])
  BY DEF LinesRejoin, TrashTypeOK
<1>1. WithOrder(n) <=> row[n] = Alive
  BY DEF WithOrder, Quiet
<1>2. row[n] # Gone => (n \in removed \cup lost <=> Dead(row[n]) /\ ~WithOrder(n))
  BY DEF TrashInv, Accounted, Alive, Gone
<1> QED
  BY <1>1, <1>2, TrashNumbers DEF Dead, IsStored, Alive, Gone

\* With one request at a time, whatever crashes, an order that is deleted and restored
\* has the lines that it took, and only those; with several requests it need not.
THEOREM RestoreBringsItsOwn ==
  ASSUME Alone
  PROVE  TrashSpec => []LinesRejoin
<1>1. TrashTypeOK /\ TrashInv /\ [TrashNext]_trashVars => TrashInv'
  BY TrashInvStep
<1>2. TrashTypeOK /\ TrashInv => LinesRejoin
  BY AccountedRejoins
<1> QED
  BY TrashTypes, TrashInvInit, <1>1, <1>2, PTL DEF TrashSpec

\* And nothing is destroyed that a screen shows, nor anything younger than the retention.
THEOREM RetentionKept ==
  ASSUME Alone
  PROVE  TrashSpec => []WindowIsKept
<1>1. TrashTypeOK /\ TrashInv /\ [TrashNext]_trashVars => TrashInv'
  BY TrashInvStep
<1>2. TrashInv => WindowIsKept
  BY DEF TrashInv
<1> QED
  BY TrashTypes, TrashInvInit, <1>1, <1>2, PTL DEF TrashSpec

-----------------------------------------------------------------------------
(***************************************************************************)
(* DiagnosticCodes, for any sessions, reports, dates and readings.  A scan *)
(* that re-read another may be thrown away and taken back, so what is      *)
(* inductive says of every scan that was ever confirmed, in the trash or   *)
(* not, where the one it re-read is.                                       *)
(***************************************************************************)

\* Every value is one of its column, for any requests in any order.
THEOREM DiagTypeCorrect == DiagSpec => []DiagTypeOK
<1>1. DiagInit => DiagTypeOK
  BY DiagnosticAssumption DEF DiagInit, DiagTypeOK, CodeStatus
<1>2. DiagTypeOK /\ [DiagNext]_diagVars => DiagTypeOK'
  <2> SUFFICES ASSUME DiagTypeOK, [DiagNext]_diagVars PROVE DiagTypeOK'
    OBVIOUS
  <2> USE DEF DiagTypeOK
  <2>1. ASSUME NEW s \in Sessions, NEW r \in Reports, NEW d \in Days, NEW m \in Miles,
               Upload(s, r, d, m)
        PROVE  DiagTypeOK'
    <3>1. AlreadyInHistory(r) \subseteq Sessions \cup {NoScan}
      BY DEF AlreadyInHistory
    <3>2. Extracted \subseteq CodeStatus \cup {"none"}
      BY DEF Extracted, CodeStatus
    <3> QED
      BY <2>1, <3>1, <3>2 DEF Upload
  <2>2. ASSUME NEW s \in Sessions, NEW p \in Sessions, Reread(s, p) PROVE DiagTypeOK'
    BY <2>2 DEF Reread, Extracted, CodeStatus
  <2>3. ASSUME NEW s \in Sessions, NEW d \in Days, NEW m \in Miles, Confirm(s, d, m)
        PROVE  DiagTypeOK'
    <3>1. Displaced(s) \subseteq Sessions
      BY DEF Displaced
    <3>2. code' \in [Sessions -> CodeStatus \cup {"none"}]
      BY <2>3 DEF Confirm, CodeStatus
    <3> QED
      BY <2>3, <3>1, <3>2 DEF Confirm
  <2>4. ASSUME NEW s \in Sessions, NEW c \in CodeStatus, SetStatus(s, c) PROVE DiagTypeOK'
    BY <2>4 DEF SetStatus
  <2>5. ASSUME NEW s \in Sessions, Reparse(s) PROVE DiagTypeOK'
    BY <2>5 DEF Reparse, Extracted, CodeStatus
  <2>6. ASSUME NEW s \in Sessions, Discard(s) \/ Recall(s) \/ Promote(s) PROVE DiagTypeOK'
    BY <2>6 DEF Discard, Recall, Promote
  <2>7. ASSUME NEW s \in Sessions, CloseWork(s) PROVE DiagTypeOK'
    BY <2>7 DEF CloseWork, CodeStatus
  <2>8. CASE UNCHANGED diagVars
    BY <2>8 DEF diagVars
  <2> QED
    BY <2>1, <2>2, <2>3, <2>4, <2>5, <2>6, <2>7, <2>8 DEF DiagNext
<1> QED
  BY <1>1, <1>2, PTL DEF DiagSpec

-----------------------------------------------------------------------------
\* Wherever a scan is that was vouched for, what it re-read was displaced.
Replaced ==
  \A s \in Sessions :
    (review[s] = "confirmed" /\ supersedes[s] # NoScan)
      => supersedes[s] \in trashed \cup recalled

LEMMA ReplacedStep ==
  DiagTypeOK /\ Replaced /\ [DiagNext]_diagVars => Replaced'
<1> SUFFICES ASSUME DiagTypeOK, Replaced, [DiagNext]_diagVars PROVE Replaced'
  OBVIOUS
<1> USE DEF DiagTypeOK, Replaced
<1>1. ASSUME NEW s \in Sessions, NEW r \in Reports, NEW d \in Days, NEW m \in Miles,
             Upload(s, r, d, m)
      PROVE  Replaced'
  BY <1>1 DEF Upload
<1>2. ASSUME NEW s \in Sessions, NEW p \in Sessions, Reread(s, p) PROVE Replaced'
  BY <1>2 DEF Reread
<1>3. ASSUME NEW s \in Sessions, NEW d \in Days, NEW m \in Miles, Confirm(s, d, m)
      PROVE  Replaced'
  <2>1. supersedes[s] # NoScan => supersedes[s] \in trashed \cup Displaced(s)
    BY DEF Displaced
  <2> QED
    BY <1>3, <2>1 DEF Confirm
<1>4. ASSUME NEW s \in Sessions, Discard(s) \/ Recall(s) PROVE Replaced'
  BY <1>4 DEF Discard, Recall
<1>5. ASSUME NEW s \in Sessions,
             \/ Reparse(s) \/ Promote(s) \/ CloseWork(s)
             \/ \E c \in CodeStatus : SetStatus(s, c)
      PROVE  Replaced'
  BY <1>5 DEF Reparse, Promote, CloseWork, SetStatus
<1>6. CASE UNCHANGED diagVars
  BY <1>6 DEF diagVars
<1> QED
  BY <1>1, <1>2, <1>3, <1>4, <1>5, <1>6 DEF DiagNext

\* A re-reading is not a second scan, however many there are and in whatever order
\* they are read, confirmed, thrown away and taken back.
THEOREM RereadReplacesHolds == DiagSpec => []RereadReplaces
<1>1. DiagInit => Replaced
  BY DEF DiagInit, Replaced
<1>2. Replaced => RereadReplaces
  BY DEF Replaced, RereadReplaces, InHistory
<1> QED
  BY <1>1, <1>2, ReplacedStep, DiagTypeCorrect, PTL DEF DiagSpec

-----------------------------------------------------------------------------
\* What VouchedStays says of one step.
Kept ==
  \A s \in Sessions : review[s] = "confirmed" =>
    /\ review'[s] = "confirmed"
    /\ report'[s] = report[s] /\ day'[s] = day[s] /\ miles'[s] = miles[s]
    /\ (code'[s] = "none") = (code[s] = "none")

LEMMA KeptByStep == DiagTypeOK /\ DiagNext => Kept
<1> SUFFICES ASSUME DiagTypeOK, DiagNext PROVE Kept
  OBVIOUS
<1> USE DEF DiagTypeOK, Kept
<1>1. ASSUME NEW s \in Sessions, NEW r \in Reports, NEW d \in Days, NEW m \in Miles,
             Upload(s, r, d, m)
      PROVE  Kept
  BY <1>1 DEF Upload, NextId
<1>2. ASSUME NEW s \in Sessions, NEW p \in Sessions, Reread(s, p) PROVE Kept
  BY <1>2 DEF Reread, NextId
<1>3. ASSUME NEW s \in Sessions, NEW d \in Days, NEW m \in Miles, Confirm(s, d, m)
      PROVE  Kept
  BY <1>3 DEF Confirm, Draft
<1>4. ASSUME NEW s \in Sessions, NEW c \in CodeStatus, SetStatus(s, c) PROVE Kept
  <2>1. c # "none"
    BY DEF CodeStatus
  <2> QED
    BY <1>4, <2>1 DEF SetStatus
<1>5. ASSUME NEW s \in Sessions, Reparse(s) PROVE Kept
  BY <1>5 DEF Reparse, Draft
<1>6. ASSUME NEW s \in Sessions, Discard(s) \/ Recall(s) \/ Promote(s) \/ CloseWork(s) PROVE Kept
  BY <1>6 DEF Discard, Recall, Promote, CloseWork
<1> QED
  BY <1>1, <1>2, <1>3, <1>4, <1>5, <1>6 DEF DiagNext

\* What was vouched for keeps its report, its date, its reading and what was on it.
THEOREM VouchedStaysHolds == DiagSpec => VouchedStays
<1>1. DiagTypeOK /\ [DiagNext]_diagVars => [Kept]_diagVars
  BY KeptByStep
<1> QED
  BY <1>1, DiagTypeCorrect, PTL DEF DiagSpec, VouchedStays, Kept

-----------------------------------------------------------------------------
(***************************************************************************)
(* Inspections, for any findings, items and number of requests.  That a    *)
(* finding is converted once rests on a result naming its item for ever, on *)
(* an item not yet made being named by none, and on what a request has read *)
(* being older than the write it meets.                                    *)
(***************************************************************************)

\* A row with another answer, or another link, is a row.
LEMMA SlotAnswered ==
  ASSUME NEW s \in Slot, NEW a \in Answers
  PROVE  /\ [s EXCEPT !.status = a] \in Slot
         /\ [s EXCEPT !.status = a].link = s.link /\ [s EXCEPT !.status = a].row = s.row
BY DEF Slot

LEMMA SlotLinked ==
  ASSUME NEW s \in Slot, NEW i \in Items \cup {NoItem}
  PROVE  /\ [s EXCEPT !.link = i] \in Slot
         /\ [s EXCEPT !.link = i].link = i /\ [s EXCEPT !.link = i].row = s.row
BY DEF Slot

\* What a request that was opened has read.
LEMMA OpensKeepsTypes ==
  ASSUME InspectTypeOK, NEW q \in Requests,
         NEW at \in {"record", "convert", "abandon", "resume", "add"},
         NEW on \in SUBSET Results, Opens(q, at, on)
  PROVE  request' \in [Requests ->
           [at : {"idle", "record", "convert", "abandon", "resume", "add"},
            on : SUBSET Results, copy : [Results -> Slot]]]
<1> DEFINE copied == [r \in Results |-> IF r \in on THEN slot[r] ELSE Blank]
<1>1. Blank \in Slot
  BY DEF Blank, Slot, Answers
<1>2. copied \in [Results -> Slot]
  BY <1>1 DEF InspectTypeOK
<1>3. request' = [request EXCEPT ![q] = [at |-> at, on |-> on, copy |-> copied]]
  BY DEF Opens
<1> HIDE DEF copied
<1> QED
  BY <1>2, <1>3 DEF InspectTypeOK

LEMMA AnsweredKeepsTypes ==
  ASSUME InspectTypeOK, NEW q \in Requests, Answered(q)
  PROVE  request' \in [Requests ->
           [at : {"idle", "record", "convert", "abandon", "resume", "add"},
            on : SUBSET Results, copy : [Results -> Slot]]]
<1>1. Blank \in Slot
  BY DEF Blank, Slot, Answers
<1>2. NoRequest \in [at : {"idle", "record", "convert", "abandon", "resume", "add"},
                     on : SUBSET Results, copy : [Results -> Slot]]
  BY <1>1 DEF NoRequest
<1> QED
  BY <1>2 DEF Answered, InspectTypeOK

\* There are items for every result that is converted, and convert() picks a different
\* one for each.
Chosen(q) ==
  CHOOSE f \in [request[q].on -> {i \in Items : made[i] = NoResult}] :
    \A r, s \in request[q].on : f[r] = f[s] => r = s

LEMMA ChosenApart ==
  ASSUME InspectTypeOK, NEW q \in Requests, Convert(q)
  PROVE  /\ Chosen(q) \in [request[q].on -> {i \in Items : made[i] = NoResult}]
         /\ \A r, s \in request[q].on : Chosen(q)[r] = Chosen(q)[s] => r = s
<1> DEFINE on == request[q].on
           free == {i \in Items : made[i] = NoResult}
<1>1. IsFiniteSet(on) /\ IsFiniteSet(free) /\ Cardinality(on) <= Cardinality(free)
  <2>1. on \subseteq Results /\ free \subseteq Items
    BY DEF InspectTypeOK
  <2> QED
    BY <2>1, InspectionAssumption, FS_Subset DEF Convert
<1> HIDE DEF on, free
<1>2. /\ Cardinality(on) \in Nat /\ ExistsBijection(1..Cardinality(on), on)
      /\ Cardinality(free) \in Nat /\ ExistsBijection(1..Cardinality(free), free)
  BY <1>1, FS_CardinalityType
<1>3. ExistsInjection(on, 1..Cardinality(on))
  BY <1>2, Fun_ExistsBijEquiv
<1>4. ExistsInjection(1..Cardinality(on), 1..Cardinality(free))
  <2> DEFINE self == [k \in 1..Cardinality(on) |-> k]
  <2>1. self \in Injection(1..Cardinality(on), 1..Cardinality(free))
    BY <1>1, <1>2 DEF Injection, IsInjective
  <2> QED
    BY <2>1 DEF ExistsInjection
<1>5. ExistsInjection(1..Cardinality(free), free)
  BY <1>2, Fun_ExistsBijEquiv
<1>6. ExistsInjection(on, free)
  BY <1>3, <1>4, <1>5, Fun_ExistsInjTransitive
<1>7. \E f \in [on -> free] : \A r, s \in on : f[r] = f[s] => r = s
  BY <1>6 DEF ExistsInjection, Injection, IsInjective
<1> QED
  BY <1>7 DEF Chosen, on, free

\* What a conversion writes.
LEMMA ConvertWrites ==
  ASSUME InspectTypeOK, NEW q \in Requests, Convert(q)
  PROVE  /\ request[q].at = "convert" /\ request[q].on \subseteq Results
         /\ made' \in [Items -> Results \cup {NoResult}]
         /\ slot' \in [Results -> Slot]
         /\ \A r \in request[q].on :
              /\ Chosen(q)[r] \in Items /\ made[Chosen(q)[r]] = NoResult
              /\ made'[Chosen(q)[r]] = r
              /\ slot'[r] = [request[q].copy[r] EXCEPT !.link = Chosen(q)[r]]
         /\ \A r \in Results \ request[q].on : slot'[r] = slot[r]
         /\ \A i \in Items : (\E r \in request[q].on : Chosen(q)[r] = i) \/ made'[i] = made[i]
         /\ crossed' = crossed \cup Overwrites(q, request[q].on)
         /\ Answered(q) /\ UNCHANGED <<inspection, gone>>
<1> DEFINE on == request[q].on
           new == Chosen(q)
<1>1. /\ request[q].at = "convert"
      /\ made' = [i \in Items |->
                    IF \E r \in on : new[r] = i THEN CHOOSE r \in on : new[r] = i ELSE made[i]]
      /\ slot' = [r \in Results |->
                    IF r \in on THEN [request[q].copy[r] EXCEPT !.link = new[r]] ELSE slot[r]]
      /\ crossed' = crossed \cup Overwrites(q, on)
      /\ Answered(q) /\ UNCHANGED <<inspection, gone>>
  BY DEF Convert, Chosen
<1>2. /\ on \subseteq Results
      /\ \A r \in on : new[r] \in Items /\ made[new[r]] = NoResult
      /\ \A r, s \in on : new[r] = new[s] => r = s
      /\ request[q].copy \in [Results -> Slot]
  BY ChosenApart DEF InspectTypeOK
<1> HIDE DEF on, new
<1>3. made' \in [Items -> Results \cup {NoResult}]
  BY <1>1, <1>2 DEF InspectTypeOK
<1>4. slot' \in [Results -> Slot]
  <2> SUFFICES ASSUME NEW r \in Results
               PROVE  (IF r \in on THEN [request[q].copy[r] EXCEPT !.link = new[r]]
                       ELSE slot[r]) \in Slot
    BY <1>1
  <2>1. slot[r] \in Slot /\ request[q].copy[r] \in Slot
    BY <1>2 DEF InspectTypeOK
  <2>2. CASE r \in on
    BY <1>2, <2>1, <2>2, SlotLinked
  <2>3. CASE r \notin on
    BY <2>1, <2>3
  <2> QED
    BY <2>2, <2>3
<1>5. \A r \in on : made'[new[r]] = r
  BY <1>1, <1>2
<1>6. \A r \in on : slot'[r] = [request[q].copy[r] EXCEPT !.link = new[r]]
  BY <1>1, <1>2
<1>7. \A r \in Results \ on : slot'[r] = slot[r]
  BY <1>1
<1>8. \A i \in Items : (\E r \in on : new[r] = i) \/ made'[i] = made[i]
  BY <1>1
<1> QED
  BY <1>1, <1>2, <1>3, <1>4, <1>5, <1>6, <1>7, <1>8 DEF on, new

\* What a saved answer writes.
LEMMA RecordWrites ==
  ASSUME InspectTypeOK, NEW q \in Requests, SaveRecord(q)
  PROVE  /\ request[q].at = "record" /\ Answered(q)
         /\ UNCHANGED <<inspection, made, gone>>
         /\ \/ UNCHANGED <<slot, crossed>>
            \/ \E r \in request[q].on : \E answer \in Answers :
                 /\ slot' = [slot EXCEPT ![r] =
                      [request[q].copy[r] EXCEPT !.status = IF answer = "" THEN @ ELSE answer]]
                 /\ crossed' = crossed \cup Overwrites(q, {r})
BY DEF SaveRecord

LEMMA InspectTypeInit == InspectInit => InspectTypeOK
<1> SUFFICES ASSUME InspectInit PROVE InspectTypeOK
  OBVIOUS
<1>1. Blank \in Slot /\ [Blank EXCEPT !.row = "unused"] \in Slot
  BY DEF Blank, Slot, Answers
<1> QED
  BY <1>1 DEF InspectInit, InspectTypeOK, NoRequest

LEMMA InspectTypeStep == InspectTypeOK /\ [InspectNext]_inspectVars => InspectTypeOK'
<1> SUFFICES ASSUME InspectTypeOK, [InspectNext]_inspectVars PROVE InspectTypeOK'
  OBVIOUS
<1>1. ASSUME NEW q \in Requests, NEW r \in Results, OpenRecord(q, r) PROVE InspectTypeOK'
  BY <1>1, OpensKeepsTypes DEF OpenRecord, InspectTypeOK
<1>2. ASSUME NEW q \in Requests, SaveRecord(q) PROVE InspectTypeOK'
  <2>1. request' \in [Requests ->
           [at : {"idle", "record", "convert", "abandon", "resume", "add"},
            on : SUBSET Results, copy : [Results -> Slot]]]
    BY <1>2, RecordWrites, AnsweredKeepsTypes
  <2>2. ASSUME NEW r \in request[q].on, NEW answer \in Answers
        PROVE  /\ r \in Results
               /\ [request[q].copy[r] EXCEPT !.status = IF answer = "" THEN @ ELSE answer] \in Slot
    <3>1. r \in Results /\ request[q].copy[r] \in Slot
      BY DEF InspectTypeOK
    <3>2. (IF answer = "" THEN request[q].copy[r].status ELSE answer) \in Answers
      BY <3>1 DEF Slot
    <3> QED
      BY <3>1, <3>2, SlotAnswered
  <2>3. slot' \in [Results -> Slot] /\ crossed' \subseteq Results
    <3>1. CASE UNCHANGED <<slot, crossed>>
      BY <3>1 DEF InspectTypeOK
    <3>2. CASE \E r \in request[q].on : \E answer \in Answers :
                 /\ slot' = [slot EXCEPT ![r] =
                      [request[q].copy[r] EXCEPT !.status = IF answer = "" THEN @ ELSE answer]]
                 /\ crossed' = crossed \cup Overwrites(q, {r})
      <4>1. PICK r \in request[q].on : \E answer \in Answers :
                 /\ slot' = [slot EXCEPT ![r] =
                      [request[q].copy[r] EXCEPT !.status = IF answer = "" THEN @ ELSE answer]]
                 /\ crossed' = crossed \cup Overwrites(q, {r})
        BY <3>2
      <4>2. PICK answer \in Answers :
                 /\ slot' = [slot EXCEPT ![r] =
                      [request[q].copy[r] EXCEPT !.status = IF answer = "" THEN @ ELSE answer]]
                 /\ crossed' = crossed \cup Overwrites(q, {r})
        BY <4>1
      <4> DEFINE new == [request[q].copy[r] EXCEPT !.status = IF answer = "" THEN @ ELSE answer]
      <4>3. new \in Slot /\ r \in Results /\ slot' = [slot EXCEPT ![r] = new]
        BY <2>2, <4>2
      <4> HIDE DEF new
      <4>4. slot' \in [Results -> Slot]
        BY <4>3 DEF InspectTypeOK
      <4>5. crossed' \subseteq Results
        BY <4>2, <4>3 DEF InspectTypeOK, Overwrites
      <4> QED
        BY <4>4, <4>5
    <3> QED
      BY <1>2, <3>1, <3>2, RecordWrites
  <2> QED
    BY <1>2, <2>1, <2>3, RecordWrites DEF InspectTypeOK
<1>3. ASSUME NEW q \in Requests, NEW at \in {"abandon", "resume", "add"}, OpenStatus(q, at)
      PROVE  InspectTypeOK'
  BY <1>3, OpensKeepsTypes DEF OpenStatus, InspectTypeOK
<1>4. ASSUME NEW q \in Requests, SaveStatus(q) PROVE InspectTypeOK'
  BY <1>4, AnsweredKeepsTypes DEF SaveStatus, InspectTypeOK
<1>5. ASSUME NEW q \in Requests, AddCheck(q) PROVE InspectTypeOK'
  <2>1. Blank \in Slot
    BY DEF Blank, Slot, Answers
  <2>2. slot' \in [Results -> Slot]
    BY <1>5, <2>1, InspectionAssumption DEF AddCheck, InspectTypeOK
  <2> QED
    BY <1>5, <2>2, AnsweredKeepsTypes DEF AddCheck, InspectTypeOK
<1>6. ASSUME NEW q \in Requests, OpenConvert(q) PROVE InspectTypeOK'
  <2>1. Convertible \in SUBSET Results
    BY DEF Convertible
  <2> QED
    BY <1>6, <2>1, OpensKeepsTypes DEF OpenConvert, InspectTypeOK
<1>7. ASSUME NEW q \in Requests, Convert(q) PROVE InspectTypeOK'
  <2>1. crossed' \subseteq Results
    BY <1>7, ConvertWrites DEF Overwrites, InspectTypeOK
  <2> QED
    BY <1>7, <2>1, ConvertWrites, AnsweredKeepsTypes DEF InspectTypeOK
<1>8. ASSUME Complete PROVE InspectTypeOK'
  <2>1. \A r \in Results : slot[r] \in Slot /\ [slot[r] EXCEPT !.status = "fine"] \in Slot
    BY SlotAnswered DEF InspectTypeOK, Answers
  <2>2. slot' \in [Results -> Slot]
    BY <1>8, <2>1 DEF Complete
  <2> QED
    BY <1>8, <2>2 DEF Complete, InspectTypeOK
<1>9. ASSUME NEW r \in Results, RemoveCheck(r) PROVE InspectTypeOK'
  <2>1. slot' \in [Results -> Slot]
    BY <1>9 DEF RemoveCheck, InspectTypeOK, Slot
  <2> QED
    BY <1>9, <2>1 DEF RemoveCheck, InspectTypeOK
<1>10. ASSUME NEW i \in Items, DestroyItem(i) PROVE InspectTypeOK'
  <2>1. \A r \in Results : slot[r] \in Slot /\ [slot[r] EXCEPT !.link = NoItem] \in Slot
    BY DEF InspectTypeOK, Slot
  <2>2. slot' \in [Results -> Slot]
    BY <1>10, <2>1 DEF DestroyItem
  <2> QED
    BY <1>10, <2>2 DEF DestroyItem, InspectTypeOK
<1>11. CASE UNCHANGED inspectVars
  BY <1>11 DEF inspectVars, InspectTypeOK
<1> QED
  BY <1>1, <1>2, <1>3, <1>4, <1>5, <1>6, <1>7, <1>8, <1>9, <1>10, <1>11 DEF InspectNext

-----------------------------------------------------------------------------
(* One item for a finding.                                                 *)

\* A result knows the item that was made of it, as long as it was not saved over.
KnowsItsItem ==
  \A r \in Results \ crossed : \A i \in Items \ gone : made[i] = r => slot[r].link = i

\* A row that was never written links to nothing.
UnusedLinksNothing == \A r \in Results : slot[r].row = "unused" => slot[r].link = NoItem

\* A request reads rows that are stored, and converts only those without an item.
ReadBefore ==
  \A q \in Requests : \A r \in request[q].on :
    /\ request[q].copy[r].row # "unused"
    /\ request[q].at = "convert" => request[q].copy[r].link = NoItem

InspectInv == KnowsItsItem /\ UnusedLinksNothing /\ ReadBefore

LEMMA AnsweredReads ==
  ASSUME InspectTypeOK, ReadBefore, NEW q \in Requests, Answered(q)
  PROVE  ReadBefore'
BY DEF InspectTypeOK, ReadBefore, Answered, NoRequest

LEMMA OpensReads ==
  ASSUME InspectTypeOK, ReadBefore, NEW q \in Requests, NEW at,
         NEW on \in SUBSET Results, Opens(q, at, on),
         \A r \in on : There(r) /\ (at = "convert" => slot[r].link = NoItem)
  PROVE  ReadBefore'
<1> SUFFICES ASSUME NEW p \in Requests, NEW r \in request'[p].on
             PROVE  /\ request'[p].copy[r].row # "unused"
                    /\ request'[p].at = "convert" => request'[p].copy[r].link = NoItem
  BY DEF ReadBefore
<1>1. CASE p # q
  BY <1>1 DEF Opens, InspectTypeOK, ReadBefore
<1>2. CASE p = q
  BY <1>2 DEF Opens, InspectTypeOK, There
<1> QED
  BY <1>1, <1>2

\* Nothing but the rows, the items or the requests matters.
LEMMA SameRows ==
  ASSUME KnowsItsItem, UnusedLinksNothing, UNCHANGED <<slot, made, gone, crossed>>
  PROVE  KnowsItsItem' /\ UnusedLinksNothing'
BY DEF KnowsItsItem, UnusedLinksNothing

LEMMA InspectInvInit == InspectInit => InspectInv
<1> SUFFICES ASSUME InspectInit PROVE InspectInv
  OBVIOUS
<1>1. KnowsItsItem
  BY InspectionAssumption DEF InspectInit, KnowsItsItem
<1>2. UnusedLinksNothing
  BY DEF InspectInit, UnusedLinksNothing, Blank
<1>3. ReadBefore
  BY DEF InspectInit, ReadBefore, NoRequest
<1> QED
  BY <1>1, <1>2, <1>3 DEF InspectInv

LEMMA InspectInvStep ==
  ASSUME InspectTypeOK, InspectInv, [InspectNext]_inspectVars
  PROVE  InspectInv'
<1> USE DEF InspectInv
<1>1. ASSUME NEW q \in Requests, NEW r \in Results, OpenRecord(q, r) PROVE InspectInv'
  <2>1. ReadBefore'
    BY <1>1, OpensReads DEF OpenRecord
  <2> QED
    BY <1>1, <2>1, SameRows DEF OpenRecord
<1>2. ASSUME NEW q \in Requests, SaveRecord(q) PROVE InspectInv'
  <2>1. ReadBefore'
    BY <1>2, RecordWrites, AnsweredReads
  <2>2. UNCHANGED <<made, gone>>
    BY <1>2, RecordWrites
  <2>3. CASE UNCHANGED <<slot, crossed>>
    BY <2>1, <2>2, <2>3, SameRows
  <2>4. ASSUME NEW r \in request[q].on, NEW answer \in Answers,
               slot' = [slot EXCEPT ![r] =
                 [request[q].copy[r] EXCEPT !.status = IF answer = "" THEN @ ELSE answer]],
               crossed' = crossed \cup Overwrites(q, {r})
        PROVE  KnowsItsItem' /\ UnusedLinksNothing'
    <3> DEFINE old == request[q].copy[r]
    <3>1. r \in Results /\ old \in Slot /\ old.row # "unused"
      BY DEF InspectTypeOK, ReadBefore
    <3>2. /\ slot'[r].link = old.link /\ slot'[r].row = old.row
          /\ \A s \in Results \ {r} : slot'[s] = slot[s]
      BY <2>4, <3>1 DEF InspectTypeOK, Slot
    <3>3. r \notin crossed' => slot[r].link = old.link
      BY <2>4 DEF Overwrites
    <3>4. crossed \subseteq crossed'
      BY <2>4
    <3> HIDE DEF old
    <3>5. KnowsItsItem'
      BY <2>2, <3>2, <3>3, <3>4 DEF KnowsItsItem
    <3>6. UnusedLinksNothing'
      BY <3>1, <3>2 DEF UnusedLinksNothing
    <3> QED
      BY <3>5, <3>6
  <2> QED
    BY <1>2, <2>1, <2>3, <2>4, RecordWrites
<1>3. ASSUME NEW q \in Requests, NEW at \in {"abandon", "resume", "add"}, OpenStatus(q, at)
      PROVE  InspectInv'
  <2>1. ReadBefore'
    BY <1>3, OpensReads DEF OpenStatus
  <2> QED
    BY <1>3, <2>1, SameRows DEF OpenStatus
<1>4. ASSUME NEW q \in Requests, SaveStatus(q) PROVE InspectInv'
  BY <1>4, AnsweredReads, SameRows DEF SaveStatus
<1>5. ASSUME NEW q \in Requests, AddCheck(q) PROVE InspectInv'
  <2>1. PICK r \in AdHoc : slot[r].row = "unused" /\ slot' = [slot EXCEPT ![r] = Blank]
    BY <1>5 DEF AddCheck
  <2>2. \A s \in Results : slot'[s].link = slot[s].link /\ (slot'[s].row = "unused" => slot[s].row = "unused")
    BY <2>1, InspectionAssumption DEF InspectTypeOK, UnusedLinksNothing, Blank
  <2> QED
    BY <1>5, <2>2, AnsweredReads DEF AddCheck, KnowsItsItem, UnusedLinksNothing
<1>6. ASSUME NEW q \in Requests, OpenConvert(q) PROVE InspectInv'
  <2>1. ReadBefore'
    BY <1>6, OpensReads DEF OpenConvert, Convertible
  <2> QED
    BY <1>6, <2>1, SameRows DEF OpenConvert
<1>7. ASSUME NEW q \in Requests, Convert(q) PROVE InspectInv'
  <2> DEFINE on == request[q].on
             new == Chosen(q)
             copy == request[q].copy
  <2>1. /\ on \subseteq Results
        /\ \A r \in on : new[r] \in Items /\ made[new[r]] = NoResult /\ made'[new[r]] = r
        /\ \A r \in on : slot'[r] = [copy[r] EXCEPT !.link = new[r]]
        /\ \A r \in Results \ on : slot'[r] = slot[r]
        /\ \A i \in Items : (\E r \in on : new[r] = i) \/ made'[i] = made[i]
        /\ crossed' = crossed \cup Overwrites(q, on)
        /\ gone' = gone /\ Answered(q)
    BY <1>7, ConvertWrites
  <2>2. \A r \in on : copy[r] \in Slot /\ copy[r].row # "unused" /\ copy[r].link = NoItem
    BY <1>7 DEF InspectTypeOK, ReadBefore, Convert
  <2>3. \A r \in on : r \notin crossed' => r \notin crossed /\ slot[r].link = NoItem
    BY <2>1, <2>2 DEF Overwrites
  <2> HIDE DEF on, new, copy
  <2>4. \A r \in on : slot'[r].link = new[r] /\ slot'[r].row # "unused"
    BY <2>1, <2>2 DEF Slot
  <2>5. ASSUME NEW r \in Results \ crossed', NEW i \in Items \ gone', made'[i] = r
        PROVE  slot'[r].link = i
    <3>1. CASE \E s \in on : new[s] = i
      BY <2>1, <2>4, <2>5, <3>1
    <3>2. CASE made'[i] = made[i] /\ r \in on
      BY <2>1, <2>3, <2>5, <3>2, InspectionAssumption DEF KnowsItsItem
    <3>3. CASE made'[i] = made[i] /\ r \notin on
      BY <2>1, <2>5, <3>3 DEF KnowsItsItem
    <3> QED
      BY <2>1, <3>1, <3>2, <3>3
  <2>6. UnusedLinksNothing'
    BY <2>1, <2>4 DEF UnusedLinksNothing
  <2> QED
    BY <2>1, <2>5, <2>6, AnsweredReads DEF KnowsItsItem
<1>8. ASSUME Complete PROVE InspectInv'
  <2>1. \A r \in Results : slot'[r].link = slot[r].link /\ slot'[r].row = slot[r].row
    BY <1>8, SlotAnswered DEF Complete, InspectTypeOK, Answers
  <2> QED
    BY <1>8, <2>1 DEF Complete, KnowsItsItem, UnusedLinksNothing, ReadBefore
<1>9. ASSUME NEW r \in Results, RemoveCheck(r) PROVE InspectInv'
  <2>1. \A s \in Results : /\ slot'[s].link = slot[s].link
                           /\ slot'[s].row = "unused" => slot[s].row = "unused"
    BY <1>9 DEF RemoveCheck, InspectTypeOK, Slot
  <2> QED
    BY <1>9, <2>1 DEF RemoveCheck, KnowsItsItem, UnusedLinksNothing, ReadBefore
<1>10. ASSUME NEW i \in Items, DestroyItem(i) PROVE InspectInv'
  <2>1. \A s \in Results : /\ slot'[s].link = IF slot[s].link = i THEN NoItem ELSE slot[s].link
                           /\ slot'[s].row = slot[s].row
    BY <1>10 DEF DestroyItem, InspectTypeOK, Slot
  <2> QED
    BY <1>10, <2>1 DEF DestroyItem, KnowsItsItem, UnusedLinksNothing, ReadBefore
<1>11. CASE UNCHANGED inspectVars
  BY <1>11 DEF inspectVars, KnowsItsItem, UnusedLinksNothing, ReadBefore
<1> QED
  BY <1>1, <1>2, <1>3, <1>4, <1>5, <1>6, <1>7, <1>8, <1>9, <1>10, <1>11 DEF InspectNext

LEMMA OneLinkOneItem == KnowsItsItem => OneItemPerFinding
<1> SUFFICES ASSUME KnowsItsItem, NEW r \in Results \ crossed
             PROVE  Cardinality({i \in Items \ gone : made[i] = r}) <= 1
  BY DEF OneItemPerFinding
<1> DEFINE mine == {i \in Items \ gone : made[i] = r}
<1>1. mine = {} \/ mine = {slot[r].link}
  BY DEF KnowsItsItem
<1> HIDE DEF mine
<1>2. Cardinality({}) = 0 /\ Cardinality({slot[r].link}) = 1
  BY FS_EmptySet, FS_Singleton
<1>3. Cardinality(mine) <= 1
  BY <1>1, <1>2
<1> QED
  BY <1>3 DEF mine

\* The rows of an inspection keep their types.
THEOREM InspectionTypes == InspectSpec => []InspectTypeOK
<1> QED
  BY InspectTypeInit, InspectTypeStep, PTL DEF InspectSpec

\* A finding is turned into one job item, however many requests answer, convert, sign off
\* and resume at once.
THEOREM FindingConvertedOnce == InspectSpec => []OneItemPerFinding
<1>1. InspectTypeOK /\ InspectInv /\ [InspectNext]_inspectVars
        => (InspectTypeOK /\ InspectInv)'
  BY InspectTypeStep, InspectInvStep
<1>2. InspectTypeOK /\ InspectInv => OneItemPerFinding
  BY OneLinkOneItem DEF InspectInv
<1> QED
  BY InspectTypeInit, InspectInvInit, <1>1, <1>2, PTL DEF InspectSpec

-----------------------------------------------------------------------------
(***************************************************************************)
(* PartsReadiness, for any number of work orders and of claims.  Both      *)
(* properties are about states, and hold in every state whose values have  *)
(* their types: whatever the screens did, the jobs are in a line, by the   *)
(* first claim each still has, and each is offered what is on hand less    *)
(* what the ones before it are owed.  The last job in that line among those *)
(* the property speaks of settles it.                                      *)
(***************************************************************************)

LEMMA ClipIsNat == ASSUME NEW n \in Int PROVE Clip(n) \in Nat /\ n <= Clip(n)
BY DEF Clip

\* The rows keep their types.
LEMMA ReadyTypeInit == ReadyInit => ReadyTypeOK
BY ReadinessAssumption DEF ReadyInit, ReadyTypeOK, Unmade

LEMMA ReadyTypeStep == ReadyTypeOK /\ [ReadyNext]_readyVars => ReadyTypeOK'
<1> SUFFICES ASSUME ReadyTypeOK, [ReadyNext]_readyVars PROVE ReadyTypeOK'
  OBVIOUS
<1> USE ReadinessAssumption
<1>1. ASSUME NEW w \in Orders, NEW q \in 1..Most, PartRequire(w, q) PROVE ReadyTypeOK'
  <2>1. ASSUME NEW c \in ClaimsOf(w), claim[c].qty + q <= Most,
               claim' = [claim EXCEPT ![c].qty = @ + q]
        PROVE  claim' \in [Claims -> [of : Orders \cup {NoOrder}, qty : 0..Most, dropped : BOOLEAN]]
    <3>1. c \in Claims /\ claim[c].qty + q \in 0..Most
      BY <2>1 DEF ReadyTypeOK, ClaimsOf
    <3> QED
      BY <2>1, <3>1 DEF ReadyTypeOK
  <2>2. claim' \in [Claims -> [of : Orders \cup {NoOrder}, qty : 0..Most, dropped : BOOLEAN]]
    <3>1. CASE \E c \in ClaimsOf(w) :
                 /\ claim[c].qty + q <= Most
                 /\ claim' = [claim EXCEPT ![c].qty = @ + q]
      BY <2>1, <3>1
    <3>2. CASE \E c \in Claims :
                 claim' = [claim EXCEPT ![c] = [of |-> w, qty |-> q, dropped |-> FALSE]]
      BY <3>2 DEF ReadyTypeOK
    <3> QED
      BY <1>1, <3>1, <3>2 DEF PartRequire
  <2> QED
    BY <1>1, <2>2 DEF ReadyTypeOK, PartRequire
<1>2. ASSUME NEW w \in Orders, NEW c \in Claims, PartUnrequire(w, c) PROVE ReadyTypeOK'
  BY <1>2 DEF ReadyTypeOK, PartUnrequire, Dropped
<1>3. ASSUME NEW w \in Orders, NEW q \in 1..Most, PartUse(w, q) PROVE ReadyTypeOK'
  <2>1. used[w] + q \in 0..Most /\ Clip(inHand - q) \in 0..Most
    BY <1>3 DEF ReadyTypeOK, PartUse, Clip
  <2> QED
    BY <1>3, <2>1 DEF ReadyTypeOK, PartUse
<1>4. ASSUME NEW w \in Orders, NEW q \in 1..MostBought, PlaceOrder(w, q) PROVE ReadyTypeOK'
  <2>1. coming[w] + q \in 0..MostBought
    BY <1>4 DEF ReadyTypeOK, PlaceOrder
  <2> QED
    BY <1>4, <2>1 DEF ReadyTypeOK, PlaceOrder
<1>5. ASSUME NEW w \in Orders, Receive(w) PROVE ReadyTypeOK'
  <2>1. coming[w] - 1 \in 0..MostBought /\ inHand + 1 \in 0..Most
    BY <1>5 DEF ReadyTypeOK, Receive
  <2> QED
    BY <1>5, <2>1 DEF ReadyTypeOK, Receive
<1>6. ASSUME NEW w \in Orders, TurnOrder(w) PROVE ReadyTypeOK'
  BY <1>6 DEF ReadyTypeOK, TurnOrder
<1>7. ASSUME NEW w \in Orders, Bin(w) \/ Unbin(w) PROVE ReadyTypeOK'
  BY <1>7 DEF ReadyTypeOK, Bin, Unbin
<1>8. ASSUME NEW n \in 0..Most, Count(n) PROVE ReadyTypeOK'
  BY <1>8 DEF ReadyTypeOK, Count
<1>9. CASE UNCHANGED readyVars
  BY <1>9 DEF readyVars, ReadyTypeOK
<1> QED
  BY <1>1, <1>2, <1>3, <1>4, <1>5, <1>6, <1>7, <1>8, <1>9 DEF ReadyNext

\* The requirements, the draws and the orders are rows that a screen can have written,
\* whatever the screens did in whatever order.
THEOREM ReadinessTypes == ReadySpec => []ReadyTypeOK
<1> QED
  BY ReadyTypeInit, ReadyTypeStep, PTL DEF ReadySpec

-----------------------------------------------------------------------------
(* The line of jobs.                                                       *)

\* A job that asked has a first claim, one of its own.
LEMMA FirstClaim ==
  ASSUME NEW w, ClaimsOf(w) # {}
  PROVE  AskedAt(w) \in ClaimsOf(w) /\ AskedAt(w) \in Nat
<1>1. ClaimsOf(w) \in SUBSET Nat
  BY ReadinessAssumption DEF ClaimsOf
<1>2. \E c \in ClaimsOf(w) : \A d \in ClaimsOf(w) : c <= d
  BY <1>1, LeastNumber
<1>3. AskedAt(w) \in ClaimsOf(w)
  BY <1>2 DEF AskedAt
<1> QED
  BY <1>1, <1>3

\* No two jobs share a place in the line.
LEMMA ApartInLine ==
  ASSUME NEW v, NEW w, ClaimsOf(v) # {}, ClaimsOf(w) # {}, AskedAt(v) = AskedAt(w)
  PROVE  v = w
BY FirstClaim DEF ClaimsOf

\* What is asked for and still to come off the shelf are numbers.
LEMMA OwedIsNat ==
  ASSUME ReadyTypeOK
  PROVE  \A w \in Orders : Owed[w] \in Nat /\ Owed[w] = Outstanding(w)
<1> SUFFICES ASSUME NEW w \in Orders PROVE Outstanding(w) \in Nat
  BY DEF Owed
<1> DEFINE asked == [c \in Claims |-> claim[c].qty]
<1>1. IsFiniteSet(ClaimsOf(w))
  BY ReadinessAssumption, FS_Subset DEF ClaimsOf
<1>2. \A c \in ClaimsOf(w) : asked[c] \in Int
  BY ReadinessAssumption DEF ReadyTypeOK, ClaimsOf
<1> HIDE DEF asked
<1>3. SumFunctionOnSet(asked, ClaimsOf(w)) \in Int
  BY <1>1, <1>2, SumInt
<1>4. Needed(w) \in Int
  BY <1>3 DEF Needed, asked
<1> QED
  BY <1>4, ClipIsNat, ReadinessAssumption DEF Outstanding, ReadyTypeOK

\* Sets of work orders are finite, and what they are owed is a number.
LEMMA OwedAdds ==
  ASSUME ReadyTypeOK, NEW Q \in SUBSET Orders
  PROVE  IsFiniteSet(Q) /\ SumFunctionOnSet(Owed, Q) \in Int
<1>1. IsFiniteSet(Q)
  BY ReadinessAssumption, FS_Subset
<1>2. \A w \in Q : Owed[w] \in Int
  BY OwedIsNat
<1> QED
  BY <1>1, <1>2, SumInt

\* Of jobs that wait, the last in the line is owed its share after all the others: together
\* they are owed no more than what is set aside before it and its own.
LEMMA LastInLine ==
  ASSUME ReadyTypeOK, NEW Q \in SUBSET Waiting, Q # {}
  PROVE  \E w \in Q : SumFunctionOnSet(Owed, Q) <= CommittedElsewhere(w) + Owed[w]
<1>1. Waiting \subseteq Orders /\ \A w \in Waiting : w \in open /\ ClaimsOf(w) # {}
  BY DEF Waiting, ReadyTypeOK
<1>2. IsFiniteSet(Q)
  BY <1>1, OwedAdds
<1> DEFINE place == [w \in Q |-> AskedAt(w)]
<1>3. \A w \in Q : place[w] \in Int
  BY <1>1, FirstClaim
<1>4. \E w \in Q : \A v \in Q : place[v] <= place[w]
  <2> HIDE DEF place
  <2> QED
    BY <1>2, <1>3, LastOne
<1>5. PICK w \in Q : \A v \in Q : AskedAt(v) <= AskedAt(w)
  BY <1>4
<1>6. Q \ {w} \subseteq Before(w)
  <2> SUFFICES ASSUME NEW v \in Q, v # w PROVE v \in Before(w)
    OBVIOUS
  <2>1. AskedAt(v) \in Nat /\ AskedAt(w) \in Nat /\ AskedAt(v) # AskedAt(w)
    BY <1>1, FirstClaim, ApartInLine
  <2>2. AskedAt(v) < AskedAt(w)
    BY <1>5, <2>1
  <2> QED
    BY <1>1, <2>2 DEF Before
<1>7. Before(w) \subseteq Orders
  BY DEF Before, ReadyTypeOK
<1>8. SumFunctionOnSet(Owed, Q) = Owed[w] + SumFunctionOnSet(Owed, Q \ {w})
  BY <1>1, <1>2, OwedIsNat, SumTakeOut
<1>9. SumFunctionOnSet(Owed, Q \ {w}) <= SumFunctionOnSet(Owed, Before(w))
  <2>1. IsFiniteSet(Before(w)) /\ \A v \in Before(w) : Owed[v] \in Nat
    BY <1>7, OwedAdds, OwedIsNat
  <2> QED
    BY <1>6, <2>1, SumOfPart
<1>10. /\ SumFunctionOnSet(Owed, Q \ {w}) \in Int
       /\ SumFunctionOnSet(Owed, Before(w)) \in Int
       /\ Owed[w] \in Int
  BY <1>1, <1>7, OwedAdds, OwedIsNat
<1>11. SumFunctionOnSet(Owed, Q) <= SumFunctionOnSet(Owed, Before(w)) + Owed[w]
  BY <1>8, <1>9, <1>10
<1> QED
  BY <1>11 DEF CommittedElsewhere

LEMMA CommittedIsInt ==
  ASSUME ReadyTypeOK, NEW w
  PROVE  CommittedElsewhere(w) \in Int
BY OwedAdds DEF CommittedElsewhere, Before, ReadyTypeOK

-----------------------------------------------------------------------------
(* What the jobs are told.                                                 *)

LEMMA PromisesAreKept == ReadyTypeOK => NoPartPromisedTwice
<1> SUFFICES ASSUME ReadyTypeOK PROVE NoPartPromisedTwice
  OBVIOUS
<1> DEFINE P == {w \in Waiting : Owed[w] <= FreeFor(w)}
           Q == {w \in P : Owed[w] # 0}
<1>1. P \subseteq Orders /\ Q \subseteq P /\ Q \subseteq Waiting /\ inHand \in Nat
  BY ReadinessAssumption DEF Waiting, ReadyTypeOK
<1>2. \A w \in Q : 0 < Owed[w] /\ Owed[w] <= FreeFor(w)
  BY <1>1, OwedIsNat
<1>3. \A w \in P \ Q : Owed[w] = 0
  OBVIOUS
<1> HIDE DEF P, Q
<1>4. SumFunctionOnSet(Owed, P) = SumFunctionOnSet(Owed, Q)
  <2>1. IsFiniteSet(P) /\ IsFiniteSet(P \ Q)
    BY <1>1, OwedAdds
  <2>2. SumFunctionOnSet(Owed, P) = SumFunctionOnSet(Owed, Q) + SumFunctionOnSet(Owed, P \ Q)
    <3>1. \A w \in P : Owed[w] \in Int
      BY <1>1, OwedIsNat
    <3> QED
      BY <1>1, <2>1, <3>1, SumSplits
  <2>3. SumFunctionOnSet(Owed, P \ Q) = 0
    BY <1>3, <2>1, SumOfZeros
  <2>4. SumFunctionOnSet(Owed, Q) \in Int
    BY <1>1, OwedAdds
  <2> QED
    BY <2>2, <2>3, <2>4
<1>5. SumFunctionOnSet(Owed, Q) <= inHand
  <2>1. CASE Q = {}
    BY <1>1, <2>1, SumEmpty
  <2>2. CASE Q # {}
    <3>1. PICK w \in Q : SumFunctionOnSet(Owed, Q) <= CommittedElsewhere(w) + Owed[w]
      BY <1>1, <2>2, LastInLine
    <3> DEFINE all == SumFunctionOnSet(Owed, Q)
               before == CommittedElsewhere(w)
               own == Owed[w]
    <3>2. all \in Int /\ before \in Int /\ own \in Int
      BY <1>1, OwedAdds, OwedIsNat, CommittedIsInt
    <3>3. 0 < own /\ own <= Clip(inHand - before)
      BY <1>2 DEF FreeFor
    <3>4. all <= before + own
      BY <3>1
    <3> HIDE DEF all, before, own
    <3>5. all <= inHand
      BY <1>1, <3>2, <3>3, <3>4 DEF Clip
    <3> QED
      BY <3>5 DEF all
  <2> QED
    BY <2>1, <2>2
<1> QED
  BY <1>4, <1>5 DEF P, NoPartPromisedTwice

LEMMA ShortagesShow == ReadyTypeOK => ShortageIsSeen
<1> SUFFICES ASSUME ReadyTypeOK PROVE ShortageIsSeen
  OBVIOUS
<1>0. /\ SumFunctionOnSet(Owed, Waiting) \in Int
      /\ SumFunctionOnSet(coming, Waiting) \in Int
      /\ inHand \in Int
  <2>1. SumFunctionOnSet(Owed, Waiting) \in Int /\ IsFiniteSet(Waiting)
    BY OwedAdds DEF Waiting, ReadyTypeOK
  <2>2. (\A w \in Waiting : coming[w] \in Int) /\ inHand \in Int
    BY ReadinessAssumption DEF Waiting, ReadyTypeOK
  <2> QED
    BY <2>1, <2>2, SumInt
<1> SUFFICES ASSUME \A w \in Waiting : Ready(w)
             PROVE  SumFunctionOnSet(Owed, Waiting)
                      <= inHand + SumFunctionOnSet(coming, Waiting)
  BY <1>0 DEF ShortageIsSeen
<1> DEFINE Q == {w \in Waiting : Owed[w] > coming[w]}
           R == Waiting \ Q
           Sum(f, S) == SumFunctionOnSet(f, S)
<1>1. /\ Waiting \subseteq Orders /\ Q \subseteq Waiting /\ R \subseteq Waiting
      /\ inHand \in Nat /\ \A w \in Orders : coming[w] \in Nat
  BY ReadinessAssumption DEF Waiting, ReadyTypeOK
<1>2. IsFiniteSet(Waiting) /\ IsFiniteSet(Q) /\ IsFiniteSet(R)
  BY <1>1, OwedAdds
<1>3. /\ \A w \in Waiting : Owed[w] \in Nat /\ coming[w] \in Nat
      /\ \A w \in Waiting : Owed[w] \in Int /\ coming[w] \in Int
  BY <1>1, OwedIsNat
<1>4. \A w \in R : Owed[w] \in Int /\ coming[w] \in Int /\ Owed[w] <= coming[w]
  BY <1>3
<1>5. \A w \in Q : Owed[w] > coming[w] /\ Short(w) = 0
  BY <1>3 DEF Waiting, Ready
<1> HIDE DEF Q
<1>6. Sum(Owed, Waiting) = Sum(Owed, Q) + Sum(Owed, R)
  BY <1>1, <1>2, <1>3, SumSplits
<1>7. Sum(coming, Waiting) = Sum(coming, Q) + Sum(coming, R)
  BY <1>1, <1>2, <1>3, SumSplits
<1> HIDE DEF R
<1>8. Sum(Owed, R) <= Sum(coming, R)
  BY <1>2, <1>4, SumAtMost
<1>9. /\ Sum(Owed, Q) \in Int /\ Sum(Owed, R) \in Int
      /\ Sum(coming, Q) \in Int /\ Sum(coming, R) \in Int
  <2>1. \A w \in Q : coming[w] \in Int
    BY <1>1
  <2>2. \A w \in R : coming[w] \in Int
    BY <1>1
  <2> QED
    BY <1>1, <1>2, <2>1, <2>2, OwedAdds, SumInt
<1>10. Sum(Owed, Q) <= inHand + Sum(coming, Q)
  <2>1. CASE Q = {}
    BY <1>1, <2>1, SumEmpty
  <2>2. CASE Q # {}
    <3>1. PICK w \in Q : Sum(Owed, Q) <= CommittedElsewhere(w) + Owed[w]
      BY <1>1, <2>2, LastInLine
    <3>2. coming[w] <= Sum(coming, Q)
      <4>1. \A v \in Q : coming[v] \in Nat
        BY <1>1
      <4>2. 0 <= Sum(coming, Q \ {w}) /\ Sum(coming, Q \ {w}) <= Sum(coming, Q)
        BY <1>2, <4>1, SumOfPart
      <4>3. Sum(coming, Q) = coming[w] + Sum(coming, Q \ {w})
        BY <1>2, <4>1, SumTakeOut
      <4>4. Sum(coming, Q \ {w}) \in Int
        BY <1>2, <4>1, FS_Subset, SumInt
      <4> QED
        BY <1>9, <4>1, <4>2, <4>3, <4>4
    <3> DEFINE all == Sum(Owed, Q)
               bought == Sum(coming, Q)
               before == CommittedElsewhere(w)
               own == Owed[w]
               mine == coming[w]
    <3>3. /\ all \in Int /\ before \in Int /\ own \in Int /\ mine \in Int
          /\ bought \in Int
      BY <1>1, <1>3, <1>9, CommittedIsInt
    <3>4. own > mine /\ Clip(own - Clip(inHand - before) - mine) = 0
      <4>1. own = Outstanding(w)
        BY <1>1, OwedIsNat
      <4> QED
        BY <1>5, <4>1 DEF Short, FreeFor
    <3>5. all <= before + own /\ mine <= bought
      BY <3>1, <3>2
    <3> HIDE DEF all, bought, before, own, mine
    <3>6. all <= inHand + bought
      BY <1>1, <3>3, <3>4, <3>5 DEF Clip
    <3> QED
      BY <3>6 DEF all, bought
  <2> QED
    BY <2>1, <2>2
<1> QED
  BY <1>1, <1>6, <1>7, <1>8, <1>9, <1>10

\* No part is promised twice: the jobs that are told that what they still need is on the
\* shelf can all have it at once, whatever was claimed, dropped, drawn and counted before.
THEOREM PromisedOnce == ReadySpec => []NoPartPromisedTwice
<1> QED
  BY ReadinessTypes, PromisesAreKept, PTL

\* Nor is a shortage hidden: when the open jobs that a screen shows want more than there
\* is and is bought for them, one of them is told that it is short.
THEOREM ShortageShown == ReadySpec => []ShortageIsSeen
<1> QED
  BY ReadinessTypes, ShortagesShow, PTL
=============================================================================
