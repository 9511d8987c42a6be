----------------------------- MODULE Receiving -----------------------------
(***************************************************************************)
(* One purchase order and the shelf it fills (homeautoshop/purchasing/     *)
(* models.py, views.py): receiving a line into stock, taking a receipt     *)
(* back, correcting and removing lines, and the status the order derives   *)
(* from them.  The shelf is StockLedger's; its screens run beside.         *)
(*                                                                         *)
(* receive() and unreceive() are transactions that lock nothing before     *)
(* they write.  They decide on the line as the view read it (`known`), the *)
(* order and the lots as they read them early in the transaction, then     *)
(* read the other lines to set the order's status, and save the whole line *)
(* and the whole order from memory.  What another request commits between  *)
(* those reads and the commit is not seen, so each read is a step of its   *)
(* own and the writes are the last.                                        *)
(***************************************************************************)
EXTENDS StockLedger

CONSTANTS
  Quantities,  \* what qty_ordered may be: the screens ask for no minimum
  LineParts,   \* what a line's part may be
  FirstStatus  \* what the order may be created as

OrderStatus == {"cart", "ordered", "partial", "received", "returned", "cancelled"}

ASSUME ReceivingAssumption ==
  /\ Quantities \subseteq Int /\ Quantities # {}
  /\ LineParts \subseteq Parts \cup {NoPart}
  /\ FirstStatus \subseteq OrderStatus

VARIABLES
  lineStatus,  \* a line is "absent", "live" or "deleted"
  received,    \* PurchaseLine.qty_received
  ordered,     \* PurchaseLine.qty_ordered
  linePart,    \* PurchaseLine.part
  order,       \* Purchase.status
  arrived,     \* Purchase.received_on is set
  step,        \* where each request is in receive(), unreceive() or an edit
  about,       \* the line its URL names
  known,       \* its instance of that line
  paper,       \* the order as its instance holds it
  plan         \* what it will write: the lot it refills, the quantities moved

purchase   == <<lineStatus, received, ordered, linePart, order, arrived>>
clerk      == <<step, about, known, paper, plan>>
shelf      == <<lots, onHand, ledger>>
allVars    == <<stockVars, purchase, clerk>>

MaybePart == Parts \cup {NoPart}
LineRow == [got : Int, wanted : Int, item : MaybePart]
Steps == {"idle", "receiving", "taking back", "correcting", "removing", "settling",
          "saving", "saving order", "order reread", "filing order"}

NoRow == [got |-> 0, wanted |-> 0, item |-> NoPart]
NoPlan == [refill |-> NoLot, delta |-> Zero, why |-> "receive", count |-> 0]

RcvTypeOK ==
  /\ TypeOK
  /\ lineStatus \in [Lines -> {"absent", "live", "deleted"}]
  /\ received \in [Lines -> Int]
  /\ ordered \in [Lines -> Int]
  /\ linePart \in [Lines -> MaybePart]
  /\ order \in OrderStatus
  /\ arrived \in BOOLEAN
  /\ step \in [Requests -> Steps]
  /\ about \in [Requests -> Lines \cup {NoLine}]
  /\ known \in [Requests -> LineRow]
  /\ paper \in [Requests -> [order : OrderStatus, arrived : BOOLEAN]]
  /\ \A r \in Requests :
       /\ plan[r].refill \in Lots \cup {NoLot}
       /\ plan[r].delta \in [Lots -> Int]
       /\ plan[r].why \in Reason
       /\ plan[r].count \in Nat

RcvInit ==
  /\ Init
  /\ \E first \in Lines, q \in Quantities, p \in LineParts :
       /\ lineStatus = [n \in Lines |-> IF n = first THEN "live" ELSE "absent"]
       /\ ordered = [n \in Lines |-> IF n = first THEN q ELSE 0]
       /\ linePart = [n \in Lines |-> IF n = first THEN p ELSE NoPart]
  /\ received = [n \in Lines |-> 0]
  /\ order \in FirstStatus
  /\ arrived = FALSE
  /\ step = [r \in Requests |-> "idle"]
  /\ about = [r \in Requests |-> NoLine]
  /\ known = [r \in Requests |-> NoRow]
  /\ paper = [r \in Requests |-> [order |-> "ordered", arrived |-> FALSE]]
  /\ plan = [r \in Requests |-> NoPlan]

-----------------------------------------------------------------------------
(* What the code computes from lines and lots.                             *)

LiveLine(n) == lineStatus[n] = "live"
LiveLines == {n \in Lines : LiveLine(n)}

LotsOf(n) == {l \in Lots : Live(l) /\ line[l] = n}

\* Slip: any lot of the line's that holds nothing will do.
MutEmptied(n) == {l \in LotsOf(n) : onHand[l] = 0}

\* _emptied_lot(): holds nothing, and received and taken back is all it ever saw.
Emptied(n) ==
  {l \in LotsOf(n) :
     onHand[l] = 0 /\ \A why \in Reason \ {"receive", "unreceive"} : rows[l][why] = 0}

Oldest(S) == CHOOSE l \in S : \A m \in S : l <= m

\* recompute_status(): what the lines make of the order (`have` and `want` are
\* qty_received and qty_ordered of the lines in `open` as the request sees them).
StatusOf(have, want, open) ==
  IF \A n \in open : have[n] >= want[n] THEN "received"
  ELSE IF \E n \in open : have[n] > 0 THEN "partial"
  ELSE "ordered"

\* An order closed by hand, or without lines, is left as it is.
ByHand == {"returned", "cancelled"}
LeftAlone(p, open) == open = {} \/ p.order \in ByHand

\* Slip: the status is never brought down.
MutRecomputedRatchet(p, have, want, open) ==
  IF LeftAlone(p, open) \/ StatusOf(have, want, open) = "ordered" THEN p
  ELSE [order |-> StatusOf(have, want, open),
        arrived |-> p.arrived \/ StatusOf(have, want, open) = "received"]

\* The order as recompute_status() leaves instance p.
Recomputed(p, have, want, open) ==
  IF LeftAlone(p, open) THEN p
  ELSE [order |-> StatusOf(have, want, open),
        arrived |-> CASE StatusOf(have, want, open) = "received" -> TRUE
                      [] StatusOf(have, want, open) = "partial" -> p.arrived
                      [] OTHER -> FALSE]

-----------------------------------------------------------------------------
(* The life of a request.                                                  *)

Free(r) == pc[r] = "idle" /\ step[r] = "idle"

\* purchase_line_*: the order and the line are read; a line that has anything
\* received is refused where the view asks.
LineView(r, n, screen, doing) ==
  /\ screen \in Screens
  /\ Free(r)
  /\ LiveLine(n)
  /\ step' = [step EXCEPT ![r] = doing]
  /\ about' = [about EXCEPT ![r] = n]
  /\ known' = [known EXCEPT ![r] = [got |-> received[n], wanted |-> ordered[n],
                                   item |-> linePart[n]]]
  /\ paper' = [paper EXCEPT ![r] = [order |-> order, arrived |-> arrived]]
  /\ UNCHANGED <<stockVars, purchase, plan>>

Finish(r) ==
  /\ step' = [step EXCEPT ![r] = "idle"]
  /\ about' = [about EXCEPT ![r] = NoLine]
  /\ known' = [known EXCEPT ![r] = NoRow]
  /\ paper' = [paper EXCEPT ![r] = [order |-> "ordered", arrived |-> FALSE]]
  /\ plan' = [plan EXCEPT ![r] = NoPlan]

\* The transaction has read what it decides on.
Decide(r, what) ==
  /\ step' = [step EXCEPT ![r] = "settling"]
  /\ plan' = [plan EXCEPT ![r] = what]
  /\ paper' = [paper EXCEPT ![r] = [order |-> order, arrived |-> arrived]]
  /\ UNCHANGED <<stockVars, purchase, about, known>>

-----------------------------------------------------------------------------
(* receive(), unreceive().                                                 *)

\* No more than is outstanding, into an emptied lot of the line's or a new one; a
\* line without a part is refused.
ReceiveDecide(r) ==
  /\ step[r] = "receiving"
  /\ known[r].item # NoPart
  /\ \E n \in Units :
       LET empty == Emptied(about[r])
           refill == IF empty = {} THEN NoLot ELSE Oldest(empty)
       IN  /\ n <= known[r].wanted - known[r].got
           /\ Decide(r, [refill |-> refill, delta |-> Zero, why |-> "receive", count |-> n])

\* What a reversal takes from each lot, newest first.
TakenBack(n, count) ==
  {take \in [Lots -> 0..count] :
     /\ SumOver(take) = count
     /\ \A l \in Lots : take[l] > 0 => l \in LotsOf(n) /\ take[l] <= onHand[l]
     /\ \A l, m \in LotsOf(n) : m < l /\ take[m] > 0 => take[l] = onHand[l] \/ onHand[l] < 0}

\* No more than was received, nor than is on the shelf in the line's lots.
UnreceiveDecide(r) ==
  /\ step[r] = "taking back"
  /\ \E n \in Units :
       /\ n <= known[r].got
       /\ n <= SumOver([l \in LotsOf(about[r]) |-> onHand[l]])
       /\ \E take \in TakenBack(about[r], n) :
            Decide(r, [refill |-> NoLot, delta |-> [l \in Lots |-> 0 - take[l]],
                       why |-> "unreceive", count |-> n])

\* recompute_status() reads the lines: its own as it has just written it, the
\* others as they are committed.
Settle(r) ==
  /\ step[r] = "settling"
  /\ LET mine == IF plan[r].why = "receive" THEN known[r].got + plan[r].count
                                           ELSE known[r].got - plan[r].count
         have == [received EXCEPT ![about[r]] = mine]
         want == [ordered EXCEPT ![about[r]] = known[r].wanted]
     IN  paper' = [paper EXCEPT ![r] = Recomputed(@, have, want, LiveLines \cup {about[r]})]
  /\ step' = [step EXCEPT ![r] = "saving"]
  /\ UNCHANGED <<stockVars, purchase, about, known, plan>>

\* The order is saved from memory, unless recompute_status() left it alone.
SaveOrder(r) ==
  IF paper[r].order \in ByHand
  THEN UNCHANGED <<order, arrived>>
  ELSE order' = paper[r].order /\ arrived' = paper[r].arrived

\* So is the line, with deleted_at as the view read it.
SaveLine(n, row) ==
  /\ received' = [received EXCEPT ![n] = row.got]
  /\ ordered' = [ordered EXCEPT ![n] = row.wanted]
  /\ linePart' = [linePart EXCEPT ![n] = row.item]
  /\ lineStatus' = [lineStatus EXCEPT ![n] = "live"]

SaveBoth(r, mine) ==
  /\ SaveLine(about[r], [known[r] EXCEPT !.got = mine])
  /\ SaveOrder(r)

\* Slip: the line is not told.
MutCommitUnreceive(r) ==
  /\ step[r] = "saving"
  /\ plan[r].why = "unreceive"
  /\ Post({l \in Lots : plan[r].delta[l] # 0}, plan[r].delta, "unreceive", onHand, Standing)
  /\ SaveBoth(r, known[r].got)
  /\ Finish(r)
  /\ UNCHANGED <<lots, request>>

\* A refilled lot is saved whole, as it was when it was found empty.
CommitReceive(r) ==
  LET n == plan[r].count
      l == plan[r].refill
  IN  /\ step[r] = "saving"
      /\ plan[r].why = "receive"
      /\ \/ /\ l # NoLot
            /\ Post({l}, [Zero EXCEPT ![l] = n], "receive", [onHand EXCEPT ![l] = 0],
                    Standing \cup {l})
            /\ status' = [status EXCEPT ![l] = "live"]
            /\ UNCHANGED <<part, line, from>>
         \/ /\ l = NoLot
            /\ \E m \in Fresh(1) :
                 /\ Post({m}, [Zero EXCEPT ![m] = n], "receive", onHand, Standing \cup {m})
                 /\ status' = [status EXCEPT ![m] = "live"]
                 /\ part' = [part EXCEPT ![m] = known[r].item]
                 /\ line' = [line EXCEPT ![m] = about[r]]
            /\ UNCHANGED from
      /\ SaveBoth(r, known[r].got + n)
      /\ Finish(r)
      /\ UNCHANGED request

CommitUnreceive(r) ==
  /\ step[r] = "saving"
  /\ plan[r].why = "unreceive"
  /\ Post({l \in Lots : plan[r].delta[l] # 0}, plan[r].delta, "unreceive", onHand, Standing)
  /\ SaveBoth(r, known[r].got - plan[r].count)
  /\ Finish(r)
  /\ UNCHANGED <<lots, request>>

-----------------------------------------------------------------------------
(* Lines and orders corrected by hand: no transaction, one save at a time. *)

\* Slip: what came in since is kept, and the new quantity with it.
MutLineCorrect(r) ==
  /\ step[r] = "correcting"
  /\ \E q \in Quantities, p \in LineParts :
       SaveLine(about[r], [got |-> received[about[r]], wanted |-> q, item |-> p])
  /\ step' = [step EXCEPT ![r] = "saving order"]
  /\ UNCHANGED <<stockVars, order, arrived, about, known, paper, plan>>

\* purchase_line_edit, purchase_line_delete: only of a line nothing has come in on
\* as it was read.  The quantity and the part may become any, and the line is saved
\* whole.
LineCorrect(r) ==
  /\ step[r] = "correcting"
  /\ \E q \in Quantities, p \in LineParts :
       SaveLine(about[r], [known[r] EXCEPT !.wanted = q, !.item = p])
  /\ step' = [step EXCEPT ![r] = "saving order"]
  /\ UNCHANGED <<stockVars, order, arrived, about, known, paper, plan>>

LineRemove(r) ==
  /\ step[r] = "removing"
  /\ lineStatus' = [lineStatus EXCEPT ![about[r]] = "deleted"]
  /\ step' = [step EXCEPT ![r] = "saving order"]
  /\ UNCHANGED <<stockVars, received, ordered, linePart, order, arrived, about, known, paper, plan>>

\* purchase.recompute_status() on the order read at the top of the view: the
\* lines are read...
OrderReread(r) ==
  /\ step[r] = "saving order"
  /\ \/ /\ LeftAlone(paper[r], LiveLines)
        /\ Finish(r)
     \/ /\ ~LeftAlone(paper[r], LiveLines)
        /\ paper' = [paper EXCEPT ![r] = Recomputed(@, received, ordered, LiveLines)]
        /\ step' = [step EXCEPT ![r] = "order reread"]
        /\ UNCHANGED <<about, known, plan>>
  /\ UNCHANGED <<stockVars, purchase>>

\* ...and the order is saved.
OrderSave(r) ==
  /\ step[r] = "order reread"
  /\ SaveOrder(r)
  /\ Finish(r)
  /\ UNCHANGED <<stockVars, lineStatus, received, ordered, linePart>>

\* purchase_line_add touches the lines and not the order.
LineAdd(r, n) ==
  /\ "line" \in Screens
  /\ Free(r)
  /\ lineStatus[n] = "absent"
  /\ \E q \in Quantities, p \in LineParts : SaveLine(n, [got |-> 0, wanted |-> q, item |-> p])
  /\ UNCHANGED <<stockVars, order, arrived, clerk>>

\* purchase_edit: any status may be chosen, and the whole order is saved, its date
\* as it was read.
OrderView(r) ==
  /\ "order" \in Screens
  /\ Free(r)
  /\ step' = [step EXCEPT ![r] = "filing order"]
  /\ paper' = [paper EXCEPT ![r] = [order |-> order, arrived |-> arrived]]
  /\ UNCHANGED <<stockVars, purchase, about, known, plan>>

OrderEdit(r) ==
  /\ step[r] = "filing order"
  /\ order' \in OrderStatus
  /\ arrived' = paper[r].arrived
  /\ Finish(r)
  /\ UNCHANGED <<stockVars, lineStatus, received, ordered, linePart>>

-----------------------------------------------------------------------------

Turn(r) == /\ step[r] \in {"receiving", "taking back"}
           /\ Finish(r)
           /\ UNCHANGED <<stockVars, purchase>>

Clerk(r) ==
  \/ \E n \in Lines : \/ LineView(r, n, "receive", "receiving")
                      \/ LineView(r, n, "unreceive", "taking back")
                      \/ received[n] = 0 /\ LineView(r, n, "line", "correcting")
                      \/ received[n] = 0 /\ LineView(r, n, "line", "removing")
                      \/ LineAdd(r, n)
  \/ ReceiveDecide(r) \/ UnreceiveDecide(r) \/ Settle(r)
  \/ CommitReceive(r) \/ CommitUnreceive(r)
  \/ LineCorrect(r) \/ LineRemove(r) \/ OrderReread(r) \/ OrderSave(r)
  \/ OrderView(r) \/ OrderEdit(r)
  \/ Turn(r)

RcvNext ==
  \E r \in Requests :
    \/ Clerk(r)
    \/ step[r] = "idle" /\ Screen(r) /\ UNCHANGED <<purchase, clerk>>

RcvSpec == RcvInit /\ [][RcvNext]_allVars

-----------------------------------------------------------------------------

\* What a line says has arrived is what its receipts, less the reversals, put
\* on the shelf: PurchaseLineForm, "a box here would change the number without
\* moving anything, so the shelf and the order would disagree".
LineMatchesShelf ==
  \A n \in Lines :
    received[n] = SumOver([l \in {m \in Lots : line[m] = n} |->
                             moved[l]["receive"] + moved[l]["unreceive"]])

\* No line says more has arrived than was ordered, nor less than nothing: nothing is
\* received beyond what is outstanding, and a quantity that is corrected beside a receipt
\* is never kept together with it, for each saves the whole line as it read it.
WithinOrder ==
  \A n \in Lines : received[n] # 0 => received[n] > 0 /\ received[n] <= ordered[n]

\* Somebody files the order with a status of his own.
FiledByHand == \E r \in Requests : step[r] = "filing order" /\ step'[r] = "idle"

\* Whenever something is received or taken back, and whenever the order says something
\* new that nobody chose, it says what its lines say, unless it was closed by hand; and a
\* return window is counted from a receipt: an order that says all of it came has a date,
\* one that went back down has none.  ("It moves itself as lines are received", and "back
\* down".)
StatusFollowsLines ==
  [][(received' # received \/ (order' # order /\ ~FiledByHand)) /\ order' \notin ByHand
       => /\ order' = StatusOf(received, ordered, LiveLines)'
          /\ order' = "received" => arrived'
          /\ order' = "ordered" => ~arrived']_allVars

\* _emptied_lot: refilling a lot "rewrites no history that anything reads": a
\* receipt never goes into a lot that something was used, counted or boxed out of.
RefillsNoHistory ==
  [][\A l \in Lots :
       rows'[l]["receive"] > rows[l]["receive"]
         => \A why \in Reason \ {"receive", "unreceive"} : rows[l][why] = 0]_allVars
=============================================================================
