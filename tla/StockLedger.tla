---------------------------- MODULE StockLedger ----------------------------
(***************************************************************************)
(* The shelf: lots of parts (StockLot), the append-only ledger behind      *)
(* their quantity (StockTransaction), and the screens that move stock      *)
(* (homeautoshop/parts/models.py, services.py, views.py).                  *)
(*                                                                         *)
(* A request reads its lot first and writes in a transaction afterwards;   *)
(* only consume() takes row locks.  Within a transaction every quantity is *)
(* written as F() + delta under the row's lock, so the writes of one       *)
(* transaction are one step, and what it read before them is kept in       *)
(* `seen` and `picked`.  A save of a whole lot from memory writes          *)
(* `qty_on_hand` too.                                                      *)
(*                                                                         *)
(* The ledger is kept as what its readers ask of it: for each lot and      *)
(* reason, the sum and the number of the rows, and whether any was         *)
(* negative.  Lots are numbered in the order they are created, which is    *)
(* the FIFO order of lots acquired on one day.                             *)
(***************************************************************************)
EXTENDS Integers, FiniteSets, Functions

CONSTANTS
  Lots,        \* lots, in order of creation
  Parts,       \* parts of the catalog
  NoPart,      \* the part of a lot that does not exist yet
  Lines,       \* purchase lines a lot may have arrived on
  NoLine,      \* "purchase_line is null"
  NoLot,       \* "from_kit_lot is null"
  Inside,      \* Inside[k][p]: how many of p kit k holds (PartKitItem), or 0
  Units,       \* quantities typed into the forms
  Requests,    \* requests being served at once
  Screens,     \* the screens in use
  MaxEntries   \* bound on the ledger rows of one lot

ASSUME StockAssumption ==
  /\ Lots \subseteq Nat /\ IsFiniteSet(Lots)
  /\ NoLot \notin Lots
  /\ NoPart \notin Parts
  /\ NoLine \notin Lines
  /\ Units \subseteq Nat \ {0}
  /\ Inside \in [Parts -> [Parts -> Nat]]
  /\ MaxEntries \in Nat

VARIABLES
  status,   \* a lot is "absent", "live", or "deleted" (in the trash)
  part,     \* StockLot.part
  line,     \* StockLot.purchase_line
  from,     \* StockLot.from_kit_lot
  onHand,   \* StockLot.qty_on_hand
  moved,    \* moved[l][reason]: sum of the deltas of the lot's ledger rows
  rows,     \* rows[l][reason]: how many there are
  drawn,    \* some row of the lot has a negative delta
  pc,       \* what each request is in the middle of
  aim,      \* the lot its URL names
  seen,     \* qty_on_hand as its instances hold it
  picked    \* the released lots close_kit read

lots    == <<status, part, line, from>>
ledger  == <<moved, rows, drawn>>
request == <<pc, aim, seen, picked>>
stockVars == <<lots, onHand, ledger, request>>

Reason == {"receive", "unreceive", "found", "consume", "adjust", "opened", "closed"}

Busy == {"idle", "adding", "counting", "opening", "closing", "editing", "deleting"}

TypeOK ==
  /\ status \in [Lots -> {"absent", "live", "deleted"}]
  /\ part \in [Lots -> Parts \cup {NoPart}]
  /\ line \in [Lots -> Lines \cup {NoLine}]
  /\ from \in [Lots -> Lots \cup {NoLot}]
  /\ onHand \in [Lots -> Int]
  /\ moved \in [Lots -> [Reason -> Int]]
  /\ rows \in [Lots -> [Reason -> Nat]]
  /\ drawn \in [Lots -> BOOLEAN]
  /\ pc \in [Requests -> Busy]
  /\ aim \in [Requests -> Lots \cup {NoLot}]
  /\ seen \in [Requests -> [Lots -> Int]]
  /\ picked \in [Requests -> SUBSET Lots]

Zero == [l \in Lots |-> 0]

Init ==
  /\ status = [l \in Lots |-> "absent"]
  /\ part = [l \in Lots |-> NoPart]
  /\ line = [l \in Lots |-> NoLine]
  /\ from = [l \in Lots |-> NoLot]
  /\ onHand = Zero
  /\ moved = [l \in Lots |-> [why \in Reason |-> 0]]
  /\ rows = [l \in Lots |-> [why \in Reason |-> 0]]
  /\ drawn = [l \in Lots |-> FALSE]
  /\ pc = [r \in Requests |-> "idle"]
  /\ aim = [r \in Requests |-> NoLot]
  /\ seen = [r \in Requests |-> Zero]
  /\ picked = [r \in Requests |-> {}]

-----------------------------------------------------------------------------
(* What the code computes from lots and ledger.                            *)

OfReasons(f) == f["receive"] + f["unreceive"] + f["found"] + f["consume"]
                  + f["adjust"] + f["opened"] + f["closed"]
Balance(l) == OfReasons(moved[l])
Entries(l) == OfReasons(rows[l])

Live(l) == status[l] = "live"
Absent == {l \in Lots : status[l] = "absent"}

\* The next n lots to be created.
Fresh(n) == {l \in Absent : Cardinality({m \in Absent : m < l}) < n}

Items(k) == {p \in Parts : Inside[k][p] > 0}

\* What consume() may take from a lot: lots of the part with something in them.
Available(p, l) == IF Live(l) /\ part[l] = p /\ onHand[l] > 0 THEN onHand[l] ELSE 0

SumOver(f) == FoldFunction(+, 0, f)

\* Slip: all that is left to take is taken from the oldest lot that has any.
MutDraws(p, n) ==
  {take \in [Lots -> 0..n] :
     \E l \in Lots :
       /\ Available(p, l) > 0
       /\ \A m \in Lots : m < l => Available(p, m) = 0
       /\ take = [Zero EXCEPT ![l] = n]}

\* Slip: the oldest lot gives what is asked of it, whether it has it or not.
MutDrawsBlind(p, n) ==
  {take \in [Lots -> 0..n] :
     \E l \in Lots :
       /\ Live(l) /\ part[l] = p
       /\ \A m \in Lots : m < l => ~(Live(m) /\ part[m] = p)
       /\ take = [Zero EXCEPT ![l] = n]}

\* A draw of at most n, oldest lot first.
Draws(p, n) ==
  {take \in [Lots -> 0..n] :
     /\ \A l \in Lots : take[l] <= Available(p, l)
     /\ \A l, m \in Lots : l < m /\ take[m] > 0 => take[l] = Available(p, l)
     /\ \/ SumOver(take) = n
        \/ SumOver(take) < n /\ \A l \in Lots : take[l] = Available(p, l)}

Released(k) == {l \in Lots : Live(l) /\ from[l] = k}

\* Exactly one movement, the one that released it, and all of it still there.
Untouched(l) == Entries(l) = 1 /\ onHand[l] = Balance(l)

\* StockTransaction.record() for each lot of S: a row, and the quantity moved.
\* `held` is what the lots' rows hold just before.  A lot in the trash is not
\* among `StockLot.objects`: it gets the row and keeps its quantity.
Post(S, delta, why, held, alive) ==
  /\ \A l \in S : Entries(l) < MaxEntries
  /\ onHand' = [l \in Lots |-> IF l \in S /\ l \in alive THEN held[l] + delta[l] ELSE held[l]]
  /\ moved' = [l \in Lots |-> IF l \in S THEN [moved[l] EXCEPT ![why] = @ + delta[l]] ELSE moved[l]]
  /\ rows' = [l \in Lots |-> IF l \in S THEN [rows[l] EXCEPT ![why] = @ + 1] ELSE rows[l]]
  /\ drawn' = [l \in Lots |-> drawn[l] \/ (l \in S /\ delta[l] < 0)]

Standing == {l \in Lots : Live(l)}

-----------------------------------------------------------------------------
(* The life of a request.                                                  *)

\* A view has read its lot; the quantity it saw is in memory from here on.
View(r, l, screen, doing) ==
  /\ screen \in Screens
  /\ pc[r] = "idle"
  /\ Live(l)
  /\ pc' = [pc EXCEPT ![r] = doing]
  /\ aim' = [aim EXCEPT ![r] = l]
  /\ seen' = [seen EXCEPT ![r] = [Zero EXCEPT ![l] = onHand[l]]]
  /\ UNCHANGED <<lots, onHand, ledger, picked>>

Respond(r) ==
  /\ pc' = [pc EXCEPT ![r] = "idle"]
  /\ aim' = [aim EXCEPT ![r] = NoLot]
  /\ seen' = [seen EXCEPT ![r] = Zero]
  /\ picked' = [picked EXCEPT ![r] = {}]

\* The view answers with an error and has written nothing.
Refuse(r) == Respond(r) /\ UNCHANGED <<lots, onHand, ledger>>

-----------------------------------------------------------------------------
(* lot_add, lot_edit, lot_delete.                                          *)

\* The lot is inserted empty...
LotAdd(r) ==
  /\ "add" \in Screens
  /\ pc[r] = "idle"
  /\ \E p \in Parts : \E l \in Fresh(1) :
       /\ status' = [status EXCEPT ![l] = "live"]
       /\ part' = [part EXCEPT ![l] = p]
       /\ aim' = [aim EXCEPT ![r] = l]
  /\ pc' = [pc EXCEPT ![r] = "adding"]
  /\ UNCHANGED <<line, from, onHand, ledger, seen, picked>>

\* ...and filled by a movement, in a transaction of its own.
LotAddRecord(r) ==
  /\ pc[r] = "adding"
  /\ \E n \in Units : Post({aim[r]}, [Zero EXCEPT ![aim[r]] = n], "found", onHand, Standing)
  /\ Respond(r)
  /\ UNCHANGED lots

\* form.save(): every column of the lot, the quantity and deleted_at included.
LotEditSave(r) ==
  /\ pc[r] = "editing"
  /\ onHand' = [onHand EXCEPT ![aim[r]] = seen[r][aim[r]]]
  /\ status' = [status EXCEPT ![aim[r]] = "live"]
  /\ Respond(r)
  /\ UNCHANGED <<part, line, from, ledger>>

\* Slip: what came out of the lot is not asked about.
MutLotDeleteCheck(r, l) ==
  /\ line[l] = NoLine
  /\ from[l] = NoLot
  /\ View(r, l, "delete", "deleting")

\* Only a lot nothing came out of, not bought on an order nor out of a kit.
LotDeleteCheck(r, l) ==
  /\ ~drawn[l]
  /\ line[l] = NoLine
  /\ from[l] = NoLot
  /\ View(r, l, "delete", "deleting")

LotDeleteSave(r) ==
  /\ pc[r] = "deleting"
  /\ status' = [status EXCEPT ![aim[r]] = "deleted"]
  /\ Respond(r)
  /\ UNCHANGED <<part, line, from, onHand, ledger>>

-----------------------------------------------------------------------------
(* consume(), cycle_count().                                               *)

\* The lots are locked, so the whole draw is one step.  What is short is either
\* refused or, on a work order, recorded as bought for the job.
Consume(r) ==
  /\ "use" \in Screens
  /\ pc[r] = "idle"
  /\ \E p \in Parts : \E n \in Units : \E allowShort \in BOOLEAN :
       \E take \in Draws(p, n) :
         /\ SumOver(take) = n \/ allowShort
         /\ SumOver(take) > 0
         /\ Post({l \in Lots : take[l] > 0}, [l \in Lots |-> 0 - take[l]], "consume",
                 onHand, Standing)
  /\ UNCHANGED <<lots, request>>

\* Slip: the count is typed over the quantity.
MutCycleCount(r) ==
  /\ pc[r] = "counting"
  /\ \E counted \in Units \cup {0} : onHand' = [onHand EXCEPT ![aim[r]] = counted]
  /\ Respond(r)
  /\ UNCHANGED <<lots, ledger>>

\* The adjustment is the count less the quantity the view read.
CycleCount(r) ==
  /\ pc[r] = "counting"
  /\ \E counted \in Units \cup {0} :
       LET delta == counted - seen[r][aim[r]]
       IN  IF delta = 0
           THEN UNCHANGED <<onHand, ledger>>
           ELSE Post({aim[r]}, [Zero EXCEPT ![aim[r]] = delta], "adjust", onHand, Standing)
  /\ Respond(r)
  /\ UNCHANGED lots

-----------------------------------------------------------------------------
(* open_kit(), close_kit().                                                *)

\* n boxes leave the shelf and a new lot of each content arrives on it.
OpenKit(r) ==
  LET k == aim[r]
      items == Items(part[k])
  IN  /\ pc[r] = "opening"
      /\ items # {}
      /\ Cardinality(Fresh(Cardinality(items))) = Cardinality(items)
      /\ \E n \in Units : \E holds \in Bijection(Fresh(Cardinality(items)), items) :
           LET new == DOMAIN holds
           IN  /\ n <= seen[r][k]
               /\ status' = [l \in Lots |-> IF l \in new THEN "live" ELSE status[l]]
               /\ part' = [l \in Lots |-> IF l \in new THEN holds[l] ELSE part[l]]
               /\ line' = [l \in Lots |-> IF l \in new THEN line[k] ELSE line[l]]
               /\ from' = [l \in Lots |-> IF l \in new THEN k ELSE from[l]]
               /\ Post(new \cup {k},
                       [l \in Lots |-> IF l = k THEN 0 - n
                                       ELSE IF l \in new THEN n * Inside[part[k]][holds[l]]
                                       ELSE 0],
                       "opened", onHand, Standing \cup new)
      /\ Respond(r)

\* Reads what came out of this lot and finds it all untouched.
CloseKitCheck(r) ==
  /\ pc[r] = "closing"
  /\ picked[r] = {}
  /\ Released(aim[r]) # {}
  /\ \A l \in Released(aim[r]) : Untouched(l)
  /\ picked' = [picked EXCEPT ![r] = Released(aim[r])]
  /\ seen' = [seen EXCEPT ![r] = [l \in Lots |-> IF l \in Released(aim[r])
                                                 THEN onHand[l]
                                                 ELSE 0]]
  /\ UNCHANGED <<lots, onHand, ledger, pc, aim>>

\* The largest number of boxes any one released lot would fill.
BoxesFilled(r, n) ==
  LET size(l) == Inside[part[aim[r]]][part[l]]
  IN  /\ \A l \in picked[r] : seen[r][l] <= n * size(l)
      /\ \E l \in picked[r] : seen[r][l] = n * size(l)

\* Slip: the boxes return and their contents stay loose.
MutCloseKit(r) ==
  LET k == aim[r]
  IN  /\ pc[r] = "closing"
      /\ picked[r] # {}
      /\ \E n \in Units \cup {0} :
           /\ BoxesFilled(r, n)
           /\ Post({k}, [Zero EXCEPT ![k] = n], "closed", onHand, Standing)
      /\ Respond(r)
      /\ UNCHANGED lots

\* The contents leave the shelf and that many boxes return to it.
CloseKit(r) ==
  LET k == aim[r]
  IN  /\ pc[r] = "closing"
      /\ picked[r] # {}
      /\ \E n \in Units \cup {0} :
           /\ BoxesFilled(r, n)
           /\ Post(picked[r] \cup {k},
                   [l \in Lots |-> IF l = k THEN n ELSE 0 - seen[r][l]],
                   "closed", onHand, Standing)
      /\ Respond(r)
      /\ UNCHANGED lots

-----------------------------------------------------------------------------

OpenOrClose(r) == OpenKit(r) \/ CloseKitCheck(r) \/ CloseKit(r)

Screen(r) ==
  \/ LotAdd(r) \/ LotAddRecord(r)
  \/ \E l \in Lots : \/ View(r, l, "count", "counting")
                     \/ View(r, l, "edit", "editing")
                     \/ View(r, l, "open", "opening")
                     \/ View(r, l, "close", "closing")
                     \/ LotDeleteCheck(r, l)
  \/ LotEditSave(r) \/ LotDeleteSave(r)
  \/ Consume(r) \/ CycleCount(r)
  \/ OpenOrClose(r)
  \/ pc[r] \in {"counting", "opening", "closing"} /\ Refuse(r)

StockNext == \E r \in Requests : Screen(r)

StockSpec == Init /\ [][StockNext]_stockVars

-----------------------------------------------------------------------------

\* FR-INV-1: "Quantity on hand is a projection of this, never a number someone
\* typed".  Every screen but lot_edit keeps it, in any interleaving.
Projection == \A l \in Lots : Live(l) => onHand[l] = Balance(l)

\* The shelf never holds minus two of something.
NonNegative == \A l \in Lots : onHand[l] >= 0

\* lot_delete: "once anything has been drawn from a lot ... deleting the lot
\* underneath it rewrites" what a job cost.
DrawnIsKept == \A l \in Lots : status[l] = "deleted" => ~drawn[l]

\* What came in on a lot: receipts, finds, and the contents of a box or the boxes
\* that went back together.  (Two requests that put one box together both return it.)
CameIn(l) ==
  moved[l]["receive"] + moved[l]["found"]
    + moved[l][IF from[l] = NoLot THEN "closed" ELSE "opened"]

\* Nothing is used that never came in, even where a race drives a lot negative:
\* consume() takes under a lock what the row holds then.  (Counts aside, which
\* may find anything, and boxes out of boxes, which come in and are opened under
\* one reason.)
UsedCameIn ==
  \A l \in Lots :
    /\ rows[l]["adjust"] = 0
    /\ from[l] # NoLot => Items(part[l]) = {}
    => 0 - moved[l]["consume"] <= CameIn(l)

\* What has come out of kit lot k and not gone back: boxes, and parts of p.
BoxesOpen(k) == 0 - (moved[k]["opened"] + moved[k]["closed"])
PartsOut(k, p) ==
  SumOver([l \in {m \in Lots : from[m] = k /\ part[m] = p} |->
             moved[l]["opened"] + moved[l]["closed"]])
KitLots == {k \in Lots : from[k] = NoLot /\ part[k] \in Parts /\ Items(part[k]) # {}}

\* What is in a box and is not a box itself.
LooseItems(k) == {p \in Items(part[k]) : Items(p) = {}}

\* However often kits are opened and closed, and whoever races whom, the parts
\* standing loose came out of boxes that are not on the shelf.
NothingFromNowhere ==
  \A k \in KitLots : \A p \in LooseItems(k) :
    PartsOut(k, p) <= BoxesOpen(k) * Inside[part[k]][p]

\* open_kit: "the kit leaves stock, the contents arrive, and the ledger carries
\* both halves": no box disappears either.
KitsBalance ==
  \A k \in KitLots : \A p \in Items(part[k]) :
    PartsOut(k, p) = BoxesOpen(k) * Inside[part[k]][p]
=============================================================================
