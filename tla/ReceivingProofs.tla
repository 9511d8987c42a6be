-------------------------- MODULE ReceivingProofs --------------------------
(***************************************************************************)
(* Theorems about Receiving: the order line, its lots and the ledger       *)
(* beside each other, for any parts, lots and quantities.                  *)
(*                                                                         *)
(* First the types, with any number of requests at once, then what the     *)
(* code promises when receipts and returns of one line come one after the  *)
(* other.  With two of them at once the lost update of the received        *)
(* quantity breaks each, so those theorems say in their hypothesis that    *)
(* there is one request.  What is inductive ties four accounts together:   *)
(* what the line says it received, what its lots brought in, what the      *)
(* request in flight still has to write, and what the shelf holds.  Last,  *)
(* with any number of requests again: what is opened, put together and     *)
(* used came in.                                                           *)
(***************************************************************************)
EXTENDS InventoryProofs

-----------------------------------------------------------------------------
(* The shelf beside the order: any number of requests at once.             *)

\* What Post writes is of the type of what it moves, whatever the lots held.
LEMMA PostTypes ==
  ASSUME TypeOK,
         NEW S \in SUBSET Lots, NEW delta \in [Lots -> Int], NEW why \in Reason,
         NEW held \in [Lots -> Int], NEW alive \in SUBSET Lots,
         Post(S, delta, why, held, alive)
  PROVE  /\ onHand' \in [Lots -> Int]
         /\ moved' \in [Lots -> [Reason -> Int]]
         /\ rows' \in [Lots -> [Reason -> Nat]]
         /\ drawn' \in [Lots -> BOOLEAN]
<1>1. onHand' \in [Lots -> Int]
  BY DEF Post
<1>2. moved' \in [Lots -> [Reason -> Int]]
  BY DEF Post, TypeOK
<1>3. rows' \in [Lots -> [Reason -> Nat]]
  BY DEF Post, TypeOK
<1>4. drawn' \in [Lots -> BOOLEAN]
  BY DEF Post
<1> QED
  BY <1>1, <1>2, <1>3, <1>4

\* No screen of the shelf touches what an order's receipts and reversals wrote,
\* takes a lot away, or writes anything of a lot that does not exist.
Undisturbed ==
  /\ \A l \in Lots : /\ moved'[l]["receive"] = moved[l]["receive"]
                     /\ moved'[l]["unreceive"] = moved[l]["unreceive"]
                     /\ rows'[l]["receive"] = rows[l]["receive"]
  /\ \A l \in Lots : status[l] # "absent" => status'[l] # "absent" /\ line'[l] = line[l]
  /\ \A l \in Lots : status'[l] = "absent" => line'[l] = line[l] /\ rows'[l] = rows[l]

\* A movement for another reason, of lots that exist afterwards.
LEMMA PostElsewhere ==
  ASSUME TypeOK,
         NEW S \in SUBSET Lots, NEW delta, NEW why \in Reason \ {"receive", "unreceive"},
         NEW held, NEW alive,
         Post(S, delta, why, held, alive),
         \A l \in S : status'[l] # "absent",
         \A l \in Lots : status[l] # "absent" => status'[l] # "absent" /\ line'[l] = line[l],
         \A l \in Lots : status'[l] = "absent" => line'[l] = line[l]
  PROVE  Undisturbed
<1>1. ASSUME NEW l \in Lots
      PROVE  /\ moved'[l]["receive"] = moved[l]["receive"]
             /\ moved'[l]["unreceive"] = moved[l]["unreceive"]
  <2>1. moved'[l] = moved[l] \/ moved'[l] = [moved[l] EXCEPT ![why] = @ + delta[l]]
    BY DEF Post
  <2>2. moved[l] \in [Reason -> Int]
    BY DEF TypeOK
  <2> QED
    BY <2>1, <2>2 DEF Reason
<1>2. ASSUME NEW l \in Lots
      PROVE  rows'[l]["receive"] = rows[l]["receive"]
  <2>1. rows'[l] = rows[l] \/ rows'[l] = [rows[l] EXCEPT ![why] = @ + 1]
    BY DEF Post
  <2>2. rows[l] \in [Reason -> Nat]
    BY DEF TypeOK
  <2> QED
    BY <2>1, <2>2 DEF Reason
<1>3. ASSUME NEW l \in Lots, status'[l] = "absent" PROVE rows'[l] = rows[l]
  BY <1>3 DEF Post
<1> QED
  BY <1>1, <1>2, <1>3 DEF Undisturbed

LEMMA ShelfUndisturbed == ShelfInv /\ [StockNext]_stockVars => Undisturbed
<1> SUFFICES ASSUME ShelfInv, [StockNext]_stockVars PROVE Undisturbed
  OBVIOUS
<1>0. TypeOK /\ PartKnown /\ Aimed
  BY DEF ShelfInv
<1>1. ASSUME UNCHANGED <<line, moved, rows>>,
             \A l \in Lots : status[l] # "absent" => status'[l] # "absent"
      PROVE  Undisturbed
  BY <1>1 DEF Undisturbed
\* A movement of lots that exist, by a step that leaves the lots alone.
<1>2. ASSUME NEW S \in SUBSET Lots, NEW delta, NEW why \in Reason \ {"receive", "unreceive"},
             NEW held, NEW alive, Post(S, delta, why, held, alive),
             UNCHANGED lots, \A l \in S : status[l] # "absent"
      PROVE  Undisturbed
  <2>1. UNCHANGED <<status, line>>
    BY <1>2 DEF lots
  <2> QED
    BY <1>0, <1>2, <2>1, PostElsewhere
<1>3. ASSUME NEW r \in Requests, LotAdd(r) PROVE Undisturbed
  <2>1. PICK l \in Fresh(1) : status' = [status EXCEPT ![l] = "live"]
    BY <1>3 DEF LotAdd
  <2>2. \A m \in Lots : status[m] # "absent" => status'[m] # "absent"
    BY <1>0, <2>1 DEF TypeOK
  <2>3. UNCHANGED <<line, moved, rows>>
    BY <1>3 DEF LotAdd, ledger
  <2> QED
    BY <1>1, <2>2, <2>3
<1>4. ASSUME NEW r \in Requests, LotAddRecord(r) PROVE Undisturbed
  <2>1. aim[r] \in Lots /\ status[aim[r]] # "absent"
    BY <1>0, <1>4 DEF LotAddRecord, Aimed
  <2>2. PICK n \in Units :
           Post({aim[r]}, [Zero EXCEPT ![aim[r]] = n], "found", onHand, Standing)
    BY <1>4 DEF LotAddRecord
  <2>3. UNCHANGED lots /\ "found" \in Reason \ {"receive", "unreceive"}
    BY <1>4 DEF LotAddRecord, Reason
  <2>4. {aim[r]} \in SUBSET Lots
    BY <2>1
  <2> QED
    BY <1>2, <2>1, <2>2, <2>3, <2>4
<1>5. ASSUME NEW r \in Requests, LotEditSave(r) \/ LotDeleteSave(r) PROVE Undisturbed
  <2>1. /\ \/ status' = [status EXCEPT ![aim[r]] = "live"]
           \/ status' = [status EXCEPT ![aim[r]] = "deleted"]
        /\ UNCHANGED <<line, moved, rows>>
    BY <1>5 DEF LotEditSave, LotDeleteSave, ledger
  <2>2. \A m \in Lots : status[m] # "absent" => status'[m] # "absent"
    BY <1>0, <2>1 DEF TypeOK
  <2> QED
    BY <1>1, <2>1, <2>2
<1>6. ASSUME NEW r \in Requests, Consume(r) PROVE Undisturbed
  <2>0. PICK p \in Parts, n \in Units :
           \E take \in Draws(p, n) :
             Post({l \in Lots : take[l] > 0}, [l \in Lots |-> 0 - take[l]], "consume",
                  onHand, Standing)
    BY <1>6 DEF Consume
  <2>1. PICK take \in Draws(p, n) :
           Post({l \in Lots : take[l] > 0}, [l \in Lots |-> 0 - take[l]], "consume",
                onHand, Standing)
    BY <2>0
  <2>2. \A l \in Lots : take[l] > 0 => Live(l)
    BY <1>0, StockAssumption, DrawTakes
  <2>3. \A l \in {m \in Lots : take[m] > 0} : status[l] # "absent"
    BY <2>2 DEF Live
  <2>4. UNCHANGED lots /\ "consume" \in Reason \ {"receive", "unreceive"}
    BY <1>6 DEF Consume, Reason
  <2> DEFINE S == {m \in Lots : take[m] > 0}
             delta == [l \in Lots |-> 0 - take[l]]
  <2>5. S \in SUBSET Lots /\ Post(S, delta, "consume", onHand, Standing)
    BY <2>1
  <2> HIDE DEF S, delta
  <2>6. \A l \in S : status[l] # "absent"
    BY <2>3 DEF S
  <2> QED
    BY <1>2, <2>4, <2>5, <2>6
<1>7. ASSUME NEW r \in Requests, CycleCount(r) PROVE Undisturbed
  <2>1. aim[r] \in Lots /\ status[aim[r]] # "absent"
    BY <1>0, <1>7 DEF CycleCount, Aimed
  <2>2. PICK counted \in Units \cup {0} :
           LET delta == counted - seen[r][aim[r]]
           IN  IF delta = 0
               THEN UNCHANGED <<onHand, ledger>>
               ELSE Post({aim[r]}, [Zero EXCEPT ![aim[r]] = delta], "adjust",
                         onHand, Standing)
    BY <1>7 DEF CycleCount
  <2>3. UNCHANGED lots /\ "adjust" \in Reason \ {"receive", "unreceive"}
    BY <1>7 DEF CycleCount, Reason
  <2>4. {aim[r]} \in SUBSET Lots
    BY <2>1
  <2> DEFINE delta == counted - seen[r][aim[r]]
  <2>5. CASE UNCHANGED <<onHand, ledger>>
    BY <1>1, <2>3, <2>5 DEF ledger, lots
  <2>6. CASE Post({aim[r]}, [Zero EXCEPT ![aim[r]] = delta], "adjust", onHand, Standing)
    <3> HIDE DEF delta
    <3> QED
      BY <1>2, <2>1, <2>3, <2>4, <2>6
  <2> QED
    BY <2>2, <2>5, <2>6
<1>8. ASSUME NEW r \in Requests, OpenKit(r) PROVE Undisturbed
  <2> DEFINE k == aim[r]
             N == Cardinality(Items(part[k]))
  <2>1. k \in Lots /\ part[k] \in Parts /\ status[k] # "absent"
    BY <1>0, <1>8 DEF OpenKit, Aimed, PartKnown
  <2>2. PICK n \in Units, holds \in Bijection(Fresh(N), Items(part[k])) :
           LET new == DOMAIN holds
           IN  /\ status' = [l \in Lots |-> IF l \in new THEN "live" ELSE status[l]]
               /\ line' = [l \in Lots |-> IF l \in new THEN line[k] ELSE line[l]]
               /\ Post(new \cup {k}, Opened(k, n, holds), "opened", onHand, Standing \cup new)
    BY <1>8 DEF OpenKit, Opened
  <2>3. DOMAIN holds = Fresh(N) /\ Fresh(N) \subseteq Lots
    BY <2>1, OpenedIsInt
  <2>4. \A l \in Fresh(N) : status[l] = "absent"
    BY FreshIsAbsent
  <2> HIDE DEF N
  <2> DEFINE S == Fresh(N) \cup {k}
  <2>5. S \in SUBSET Lots /\ "opened" \in Reason \ {"receive", "unreceive"}
    BY <2>1, <2>3 DEF Reason
  <2>6. /\ \A l \in S : status'[l] # "absent"
        /\ \A l \in Lots : status[l] # "absent" => status'[l] # "absent" /\ line'[l] = line[l]
        /\ \A l \in Lots : status'[l] = "absent" => line'[l] = line[l]
    BY <2>1, <2>2, <2>3, <2>4
  <2>7. Post(S, Opened(k, n, holds), "opened", onHand, Standing \cup Fresh(N))
    BY <2>2, <2>3
  <2> HIDE DEF S, k
  <2> QED
    BY <1>0, <2>5, <2>6, <2>7, PostElsewhere
<1>9. ASSUME NEW r \in Requests, CloseKit(r) PROVE Undisturbed
  <2> DEFINE k == aim[r]
             S == picked[r] \cup {k}
  <2>1. k \in Lots /\ status[k] # "absent"
    BY <1>0, <1>9 DEF CloseKit, Aimed
  <2>2. PICK n \in Units \cup {0} :
           Post(S, [l \in Lots |-> IF l = k THEN n ELSE 0 - seen[r][l]],
                "closed", onHand, Standing)
    BY <1>9 DEF CloseKit
  <2>3. S \in SUBSET Lots /\ \A l \in S : status[l] # "absent"
    BY <1>0, <2>1 DEF Aimed, TypeOK
  <2>4. UNCHANGED lots /\ "closed" \in Reason \ {"receive", "unreceive"}
    BY <1>9 DEF CloseKit, Reason
  <2> HIDE DEF S
  <2> QED
    BY <1>2, <2>2, <2>3, <2>4
<1>10. ASSUME NEW r \in Requests,
              \/ CloseKitCheck(r)
              \/ Refuse(r)
              \/ \E l \in Lots, screen \in Screens, doing \in Busy : View(r, l, screen, doing)
       PROVE  Undisturbed
  BY <1>1, <1>10 DEF CloseKitCheck, Refuse, View, lots, ledger
<1>11. CASE UNCHANGED stockVars
  BY <1>1, <1>11 DEF stockVars, lots, ledger
<1>12. CASE StockNext
  <2>1. PICK r \in Requests : Screen(r)
    BY <1>12 DEF StockNext
  <2>2. ASSUME NEW l \in Lots,
               \/ View(r, l, "count", "counting")
               \/ View(r, l, "edit", "editing")
               \/ View(r, l, "open", "opening")
               \/ View(r, l, "close", "closing")
               \/ LotDeleteCheck(r, l)
        PROVE  Undisturbed
    BY <1>1, <2>2 DEF View, LotDeleteCheck, lots, ledger
  <2> QED
    BY <1>3, <1>4, <1>5, <1>6, <1>7, <1>8, <1>9, <1>10, <2>1, <2>2
       DEF Screen, OpenOrClose
<1> QED
  BY <1>11, <1>12

-----------------------------------------------------------------------------
(* Types of the whole, any number of requests at once.                     *)

\* The lot a receipt means to refill exists, however long ago it was found empty.
RefillStands == \A r \in Requests : plan[r].refill # NoLot => status[plan[r].refill] # "absent"

LinesTyped == lineStatus \in [Lines -> {"absent", "live", "deleted"}]

\* Nothing has come in on a line that was never ordered.
NothingOnNone == \A n \in Lines : lineStatus[n] = "absent" => received[n] = 0

RcvInv == ShelfInv /\ OrderInv /\ OrderTyped /\ LinesTyped /\ NothingOnNone /\ RefillStands

LEMMA RcvInitTypes == RcvInit => RcvInv
<1> SUFFICES ASSUME RcvInit PROVE RcvInv
  OBVIOUS
<1>1. ShelfInv
  BY ShelfInit DEF RcvInit
<1>2. OrderInv
  BY OrderInit
<1>3. OrderTyped
  BY OrderTypedInit
<1>4. LinesTyped /\ NothingOnNone
  BY DEF RcvInit, LinesTyped, NothingOnNone
<1>5. RefillStands
  BY DEF RcvInit, RefillStands, NoPlan
<1> QED
  BY <1>1, <1>2, <1>3, <1>4, <1>5 DEF RcvInv

\* A receipt puts what it counted into one lot of the line's, on the shelf from then on.
IntoLot(r, l) ==
  /\ Post({l}, [Zero EXCEPT ![l] = plan[r].count], "receive",
          [onHand EXCEPT ![l] = IF plan[r].refill # NoLot THEN 0 ELSE @], Standing \cup {l})
  /\ status' = [status EXCEPT ![l] = "live"]
  /\ from' = from
  /\ \/ l = plan[r].refill /\ UNCHANGED <<part, line>>
     \/ /\ plan[r].refill = NoLot /\ status[l] = "absent"
        /\ part' = [part EXCEPT ![l] = known[r].item]
        /\ line' = [line EXCEPT ![l] = about[r]]

LEMMA CommitReceiveInto ==
  ASSUME RcvInv, NEW r \in Requests, CommitReceive(r)
  PROVE  /\ \E l \in Lots : IntoLot(r, l)
         /\ step[r] = "saving" /\ plan[r].why = "receive"
         /\ about[r] \in Lines /\ plan[r].count \in Nat
         /\ SaveBoth(r, known[r].got + plan[r].count)
         /\ Finish(r) /\ UNCHANGED request
<1>1. /\ step[r] = "saving" /\ plan[r].why = "receive"
      /\ SaveBoth(r, known[r].got + plan[r].count)
      /\ Finish(r) /\ UNCHANGED request
  BY DEF CommitReceive
<1>2. about[r] \in Lines /\ plan[r].count \in Nat /\ plan[r].refill \in Lots \cup {NoLot}
  BY <1>1 DEF RcvInv, OrderInv, WithinLine, OnALine, ClerkTypes, Plans
<1>3. CASE plan[r].refill # NoLot
  <2> DEFINE l == plan[r].refill
  <2>1. /\ Post({l}, [Zero EXCEPT ![l] = plan[r].count], "receive", [onHand EXCEPT ![l] = 0],
                Standing \cup {l})
        /\ status' = [status EXCEPT ![l] = "live"]
        /\ UNCHANGED <<part, line, from>>
    BY <1>3 DEF CommitReceive
  <2>2. l \in Lots /\ IntoLot(r, l)
    BY <1>2, <1>3, <2>1 DEF IntoLot
  <2> QED
    BY <1>1, <1>2, <2>2
<1>4. CASE plan[r].refill = NoLot
  <2>1. /\ UNCHANGED from
        /\ \E m \in Fresh(1) :
             /\ Post({m}, [Zero EXCEPT ![m] = plan[r].count], "receive", onHand,
                     Standing \cup {m})
             /\ status' = [status EXCEPT ![m] = "live"]
             /\ part' = [part EXCEPT ![m] = known[r].item]
             /\ line' = [line EXCEPT ![m] = about[r]]
    BY <1>4 DEF CommitReceive
  <2>2. PICK m \in Fresh(1) :
             /\ Post({m}, [Zero EXCEPT ![m] = plan[r].count], "receive", onHand,
                     Standing \cup {m})
             /\ status' = [status EXCEPT ![m] = "live"]
             /\ part' = [part EXCEPT ![m] = known[r].item]
             /\ line' = [line EXCEPT ![m] = about[r]]
    BY <2>1
  <2>3. m \in Lots /\ status[m] = "absent"
    BY FreshIsAbsent
  <2>4. [onHand EXCEPT ![m] = IF plan[r].refill # NoLot THEN 0 ELSE @] = onHand
    <3>1. onHand \in [Lots -> Int]
      BY DEF RcvInv, ShelfInv, TypeOK
    <3> QED
      BY <1>4, <2>3, <3>1
  <2>5. IntoLot(r, m)
    BY <1>4, <2>1, <2>2, <2>3, <2>4 DEF IntoLot
  <2> QED
    BY <1>1, <1>2, <2>3, <2>5
<1> QED
  BY <1>3, <1>4

\* Requests on the shelf are not disturbed by the order, as long as no lot goes away.
LEMMA AimedStill ==
  ASSUME TypeOK, Aimed, UNCHANGED request,
         \A l \in Lots : status[l] # "absent" => status'[l] # "absent"
  PROVE  Aimed'
<1>1. UNCHANGED <<pc, aim, picked>> /\ \A r \in Requests : picked[r] \subseteq Lots
  BY DEF request, TypeOK
<1> QED
  BY <1>1 DEF Aimed

LEMMA CommitReceiveShelf ==
  ASSUME RcvInv, NEW r \in Requests, CommitReceive(r)
  PROVE  ShelfInv' /\ (\A l \in Lots : status[l] # "absent" => status'[l] # "absent")
<1>0. TypeOK /\ PartKnown /\ Aimed
  BY DEF RcvInv, ShelfInv
<1>1. PICK l \in Lots : IntoLot(r, l)
  BY CommitReceiveInto
<1>2. about[r] \in Lines /\ plan[r].count \in Nat /\ UNCHANGED request
  BY CommitReceiveInto
<1> DEFINE held == [onHand EXCEPT ![l] = IF plan[r].refill # NoLot THEN 0 ELSE @]
           delta == [Zero EXCEPT ![l] = plan[r].count]
<1>3. /\ onHand' \in [Lots -> Int]
      /\ moved' \in [Lots -> [Reason -> Int]]
      /\ rows' \in [Lots -> [Reason -> Nat]]
      /\ drawn' \in [Lots -> BOOLEAN]
  <2>1. held \in [Lots -> Int]
    BY <1>0 DEF TypeOK
  <2>2. delta \in [Lots -> Int]
    BY <1>2, OneMoved
  <2>3. {l} \in SUBSET Lots /\ Standing \cup {l} \in SUBSET Lots /\ "receive" \in Reason
    BY DEF Standing, Reason
  <2>4. Post({l}, delta, "receive", held, Standing \cup {l})
    BY <1>1 DEF IntoLot
  <2> HIDE DEF held, delta
  <2> QED
    BY <1>0, <2>1, <2>2, <2>3, <2>4, PostTypes
<1>4. status' = [status EXCEPT ![l] = "live"] /\ from' = from
  BY <1>1 DEF IntoLot
<1>5. \A m \in Lots : status[m] # "absent" => status'[m] # "absent"
  BY <1>0, <1>4 DEF TypeOK
<1>6. /\ part' \in [Lots -> Parts \cup {NoPart}] /\ line' \in [Lots -> Lines \cup {NoLine}]
      /\ part'[l] \in Parts /\ \A m \in Lots \ {l} : part'[m] = part[m]
  <2>1. CASE l = plan[r].refill /\ UNCHANGED <<part, line>>
    <3>1. status[l] # "absent"
      <4>1. plan[r].refill # NoLot
        BY <2>1, StockAssumption
      <4> QED
        BY <2>1, <4>1 DEF RcvInv, RefillStands
    <3> QED
      BY <1>0, <2>1, <3>1 DEF TypeOK, PartKnown
  <2>2. CASE /\ part' = [part EXCEPT ![l] = known[r].item]
             /\ line' = [line EXCEPT ![l] = about[r]]
    <3>1. known[r].item \in Parts
      <4>1. step[r] = "saving" /\ plan[r].why = "receive"
        BY CommitReceiveInto
      <4> QED
        BY <4>1 DEF RcvInv, OrderInv, WithinLine, Decided
    <3> QED
      BY <1>0, <1>2, <2>2, <3>1 DEF TypeOK
  <2> QED
    BY <1>1, <2>1, <2>2 DEF IntoLot
<1>7. TypeOK'
  <2>1. UNCHANGED <<pc, aim, seen, picked>>
    BY <1>2 DEF request
  <2> QED
    BY <1>0, <1>3, <1>4, <1>6, <2>1 DEF TypeOK
<1>8. PartKnown'
  BY <1>0, <1>4, <1>6 DEF PartKnown, TypeOK
<1>9. Aimed'
  BY <1>0, <1>2, <1>5, AimedStill
<1> QED
  BY <1>5, <1>7, <1>8, <1>9 DEF ShelfInv

\* A reversal takes from standing lots what it decided to, and leaves the lots alone.
LEMMA CommitUnreceivePosts ==
  ASSUME RcvInv, NEW r \in Requests, CommitUnreceive(r)
  PROVE  /\ {l \in Lots : plan[r].delta[l] # 0} \in SUBSET Lots
         /\ plan[r].delta \in [Lots -> Int] /\ "unreceive" \in Reason
         /\ Standing \in SUBSET Lots
         /\ Post({l \in Lots : plan[r].delta[l] # 0}, plan[r].delta, "unreceive", onHand,
                 Standing)
         /\ step[r] = "saving" /\ plan[r].why = "unreceive"
         /\ about[r] \in Lines /\ plan[r].count \in Nat
         /\ SaveBoth(r, known[r].got - plan[r].count)
         /\ Finish(r) /\ UNCHANGED <<lots, request>>
<1>1. step[r] = "saving"
  BY DEF CommitUnreceive
<1>2. about[r] \in Lines /\ plan[r] \in Plans
  BY <1>1 DEF RcvInv, OrderInv, WithinLine, OnALine, ClerkTypes
<1> QED
  BY <1>2 DEF CommitUnreceive, Plans, Standing, Reason

LEMMA CommitUnreceiveShelf ==
  ASSUME RcvInv, NEW r \in Requests, CommitUnreceive(r)
  PROVE  ShelfInv' /\ UNCHANGED status
<1>0. TypeOK /\ PartKnown /\ Aimed
  BY DEF RcvInv, ShelfInv
<1>1. UNCHANGED <<lots, request>>
  BY CommitUnreceivePosts
<1>2. UNCHANGED <<status, part, line, from, pc, aim, seen, picked>>
  BY <1>1 DEF lots, request
<1>3. /\ onHand' \in [Lots -> Int]
      /\ moved' \in [Lots -> [Reason -> Int]]
      /\ rows' \in [Lots -> [Reason -> Nat]]
      /\ drawn' \in [Lots -> BOOLEAN]
  <2> DEFINE S == {l \in Lots : plan[r].delta[l] # 0}
  <2>1. /\ S \in SUBSET Lots /\ plan[r].delta \in [Lots -> Int] /\ "unreceive" \in Reason
        /\ Standing \in SUBSET Lots
        /\ Post(S, plan[r].delta, "unreceive", onHand, Standing)
    BY CommitUnreceivePosts
  <2>2. onHand \in [Lots -> Int]
    BY <1>0 DEF TypeOK
  <2> HIDE DEF S
  <2> QED
    BY <1>0, <2>1, <2>2, PostTypes
<1>4. TypeOK'
  BY <1>0, <1>2, <1>3 DEF TypeOK
<1>5. PartKnown' /\ Aimed'
  BY <1>0, <1>1, <1>2, AimedStill DEF PartKnown
<1> QED
  BY <1>2, <1>4, <1>5 DEF ShelfInv

LEMMA RcvStepTypes == RcvInv /\ [RcvNext]_allVars => RcvInv'
<1> SUFFICES ASSUME RcvInv, [RcvNext]_allVars PROVE RcvInv'
  OBVIOUS
<1>0. ShelfInv /\ OrderInv /\ OrderTyped /\ LinesTyped /\ NothingOnNone /\ RefillStands
  BY DEF RcvInv
<1>1. OrderInv' /\ OrderTyped'
  BY <1>0, OrderStep, OrderTypedStep
\* The refill of a plan is kept, forgotten, or one that exists.
<1>a. plan \in [Requests -> Plans] /\ \A s \in Requests : plan[s].refill \in Lots \cup {NoLot}
  <2>1. plan \in [Requests -> Plans]
    BY <1>0 DEF OrderInv, ClerkTypes
  <2> QED
    BY <2>1 DEF Plans
<1>b. ASSUME \A l \in Lots : status[l] # "absent" => status'[l] # "absent", plan' = plan
      PROVE  RefillStands'
  BY <1>0, <1>a, <1>b DEF RefillStands
<1>2. ASSUME NEW r \in Requests,
             \A l \in Lots : status[l] # "absent" => status'[l] # "absent",
             NEW what \in Plans, plan' = [plan EXCEPT ![r] = what],
             what.refill # NoLot => status'[what.refill] # "absent"
      PROVE  RefillStands'
  <2>1. \A s \in Requests : plan'[s] = IF s = r THEN what ELSE plan[s]
    BY <1>a, <1>2
  <2> QED
    BY <1>0, <1>a, <1>2, <2>1 DEF RefillStands
<1>3. NoPlan \in Plans /\ NoPlan.refill = NoLot
  BY NoPlanIsAPlan DEF NoPlan
<1>4. ASSUME NEW r \in Requests, Finish(r),
             \A l \in Lots : status[l] # "absent" => status'[l] # "absent"
      PROVE  RefillStands'
  <2>1. plan' = [plan EXCEPT ![r] = NoPlan]
    BY <1>4 DEF Finish
  <2> QED
    BY <1>2, <1>3, <1>4, <2>1
<1>5. ASSUME UNCHANGED stockVars PROVE ShelfInv' /\ UNCHANGED status
  BY <1>0, <1>5 DEF ShelfInv, TypeOK, PartKnown, Aimed, stockVars, lots, ledger, request
\* A line is saved whole and live, or removed.
<1>6. ASSUME \/ UNCHANGED <<lineStatus, received>>
             \/ \E n \in Lines : \E row : SaveLine(n, row)
             \/ /\ \E n \in Lines : lineStatus' = [lineStatus EXCEPT ![n] = "deleted"]
                /\ UNCHANGED received
      PROVE  LinesTyped' /\ NothingOnNone'
  <2>1. received \in [Lines -> Int]
    BY <1>0 DEF OrderInv, ClerkTypes
  <2> QED
    BY <1>0, <1>6, <2>1 DEF LinesTyped, NothingOnNone, SaveLine
<1>7. ASSUME NEW r \in Requests, Clerk(r) PROVE RcvInv'
  <2>1. CASE \/ \E n \in Lines : \/ LineView(r, n, "receive", "receiving")
                                 \/ LineView(r, n, "unreceive", "taking back")
                                 \/ LineView(r, n, "line", "correcting")
                                 \/ LineView(r, n, "line", "removing")
                                 \/ LineAdd(r, n)
             \/ Settle(r) \/ LineCorrect(r) \/ LineRemove(r) \/ OrderView(r)
    <3>1. UNCHANGED <<stockVars, plan>>
      BY <2>1 DEF LineView, LineAdd, Settle, LineCorrect, LineRemove, OrderView, clerk
    <3>2. \/ UNCHANGED <<lineStatus, received>>
          \/ \E n \in Lines : \E row : SaveLine(n, row)
          \/ /\ \E n \in Lines : lineStatus' = [lineStatus EXCEPT ![n] = "deleted"]
             /\ UNCHANGED received
      <4>1. step[r] \in {"correcting", "removing"} => about[r] \in Lines
        BY <1>0 DEF OrderInv, WithinLine, OnALine
      <4> QED
        BY <2>1, <4>1 DEF LineView, LineAdd, Settle, LineCorrect, LineRemove, OrderView, purchase
    <3>3. LinesTyped' /\ NothingOnNone'
      BY <1>6, <3>2
    <3>4. ShelfInv' /\ UNCHANGED status
      BY <1>5, <3>1
    <3>5. RefillStands'
      BY <1>b, <3>1, <3>4
    <3> QED
      BY <1>1, <3>3, <3>4, <3>5 DEF RcvInv
  <2>2. CASE ReceiveDecide(r) \/ UnreceiveDecide(r)
    <3>1. PICK what : /\ Decide(r, what)
                      /\ what.refill = NoLot \/ what.refill \in Emptied(about[r])
      <4>1. CASE ReceiveDecide(r)
        <5>1. PICK n \in Units :
                LET empty == Emptied(about[r])
                    refill == IF empty = {} THEN NoLot ELSE Oldest(empty)
                IN  Decide(r, [refill |-> refill, delta |-> Zero, why |-> "receive",
                               count |-> n])
          BY <4>1 DEF ReceiveDecide
        <5> QED
          BY <5>1, RefillIsALot
      <4>2. CASE UnreceiveDecide(r)
        <5>1. PICK n \in Units :
                \E take \in TakenBack(about[r], n) :
                   Decide(r, [refill |-> NoLot, delta |-> [l \in Lots |-> 0 - take[l]],
                              why |-> "unreceive", count |-> n])
          BY <4>2 DEF UnreceiveDecide
        <5> QED
          BY <5>1
      <4> QED
        BY <2>2, <4>1, <4>2
    <3>2. plan' = [plan EXCEPT ![r] = what] /\ UNCHANGED <<stockVars, lineStatus, received>>
      BY <3>1 DEF Decide, purchase
    <3>3. ShelfInv' /\ UNCHANGED status
      BY <1>5, <3>2
    <3>4. what \in Plans
      <4>1. plan \in [Requests -> Plans] /\ plan' \in [Requests -> Plans]
        BY <1>0, <1>1 DEF OrderInv, ClerkTypes
      <4>2. plan'[r] = what
        BY <3>2, <4>1
      <4> QED
        BY <4>1, <4>2
    <3>5. what.refill # NoLot => status'[what.refill] # "absent"
      BY <3>1, <3>3 DEF Emptied, LotsOf, Live
    <3>6. RefillStands'
      BY <1>2, <3>2, <3>3, <3>4, <3>5
    <3>7. LinesTyped' /\ NothingOnNone'
      BY <1>6, <3>2
    <3> QED
      BY <1>1, <3>3, <3>6, <3>7 DEF RcvInv
  <2>3. CASE CommitReceive(r)
    <3>1. ShelfInv' /\ \A l \in Lots : status[l] # "absent" => status'[l] # "absent"
      BY <2>3, CommitReceiveShelf
    <3>2. Finish(r) /\ \E row : SaveLine(about[r], row)
      BY <2>3 DEF CommitReceive, SaveBoth
    <3>3. about[r] \in Lines
      BY <2>3, CommitReceiveInto
    <3> QED
      BY <1>1, <1>4, <1>6, <3>1, <3>2, <3>3 DEF RcvInv
  <2>4. CASE CommitUnreceive(r)
    <3>1. ShelfInv' /\ UNCHANGED status
      BY <2>4, CommitUnreceiveShelf
    <3>2. Finish(r) /\ \E row : SaveLine(about[r], row)
      BY <2>4 DEF CommitUnreceive, SaveBoth
    <3>3. about[r] \in Lines
      BY <2>4, CommitUnreceivePosts
    <3> QED
      BY <1>1, <1>4, <1>6, <3>1, <3>2, <3>3 DEF RcvInv
  <2>5. CASE OrderReread(r) \/ OrderSave(r) \/ OrderEdit(r) \/ Turn(r)
    <3>1. UNCHANGED <<stockVars, lineStatus, received>> /\ (Finish(r) \/ plan' = plan)
      BY <2>5 DEF OrderReread, OrderSave, OrderEdit, Turn, purchase
    <3>2. ShelfInv' /\ UNCHANGED status
      BY <1>5, <3>1
    <3>3. RefillStands'
      BY <1>b, <1>4, <3>1, <3>2
    <3>4. LinesTyped' /\ NothingOnNone'
      BY <1>6, <3>1
    <3> QED
      BY <1>1, <3>2, <3>3, <3>4 DEF RcvInv
  <2> QED
    BY <1>7, <2>1, <2>2, <2>3, <2>4, <2>5 DEF Clerk
<1>8. ASSUME NEW r \in Requests, Screen(r), UNCHANGED <<purchase, clerk>> PROVE RcvInv'
  <2>1. StockNext
    BY <1>8 DEF StockNext
  <2>2. ShelfInv' /\ Undisturbed
    BY <1>0, <2>1, ShelfStep, ShelfUndisturbed
  <2>3. RefillStands'
    BY <1>b, <1>8, <2>2 DEF Undisturbed, clerk
  <2>4. LinesTyped' /\ NothingOnNone'
    BY <1>6, <1>8 DEF purchase
  <2> QED
    BY <1>1, <2>2, <2>3, <2>4 DEF RcvInv
<1>9. CASE UNCHANGED allVars
  <2>1. ShelfInv' /\ UNCHANGED <<status, plan, lineStatus, received>>
    BY <1>5, <1>9 DEF allVars, purchase, clerk
  <2>2. LinesTyped' /\ NothingOnNone' /\ RefillStands'
    BY <1>0, <1>6, <2>1 DEF RefillStands
  <2> QED
    BY <1>1, <2>1, <2>2 DEF RcvInv
<1> QED
  BY <1>7, <1>8, <1>9 DEF RcvNext

\* Whatever the requests on the order and the screens of the shelf do to each other, a
\* refill saved over a lot that moved meanwhile included, everything keeps its type and
\* every lot on the shelf is of a part.
THEOREM ReceivingTypes == RcvSpec => []RcvTypeOK
<1>1. RcvInv => RcvTypeOK
  BY DEF RcvInv, RcvTypeOK, ShelfInv, OrderInv, ClerkTypes, OrderTyped, LinesTyped, Plans, Papers
<1> QED
  BY <1>1, RcvInitTypes, RcvStepTypes, PTL DEF RcvSpec

-----------------------------------------------------------------------------
(* One request at a time: what it has at hand is still so.                 *)

Filed == [order |-> order, arrived |-> arrived]

RowOf(n) == [got |-> received[n], wanted |-> ordered[n], item |-> linePart[n]]

\* The lines as the request sees them once it has written its own.
Told(r) ==
  [received EXCEPT ![about[r]] =
     IF plan[r].why = "receive" THEN known[r].got + plan[r].count
                                ELSE known[r].got - plan[r].count]

AsFiled == {"receiving", "taking back", "correcting", "removing", "settling", "saving order",
            "filing order"}

\* A receipt goes into a lot that is still empty; a reversal takes what is there.
PlanHolds(r) ==
  IF plan[r].why = "receive"
  THEN plan[r].refill # NoLot => plan[r].refill \in Emptied(about[r])
  ELSE /\ plan[r].why = "unreceive"
       /\ \A l \in Lots : plan[r].delta[l] # 0 => /\ l \in LotsOf(about[r])
                                                 /\ onHand[l] + plan[r].delta[l] >= 0
       /\ SumFunctionOnSet(plan[r].delta, Lots) = 0 - plan[r].count

AtHand(r) ==
  /\ step[r] # "idle" => pc[r] = "idle"
  /\ step[r] \in OnALine => LiveLine(about[r]) /\ known[r] = RowOf(about[r])
  /\ step[r] \in AsFiled => paper[r] = Filed
  /\ step[r] = "saving" => paper[r] = Recomputed(Filed, Told(r), ordered, LiveLines)
  /\ step[r] = "order reread" => /\ ~LeftAlone(Filed, LiveLines)
                                 /\ paper[r] = Recomputed(Filed, received, ordered, LiveLines)
  /\ step[r] \in Decided => PlanHolds(r)

LEMMA NothingAtHand ==
  ASSUME NEW r \in Requests, step'[r] = "idle" PROVE AtHand(r)'
BY DEF AtHand, OnALine, AsFiled, Decided

LEMMA FinishedIsIdle ==
  ASSUME OrderInv, NEW r \in Requests, Finish(r) PROVE AtHand(r)'
<1>1. step'[r] = "idle"
  BY DEF Finish, OrderInv, ClerkTypes
<1> QED
  BY <1>1, NothingAtHand

\* What a reversal takes adds up to what is taken back.
LEMMA TakenAddsUp ==
  ASSUME NEW n, NEW count \in Nat, NEW take \in TakenBack(n, count)
  PROVE  SumFunctionOnSet([l \in Lots |-> 0 - take[l]], Lots) = 0 - count
<1> DEFINE delta == [l \in Lots |-> 0 - take[l]]
           none == [l \in Lots |-> 0]
<1>1. take \in [Lots -> 0..count] /\ SumOver(take) = count
  BY DEF TakenBack
<1>2. SumOver(take) = SumFunctionOnSet(take, DOMAIN take)
  BY DEF SumOver, FoldFunction, SumFunctionOnSet
<1>3. SumFunctionOnSet(take, Lots) = count
  BY <1>1, <1>2
<1>4. \A l \in Lots : take[l] \in Int /\ delta[l] \in Int /\ none[l] = take[l] + delta[l]
  BY <1>1
<1>5. IsFiniteSet(Lots)
  BY StockAssumption
<1>6. SumFunctionOnSet(none, Lots) = 0
  BY <1>5, SumOfZeros
<1> HIDE DEF delta, none
<1>7. SumFunctionOnSet(none, Lots) =
        SumFunctionOnSet(take, Lots) + SumFunctionOnSet(delta, Lots)
  BY <1>4, <1>5, SumAdds
<1>8. SumFunctionOnSet(delta, Lots) \in Int
  BY <1>4, <1>5, SumInt
<1> QED
  BY <1>3, <1>6, <1>7, <1>8 DEF delta

LEMMA DecidesAtHand ==
  ASSUME RcvInv, NEW r \in Requests, AtHand(r), step[r] \in {"receiving", "taking back"},
         NEW what \in Plans, Decide(r, what),
         IF what.why = "receive"
         THEN what.refill # NoLot => what.refill \in Emptied(about[r])
         ELSE /\ what.why = "unreceive"
              /\ \A l \in Lots : what.delta[l] # 0 => /\ l \in LotsOf(about[r])
                                                     /\ onHand[l] + what.delta[l] >= 0
              /\ SumFunctionOnSet(what.delta, Lots) = 0 - what.count
  PROVE  AtHand(r)'
<1>1. /\ step'[r] = "settling" /\ plan'[r] = what /\ paper'[r] = Filed
      /\ UNCHANGED <<stockVars, purchase, about, known>>
  BY DEF Decide, RcvInv, OrderInv, ClerkTypes, OrderTyped, Filed
<1>2. UNCHANGED <<status, line, onHand, rows, pc, lineStatus, received, ordered, linePart, order,
                  arrived>>
  BY <1>1 DEF stockVars, lots, ledger, request, purchase
<1>3. Emptied(about[r])' = Emptied(about[r]) /\ LotsOf(about[r])' = LotsOf(about[r])
      /\ Filed' = Filed
  BY <1>1, <1>2 DEF Emptied, LotsOf, Live, Filed
<1>4. PlanHolds(r)'
  BY <1>1, <1>2, <1>3 DEF PlanHolds
<1>5. pc[r] = "idle" /\ LiveLine(about[r]) /\ known[r] = RowOf(about[r])
  BY DEF AtHand, OnALine
<1> QED
  BY <1>1, <1>2, <1>3, <1>4, <1>5 DEF AtHand, OnALine, AsFiled, Decided, LiveLine, RowOf

LEMMA AtHandStep ==
  ASSUME \A r, s \in Requests : r = s
  PROVE  RcvInv /\ (\A r \in Requests : AtHand(r)) /\ [RcvNext]_allVars
           => \A r \in Requests : AtHand(r)'
<1> SUFFICES ASSUME RcvInv, \A r \in Requests : AtHand(r), [RcvNext]_allVars,
                    NEW r \in Requests
             PROVE  AtHand(r)'
  OBVIOUS
<1>0. OrderInv /\ OrderTyped
  BY DEF RcvInv
<1>1. /\ step \in [Requests -> Steps] /\ about \in [Requests -> Lines \cup {NoLine}]
      /\ known \in [Requests -> LineRow] /\ paper \in [Requests -> Papers]
  BY <1>0 DEF OrderInv, ClerkTypes, OrderTyped
<1>2. CASE UNCHANGED allVars
  <2>1. UNCHANGED <<status, line, onHand, rows, pc, lineStatus, received, ordered, linePart,
                    order, arrived, step, about, known, paper, plan>>
    BY <1>2 DEF allVars, stockVars, lots, ledger, request, purchase, clerk
  <2>2. AtHand(r)
    OBVIOUS
  <2>3. /\ LiveLines' = LiveLines /\ Filed' = Filed /\ Told(r)' = Told(r)
        /\ LiveLine(about[r])' = LiveLine(about[r]) /\ RowOf(about[r])' = RowOf(about[r])
    BY <2>1 DEF LiveLines, LiveLine, Filed, Told, RowOf
  <2>4. PlanHolds(r)' = PlanHolds(r)
    BY <2>1 DEF PlanHolds, Emptied, LotsOf, Live
  <2>5. /\ Recomputed(Filed, Told(r), ordered, LiveLines)'
             = Recomputed(Filed, Told(r), ordered, LiveLines)
        /\ Recomputed(Filed, received, ordered, LiveLines)'
             = Recomputed(Filed, received, ordered, LiveLines)
        /\ LeftAlone(Filed, LiveLines)' = LeftAlone(Filed, LiveLines)
    BY <2>1, <2>3
  <2> QED
    BY <2>1, <2>2, <2>3, <2>4, <2>5 DEF AtHand
<1>3. CASE step[r] = "idle" /\ UNCHANGED step
  BY <1>3, NothingAtHand
<1>4. CASE Clerk(r)
  <2>1. ASSUME NEW n \in Lines, NEW screen,
               NEW doing \in {"receiving", "taking back", "correcting", "removing"},
               LineView(r, n, screen, doing)
        PROVE  AtHand(r)'
    <3>1. /\ step'[r] = doing /\ about'[r] = n /\ known'[r] = RowOf(n)
          /\ paper'[r] = Filed /\ pc[r] = "idle" /\ LiveLine(n)
          /\ UNCHANGED <<stockVars, purchase>>
      BY <1>1, <2>1 DEF LineView, Free, Filed, RowOf
    <3>2. UNCHANGED <<pc, lineStatus, received, ordered, linePart, order, arrived>>
      BY <3>1 DEF stockVars, request, purchase
    <3>3. Filed' = Filed /\ LiveLine(n)' /\ RowOf(n)' = RowOf(n)
      BY <3>1, <3>2 DEF Filed, LiveLine, RowOf
    <3> QED
      BY <3>1, <3>2, <3>3 DEF AtHand, OnALine, AsFiled, Decided
  <2>2. CASE \E n \in Lines : LineAdd(r, n)
    BY <1>3, <2>2 DEF LineAdd, Free, clerk
  <2>3. CASE ReceiveDecide(r)
    <3>1. step[r] = "receiving"
      BY <2>3 DEF ReceiveDecide
    <3>2. PICK n \in Units :
            LET empty == Emptied(about[r])
                refill == IF empty = {} THEN NoLot ELSE Oldest(empty)
            IN  Decide(r, [refill |-> refill, delta |-> Zero, why |-> "receive", count |-> n])
      BY <2>3 DEF ReceiveDecide
    <3> DEFINE refill == IF Emptied(about[r]) = {} THEN NoLot ELSE Oldest(Emptied(about[r]))
    <3>3. refill \in Emptied(about[r]) \cup {NoLot} /\ Emptied(about[r]) \subseteq Lots
      BY RefillIsALot DEF Emptied, LotsOf
    <3>4. Decide(r, [refill |-> refill, delta |-> Zero, why |-> "receive", count |-> n])
      BY <3>2
    <3> HIDE DEF refill
    <3> DEFINE what == [refill |-> refill, delta |-> Zero, why |-> "receive", count |-> n]
    <3>5. what \in Plans
      BY <3>3, Counted, PlanIsAPlan DEF Zero, Reason
    <3>6. what.why = "receive" /\ what.refill = refill /\ Decide(r, what)
      BY <3>4
    <3> HIDE DEF what
    <3> QED
      BY <3>1, <3>3, <3>5, <3>6, DecidesAtHand
  <2>4. CASE UnreceiveDecide(r)
    <3>1. step[r] = "taking back"
      BY <2>4 DEF UnreceiveDecide
    <3>2. PICK n \in Units :
            \E take \in TakenBack(about[r], n) :
               Decide(r, [refill |-> NoLot, delta |-> [l \in Lots |-> 0 - take[l]],
                          why |-> "unreceive", count |-> n])
      BY <2>4 DEF UnreceiveDecide
    <3>3. PICK take \in TakenBack(about[r], n) :
            Decide(r, [refill |-> NoLot, delta |-> [l \in Lots |-> 0 - take[l]],
                       why |-> "unreceive", count |-> n])
      BY <3>2
    <3> DEFINE delta == [l \in Lots |-> 0 - take[l]]
    <3>4. delta \in [Lots -> Int] /\ SumFunctionOnSet(delta, Lots) = 0 - n
      BY Counted, Taken, TakenAddsUp
    <3>5. \A l \in Lots : delta[l] # 0 => /\ l \in LotsOf(about[r])
                                          /\ onHand[l] + delta[l] >= 0
      <4> TAKE l \in Lots
      <4>1. /\ take[l] \in 0..n /\ n \in Nat
            /\ take[l] > 0 => l \in LotsOf(about[r]) /\ take[l] <= onHand[l]
        BY Counted DEF TakenBack
      <4>2. delta[l] = 0 - take[l] /\ onHand[l] \in Int
        BY DEF RcvInv, ShelfInv, TypeOK
      <4> HIDE DEF delta
      <4> QED
        BY <4>1, <4>2
    <3> HIDE DEF delta
    <3> DEFINE what == [refill |-> NoLot, delta |-> delta, why |-> "unreceive", count |-> n]
    <3>6. what \in Plans
      BY <3>4, Counted, PlanIsAPlan DEF Reason
    <3>7. what.why = "unreceive" /\ what.delta = delta /\ what.count = n /\ Decide(r, what)
      BY <3>3 DEF delta
    <3> HIDE DEF what
    <3> QED
      BY <3>1, <3>4, <3>5, <3>6, <3>7, DecidesAtHand
  <2>5. CASE Settle(r)
    <3>1. /\ step[r] = "settling" /\ step'[r] = "saving"
          /\ paper'[r] = Recomputed(paper[r], Told(r),
                                   [ordered EXCEPT ![about[r]] = known[r].wanted],
                                   LiveLines \cup {about[r]})
          /\ UNCHANGED <<stockVars, purchase, about, known, plan>>
      BY <1>1, <2>5 DEF Settle, Told
    <3>2. /\ pc[r] = "idle" /\ LiveLine(about[r]) /\ known[r] = RowOf(about[r])
          /\ paper[r] = Filed /\ PlanHolds(r)
      BY <3>1 DEF AtHand, OnALine, AsFiled, Decided
    <3>3. about[r] \in Lines
      BY <1>0, <3>1 DEF OrderInv, WithinLine, OnALine
    <3>4. LiveLines \cup {about[r]} = LiveLines
      BY <3>2, <3>3 DEF LiveLines
    <3>5. [ordered EXCEPT ![about[r]] = known[r].wanted] = ordered
      <4>1. known[r].wanted = ordered[about[r]] /\ ordered \in [Lines -> Int]
        BY <1>0, <3>2 DEF RowOf, OrderInv, ClerkTypes
      <4> QED
        BY <4>1
    <3>6. UNCHANGED <<status, line, onHand, rows, pc, lineStatus, received, ordered, linePart,
                      order, arrived, about, known, plan>>
      BY <3>1 DEF stockVars, lots, ledger, request, purchase
    <3>7. /\ LiveLines' = LiveLines /\ Filed' = Filed /\ Told(r)' = Told(r)
          /\ LiveLine(about[r])' /\ RowOf(about[r])' = RowOf(about[r])
      BY <3>2, <3>6 DEF LiveLines, LiveLine, Filed, Told, RowOf
    <3>8. PlanHolds(r)'
      BY <3>2, <3>6 DEF PlanHolds, Emptied, LotsOf, Live
    <3>9. paper'[r] = Recomputed(Filed, Told(r), ordered, LiveLines)'
      BY <3>1, <3>2, <3>4, <3>5, <3>6, <3>7
    <3> QED
      BY <3>1, <3>2, <3>6, <3>7, <3>8, <3>9 DEF AtHand, OnALine, AsFiled, Decided
  <2>6. CASE LineCorrect(r) \/ LineRemove(r)
    <3>1. /\ step[r] \in {"correcting", "removing"} /\ step'[r] = "saving order"
          /\ UNCHANGED <<stockVars, order, arrived, paper>>
      BY <1>1, <2>6 DEF LineCorrect, LineRemove
    <3>2. pc[r] = "idle" /\ paper[r] = Filed
      BY <3>1 DEF AtHand, AsFiled
    <3>3. UNCHANGED pc
      BY <3>1 DEF stockVars, request
    <3> QED
      BY <3>1, <3>2, <3>3 DEF AtHand, OnALine, AsFiled, Decided, Filed
  <2>7. CASE OrderReread(r)
    <3>1. /\ step[r] = "saving order" /\ UNCHANGED <<stockVars, purchase>>
          /\ \/ Finish(r)
             \/ /\ ~LeftAlone(paper[r], LiveLines)
                /\ paper'[r] = Recomputed(paper[r], received, ordered, LiveLines)
                /\ step'[r] = "order reread"
      BY <1>1, <2>7 DEF OrderReread
    <3>2. pc[r] = "idle" /\ paper[r] = Filed
      BY <3>1 DEF AtHand, AsFiled
    <3>3. UNCHANGED <<pc, received, ordered>> /\ LiveLines' = LiveLines /\ Filed' = Filed
      BY <3>1 DEF stockVars, request, purchase, LiveLines, LiveLine, Filed
    <3>4. CASE Finish(r)
      BY <1>0, <3>4, FinishedIsIdle
    <3>5. CASE ~Finish(r)
      <4>1. /\ ~LeftAlone(Filed, LiveLines)'
            /\ paper'[r] = Recomputed(Filed, received, ordered, LiveLines)'
        BY <3>1, <3>2, <3>3, <3>5
      <4> QED
        BY <3>1, <3>2, <3>3, <3>5, <4>1 DEF AtHand, OnALine, AsFiled, Decided
    <3> QED
      BY <3>4, <3>5
  <2>8. CASE OrderView(r)
    <3>1. /\ step'[r] = "filing order" /\ paper'[r] = Filed /\ pc[r] = "idle"
          /\ UNCHANGED <<stockVars, purchase>>
      BY <1>1, <2>8 DEF OrderView, Free, Filed
    <3>2. UNCHANGED <<pc, order, arrived>>
      BY <3>1 DEF stockVars, request, purchase
    <3> QED
      BY <3>1, <3>2 DEF AtHand, OnALine, AsFiled, Decided, Filed
  <2>9. CASE CommitReceive(r) \/ CommitUnreceive(r) \/ OrderSave(r) \/ OrderEdit(r) \/ Turn(r)
    BY <1>0, <2>9, FinishedIsIdle DEF CommitReceive, CommitUnreceive, OrderSave, OrderEdit, Turn
  <2> QED
    BY <1>4, <2>1, <2>2, <2>3, <2>4, <2>5, <2>6, <2>7, <2>8, <2>9 DEF Clerk
<1>5. CASE RcvNext
  <2>1. PICK q \in Requests :
          \/ Clerk(q)
          \/ step[q] = "idle" /\ Screen(q) /\ UNCHANGED <<purchase, clerk>>
    BY <1>5 DEF RcvNext
  <2>2. q = r
    OBVIOUS
  <2> QED
    BY <1>3, <1>4, <2>1, <2>2 DEF clerk
<1> QED
  BY <1>2, <1>5

-----------------------------------------------------------------------------
(* One request at a time: the shelf, the lines and the order agree.        *)

\* A lot that does not exist is of no line and has no rows.
NoneOfIt ==
  \A l \in Lots : status[l] = "absent" =>
    line[l] = NoLine /\ \A why \in Reason : rows[l][why] = 0

\* What has come in on each lot, less what was taken back, and the lots of a line.
Arrivals == [l \in Lots |-> moved[l]["receive"] + moved[l]["unreceive"]]
LotsOn(n) == {l \in Lots : line[l] = n}
Came(n) == SumFunctionOnSet(Arrivals, LotsOn(n))

Agree == \A n \in Lines : received[n] = Came(n)

Serial == Calm /\ Books /\ NoneOfIt /\ Agree /\ \A r \in Requests : AtHand(r)

LEMMA AgreeIsMatches == Agree => LineMatchesShelf
<1> SUFFICES ASSUME Agree, NEW n \in Lines
             PROVE  received[n] = SumOver([l \in {m \in Lots : line[m] = n} |->
                                             moved[l]["receive"] + moved[l]["unreceive"]])
  BY DEF LineMatchesShelf
<1> DEFINE f == [l \in {m \in Lots : line[m] = n} |->
                   moved[l]["receive"] + moved[l]["unreceive"]]
<1>1. SumOver(f) = SumFunctionOnSet(f, DOMAIN f)
  BY DEF SumOver, FoldFunction, SumFunctionOnSet
<1>2. DOMAIN f = LotsOn(n) /\ \A l \in LotsOn(n) : f[l] = Arrivals[l]
  BY DEF LotsOn, Arrivals
<1>3. IsFiniteSet(LotsOn(n))
  BY StockAssumption, FS_Subset DEF LotsOn
<1> HIDE DEF f
<1>4. SumFunctionOnSet(f, LotsOn(n)) = Came(n)
  BY <1>2, <1>3, SumSame DEF Came
<1> QED
  BY <1>1, <1>2, <1>4 DEF Agree, f

LEMMA ArrivalsAreInt ==
  ASSUME TypeOK
  PROVE  /\ \A l \in Lots : Arrivals[l] \in Int
         /\ \A n : IsFiniteSet(LotsOn(n)) /\ LotsOn(n) \subseteq Lots
<1>1. \A l \in Lots : Arrivals[l] \in Int
  BY DEF Arrivals, TypeOK, Reason
<1>2. \A n : IsFiniteSet(LotsOn(n)) /\ LotsOn(n) \subseteq Lots
  BY StockAssumption, FS_Subset DEF LotsOn
<1> QED
  BY <1>1, <1>2

\* New lots of a line that nothing has come in on change nothing of what came.
LEMMA CameStands ==
  ASSUME TypeOK, TypeOK', NEW n, LotsOn(n) \subseteq LotsOn(n)',
         \A l \in LotsOn(n) : Arrivals'[l] = Arrivals[l],
         \A l \in LotsOn(n)' \ LotsOn(n) : Arrivals'[l] = 0
  PROVE  Came(n)' = Came(n)
<1> DEFINE S == LotsOn(n)
           T == LotsOn(n)'
           f == Arrivals
           g == Arrivals'
<1>1. IsFiniteSet(S) /\ IsFiniteSet(T) /\ \A l \in T : g[l] \in Int
  <2>1. IsFiniteSet(S) /\ IsFiniteSet(T)
    BY StockAssumption, FS_Subset DEF LotsOn
  <2>2. \A l \in T : g[l] \in Int
    BY DEF Arrivals, TypeOK, Reason, LotsOn
  <2> QED
    BY <2>1, <2>2
<1>2. /\ S \in SUBSET T /\ \A l \in S : g[l] = f[l]
      /\ \A l \in T \ S : g[l] = 0 /\ IsFiniteSet(T \ S)
  BY <1>1, FS_Subset
<1>3. Came(n) = SumFunctionOnSet(f, S) /\ Came(n)' = SumFunctionOnSet(g, T)
  BY DEF Came
<1> HIDE DEF S, T, f, g
<1>4. SumFunctionOnSet(g, T) = SumFunctionOnSet(g, S) + SumFunctionOnSet(g, T \ S)
  BY <1>1, <1>2, SumSplits
<1>5. IsFiniteSet(T \ S)
  BY <1>1, FS_Subset
<1>6. SumFunctionOnSet(g, T \ S) = 0
  BY <1>2, <1>5, SumOfZeros
<1>7. SumFunctionOnSet(g, S) = SumFunctionOnSet(f, S)
  BY <1>1, <1>2, SumSame
<1>8. SumFunctionOnSet(g, S) \in Int
  BY <1>1, <1>2, SumInt
<1> QED
  BY <1>3, <1>4, <1>6, <1>7, <1>8

LEMMA SerialInit == RcvInit => Serial
<1> SUFFICES ASSUME RcvInit PROVE Serial
  OBVIOUS
<1>1. Calm /\ Books
  BY CalmInit, BooksInit DEF RcvInit
<1>2. NoneOfIt
  BY DEF RcvInit, Init, NoneOfIt
<1>3. Agree
  <2>1. TypeOK
    BY ShelfInit DEF RcvInit, ShelfInv
  <2>2. \A l \in Lots : Arrivals[l] = 0
    BY DEF Arrivals, RcvInit, Init, Reason
  <2>3. \A n \in Lines : Came(n) = 0
    BY <2>1, <2>2, ArrivalsAreInt, SumOfZeros DEF Came
  <2> QED
    BY <2>3 DEF Agree, RcvInit
<1>4. \A r \in Requests : AtHand(r)
  BY DEF RcvInit, AtHand, OnALine, AsFiled, Decided
<1> QED
  BY <1>1, <1>2, <1>3, <1>4 DEF Serial

\* A screen of the shelf keeps the lines and the shelf in agreement.
LEMMA ShelfAgrees ==
  ASSUME RcvInv, RcvInv', NoneOfIt, Books, Agree, Undisturbed, UNCHANGED received
  PROVE  NoneOfIt' /\ Agree'
<1>0. TypeOK /\ TypeOK'
  BY DEF RcvInv, ShelfInv
<1>1. NoneOfIt'
  BY <1>0 DEF NoneOfIt, Undisturbed, TypeOK
<1>2. ASSUME NEW n \in Lines PROVE Came(n)' = Came(n)
  <2>1. \A l \in Lots : Arrivals'[l] = Arrivals[l]
    BY DEF Arrivals, Undisturbed
  <2>2. n # NoLine
    BY StockAssumption
  <2>3. \A l \in Lots : line[l] = n => status[l] # "absent" /\ line'[l] = n
    BY <2>2 DEF NoneOfIt, Undisturbed
  <2>4. LotsOn(n) \subseteq LotsOn(n)'
    BY <2>3 DEF LotsOn
  <2>5. ASSUME NEW l \in LotsOn(n)' \ LotsOn(n) PROVE Arrivals'[l] = 0
    <3>1. l \in Lots /\ line'[l] # line[l]
      BY <2>5 DEF LotsOn
    <3>2. status[l] = "absent"
      BY <3>1 DEF Undisturbed
    <3>3. moved[l]["receive"] = 0 /\ moved[l]["unreceive"] = 0
      BY <3>1, <3>2 DEF Books, NothingYet, Reason
    <3> QED
      BY <2>1, <3>1, <3>3 DEF Arrivals
  <2>6. LotsOn(n) \subseteq Lots
    BY DEF LotsOn
  <2> QED
    BY <1>0, <2>1, <2>4, <2>5, <2>6, CameStands
<1>3. Agree'
  BY <1>2 DEF Agree
<1> QED
  BY <1>1, <1>3

\* What comes in on one lot of a line comes in on the line.
LEMMA OneArrives ==
  ASSUME TypeOK, TypeOK', NEW n, NEW l \in Lots, NEW c \in Int,
         Arrivals'[l] = Arrivals[l] + c,
         \A m \in Lots \ {l} : Arrivals'[m] = Arrivals[m] /\ line'[m] = line[m],
         line'[l] = n, line[l] = n \/ Arrivals[l] = 0
  PROVE  Came(n)' = Came(n) + c
<1> DEFINE S == LotsOn(n)
           T == LotsOn(n)'
           f == Arrivals
           g == Arrivals'
<1>1. IsFiniteSet(S) /\ IsFiniteSet(T)
  BY StockAssumption, FS_Subset DEF LotsOn
<1>2. \A m \in T : g[m] \in Int /\ f[m] \in Int
  BY DEF Arrivals, TypeOK, Reason, LotsOn
<1>3. l \in T /\ T \ {l} = S \ {l} /\ (l \in S \/ f[l] = 0)
  BY DEF LotsOn
<1>4. g[l] = f[l] + c /\ \A m \in T \ {l} : g[m] = f[m]
  BY DEF LotsOn
<1>5. Came(n) = SumFunctionOnSet(f, S) /\ Came(n)' = SumFunctionOnSet(g, T)
  BY DEF Came
<1> HIDE DEF S, T, f, g
<1> DEFINE rest == SumFunctionOnSet(f, T \ {l})
<1>6. SumFunctionOnSet(g, T) = g[l] + SumFunctionOnSet(g, T \ {l})
  BY <1>1, <1>2, <1>3, SumTakeOut
<1>7. IsFiniteSet(T \ {l})
  BY <1>1, FS_Subset
<1>8. SumFunctionOnSet(g, T \ {l}) = rest
  BY <1>4, <1>7, SumSame
<1>9. SumFunctionOnSet(f, S) = f[l] + rest
  <2>1. CASE l \in S
    <3>1. \A m \in S : f[m] \in Int
      BY <1>2, <1>3
    <3>2. SumFunctionOnSet(f, S) = f[l] + SumFunctionOnSet(f, S \ {l})
      BY <1>1, <2>1, <3>1, SumTakeOut
    <3> QED
      BY <1>3, <3>2
  <2>2. CASE l \notin S
    <3>1. S = T \ {l} /\ f[l] = 0
      BY <1>3, <2>2
    <3>2. rest \in Int
      BY <1>2, <1>7, SumInt
    <3> QED
      BY <3>1, <3>2
  <2> QED
    BY <2>1, <2>2
<1>10. rest \in Int /\ f[l] \in Int
  BY <1>2, <1>3, <1>7, SumInt
<1> HIDE DEF rest
<1> QED
  BY <1>4, <1>5, <1>6, <1>8, <1>9, <1>10

\* The line a receipt or a reversal saves is its own, with the count it settled on.
LEMMA WhatIsSaved ==
  ASSUME RcvInv, NEW r \in Requests, NEW mine, SaveBoth(r, mine)
  PROVE  /\ received' = [received EXCEPT ![about[r]] = mine]
         /\ ordered' = [ordered EXCEPT ![about[r]] = known[r].wanted]
         /\ lineStatus' = [lineStatus EXCEPT ![about[r]] = "live"]
         /\ SaveOrder(r)
<1>1. known[r] \in LineRow
  BY DEF RcvInv, OrderInv, ClerkTypes
<1>2. LET row == [known[r] EXCEPT !.got = mine]
      IN  row.got = mine /\ row.wanted = known[r].wanted
  BY <1>1 DEF LineRow
<1> QED
  BY <1>2 DEF SaveBoth, SaveLine

\* What a receipt does to the lot it goes into, when nothing came between.
ReceivedInto(r, l) ==
  /\ Post({l}, [Zero EXCEPT ![l] = plan[r].count], "receive", onHand, Standing \cup {l})
  /\ status' = [status EXCEPT ![l] = "live"]
  /\ line' = [line EXCEPT ![l] = about[r]]
  /\ status[l] \in {"live", "absent"} /\ onHand[l] = 0
  /\ line[l] = about[r] \/ (line[l] = NoLine /\ Arrivals[l] = 0)
  /\ \A why \in Reason \ {"receive", "unreceive"} : rows[l][why] = 0

LEMMA SerialReceives ==
  ASSUME RcvInv, Serial, NEW r \in Requests, CommitReceive(r)
  PROVE  \E l \in Lots : ReceivedInto(r, l)
<1>0. TypeOK /\ Books /\ NoneOfIt /\ AtHand(r)
  BY DEF RcvInv, ShelfInv, Serial
<1>1. PICK l \in Lots : IntoLot(r, l)
  BY CommitReceiveInto
<1>2. step[r] = "saving" /\ plan[r].why = "receive" /\ about[r] \in Lines
  BY CommitReceiveInto
<1>3. plan[r].refill # NoLot => plan[r].refill \in Emptied(about[r])
  BY <1>0, <1>2 DEF AtHand, Decided, PlanHolds
<1>4. CASE plan[r].refill # NoLot
  <2>1. l \in Emptied(about[r])
    BY <1>1, <1>3, <1>4 DEF IntoLot
  <2>2. /\ status[l] = "live" /\ line[l] = about[r] /\ onHand[l] = 0
        /\ \A why \in Reason \ {"receive", "unreceive"} : rows[l][why] = 0
    BY <2>1 DEF Emptied, LotsOf, Live
  <2>3. UNCHANGED line
    BY <1>1, <1>4 DEF IntoLot
  <2>4. line' = [line EXCEPT ![l] = about[r]]
    BY <1>0, <2>2, <2>3 DEF TypeOK
  <2>5. [onHand EXCEPT ![l] = IF plan[r].refill # NoLot THEN 0 ELSE @] = onHand
    BY <1>0, <1>4, <2>2 DEF TypeOK
  <2>6. /\ Post({l}, [Zero EXCEPT ![l] = plan[r].count], "receive", onHand, Standing \cup {l})
        /\ status' = [status EXCEPT ![l] = "live"]
    BY <1>1, <2>5 DEF IntoLot
  <2> QED
    BY <2>2, <2>4, <2>6 DEF ReceivedInto
<1>5. CASE plan[r].refill = NoLot
  <2>1. status[l] = "absent" /\ line' = [line EXCEPT ![l] = about[r]]
    BY <1>1, <1>5, StockAssumption DEF IntoLot
  <2>2. line[l] = NoLine /\ \A why \in Reason : rows[l][why] = 0
    BY <1>0, <2>1 DEF NoneOfIt
  <2>3. onHand[l] = 0 /\ \A why \in Reason : moved[l][why] = 0
    BY <1>0, <2>1 DEF Books, NothingYet
  <2>4. Arrivals[l] = 0
    BY <2>3 DEF Arrivals, Reason
  <2>5. [onHand EXCEPT ![l] = IF plan[r].refill # NoLot THEN 0 ELSE @] = onHand
    BY <1>0, <1>5 DEF TypeOK
  <2> QED
    BY <1>1, <2>1, <2>2, <2>3, <2>4, <2>5 DEF IntoLot, ReceivedInto
<1> QED
  BY <1>4, <1>5

\* With one request, what the shelf's screens read is nothing while an order is written.
LEMMA ReadsStill ==
  ASSUME \A r, s \in Requests : r = s,
         ReadsHold, NEW r \in Requests, pc[r] = "idle", UNCHANGED request
  PROVE  ReadsHold'
<1>1. pc'[r] = "idle" /\ picked'[r] = {}
  BY DEF ReadsHold, request
<1>2. \A s \in Requests : s = r
  OBVIOUS
<1> QED
  BY <1>1, <1>2 DEF ReadsHold

LEMMA ReceiptAgrees ==
  ASSUME \A r, s \in Requests : r = s,
         RcvInv, RcvInv', Serial, NEW r \in Requests, CommitReceive(r)
  PROVE  Calm' /\ Books' /\ NoneOfIt' /\ Agree'
<1>0. TypeOK /\ TypeOK' /\ Books /\ NoneOfIt /\ Agree /\ Calm /\ AtHand(r)
  BY DEF RcvInv, ShelfInv, Serial
<1>1. PICK l \in Lots : ReceivedInto(r, l)
  BY SerialReceives
<1>2. /\ step[r] = "saving" /\ about[r] \in Lines /\ plan[r].count \in Nat
      /\ SaveBoth(r, known[r].got + plan[r].count) /\ UNCHANGED request
  BY CommitReceiveInto
<1> DEFINE c == plan[r].count
           delta == [Zero EXCEPT ![l] = c]
           alive == Standing \cup {l}
<1>3. /\ delta \in [Lots -> Int] /\ delta[l] = c
      /\ {l} \in SUBSET Lots /\ alive \in SUBSET Lots /\ "receive" \in Reason
      /\ l \in alive /\ \A m \in Lots : status[m] = "live" => m \in alive
  BY <1>2, OneMoved DEF Standing, Reason, Live
<1>4. Post({l}, delta, "receive", onHand, alive)
  BY <1>1 DEF ReceivedInto
<1>5. /\ status' = [status EXCEPT ![l] = "live"] /\ line' = [line EXCEPT ![l] = about[r]]
      /\ status[l] \in {"live", "absent"} /\ onHand[l] = 0
      /\ line[l] = about[r] \/ (line[l] = NoLine /\ Arrivals[l] = 0)
  BY <1>1 DEF ReceivedInto
<1>6. /\ status'[l] = "live" /\ \A m \in Lots \ {l} : status'[m] = status[m]
      /\ line'[l] = about[r] /\ \A m \in Lots \ {l} : line'[m] = line[m]
  BY <1>0, <1>5 DEF TypeOK
<1>7. NonNegative' /\ DrawnIsKept'
  <2>1. \A m \in {l} : onHand[m] + delta[m] >= 0 /\ status'[m] = "live"
    BY <1>2, <1>3, <1>5, <1>6
  <2>2. \A m \in Lots : status'[m] = "deleted" => status[m] = "deleted"
    BY <1>6
  <2>3. NonNegative /\ DrawnIsKept
    BY <1>0 DEF Calm
  <2> HIDE DEF delta, alive
  <2> QED
    BY <1>0, <1>3, <1>4, <2>1, <2>2, <2>3, CalmPost
<1>8. Books'
  <2>1. \A m \in Lots : status'[m] = "live" => m \in alive /\ status[m] \in {"live", "absent"}
    BY <1>3, <1>5, <1>6
  <2>2. \A m \in Lots : status'[m] = "absent" => status[m] = "absent" /\ m \notin {l}
    BY <1>6
  <2> HIDE DEF delta, alive
  <2> QED
    BY <1>0, <1>3, <1>4, <2>1, <2>2, BooksPost
<1>9. NoneOfIt'
  <2>1. \A m \in Lots \ {l} : rows'[m] = rows[m]
    BY <1>4 DEF Post
  <2> QED
    BY <1>0, <1>6, <2>1 DEF NoneOfIt
<1>10. /\ Arrivals'[l] = Arrivals[l] + c
       /\ \A m \in Lots \ {l} : Arrivals'[m] = Arrivals[m]
  <2>1. \A m \in Lots \ {l} : moved'[m] = moved[m]
    BY <1>4 DEF Post
  <2>2. moved'[l] = [moved[l] EXCEPT !["receive"] = @ + delta[l]]
    BY <1>4 DEF Post
  <2>3. moved[l] \in [Reason -> Int]
    BY <1>0 DEF TypeOK
  <2>4. moved'[l]["receive"] = moved[l]["receive"] + c /\ moved'[l]["unreceive"] = moved[l]["unreceive"]
    BY <1>3, <2>2, <2>3 DEF Reason
  <2>5. moved[l]["receive"] \in Int /\ moved[l]["unreceive"] \in Int
    BY <2>3 DEF Reason
  <2> QED
    BY <1>2, <2>1, <2>4, <2>5 DEF Arrivals
<1>11. ASSUME NEW n \in Lines, n # about[r] PROVE Came(n)' = Came(n)
  <2>1. n # NoLine
    BY StockAssumption
  <2>2. LotsOn(n)' = LotsOn(n) /\ l \notin LotsOn(n) /\ LotsOn(n) \subseteq Lots
    BY <1>5, <1>6, <1>11, <2>1 DEF LotsOn
  <2>3. \A m \in LotsOn(n) : Arrivals'[m] = Arrivals[m]
    BY <1>10, <2>2
  <2> QED
    BY <1>0, <2>2, <2>3, CameStands
<1>12. \A n : n = about[r] => Came(n)' = Came(n) + c
  <2> SUFFICES ASSUME NEW n, n = about[r] PROVE Came(n)' = Came(n) + c
    OBVIOUS
  <2>1. line'[l] = n /\ (line[l] = n \/ Arrivals[l] = 0) /\ c \in Int
    BY <1>2, <1>5, <1>6
  <2>2. \A m \in Lots \ {l} : Arrivals'[m] = Arrivals[m] /\ line'[m] = line[m]
    BY <1>6, <1>10
  <2> HIDE DEF c
  <2> QED
    BY <1>0, <1>10, <2>1, <2>2, OneArrives
<1>13. Agree'
  <2>0. known[r] = RowOf(about[r]) /\ received \in [Lines -> Int]
    BY <1>0, <1>2 DEF AtHand, OnALine, RcvInv, OrderInv, ClerkTypes
  <2>1. /\ received' = [received EXCEPT ![about[r]] = received[about[r]] + c]
        /\ received \in [Lines -> Int]
    BY <1>2, <2>0, WhatIsSaved DEF RowOf
  <2> SUFFICES ASSUME NEW n \in Lines PROVE received'[n] = Came(n)'
    BY DEF Agree
  <2>2. received[n] = Came(n)
    BY <1>0 DEF Agree
  <2>3. CASE n = about[r]
    <3>1. Came(n)' = Came(n) + c /\ received'[n] = received[n] + c
      BY <1>2, <1>12, <2>1, <2>3
    <3> QED
      BY <2>2, <3>1
  <2>4. CASE n # about[r]
    BY <1>11, <2>1, <2>2, <2>4
  <2> QED
    BY <2>3, <2>4
<1>14. ReadsHold'
  <2>1. pc[r] = "idle" /\ ReadsHold
    BY <1>0, <1>2 DEF AtHand, Calm
  <2> QED
    BY <1>2, <2>1, ReadsStill
<1> QED
  BY <1>7, <1>8, <1>9, <1>13, <1>14 DEF Calm

\* What a reversal does to the lots of its line, when nothing came between.
LEMMA ReversalAgrees ==
  ASSUME \A r, s \in Requests : r = s,
         RcvInv, RcvInv', Serial, NEW r \in Requests, CommitUnreceive(r)
  PROVE  Calm' /\ Books' /\ NoneOfIt' /\ Agree'
<1>0. TypeOK /\ TypeOK' /\ ShelfInv /\ Books /\ NoneOfIt /\ Agree /\ Calm /\ AtHand(r)
  BY DEF RcvInv, ShelfInv, Serial
<1> DEFINE delta == plan[r].delta
           c == plan[r].count
           S == {l \in Lots : delta[l] # 0}
           n == about[r]
<1>1. /\ S \in SUBSET Lots /\ delta \in [Lots -> Int] /\ "unreceive" \in Reason
      /\ Standing \in SUBSET Lots
      /\ Post(S, delta, "unreceive", onHand, Standing)
      /\ step[r] = "saving" /\ plan[r].why = "unreceive" /\ n \in Lines /\ c \in Nat
      /\ SaveBoth(r, known[r].got - c) /\ UNCHANGED <<lots, request>>
  BY CommitUnreceivePosts
<1>2. /\ \A l \in Lots : delta[l] # 0 => l \in LotsOf(n) /\ onHand[l] + delta[l] >= 0
      /\ SumFunctionOnSet(delta, Lots) = 0 - c
  BY <1>0, <1>1 DEF AtHand, Decided, PlanHolds
<1>3. /\ \A l \in S : l \in Lots /\ status[l] = "live" /\ line[l] = n /\ onHand[l] + delta[l] >= 0
      /\ \A l \in Lots \ S : delta[l] = 0
  BY <1>2 DEF LotsOf, Live
<1>4. UNCHANGED <<status, line, from>>
  BY <1>1 DEF lots
<1>5. ASSUME NEW m \in Lots PROVE Arrivals'[m] = Arrivals[m] + delta[m]
  <2>1. moved[m] \in [Reason -> Int] /\ delta[m] \in Int
    BY <1>0, <1>1 DEF TypeOK
  <2>2. moved[m]["receive"] \in Int /\ moved[m]["unreceive"] \in Int
    BY <2>1 DEF Reason
  <2>3. CASE m \in S
    <3>1. moved'[m] = [moved[m] EXCEPT !["unreceive"] = @ + delta[m]]
      BY <1>1, <2>3 DEF Post
    <3>2. /\ moved'[m]["receive"] = moved[m]["receive"]
          /\ moved'[m]["unreceive"] = moved[m]["unreceive"] + delta[m]
      BY <2>1, <3>1 DEF Reason
    <3> QED
      BY <2>1, <2>2, <3>2 DEF Arrivals
  <2>4. CASE m \notin S
    <3>1. moved'[m] = moved[m] /\ delta[m] = 0
      BY <1>1, <1>3, <2>4 DEF Post
    <3> QED
      BY <2>2, <3>1 DEF Arrivals
  <2> QED
    BY <2>3, <2>4
<1> HIDE DEF S, delta, c, n
<1>6. NonNegative' /\ DrawnIsKept'
  <2>1. \A m \in S : onHand[m] + delta[m] >= 0 /\ status'[m] = "live"
    BY <1>3, <1>4
  <2>2. NonNegative /\ DrawnIsKept
    BY <1>0 DEF Calm
  <2> QED
    BY <1>0, <1>1, <1>4, <2>1, <2>2, CalmPost
<1>7. Books'
  <2>1. \A m \in S : status[m] # "absent"
    BY <1>3
  <2> QED
    BY <1>0, <1>1, <1>4, <2>1, BooksPostStanding
<1>8. NoneOfIt'
  <2>1. \A m \in Lots \ S : rows'[m] = rows[m]
    BY <1>1 DEF Post
  <2>2. \A m \in Lots : status'[m] = "absent" => m \notin S
    BY <1>3, <1>4
  <2> QED
    BY <1>0, <1>4, <2>1, <2>2 DEF NoneOfIt
<1>9. ASSUME NEW k \in Lines, k # n PROVE Came(k)' = Came(k)
  <2>1. LotsOn(k)' = LotsOn(k) /\ LotsOn(k) \subseteq Lots /\ \A m \in LotsOn(k) : m \notin S
    BY <1>3, <1>4, <1>9 DEF LotsOn
  <2>2. \A m \in LotsOn(k) : Arrivals[m] \in Int /\ delta[m] = 0
    BY <1>0, <1>3, <2>1, ArrivalsAreInt
  <2>3. \A m \in LotsOn(k) : Arrivals'[m] = Arrivals[m]
    BY <1>5, <2>1, <2>2
  <2> QED
    BY <1>0, <2>1, <2>3, CameStands
<1>10. \A k : k = n => Came(k)' = Came(k) - c
  <2> SUFFICES ASSUME NEW k, k = n PROVE Came(k)' = Came(k) - c
    OBVIOUS
  <2> DEFINE T == {m \in Lots : line[m] = k}
             f == Arrivals
             g == Arrivals'
  <2>1. Came(k) = SumFunctionOnSet(f, T) /\ Came(k)' = SumFunctionOnSet(g, T)
    BY <1>4 DEF Came, LotsOn
  <2>2. IsFiniteSet(Lots) /\ IsFiniteSet(T) /\ IsFiniteSet(Lots \ T) /\ T \in SUBSET Lots
    BY StockAssumption, FS_Subset
  <2>3. \A m \in T : f[m] \in Int /\ delta[m] \in Int /\ g[m] = f[m] + delta[m]
    BY <1>0, <1>1, <1>5, ArrivalsAreInt
  <2>4. \A m \in Lots \ T : delta[m] = 0
    BY <1>3
  <2>5. SumFunctionOnSet(delta, Lots) = 0 - c /\ \A m \in Lots : delta[m] \in Int
    BY <1>1, <1>2 DEF delta, c
  <2> HIDE DEF T, f, g
  <2>6. SumFunctionOnSet(g, T) = SumFunctionOnSet(f, T) + SumFunctionOnSet(delta, T)
    BY <2>2, <2>3, SumAdds
  <2>7. SumFunctionOnSet(delta, Lots) =
          SumFunctionOnSet(delta, T) + SumFunctionOnSet(delta, Lots \ T)
    BY <2>2, <2>5, SumSplits
  <2>8. SumFunctionOnSet(delta, Lots \ T) = 0
    BY <2>2, <2>4, SumOfZeros
  <2>9. SumFunctionOnSet(delta, T) \in Int /\ SumFunctionOnSet(f, T) \in Int
    BY <2>2, <2>3, SumInt
  <2>10. SumFunctionOnSet(delta, T) = 0 - c /\ c \in Nat
    BY <1>1, <2>5, <2>7, <2>8, <2>9
  <2> QED
    BY <2>1, <2>6, <2>9, <2>10
<1>11. Agree'
  <2>0. known[r] = RowOf(about[r]) /\ received \in [Lines -> Int]
    BY <1>0, <1>1 DEF AtHand, OnALine, RcvInv, OrderInv, ClerkTypes
  <2>1. /\ received' = [received EXCEPT ![n] = received[n] - c]
        /\ received \in [Lines -> Int]
    BY <1>1, <2>0, WhatIsSaved DEF RowOf, n
  <2> SUFFICES ASSUME NEW k \in Lines PROVE received'[k] = Came(k)'
    BY DEF Agree
  <2>2. received[k] = Came(k)
    BY <1>0 DEF Agree
  <2>3. CASE k = n
    <3>1. Came(k)' = Came(k) - c /\ received'[k] = received[k] - c
      BY <1>1, <1>10, <2>1, <2>3
    <3> QED
      BY <2>2, <3>1
  <2>4. CASE k # n
    BY <1>9, <2>1, <2>2, <2>4
  <2> QED
    BY <2>3, <2>4
<1>12. ReadsHold'
  <2>1. pc[r] = "idle" /\ ReadsHold
    BY <1>0, <1>1 DEF AtHand, Calm
  <2> QED
    BY <1>1, <2>1, ReadsStill
<1> QED
  BY <1>6, <1>7, <1>8, <1>11, <1>12 DEF Calm

\* What the shelf's own steps keep is kept when nothing of the shelf changes.
LEMMA SameShelf ==
  ASSUME RcvInv, RcvInv', Serial, UNCHANGED stockVars, UNCHANGED received
  PROVE  Calm' /\ Books' /\ NoneOfIt' /\ Agree'
<1>0. Calm /\ Books /\ NoneOfIt /\ Agree
  BY DEF Serial
<1>1. UNCHANGED <<status, line, onHand, moved, rows, drawn, pc, aim, seen, picked>>
  BY DEF stockVars, lots, ledger, request
<1>2. Calm'
  BY <1>0, <1>1 DEF Calm, NonNegative, DrawnIsKept, ReadsHold, Live
<1>3. Books'
  BY <1>0, <1>1 DEF Books, Projection, NothingYet, Live, Balance
<1>4. Undisturbed
  BY <1>1 DEF Undisturbed
<1> QED
  BY <1>0, <1>2, <1>3, <1>4, ShelfAgrees

\* A line that is corrected keeps what came in on it, and one that is added starts with
\* nothing, as it stood.
LEMMA CorrectedStands ==
  ASSUME RcvInv, NEW r \in Requests, AtHand(r), LineCorrect(r)
  PROVE  UNCHANGED received
<1>1. PICK q \in Quantities, p \in LineParts :
        SaveLine(about[r], [known[r] EXCEPT !.wanted = q, !.item = p])
  BY DEF LineCorrect
<1>2. known[r] = RowOf(about[r]) /\ received \in [Lines -> Int]
  BY DEF LineCorrect, AtHand, OnALine, RcvInv, OrderInv, ClerkTypes
<1>3. [known[r] EXCEPT !.wanted = q, !.item = p].got = received[about[r]]
  BY <1>2 DEF RowOf
<1>4. received' = [received EXCEPT ![about[r]] = received[about[r]]]
  BY <1>1, <1>3 DEF SaveLine
<1> QED
  BY <1>2, <1>4

LEMMA AddedStands ==
  ASSUME RcvInv, NEW r \in Requests, NEW n \in Lines, LineAdd(r, n)
  PROVE  UNCHANGED received
<1>1. received[n] = 0 /\ received \in [Lines -> Int]
  BY DEF LineAdd, RcvInv, NothingOnNone, OrderInv, ClerkTypes
<1>2. received' = [received EXCEPT ![n] = 0]
  BY DEF LineAdd, SaveLine
<1> QED
  BY <1>1, <1>2

LEMMA SerialStep ==
  ASSUME \A r, s \in Requests : r = s
  PROVE  RcvInv /\ RcvInv' /\ Serial /\ [RcvNext]_allVars => Serial'
<1> SUFFICES ASSUME RcvInv, RcvInv', Serial, [RcvNext]_allVars PROVE Serial'
  OBVIOUS
<1>0. /\ Calm /\ Books /\ NoneOfIt /\ Agree /\ ShelfInv /\ OrderInv
      /\ \A r \in Requests : AtHand(r)
  BY DEF Serial, RcvInv
<1>1. \A r \in Requests : AtHand(r)'
  BY <1>0, AtHandStep
<1>2. CASE UNCHANGED <<stockVars, received>>
  BY <1>1, <1>2, SameShelf DEF Serial
<1>3. ASSUME NEW r \in Requests, Clerk(r) PROVE Serial'
  <2>1. CASE CommitReceive(r)
    BY <1>1, <2>1, ReceiptAgrees DEF Serial
  <2>2. CASE CommitUnreceive(r)
    BY <1>1, <2>2, ReversalAgrees DEF Serial
  <2>3. CASE LineCorrect(r)
    <3>1. step[r] = "correcting" /\ UNCHANGED stockVars
      BY <2>3 DEF LineCorrect
    <3>2. received' = received
      BY <1>0, <2>3, CorrectedStands
    <3> QED
      BY <1>2, <3>1, <3>2
  <2>4. CASE \E n \in Lines : LineAdd(r, n)
    <3>1. UNCHANGED stockVars /\ received' = received
      BY <2>4, AddedStands DEF LineAdd
    <3> QED
      BY <1>2, <3>1
  <2>5. CASE ~(\/ CommitReceive(r) \/ CommitUnreceive(r) \/ LineCorrect(r)
              \/ \E n \in Lines : LineAdd(r, n))
    BY <1>2, <1>3, <2>5
       DEF Clerk, LineView, ReceiveDecide, UnreceiveDecide, Decide, Settle, LineRemove,
           OrderReread, OrderSave, OrderView, OrderEdit, Turn, purchase
  <2> QED
    BY <2>1, <2>2, <2>3, <2>4, <2>5
<1>4. ASSUME NEW r \in Requests, Screen(r), UNCHANGED <<purchase, clerk>> PROVE Serial'
  <2>1. StockNext
    BY <1>4 DEF StockNext
  <2>2. Undisturbed
    BY <1>0, <2>1, ShelfUndisturbed
  <2>3. Calm'
    BY <1>0, <2>1, CalmStep
  <2>4. EditsInPlace
    BY <1>0 DEF Calm, ReadsHold, EditsInPlace
  <2>5. Books'
    BY <1>0, <2>1, <2>4, BooksStep
  <2>6. NoneOfIt' /\ Agree'
    BY <1>0, <1>4, <2>2, ShelfAgrees DEF purchase
  <2> QED
    BY <1>1, <2>3, <2>5, <2>6 DEF Serial
<1>5. CASE UNCHANGED allVars
  BY <1>2, <1>5 DEF allVars, purchase
<1> QED
  BY <1>3, <1>4, <1>5 DEF RcvNext

LEMMA SerialHolds ==
  ASSUME \A r, s \in Requests : r = s
  PROVE  RcvSpec => [](RcvInv /\ Serial)
<1>1. RcvInv /\ Serial /\ [RcvNext]_allVars => (RcvInv /\ Serial)'
  BY RcvStepTypes, SerialStep
<1> QED
  BY <1>1, RcvInitTypes, SerialInit, PTL DEF RcvSpec

\* With one request at a time, whatever is received, taken back, counted, used, edited
\* and boxed out, what a line says has arrived is what its receipts, less the reversals,
\* put on the shelf.
THEOREM SerialLineMatchesShelf ==
  ASSUME \A r, s \in Requests : r = s
  PROVE  RcvSpec => []LineMatchesShelf
<1>1. RcvSpec => [](RcvInv /\ Serial)
  BY SerialHolds
<1>2. Serial => LineMatchesShelf
  BY AgreeIsMatches DEF Serial
<1> QED
  BY <1>1, <1>2, PTL

\* With one request at a time the quantity of a lot is the ledger's sum, receipts into
\* emptied lots and reversals included.
THEOREM ReceivingProjection ==
  ASSUME \A r, s \in Requests : r = s
  PROVE  RcvSpec => []Projection
<1>1. RcvSpec => [](RcvInv /\ Serial)
  BY SerialHolds
<1>2. Serial => Projection
  BY DEF Serial, Books
<1> QED
  BY <1>1, <1>2, PTL

\* With one request at a time a reversal takes no more than the line's lots hold, so no
\* lot holds less than nothing.
THEOREM ReceivingNonNegative ==
  ASSUME \A r, s \in Requests : r = s
  PROVE  RcvSpec => []NonNegative
<1>1. RcvSpec => [](RcvInv /\ Serial)
  BY SerialHolds
<1>2. Serial => NonNegative
  BY DEF Serial, Calm
<1> QED
  BY <1>1, <1>2, PTL

\* With one request at a time no lot that anything was used or taken back from is in the
\* trash.
THEOREM ReceivingDrawnIsKept ==
  ASSUME \A r, s \in Requests : r = s
  PROVE  RcvSpec => []DrawnIsKept
<1>1. RcvSpec => [](RcvInv /\ Serial)
  BY SerialHolds
<1>2. Serial => DrawnIsKept
  BY DEF Serial, Calm
<1> QED
  BY <1>1, <1>2, PTL

\* A receipt that goes into a lot goes into one that nothing else was recorded of.
LEMMA NoHistoryStep ==
  ASSUME RcvInv, Serial, [RcvNext]_allVars,
         NEW l \in Lots, rows'[l]["receive"] > rows[l]["receive"]
  PROVE  \A why \in Reason \ {"receive", "unreceive"} : rows[l][why] = 0
<1>0. TypeOK /\ ShelfInv
  BY DEF RcvInv, ShelfInv
<1>1. rows[l] \in [Reason -> Nat] /\ rows[l]["receive"] \in Nat
  BY <1>0 DEF TypeOK, Reason
<1>2. CASE rows'[l]["receive"] = rows[l]["receive"]
  BY <1>1, <1>2
<1>3. ASSUME NEW r \in Requests, Clerk(r)
      PROVE  \A why \in Reason \ {"receive", "unreceive"} : rows[l][why] = 0
  <2>1. CASE CommitReceive(r)
    <3>1. PICK m \in Lots : ReceivedInto(r, m)
      BY <2>1, SerialReceives
    <3>2. CASE m = l
      BY <3>1, <3>2 DEF ReceivedInto
    <3>3. CASE m # l
      <4>1. rows'[l] = rows[l]
        BY <3>1, <3>3 DEF ReceivedInto, Post
      <4> QED
        BY <1>2, <4>1
    <3> QED
      BY <3>2, <3>3
  <2>2. CASE CommitUnreceive(r)
    <3>1. rows'[l] = rows[l] \/ rows'[l] = [rows[l] EXCEPT !["unreceive"] = @ + 1]
      BY <2>2 DEF CommitUnreceive, Post
    <3>2. rows'[l]["receive"] = rows[l]["receive"]
      BY <1>1, <3>1 DEF Reason
    <3> QED
      BY <1>2, <3>2
  <2>3. CASE ~(CommitReceive(r) \/ CommitUnreceive(r))
    <3>1. UNCHANGED stockVars
      BY <1>3, <2>3
         DEF Clerk, LineView, LineAdd, ReceiveDecide, UnreceiveDecide, Decide, Settle,
             LineCorrect, LineRemove, OrderReread, OrderSave, OrderView, OrderEdit, Turn
    <3> QED
      BY <1>2, <3>1 DEF stockVars, ledger
  <2> QED
    BY <2>1, <2>2, <2>3
<1>4. ASSUME NEW r \in Requests, Screen(r) PROVE rows'[l]["receive"] = rows[l]["receive"]
  <2>1. StockNext
    BY <1>4 DEF StockNext
  <2> QED
    BY <1>0, <2>1, ShelfUndisturbed DEF Undisturbed
<1>5. CASE UNCHANGED allVars
  BY <1>2, <1>5 DEF allVars, stockVars, ledger
<1> QED
  BY <1>2, <1>3, <1>4, <1>5 DEF RcvNext

\* With one request at a time, no receipt goes into a lot that something was used,
\* counted or boxed out of, between finding it empty and refilling it included.
THEOREM SerialRefillsNoHistory ==
  ASSUME \A r, s \in Requests : r = s
  PROVE  RcvSpec => RefillsNoHistory
<1> DEFINE NoHistory ==
             \A l \in Lots : rows'[l]["receive"] > rows[l]["receive"]
               => \A why \in Reason \ {"receive", "unreceive"} : rows[l][why] = 0
<1>1. RcvInv /\ Serial /\ [RcvNext]_allVars => NoHistory
  BY NoHistoryStep
<1>2. RcvInv /\ Serial /\ [RcvNext]_allVars => [NoHistory]_allVars
  BY <1>1
<1>3. RcvSpec => [](RcvInv /\ Serial)
  BY SerialHolds
<1> QED
  BY <1>2, <1>3, PTL DEF RcvSpec, RefillsNoHistory

\* What recompute_status() leaves of an order that was not closed by hand is what the
\* lines say, dated when all of it came and undated when none did.
Says(p, have, want, open) ==
  /\ p.order = StatusOf(have, want, open)
  /\ p.order = "received" => p.arrived
  /\ p.order = "ordered" => ~p.arrived

\* An order that was closed by hand stays as it is.
LEMMA RecomputedSays ==
  ASSUME NEW p, NEW have, NEW want, NEW open, open # {}
  PROVE  IF p.order \in ByHand THEN Recomputed(p, have, want, open) = p
         ELSE /\ Says(Recomputed(p, have, want, open), have, want, open)
              /\ Recomputed(p, have, want, open).order \notin ByHand
<1> DEFINE s == StatusOf(have, want, open)
<1>1. s \in {"received", "partial", "ordered"}
  BY DEF StatusOf
<1> HIDE DEF s
<1>2. CASE p.order \in ByHand
  BY <1>2 DEF Recomputed, LeftAlone
<1>3. CASE p.order \notin ByHand
  <2>1. Recomputed(p, have, want, open) =
          [order |-> s,
           arrived |-> CASE s = "received" -> TRUE [] s = "partial" -> p.arrived [] OTHER -> FALSE]
    BY <1>3 DEF Recomputed, LeftAlone, s
  <2>2. s = "received" => Recomputed(p, have, want, open).arrived = TRUE
    BY <2>1
  <2>3. s = "ordered" => Recomputed(p, have, want, open).arrived = FALSE
    BY <2>1
  <2>4. Recomputed(p, have, want, open).order = s
    BY <2>1
  <2> QED
    BY <1>1, <1>3, <2>2, <2>3, <2>4 DEF Says, ByHand, s
<1> QED
  BY <1>2, <1>3

\* The order as it is saved says what the lines say.
LEMMA SavedSays ==
  ASSUME NEW r, NEW have, NEW want, NEW open, SaveOrder(r), order \notin ByHand, open # {},
         paper[r] = Recomputed(Filed, have, want, open)
  PROVE  /\ order' = StatusOf(have, want, open)
         /\ order' = "received" => arrived'
         /\ order' = "ordered" => ~arrived'
<1>1. Filed.order = order
  BY DEF Filed
<1>2. Says(paper[r], have, want, open) /\ paper[r].order \notin ByHand
  BY <1>1, RecomputedSays
<1>3. order' = paper[r].order /\ arrived' = paper[r].arrived
  BY <1>2 DEF SaveOrder
<1> QED
  BY <1>2, <1>3 DEF Says

\* An order closed by hand is not saved over.
LEMMA ClosedStays ==
  ASSUME NEW r, NEW have, NEW want, NEW open, SaveOrder(r), order \in ByHand, open # {},
         paper[r] = Recomputed(Filed, have, want, open)
  PROVE  order' = order
<1>1. Filed.order = order
  BY DEF Filed
<1>2. paper[r] = Filed
  BY <1>1, RecomputedSays
<1> QED
  BY <1>1, <1>2 DEF SaveOrder

LEMMA FollowsStep ==
  ASSUME \A r, s \in Requests : r = s, RcvInv, Serial, [RcvNext]_allVars,
         received' # received \/ (order' # order /\ ~FiledByHand), order' \notin ByHand
  PROVE  /\ order' = StatusOf(received, ordered, LiveLines)'
         /\ order' = "received" => arrived'
         /\ order' = "ordered" => ~arrived'
<1>0. OrderInv /\ OrderTyped /\ LinesTyped /\ \A r \in Requests : AtHand(r)
  BY DEF RcvInv, Serial
<1>1. PICK r \in Requests : Clerk(r)
  BY DEF RcvNext, allVars, purchase
<1>2. CASE CommitReceive(r) \/ CommitUnreceive(r)
  <2>1. /\ step[r] = "saving" /\ plan[r].why \in {"receive", "unreceive"}
        /\ received' = Told(r) /\ lineStatus' = [lineStatus EXCEPT ![about[r]] = "live"]
        /\ ordered' = [ordered EXCEPT ![about[r]] = known[r].wanted]
        /\ SaveOrder(r)
    BY <1>2, WhatIsSaved DEF CommitReceive, CommitUnreceive, Told
  <2>2. /\ LiveLine(about[r]) /\ about[r] \in Lines /\ known[r] = RowOf(about[r])
        /\ paper[r] = Recomputed(Filed, Told(r), ordered, LiveLines)
    BY <1>0, <2>1 DEF AtHand, OnALine, OrderInv, WithinLine
  <2>3. LiveLines' = LiveLines
    <3>1. lineStatus' = lineStatus
      BY <1>0, <2>1, <2>2 DEF LinesTyped, LiveLine
    <3> QED
      BY <3>1 DEF LiveLines, LiveLine
  <2>4. ordered' = ordered
    <3>1. known[r].wanted = ordered[about[r]] /\ ordered \in [Lines -> Int]
      BY <1>0, <2>2 DEF RowOf, OrderInv, ClerkTypes
    <3> QED
      BY <2>1, <3>1
  <2>5. LiveLines # {}
    BY <2>2 DEF LiveLines
  <2>6. order \notin ByHand
    BY <2>1, <2>2, <2>5, ClosedStays
  <2> QED
    BY <2>1, <2>2, <2>3, <2>4, <2>5, <2>6, SavedSays
<1>3. CASE LineCorrect(r)
  <2>1. UNCHANGED received
    BY <1>0, <1>3, CorrectedStands
  <2> QED
    BY <1>3, <2>1 DEF LineCorrect
<1>4. CASE \E n \in Lines : LineAdd(r, n)
  <2>1. UNCHANGED received
    BY <1>4, AddedStands
  <2> QED
    BY <1>4, <2>1 DEF LineAdd
<1>5. CASE OrderSave(r)
  <2>1. /\ step[r] = "order reread" /\ SaveOrder(r)
        /\ UNCHANGED <<lineStatus, received, ordered>>
    BY <1>5 DEF OrderSave
  <2>2. /\ ~LeftAlone(Filed, LiveLines)
        /\ paper[r] = Recomputed(Filed, received, ordered, LiveLines)
    BY <1>0, <2>1 DEF AtHand
  <2>3. LiveLines' = LiveLines
    BY <2>1 DEF LiveLines, LiveLine
  <2>4. LiveLines # {} /\ order \notin ByHand
    BY <2>2 DEF LeftAlone, Filed
  <2> QED
    BY <2>1, <2>2, <2>3, <2>4, SavedSays
<1>6. CASE OrderEdit(r)
  <2>1. /\ step[r] = "filing order" /\ received' = received
        /\ step' = [step EXCEPT ![r] = "idle"]
    BY <1>6 DEF OrderEdit, Finish
  <2>2. step'[r] = "idle"
    BY <1>0, <2>1 DEF OrderInv, ClerkTypes
  <2>3. FiledByHand
    BY <2>1, <2>2 DEF FiledByHand
  <2> QED
    BY <2>1, <2>3
<1>7. CASE UNCHANGED <<order, received>>
  BY <1>7
<1> QED
  BY <1>1, <1>2, <1>3, <1>4, <1>5, <1>6, <1>7
     DEF Clerk, LineView, ReceiveDecide, UnreceiveDecide, Decide, Settle, LineRemove,
         OrderReread, OrderView, Turn, purchase

\* With one request at a time, whenever something is received or taken back, and whenever
\* the order says something new that nobody chose, it says what its lines say, unless it
\* was closed by hand, and has a date when all of it came and none when nothing did.
\* That holds whatever status was filed by hand before, and whatever its lines were
\* corrected to.
THEOREM SerialStatusFollowsLines ==
  ASSUME \A r, s \in Requests : r = s
  PROVE  RcvSpec => StatusFollowsLines
<1> DEFINE Follows ==
             (received' # received \/ (order' # order /\ ~FiledByHand)) /\ order' \notin ByHand
               => /\ order' = StatusOf(received, ordered, LiveLines)'
                  /\ order' = "received" => arrived'
                  /\ order' = "ordered" => ~arrived'
<1>1. RcvInv /\ Serial /\ [RcvNext]_allVars => [Follows]_allVars
  BY FollowsStep
<1>2. RcvSpec => [](RcvInv /\ Serial)
  BY SerialHolds
<1> QED
  BY <1>1, <1>2, PTL DEF RcvSpec, StatusFollowsLines

-----------------------------------------------------------------------------
(* Boxes beside the order, with any number of requests at once.            *)

\* A reversal that was decided on takes from lots that exist.
TakesStand ==
  \A r \in Requests : \A l \in Lots :
    plan[r].delta[l] # 0 => plan[r].delta[l] < 0 /\ status[l] # "absent"

\* Nothing is decided on to begin with.
LEMMA TakesInit == RcvInit => TakesStand
BY DEF RcvInit, TakesStand, NoPlan, Zero

\* No step takes a lot away.
LEMMA LotsRemain ==
  ASSUME RcvInv, [RcvNext]_allVars
  PROVE  \A l \in Lots : status[l] # "absent" => status'[l] # "absent"
<1>1. ASSUME UNCHANGED stockVars PROVE UNCHANGED status
  BY <1>1 DEF stockVars, lots
<1>2. ASSUME NEW r \in Requests, Clerk(r), ~CommitReceive(r), ~CommitUnreceive(r)
      PROVE  UNCHANGED stockVars
  BY <1>2 DEF Clerk, LineView, LineAdd, ReceiveDecide, UnreceiveDecide, Decide, Settle,
              LineCorrect, LineRemove, OrderReread, OrderSave, OrderView, OrderEdit, Turn
<1>3. ASSUME NEW r \in Requests, Screen(r)
      PROVE  \A l \in Lots : status[l] # "absent" => status'[l] # "absent"
  <2>1. StockNext
    BY <1>3 DEF StockNext
  <2> QED
    BY <2>1, ShelfUndisturbed DEF RcvInv, Undisturbed
<1> QED
  BY <1>1, <1>2, <1>3, CommitReceiveShelf, CommitUnreceiveShelf DEF RcvNext, allVars

\* A reversal is decided on from the quantities of lots on the shelf.
LEMMA TakesStep == RcvInv /\ TakesStand /\ [RcvNext]_allVars => TakesStand'
<1> SUFFICES ASSUME RcvInv, TakesStand, [RcvNext]_allVars PROVE TakesStand'
  OBVIOUS
<1>1. plan \in [Requests -> Plans] /\ OrderInv
  BY DEF RcvInv, OrderInv, ClerkTypes
<1>2. ASSUME UNCHANGED plan PROVE TakesStand'
  BY <1>2, LotsRemain DEF TakesStand
<1>3. ASSUME NEW r \in Requests, NEW what, plan' = [plan EXCEPT ![r] = what],
             \A l \in Lots : what.delta[l] # 0 => what.delta[l] < 0 /\ status[l] # "absent"
      PROVE  TakesStand'
  <2>1. \A s \in Requests : plan'[s] = IF s = r THEN what ELSE plan[s]
    BY <1>1, <1>3
  <2> QED
    BY <1>3, <2>1, LotsRemain DEF TakesStand
<1>4. ASSUME NEW r \in Requests, Finish(r) PROVE TakesStand'
  <2>1. plan' = [plan EXCEPT ![r] = NoPlan] /\ \A l \in Lots : NoPlan.delta[l] = 0
    BY <1>4 DEF Finish, NoPlan, Zero
  <2> QED
    BY <1>3, <2>1
<1>5. ASSUME NEW r \in Requests, ReceiveDecide(r) PROVE TakesStand'
  <2>1. PICK n \in Units :
          LET empty == Emptied(about[r])
              refill == IF empty = {} THEN NoLot ELSE Oldest(empty)
          IN  Decide(r, [refill |-> refill, delta |-> Zero, why |-> "receive", count |-> n])
    BY <1>5 DEF ReceiveDecide
  <2> DEFINE refill == IF Emptied(about[r]) = {} THEN NoLot ELSE Oldest(Emptied(about[r]))
             what == [refill |-> refill, delta |-> Zero, why |-> "receive", count |-> n]
  <2>2. plan' = [plan EXCEPT ![r] = what]
    BY <2>1 DEF Decide
  <2>3. \A l \in Lots : what.delta[l] = 0
    BY DEF Zero
  <2> HIDE DEF what
  <2> QED
    BY <1>3, <2>2, <2>3
<1>6. ASSUME NEW r \in Requests, UnreceiveDecide(r) PROVE TakesStand'
  <2>1. PICK n \in Units :
           \E take \in TakenBack(about[r], n) :
             Decide(r, [refill |-> NoLot, delta |-> [l \in Lots |-> 0 - take[l]],
                        why |-> "unreceive", count |-> n])
    BY <1>6 DEF UnreceiveDecide
  <2>2. PICK take \in TakenBack(about[r], n) :
             Decide(r, [refill |-> NoLot, delta |-> [l \in Lots |-> 0 - take[l]],
                        why |-> "unreceive", count |-> n])
    BY <2>1
  <2> DEFINE what == [refill |-> NoLot, delta |-> [l \in Lots |-> 0 - take[l]],
                      why |-> "unreceive", count |-> n]
  <2>3. plan' = [plan EXCEPT ![r] = what]
    BY <2>2 DEF Decide
  <2>4. \A l \in Lots : what.delta[l] = 0 - take[l]
    OBVIOUS
  <2>5. n \in Nat
    BY StockAssumption
  <2>6. \A l \in Lots : take[l] \in 0..n /\ (take[l] > 0 => status[l] # "absent")
    BY DEF TakenBack, LotsOf, Live
  <2>7. \A l \in Lots : what.delta[l] # 0 => what.delta[l] < 0 /\ status[l] # "absent"
    BY <2>4, <2>5, <2>6
  <2> HIDE DEF what
  <2> QED
    BY <1>3, <2>3, <2>7
<1>7. ASSUME NEW r \in Requests, Clerk(r) PROVE TakesStand'
  <2>1. \/ UNCHANGED plan \/ Finish(r) \/ ReceiveDecide(r) \/ UnreceiveDecide(r)
    BY <1>7 DEF Clerk, LineView, LineAdd, Settle, CommitReceive, CommitUnreceive, LineCorrect,
                LineRemove, OrderReread, OrderSave, OrderView, OrderEdit, Turn, clerk
  <2> QED
    BY <1>2, <1>4, <1>5, <1>6, <1>7, <2>1
<1> QED
  BY <1>2, <1>7 DEF RcvNext, clerk, allVars

\* Receipts and reversals leave boxes alone.
LEMMA CommitReceiveQuiet ==
  ASSUME RcvInv, KitInv, NEW r \in Requests, CommitReceive(r)
  PROVE  KitsQuiet /\ NoneClosed /\ RequestsQuiet
<1>0. TypeOK /\ Boxed
  BY DEF RcvInv, ShelfInv, KitInv
<1>1. PICK l \in Lots : IntoLot(r, l)
  BY CommitReceiveInto
<1>2. UNCHANGED request
  BY CommitReceiveInto
<1> DEFINE held == [onHand EXCEPT ![l] = IF plan[r].refill # NoLot THEN 0 ELSE @]
           delta == [Zero EXCEPT ![l] = plan[r].count]
           S == {l}
<1>3. Post(S, delta, "receive", held, Standing \cup S)
  BY <1>1 DEF IntoLot
<1>4. /\ S \in SUBSET Lots /\ "receive" \in Reason \ {"opened", "closed"}
      /\ \A m \in Lots \ S : held[m] = onHand[m]
  BY <1>0 DEF TypeOK, Reason
<1>5. /\ from' = from
      /\ \A m \in Lots : status'[m] = IF m = l THEN "live" ELSE status[m]
  BY <1>0, <1>1 DEF IntoLot, TypeOK
<1>6. LotsStay
  <2>1. \A m \in Lots : status[m] # "absent" => part'[m] = part[m]
    BY <1>0, <1>1 DEF IntoLot, TypeOK
  <2> QED
    BY <1>5, <2>1 DEF LotsStay
<1>7. \A m \in Lots : from[m] # NoLot => status'[m] = "live"
  BY <1>0, <1>5 DEF Boxed, CameOut
<1>8. \A m \in Lots : status'[m] = "absent" => status[m] = "absent"
  BY <1>5
<1>9. \A m \in S : status'[m] # "absent"
  BY <1>5
<1> HIDE DEF held, delta, S
<1>10. KitsQuiet /\ NoneClosed
  BY <1>0, <1>3, <1>4, <1>5, <1>6, <1>7, <1>8, <1>9, QuietPost
<1> QED
  BY <1>2, <1>10 DEF RequestsQuiet, request

LEMMA CommitUnreceiveQuiet ==
  ASSUME RcvInv, KitInv, TakesStand, NEW r \in Requests, CommitUnreceive(r)
  PROVE  KitsQuiet /\ NoneClosed /\ RequestsQuiet
<1>0. TypeOK /\ Boxed
  BY DEF RcvInv, ShelfInv, KitInv
<1>1. UNCHANGED <<status, part, from>> /\ UNCHANGED request
  BY CommitUnreceivePosts DEF lots
<1> DEFINE S == {l \in Lots : plan[r].delta[l] # 0}
<1>2. Post(S, plan[r].delta, "unreceive", onHand, Standing) /\ S \in SUBSET Lots
  BY CommitUnreceivePosts
<1>3. \A l \in S : status'[l] # "absent"
  BY <1>1 DEF TakesStand
<1>4. LotsStay /\ "unreceive" \in Reason \ {"opened", "closed"}
  BY <1>1 DEF LotsStay, Reason
<1>5. \A l \in Lots : from[l] # NoLot => status'[l] = "live"
  BY <1>0, <1>1 DEF Boxed, CameOut
<1> HIDE DEF S
<1>6. KitsQuiet /\ NoneClosed
  BY <1>0, <1>1, <1>2, <1>3, <1>4, <1>5, QuietPost
<1> QED
  BY <1>1, <1>6 DEF RequestsQuiet, request

\* Every step opens a box, puts one together, reads one, or leaves the boxes alone.
LEMMA BoxSteps ==
  ASSUME RcvInv, KitInv, TakesStand, [RcvNext]_allVars
  PROVE  \/ KitsQuiet /\ NoneClosed /\ RequestsQuiet
         \/ \E r \in Requests : OpenKit(r) \/ CloseKitCheck(r) \/ CloseKit(r)
<1>1. ASSUME UNCHANGED stockVars PROVE KitsQuiet /\ NoneClosed /\ RequestsQuiet
  <2>1. UNCHANGED <<status, part, from, onHand, moved, rows, pc, aim, seen, picked>>
    BY <1>1 DEF stockVars, lots, ledger, request
  <2>2. RowsAccount /\ Boxed
    BY DEF KitInv
  <2>3. LotsStay /\ RowsAccount' /\ NoneClosed /\ RequestsQuiet
    BY <2>1, <2>2 DEF LotsStay, RowsAccount, NoneClosed, RequestsQuiet
  <2>4. \A l \in Lots : from[l] # NoLot => status'[l] = "live"
    BY <2>1, <2>2 DEF Boxed, CameOut
  <2> QED
    BY <2>1, <2>3, <2>4 DEF KitsQuiet
<1>2. ASSUME NEW r \in Requests, Clerk(r), ~CommitReceive(r), ~CommitUnreceive(r)
      PROVE  UNCHANGED stockVars
  BY <1>2 DEF Clerk, LineView, LineAdd, ReceiveDecide, UnreceiveDecide, Decide, Settle,
              LineCorrect, LineRemove, OrderReread, OrderSave, OrderView, OrderEdit, Turn
<1>3. ASSUME NEW r \in Requests, Screen(r)
      PROVE  ShelfScreen(r) \/ OpenKit(r) \/ CloseKitCheck(r) \/ CloseKit(r)
  BY <1>3 DEF Screen, OpenOrClose, ShelfScreen
<1>4. ShelfInv
  BY DEF RcvInv
<1> QED
  BY <1>1, <1>2, <1>3, <1>4, CommitReceiveQuiet, CommitUnreceiveQuiet, ScreensAreQuiet
     DEF RcvNext, allVars

\* So what is known of boxes is inductive beside the order,
LEMMA KitStep ==
  RcvInv /\ KitInv /\ TakesStand /\ [RcvNext]_allVars => KitInv'
<1> SUFFICES ASSUME RcvInv, KitInv, TakesStand, [RcvNext]_allVars PROVE KitInv'
  OBVIOUS
<1>0. ShelfInv
  BY DEF RcvInv
<1>1. ASSUME KitsQuiet, RequestsQuiet PROVE KitInv'
  <2>1. LotsStay
    BY <1>1 DEF KitsQuiet
  <2> QED
    BY <1>0, <1>1, <2>1, BoxesStill, ReadsStand DEF KitInv
<1> QED
  BY <1>0, <1>1, BoxSteps, OpenKitBoxes, CheckReadsBoxes, CloseKitCloses

\* and so is the account of what came out of them.
LEMMA OutStep == RcvInv /\ KitInv /\ TakesStand /\ OutBounded /\ [RcvNext]_allVars => OutBounded'
<1> SUFFICES ASSUME RcvInv, KitInv, TakesStand, OutBounded, [RcvNext]_allVars
             PROVE  OutBounded'
  OBVIOUS
<1>1. ShelfInv /\ ShelfInv'
  BY RcvStepTypes DEF RcvInv
<1> QED
  BY <1>1, BoxSteps, QuietOut, OpenedOut, ClosedOut, CheckReadsBoxes

\* However often boxes are opened and put together, by however many requests, and kits
\* inside kits among them, the parts that stand loose came out of boxes that are off the
\* shelf.
THEOREM NothingFromNowhereHolds == RcvSpec => []NothingFromNowhere
<1>1. RcvInit => RcvInv /\ KitInv /\ TakesStand /\ OutBounded
  BY RcvInitTypes, KitInit, TakesInit, OutInit DEF RcvInit
<1>2. RcvSpec => [](RcvInv /\ KitInv /\ TakesStand /\ OutBounded)
  BY <1>1, RcvStepTypes, KitStep, TakesStep, OutStep, PTL DEF RcvSpec
<1> QED
  BY <1>2, OutIsNothingFromNowhere, PTL

-----------------------------------------------------------------------------
(* What is used beside the order, with any number of requests at once.     *)

\* A receipt lets in what it counted, over a quantity that may have been written off.
LEMMA CommitReceiveGently ==
  ASSUME RcvInv, KitInv, NEW r \in Requests, CommitReceive(r)
  PROVE  Gently
<1>0. TypeOK /\ RowsAccount /\ NotYet
  BY DEF RcvInv, ShelfInv, KitInv
<1>1. plan[r].count \in Nat
  BY CommitReceiveInto
<1>2. PICK l \in Lots : IntoLot(r, l)
  BY CommitReceiveInto
<1> DEFINE held == [onHand EXCEPT ![l] = IF plan[r].refill # NoLot THEN 0 ELSE @]
           delta == [Zero EXCEPT ![l] = plan[r].count]
           S == {l}
<1>3. Post(S, delta, "receive", held, Standing \cup S)
  BY <1>2 DEF IntoLot
<1>4. /\ S \in SUBSET Lots /\ "receive" \in Reason
      /\ \A m \in Lots \ S : held[m] = onHand[m]
      /\ \A m \in S : delta[m] = plan[r].count /\ (held[m] = onHand[m] \/ held[m] = 0)
  BY <1>0 DEF TypeOK, Reason, Zero
<1>5. /\ from' = from /\ \A m \in S : status'[m] # "absent"
      /\ \A m \in Lots : from[m] # NoLot => part'[m] = part[m]
  BY <1>0, <1>2 DEF IntoLot, TypeOK, NotYet
<1> HIDE DEF held, delta, S
<1>6. \A m \in S : status'[m] # "absent" /\ Fits(m, delta[m], "receive", held, Standing \cup S)
  BY <1>1, <1>4, <1>5 DEF Fits
<1> QED
  BY <1>0, <1>3, <1>4, <1>5, <1>6, PostGently

\* A reversal lets go.
LEMMA CommitUnreceiveGently ==
  ASSUME RcvInv, KitInv, TakesStand, NEW r \in Requests, CommitUnreceive(r)
  PROVE  Gently
<1>0. TypeOK /\ RowsAccount
  BY DEF RcvInv, ShelfInv, KitInv
<1>1. UNCHANGED <<status, part, from>>
  BY CommitUnreceivePosts DEF lots
<1> DEFINE S == {l \in Lots : plan[r].delta[l] # 0}
<1>2. /\ Post(S, plan[r].delta, "unreceive", onHand, Standing) /\ S \in SUBSET Lots
      /\ plan[r].delta \in [Lots -> Int] /\ "unreceive" \in Reason
  BY CommitUnreceivePosts
<1>3. \A l \in S : status'[l] # "absent" /\ plan[r].delta[l] < 0
  BY <1>1 DEF TakesStand
<1> HIDE DEF S
<1>4. \A l \in S : status'[l] # "absent"
                   /\ Fits(l, plan[r].delta[l], "unreceive", onHand, Standing)
  <2> SUFFICES ASSUME NEW l \in S PROVE Fits(l, plan[r].delta[l], "unreceive", onHand, Standing)
    BY <1>3
  <2>1. plan[r].delta[l] \in Int /\ plan[r].delta[l] <= 0
    BY <1>2, <1>3
  <2> QED
    BY <2>1 DEF Fits
<1> QED
  BY <1>0, <1>1, <1>2, <1>4, PostGently


\* What is used stays covered in every step,
LEMMA FairStep ==
  RcvInv /\ KitInv /\ TakesStand /\ NoEdit /\ Fair /\ [RcvNext]_allVars => Fair'
<1> SUFFICES ASSUME RcvInv, KitInv, TakesStand, NoEdit, Fair, [RcvNext]_allVars
             PROVE  Fair'
  OBVIOUS
<1>0. ShelfInv /\ ShelfInv' /\ TypeOK /\ TypeOK'
  BY RcvStepTypes DEF RcvInv, ShelfInv
<1>1. ASSUME UNCHANGED stockVars PROVE Gently
  BY <1>0, <1>1, StillGently DEF stockVars, lots, ledger
<1>2. ASSUME NEW r \in Requests, Clerk(r), ~CommitReceive(r), ~CommitUnreceive(r)
      PROVE  UNCHANGED stockVars
  BY <1>2 DEF Clerk, LineView, LineAdd, ReceiveDecide, UnreceiveDecide, Decide, Settle,
              LineCorrect, LineRemove, OrderReread, OrderSave, OrderView, OrderEdit, Turn
<1>3. ASSUME NEW r \in Requests, Screen(r) PROVE Gently \/ OpenKit(r)
  <2>1. ShelfScreen(r) \/ OpenKit(r) \/ CloseKitCheck(r) \/ CloseKit(r)
    BY <1>3 DEF Screen, OpenOrClose, ShelfScreen
  <2>2. CASE CloseKitCheck(r)
    BY <1>0, <2>2, StillGently DEF CloseKitCheck, lots, ledger
  <2> QED
    BY <1>0, <2>1, <2>2, ScreensAreGentle, CloseKitGently
<1>4. ASSUME NEW r \in Requests, Clerk(r) PROVE Gently
  BY <1>1, <1>2, <1>4, CommitReceiveGently, CommitUnreceiveGently
<1>5. Gently \/ \E r \in Requests : OpenKit(r)
  BY <1>1, <1>3, <1>4 DEF RcvNext, allVars
<1> QED
  BY <1>0, <1>5, FairStill, OpenKitFair

\* no request edits a lot where the form is not used,
LEMMA NeverEditing ==
  ASSUME "edit" \notin Screens
  PROVE  RcvInv /\ NoEdit /\ [RcvNext]_allVars => NoEdit'
<1> SUFFICES ASSUME RcvInv, NoEdit, [RcvNext]_allVars PROVE NoEdit'
  OBVIOUS
<1>1. TypeOK
  BY DEF RcvInv, ShelfInv
<1>2. ASSUME UNCHANGED request PROVE NoEdit'
  BY <1>2 DEF request, NoEdit
<1>3. ASSUME NEW r \in Requests, Clerk(r) PROVE UNCHANGED request
  BY <1>3 DEF Clerk, LineView, LineAdd, ReceiveDecide, UnreceiveDecide, Decide, Settle,
              LineCorrect, LineRemove, OrderReread, OrderSave, OrderView, OrderEdit, Turn,
              CommitReceive, CommitUnreceive, stockVars
<1>4. ASSUME NEW r \in Requests, Screen(r) PROVE NoEdit'
  BY <1>1, <1>4, NoEditStep DEF StockNext
<1> QED
  BY <1>2, <1>3, <1>4 DEF RcvNext, allVars, stockVars

\* and nothing is used to begin with.
LEMMA FairInit == RcvInit => Fair /\ NoEdit
<1>1. ASSUME Init, NEW l \in Lots PROVE Covered(l)
  <2>1. /\ onHand[l] = 0 /\ from[l] = NoLot /\ moved[l]["consume"] = 0 /\ moved[l]["receive"] = 0
        /\ moved[l]["found"] = 0 /\ moved[l]["closed"] = 0
    BY <1>1 DEF Init, Zero, Reason
  <2> QED
    BY <2>1 DEF Covered, CameIn
<1> QED
  BY <1>1 DEF RcvInit, Init, Fair, NoEdit

\* Where lots are not edited, no more is used of an uncounted lot than was received, found
\* or boxed into it, even when reversals race the work that uses it and drive it below
\* nothing: consume() takes no more than the lot holds under the lock.
THEOREM UsedCameInHolds ==
  ASSUME "edit" \notin Screens
  PROVE  RcvSpec => []UsedCameIn
<1>1. RcvInit => RcvInv /\ KitInv /\ TakesStand /\ NoEdit /\ Fair
  BY RcvInitTypes, KitInit, TakesInit, FairInit DEF RcvInit
<1>2. RcvSpec => [](RcvInv /\ KitInv /\ TakesStand /\ NoEdit /\ Fair)
  BY <1>1, RcvStepTypes, KitStep, TakesStep, FairStep, NeverEditing, PTL DEF RcvSpec
<1>3. Fair => UsedCameIn
  BY DEF Fair, Plain, Covered, UsedCameIn
<1> QED
  BY <1>2, <1>3, PTL

=============================================================================
