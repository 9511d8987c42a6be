-------------------------- MODULE InventoryProofs ---------------------------
(***************************************************************************)
(* Theorems about StockLedger and Receiving, for any lots, parts, kits,    *)
(* order lines and units.                                                  *)
(*                                                                         *)
(* Every write of stock but lot_edit's goes through Post, so most of the   *)
(* argument about the shelf is one lemma about Post: it moves the quantity *)
(* and the ledger of a standing lot by the same amount.  What is left to   *)
(* show is that no row is ever written for a lot that does not exist yet.  *)
(* What came out of boxes is accounted for lot by lot, with what requests  *)
(* have read of them in the invariant.                                     *)
(* The order's part needs no more of the shelf than that it leaves the     *)
(* order alone.                                                            *)
(***************************************************************************)
EXTENDS Receiving, SumTheorems

-----------------------------------------------------------------------------
(* Sums over the reasons, and Post.                                        *)

\* A row of the ledger adds its delta to the lot's balance, whatever its reason.
LEMMA OneRowMore ==
  ASSUME NEW f \in [Reason -> Int], NEW why \in Reason, NEW d \in Int
  PROVE  /\ OfReasons(f) \in Int
         /\ OfReasons([f EXCEPT ![why] = @ + d]) = OfReasons(f) + d
  BY DEF OfReasons, Reason

\* What Post leaves behind, lot by lot.
Posted(S, delta, alive) ==
  /\ onHand' \in [Lots -> Int]
  /\ moved' \in [Lots -> [Reason -> Int]]
  /\ rows' \in [Lots -> [Reason -> Nat]]
  /\ drawn' \in [Lots -> BOOLEAN]
  /\ \A l \in S : OfReasons(moved'[l]) = Balance(l) + delta[l]
  /\ \A l \in S \cap alive : onHand'[l] = onHand[l] + delta[l]
  /\ \A l \in Lots \ alive : onHand'[l] = onHand[l]
  /\ \A l \in Lots \ S : onHand'[l] = onHand[l] /\ moved'[l] = moved[l]
  /\ \A l \in Lots : drawn'[l] = (drawn[l] \/ (l \in S /\ delta[l] < 0))

LEMMA PostMoves ==
  ASSUME TypeOK,
         NEW S \in SUBSET Lots, NEW delta \in [Lots -> Int], NEW why \in Reason,
         NEW alive \in SUBSET Lots,
         Post(S, delta, why, onHand, alive)
  PROVE  Posted(S, delta, alive)
<1>1. onHand' \in [Lots -> Int]
  BY DEF Post, TypeOK
<1>2. moved' \in [Lots -> [Reason -> Int]]
  BY DEF Post, TypeOK
<1>3. rows' \in [Lots -> [Reason -> Nat]]
  BY DEF Post, TypeOK
<1>4. drawn' \in [Lots -> BOOLEAN]
  BY DEF Post, TypeOK
<1>5. ASSUME NEW l \in S
      PROVE  OfReasons(moved'[l]) = Balance(l) + delta[l]
  <2>1. moved'[l] = [moved[l] EXCEPT ![why] = @ + delta[l]]
    BY DEF Post
  <2>2. moved[l] \in [Reason -> Int] /\ delta[l] \in Int
    BY DEF TypeOK
  <2> QED
    BY <2>1, <2>2, OneRowMore DEF Balance
<1>6. \A l \in S \cap alive : onHand'[l] = onHand[l] + delta[l]
  BY DEF Post
<1>7. \A l \in Lots \ alive : onHand'[l] = onHand[l]
  BY DEF Post
<1>8. \A l \in Lots \ S : onHand'[l] = onHand[l] /\ moved'[l] = moved[l]
  BY DEF Post
<1>9. \A l \in Lots : drawn'[l] = (drawn[l] \/ (l \in S /\ delta[l] < 0))
  BY DEF Post
<1> QED
  BY <1>1, <1>2, <1>3, <1>4, <1>5, <1>6, <1>7, <1>8, <1>9 DEF Posted

\* A movement of one lot only.
LEMMA OneMoved ==
  ASSUME NEW l \in Lots, NEW d \in Int
  PROVE  /\ [Zero EXCEPT ![l] = d] \in [Lots -> Int]
         /\ [Zero EXCEPT ![l] = d][l] = d
<1>1. Zero \in [Lots -> Int]
  BY DEF Zero
<1> QED
  BY <1>1

\* A draw takes a whole number from each lot, and no more than is there.
LEMMA DrawTakes ==
  ASSUME TypeOK, NEW p, NEW n \in Nat, NEW take \in Draws(p, n)
  PROVE  /\ take \in [Lots -> Nat]
         /\ \A l \in Lots : take[l] > 0 => Live(l) /\ take[l] <= onHand[l]
  BY DEF Draws, Available, TypeOK

\* The lots that will be created next do not exist yet.
LEMMA FreshIsAbsent ==
  ASSUME NEW n PROVE Fresh(n) \subseteq {l \in Lots : status[l] = "absent"}
  BY DEF Fresh, Absent

-----------------------------------------------------------------------------
(* Types.  A lot that exists is of a part, which is what makes the contents *)
(* of a kit numbers.                                                       *)

PartKnown == \A l \in Lots : status[l] # "absent" => part[l] \in Parts

\* A request in the middle of something is about a lot that exists, and so is
\* every lot close_kit has read.
Aimed ==
  \A r \in Requests :
    /\ pc[r] # "idle" => aim[r] \in Lots /\ status[aim[r]] # "absent"
    /\ \A l \in picked[r] : status[l] # "absent"

ShelfInv == TypeOK /\ PartKnown /\ Aimed

LEMMA ShelfInit == Init => ShelfInv
  BY StockAssumption DEF Init, ShelfInv, TypeOK, PartKnown, Aimed, Zero, Busy

\* Respond keeps the types and leaves the request idle.
LEMMA RespondTypes ==
  ASSUME TypeOK, NEW r \in Requests, Respond(r)
  PROVE  /\ pc' \in [Requests -> Busy]
         /\ aim' \in [Requests -> Lots \cup {NoLot}]
         /\ seen' \in [Requests -> [Lots -> Int]]
         /\ picked' \in [Requests -> SUBSET Lots]
         /\ pc'[r] = "idle" /\ picked'[r] = {}
         /\ \A s \in Requests \ {r} : /\ pc'[s] = pc[s] /\ aim'[s] = aim[s]
                                      /\ seen'[s] = seen[s] /\ picked'[s] = picked[s]
  BY DEF Respond, TypeOK, Zero, Busy

\* A response to one request disturbs no other, as long as no lot goes away.
LEMMA AimedAfterResponse ==
  ASSUME TypeOK, Aimed, NEW r \in Requests, Respond(r),
         \A l \in Lots : status[l] # "absent" => status'[l] # "absent"
  PROVE  Aimed'
<1>1. pc'[r] = "idle" /\ picked'[r] = {}
  BY RespondTypes
<1>2. ASSUME NEW s \in Requests \ {r}
      PROVE  pc'[s] = pc[s] /\ aim'[s] = aim[s] /\ picked'[s] = picked[s]
  BY RespondTypes
<1>3. \A s \in Requests : picked[s] \subseteq Lots
  BY DEF TypeOK
<1>4. ASSUME NEW s \in Requests
      PROVE  /\ pc'[s] # "idle" => aim'[s] \in Lots /\ status'[aim'[s]] # "absent"
             /\ \A l \in picked'[s] : status'[l] # "absent"
  <2>1. CASE s = r
    BY <1>1, <2>1
  <2>2. CASE s # r
    BY <1>2, <1>3, <2>2 DEF Aimed
  <2> QED
    BY <2>1, <2>2
<1> QED
  BY <1>4 DEF Aimed

\* Counts multiply to counts.
LEMMA Multiply == ASSUME NEW m \in Nat, NEW n \in Nat PROVE m * n \in Nat
  OBVIOUS

\* What open_kit posts: boxes out of the lot it opens, contents into new lots.
Opened(k, n, holds) ==
  [l \in Lots |-> IF l = k THEN 0 - n
                  ELSE IF l \in DOMAIN holds THEN n * Inside[part[k]][holds[l]]
                  ELSE 0]

LEMMA OpenedIsInt ==
  ASSUME NEW k \in Lots, NEW n \in Units, part[k] \in Parts,
         NEW N, NEW holds \in Bijection(Fresh(N), Items(part[k]))
  PROVE  /\ Opened(k, n, holds) \in [Lots -> Int]
         /\ DOMAIN holds = Fresh(N)
         /\ holds \in [Fresh(N) -> Parts]
         /\ Fresh(N) \subseteq Lots
<1>1. holds \in [Fresh(N) -> Parts]
  BY DEF Bijection, Injection, Surjection, Items
<1>2. Fresh(N) \subseteq Lots
  BY DEF Fresh, Absent
<1>3. ASSUME NEW l \in Lots PROVE Opened(k, n, holds)[l] \in Int
  <2>1. CASE l \in Fresh(N) /\ l # k
    <3>1. Inside[part[k]][holds[l]] \in Nat
      BY <1>1, <2>1, StockAssumption
    <3>2. n * Inside[part[k]][holds[l]] \in Nat
      BY <3>1, Multiply, StockAssumption
    <3>3. Opened(k, n, holds)[l] = n * Inside[part[k]][holds[l]]
      BY <1>1, <2>1 DEF Opened
    <3> QED
      BY <3>2, <3>3
  <2>2. CASE ~(l \in Fresh(N) /\ l # k)
    <3>1. Opened(k, n, holds)[l] = 0 - n \/ Opened(k, n, holds)[l] = 0
      BY <1>1, <2>2 DEF Opened
    <3> QED
      BY <3>1, StockAssumption
  <2> QED
    BY <2>1, <2>2
<1> QED
  BY <1>1, <1>2, <1>3 DEF Opened

\* Every step of a request keeps the types, and is about lots that exist.
LEMMA ShelfStep == ShelfInv /\ [StockNext]_stockVars => ShelfInv'
<1> SUFFICES ASSUME ShelfInv, [StockNext]_stockVars PROVE ShelfInv'
  OBVIOUS
<1>0. TypeOK /\ PartKnown /\ Aimed
  BY DEF ShelfInv
\* A step that leaves status and part alone, and answers.
<1>1. ASSUME NEW r \in Requests, Respond(r), UNCHANGED lots,
             onHand' \in [Lots -> Int], moved' \in [Lots -> [Reason -> Int]],
             rows' \in [Lots -> [Reason -> Nat]], drawn' \in [Lots -> BOOLEAN]
      PROVE  ShelfInv'
  <2>1. TypeOK'
    BY <1>0, <1>1, RespondTypes DEF TypeOK, lots
  <2>2. PartKnown'
    BY <1>0, <1>1 DEF PartKnown, lots
  <2>3. Aimed'
    BY <1>0, <1>1, AimedAfterResponse DEF lots
  <2> QED
    BY <2>1, <2>2, <2>3 DEF ShelfInv
<1>2. ASSUME NEW r \in Requests, NEW l \in Lots, NEW screen, NEW doing \in Busy,
             View(r, l, screen, doing)
      PROVE  ShelfInv'
  <2>1. TypeOK'
    BY <1>0, <1>2 DEF TypeOK, View, lots, ledger, Zero
  <2>2. PartKnown'
    BY <1>0, <1>2 DEF PartKnown, View, lots
  <2>3. Aimed'
    BY <1>0, <1>2 DEF Aimed, View, lots, TypeOK, Live
  <2> QED
    BY <2>1, <2>2, <2>3 DEF ShelfInv
<1>3. ASSUME NEW r \in Requests, LotAdd(r) PROVE ShelfInv'
  <2>1. PICK p \in Parts, l \in Fresh(1) :
           /\ status' = [status EXCEPT ![l] = "live"]
           /\ part' = [part EXCEPT ![l] = p]
           /\ aim' = [aim EXCEPT ![r] = l]
    BY <1>3 DEF LotAdd
  <2>2. l \in Lots
    BY DEF Fresh, Absent
  <2>3. /\ pc' = [pc EXCEPT ![r] = "adding"]
        /\ UNCHANGED <<line, from, onHand, ledger, seen, picked>>
    BY <1>3 DEF LotAdd
  <2>4. TypeOK'
    BY <1>0, <2>1, <2>2, <2>3 DEF TypeOK, ledger, Busy
  <2>5. PartKnown'
    BY <1>0, <2>1, <2>2 DEF PartKnown, TypeOK
  <2>6. Aimed'
    BY <1>0, <2>1, <2>2, <2>3 DEF Aimed, TypeOK
  <2> QED
    BY <2>4, <2>5, <2>6 DEF ShelfInv
<1>4. ASSUME NEW r \in Requests, LotAddRecord(r) PROVE ShelfInv'
  <2>1. aim[r] \in Lots
    BY <1>0, <1>4 DEF LotAddRecord, Aimed
  <2>2. PICK n \in Units :
           Post({aim[r]}, [Zero EXCEPT ![aim[r]] = n], "found", onHand, Standing)
    BY <1>4 DEF LotAddRecord
  <2>3. [Zero EXCEPT ![aim[r]] = n] \in [Lots -> Int]
    <3>1. n \in Int
      BY StockAssumption
    <3> QED
      BY <2>1, <3>1, OneMoved
  <2>4. Standing \in SUBSET Lots /\ {aim[r]} \in SUBSET Lots /\ "found" \in Reason
    BY <2>1 DEF Standing, Reason
  <2> QED
    BY <1>0, <1>1, <1>4, <2>2, <2>3, <2>4, PostMoves DEF LotAddRecord, Posted
<1>5. ASSUME NEW r \in Requests, LotEditSave(r) PROVE ShelfInv'
  <2>1. aim[r] \in Lots /\ status[aim[r]] # "absent"
    BY <1>0, <1>5 DEF LotEditSave, Aimed
  <2>2. TypeOK'
    BY <1>0, <1>5, <2>1, RespondTypes DEF TypeOK, LotEditSave, ledger
  <2>3. PartKnown'
    BY <1>0, <1>5, <2>1 DEF PartKnown, LotEditSave, TypeOK
  <2>4. \A l \in Lots : status[l] # "absent" => status'[l] # "absent"
    BY <1>0, <1>5, <2>1 DEF LotEditSave, TypeOK
  <2>5. Aimed'
    BY <1>0, <1>5, <2>4, AimedAfterResponse DEF LotEditSave
  <2> QED
    BY <2>2, <2>3, <2>5 DEF ShelfInv
<1>6. ASSUME NEW r \in Requests, LotDeleteSave(r) PROVE ShelfInv'
  <2>1. aim[r] \in Lots /\ status[aim[r]] # "absent"
    BY <1>0, <1>6 DEF LotDeleteSave, Aimed
  <2>2. TypeOK'
    BY <1>0, <1>6, <2>1, RespondTypes DEF TypeOK, LotDeleteSave, ledger
  <2>3. PartKnown'
    BY <1>0, <1>6, <2>1 DEF PartKnown, LotDeleteSave, TypeOK
  <2>4. \A l \in Lots : status[l] # "absent" => status'[l] # "absent"
    BY <1>0, <1>6, <2>1 DEF LotDeleteSave, TypeOK
  <2>5. Aimed'
    BY <1>0, <1>6, <2>4, AimedAfterResponse DEF LotDeleteSave
  <2> QED
    BY <2>2, <2>3, <2>5 DEF ShelfInv
<1>7. ASSUME NEW r \in Requests, Consume(r) PROVE ShelfInv'
  <2>0. PICK p \in Parts, n \in Units :
           \E take \in Draws(p, n) :
             Post({l \in Lots : take[l] > 0}, [l \in Lots |-> 0 - take[l]], "consume",
                  onHand, Standing)
    BY <1>7 DEF Consume
  <2>1. PICK take \in Draws(p, n) :
           Post({l \in Lots : take[l] > 0}, [l \in Lots |-> 0 - take[l]], "consume",
                onHand, Standing)
    BY <2>0
  <2>2. take \in [Lots -> Nat]
    BY <1>0, StockAssumption, DrawTakes
  <2>3. [l \in Lots |-> 0 - take[l]] \in [Lots -> Int]
    BY <2>2
  <2>4. Standing \in SUBSET Lots /\ {l \in Lots : take[l] > 0} \in SUBSET Lots
        /\ "consume" \in Reason
    BY DEF Standing, Reason
  <2>5. /\ onHand' \in [Lots -> Int] /\ moved' \in [Lots -> [Reason -> Int]]
        /\ rows' \in [Lots -> [Reason -> Nat]] /\ drawn' \in [Lots -> BOOLEAN]
    BY <1>0, <2>1, <2>3, <2>4, PostMoves DEF Posted
  <2>6. UNCHANGED <<lots, request>>
    BY <1>7 DEF Consume
  <2>7. TypeOK' /\ PartKnown' /\ Aimed'
    BY <1>0, <2>5, <2>6 DEF TypeOK, PartKnown, Aimed, lots, request
  <2> QED
    BY <2>7 DEF ShelfInv
<1>8. ASSUME NEW r \in Requests, CycleCount(r) PROVE ShelfInv'
  <2>1. aim[r] \in Lots
    BY <1>0, <1>8 DEF CycleCount, Aimed
  <2>2. PICK counted \in Units \cup {0} :
           LET delta == counted - seen[r][aim[r]]
           IN  IF delta = 0
               THEN UNCHANGED <<onHand, ledger>>
               ELSE Post({aim[r]}, [Zero EXCEPT ![aim[r]] = delta], "adjust",
                         onHand, Standing)
    BY <1>8 DEF CycleCount
  <2> DEFINE delta == counted - seen[r][aim[r]]
  <2>3. Respond(r) /\ UNCHANGED lots
    BY <1>8 DEF CycleCount
  <2>4. CASE delta = 0
    <3>1. UNCHANGED <<onHand, ledger>>
      BY <2>2, <2>4
    <3> QED
      BY <1>0, <1>1, <2>3, <3>1 DEF TypeOK, ledger
  <2>5. CASE delta # 0
    <3>1. Post({aim[r]}, [Zero EXCEPT ![aim[r]] = delta], "adjust", onHand, Standing)
      BY <2>2, <2>5
    <3>2. delta \in Int
      <4>1. seen[r][aim[r]] \in Int
        BY <1>0, <2>1 DEF TypeOK
      <4>2. counted \in Int
        BY StockAssumption
      <4> QED
        BY <4>1, <4>2
    <3>3. [Zero EXCEPT ![aim[r]] = delta] \in [Lots -> Int]
      <4> HIDE DEF delta
      <4> QED
        BY <2>1, <3>2, OneMoved
    <3>4. Standing \in SUBSET Lots /\ {aim[r]} \in SUBSET Lots /\ "adjust" \in Reason
      BY <2>1 DEF Standing, Reason
    <3> QED
      BY <1>0, <1>1, <2>3, <3>1, <3>3, <3>4, PostMoves DEF Posted
  <2> QED
    BY <2>4, <2>5
<1>9. ASSUME NEW r \in Requests, OpenKit(r) PROVE ShelfInv'
  <2> DEFINE k == aim[r]
             N == Cardinality(Items(part[k]))
  <2>1. k \in Lots /\ part[k] \in Parts
    BY <1>0, <1>9 DEF OpenKit, Aimed, PartKnown
  <2>2. PICK n \in Units, holds \in Bijection(Fresh(N), Items(part[k])) :
           LET new == DOMAIN holds
           IN  /\ status' = [l \in Lots |-> IF l \in new THEN "live" ELSE status[l]]
               /\ part' = [l \in Lots |-> IF l \in new THEN holds[l] ELSE part[l]]
               /\ line' = [l \in Lots |-> IF l \in new THEN line[k] ELSE line[l]]
               /\ from' = [l \in Lots |-> IF l \in new THEN k ELSE from[l]]
               /\ Post(new \cup {k}, Opened(k, n, holds), "opened", onHand, Standing \cup new)
    BY <1>9 DEF OpenKit, Opened
  <2>3. /\ Opened(k, n, holds) \in [Lots -> Int]
        /\ DOMAIN holds = Fresh(N)
        /\ holds \in [Fresh(N) -> Parts]
        /\ Fresh(N) \subseteq Lots
    BY <2>1, OpenedIsInt
  <2>4. /\ onHand' \in [Lots -> Int] /\ moved' \in [Lots -> [Reason -> Int]]
        /\ rows' \in [Lots -> [Reason -> Nat]] /\ drawn' \in [Lots -> BOOLEAN]
    <3>1. /\ Fresh(N) \cup {k} \in SUBSET Lots
          /\ Standing \cup Fresh(N) \in SUBSET Lots
          /\ "opened" \in Reason
      BY <2>1, <2>3 DEF Standing, Reason
    <3> QED
      BY <1>0, <2>2, <2>3, <3>1, PostMoves DEF Posted
  <2>5. Respond(r)
    BY <1>9 DEF OpenKit
  <2>6. /\ status' \in [Lots -> {"absent", "live", "deleted"}]
        /\ part' \in [Lots -> Parts \cup {NoPart}]
        /\ line' \in [Lots -> Lines \cup {NoLine}]
        /\ from' \in [Lots -> Lots \cup {NoLot}]
    BY <1>0, <2>1, <2>2, <2>3 DEF TypeOK
  <2>7. TypeOK'
    BY <1>0, <2>4, <2>5, <2>6, RespondTypes DEF TypeOK
  <2>8. PartKnown'
    BY <1>0, <2>2, <2>3 DEF PartKnown
  <2>9. \A l \in Lots : status[l] # "absent" => status'[l] # "absent"
    BY <2>2
  <2>10. Aimed'
    BY <1>0, <2>5, <2>9, AimedAfterResponse
  <2> QED
    BY <2>7, <2>8, <2>10 DEF ShelfInv
<1>10. ASSUME NEW r \in Requests, CloseKitCheck(r) PROVE ShelfInv'
  <2>1. TypeOK'
    BY <1>0, <1>10 DEF TypeOK, CloseKitCheck, lots, ledger, Released
  <2>2. PartKnown'
    BY <1>0, <1>10 DEF PartKnown, CloseKitCheck, lots
  <2>3. Aimed'
    BY <1>0, <1>10 DEF Aimed, CloseKitCheck, lots, Released, Live, TypeOK
  <2> QED
    BY <2>1, <2>2, <2>3 DEF ShelfInv
<1>11. ASSUME NEW r \in Requests, CloseKit(r) PROVE ShelfInv'
  <2> DEFINE k == aim[r]
  <2>1. k \in Lots
    BY <1>0, <1>11 DEF CloseKit, Aimed
  <2>2. PICK n \in Units \cup {0} :
           Post(picked[r] \cup {k}, [l \in Lots |-> IF l = k THEN n ELSE 0 - seen[r][l]],
                "closed", onHand, Standing)
    BY <1>11 DEF CloseKit
  <2>3. [l \in Lots |-> IF l = k THEN n ELSE 0 - seen[r][l]] \in [Lots -> Int]
    BY <1>0, StockAssumption DEF TypeOK
  <2>4. /\ picked[r] \cup {k} \in SUBSET Lots /\ Standing \in SUBSET Lots
        /\ "closed" \in Reason
    BY <1>0, <2>1 DEF Standing, Reason, TypeOK
  <2> QED
    BY <1>0, <1>1, <1>11, <2>2, <2>3, <2>4, PostMoves DEF CloseKit, Posted
<1>12. ASSUME NEW r \in Requests, Refuse(r) PROVE ShelfInv'
  BY <1>0, <1>1, <1>12 DEF Refuse, TypeOK, ledger
<1>13. CASE UNCHANGED stockVars
  BY <1>0, <1>13 DEF ShelfInv, TypeOK, PartKnown, Aimed, stockVars, lots, ledger, request
<1>14. CASE StockNext
  <2>1. PICK r \in Requests : Screen(r)
    BY <1>14 DEF StockNext
  <2> QED
    BY <1>2, <1>3, <1>4, <1>5, <1>6, <1>7, <1>8, <1>9, <1>10, <1>11, <1>12, <2>1
       DEF Screen, OpenOrClose, LotDeleteCheck, Busy
<1> QED
  BY <1>13, <1>14

\* Whatever the screens do to each other, the shelf keeps its types, and every
\* lot that exists is of a part of the catalog.
THEOREM TypeCorrect == StockSpec => []TypeOK
<1>1. StockSpec => []ShelfInv
  BY ShelfInit, ShelfStep, PTL DEF StockSpec
<1>2. ShelfInv => TypeOK
  BY DEF ShelfInv
<1> QED
  BY <1>1, <1>2, PTL

-----------------------------------------------------------------------------
(* The quantity is the ledger's sum.                                       *)

\* Nothing is on the shelf, or in the ledger, for a lot that does not exist yet.
NothingYet ==
  \A l \in Lots : status[l] = "absent" =>
    onHand[l] = 0 /\ \A why \in Reason : moved[l][why] = 0

\* What lot_edit saves over a lot is what the lot holds.
EditsInPlace ==
  \A r \in Requests : pc[r] = "editing" => seen[r][aim[r]] = onHand[aim[r]] /\ Live(aim[r])

Books == Projection /\ NothingYet

LEMMA BooksInit == Init => Books
  BY DEF Init, Books, Projection, NothingYet, Live, Zero

\* Post keeps the books as long as what stands afterwards is what it counted as
\* alive, and it wrote to no lot that does not exist.
LEMMA BooksPost ==
  ASSUME TypeOK, Books,
         NEW S \in SUBSET Lots, NEW delta \in [Lots -> Int], NEW why \in Reason,
         NEW alive \in SUBSET Lots,
         Post(S, delta, why, onHand, alive),
         \A l \in Lots : status'[l] = "live" => l \in alive /\ status[l] \in {"live", "absent"},
         \A l \in Lots : status'[l] = "absent" => status[l] = "absent" /\ l \notin S
  PROVE  Books'
<1>0. Posted(S, delta, alive)
  BY PostMoves
<1>1. ASSUME NEW l \in Lots, status[l] \in {"live", "absent"}
      PROVE  onHand[l] = Balance(l)
  BY <1>1 DEF Books, Projection, NothingYet, Live, Balance, OfReasons, Reason
<1>2. ASSUME NEW l \in Lots, Live(l)' PROVE onHand'[l] = Balance(l)'
  <2>1. l \in alive /\ onHand[l] = Balance(l)
    BY <1>1, <1>2 DEF Live
  <2>2. CASE l \in S
    <3>1. onHand'[l] = onHand[l] + delta[l]
      BY <1>0, <2>1, <2>2 DEF Posted
    <3>2. OfReasons(moved'[l]) = Balance(l) + delta[l]
      BY <1>0, <2>2 DEF Posted
    <3> QED
      BY <2>1, <3>1, <3>2 DEF Balance
  <2>3. CASE l \notin S
    <3>1. onHand'[l] = onHand[l] /\ moved'[l] = moved[l]
      BY <1>0, <2>3 DEF Posted
    <3> QED
      BY <2>1, <3>1 DEF Balance
  <2> QED
    BY <2>2, <2>3
<1>3. ASSUME NEW l \in Lots, status'[l] = "absent"
      PROVE  onHand'[l] = 0 /\ \A w \in Reason : moved'[l][w] = 0
  <2>1. status[l] = "absent" /\ l \notin S
    BY <1>3
  <2>2. onHand'[l] = onHand[l] /\ moved'[l] = moved[l]
    BY <1>0, <2>1 DEF Posted
  <2> QED
    BY <2>1, <2>2 DEF Books, NothingYet
<1> QED
  BY <1>2, <1>3 DEF Books, Projection, NothingYet

\* The same, for a transaction that creates no lot.
LEMMA BooksPostStanding ==
  ASSUME ShelfInv, Books, UNCHANGED status,
         NEW S \in SUBSET Lots, \A l \in S : status[l] # "absent",
         NEW delta \in [Lots -> Int], NEW why \in Reason,
         Post(S, delta, why, onHand, Standing)
  PROVE  Books'
<1>1. Standing \in SUBSET Lots
  BY DEF Standing
<1>2. \A l \in Lots : status'[l] = "live" => l \in Standing
  BY DEF Standing, Live
<1> QED
  BY <1>1, <1>2, BooksPost DEF ShelfInv

LEMMA BooksStep == ShelfInv /\ Books /\ EditsInPlace /\ [StockNext]_stockVars => Books'
<1> SUFFICES ASSUME ShelfInv, Books, EditsInPlace, [StockNext]_stockVars PROVE Books'
  OBVIOUS
<1>0. TypeOK /\ PartKnown /\ Aimed
  BY DEF ShelfInv
<1>1. ASSUME UNCHANGED <<status, onHand, moved>> PROVE Books'
  BY <1>1 DEF Books, Projection, NothingYet, Live, Balance
<1>2. ASSUME NEW r \in Requests, LotAdd(r) PROVE Books'
  <2>1. PICK l \in Fresh(1) : status' = [status EXCEPT ![l] = "live"]
    BY <1>2 DEF LotAdd
  <2>2. l \in Lots /\ status[l] = "absent"
    BY DEF Fresh, Absent
  <2>3. onHand[l] = 0 /\ \A why \in Reason : moved[l][why] = 0
    BY <2>2 DEF Books, NothingYet
  <2>4. onHand[l] = Balance(l)
    BY <2>3 DEF Balance, OfReasons, Reason
  <2>5. UNCHANGED <<onHand, moved>>
    BY <1>2 DEF LotAdd, ledger
  <2>6. \A m \in Lots : m # l => status'[m] = status[m]
    BY <2>1 DEF TypeOK
  <2>7. status'[l] = "live"
    BY <1>0, <2>1, <2>2 DEF TypeOK
  <2> QED
    BY <2>4, <2>5, <2>6, <2>7 DEF Books, Projection, NothingYet, Live, Balance
<1>3. ASSUME NEW r \in Requests, LotAddRecord(r) PROVE Books'
  <2>1. aim[r] \in Lots /\ status[aim[r]] # "absent"
    BY <1>0, <1>3 DEF LotAddRecord, Aimed
  <2>2. PICK n \in Units :
           Post({aim[r]}, [Zero EXCEPT ![aim[r]] = n], "found", onHand, Standing)
    BY <1>3 DEF LotAddRecord
  <2>3. n \in Int
    BY StockAssumption
  <2>4. [Zero EXCEPT ![aim[r]] = n] \in [Lots -> Int]
    BY <2>1, <2>3, OneMoved
  <2>5. "found" \in Reason /\ UNCHANGED status
    BY <1>3 DEF Reason, LotAddRecord, lots
  <2> QED
    BY <2>1, <2>2, <2>4, <2>5, BooksPostStanding
<1>4. ASSUME NEW r \in Requests, LotEditSave(r) PROVE Books'
  <2>1. Live(aim[r]) /\ seen[r][aim[r]] = onHand[aim[r]] /\ aim[r] \in Lots
    BY <1>0, <1>4 DEF LotEditSave, EditsInPlace, Aimed
  <2>2. UNCHANGED <<status, onHand, moved>>
    BY <1>0, <1>4, <2>1 DEF LotEditSave, Live, TypeOK, ledger
  <2> QED
    BY <1>1, <2>2
<1>5. ASSUME NEW r \in Requests, LotDeleteSave(r) PROVE Books'
  <2>1. aim[r] \in Lots /\ status[aim[r]] # "absent"
    BY <1>0, <1>5 DEF LotDeleteSave, Aimed
  <2>2. /\ status' = [status EXCEPT ![aim[r]] = "deleted"]
        /\ UNCHANGED <<onHand, moved>>
    BY <1>5 DEF LotDeleteSave, ledger
  <2>3. \A l \in Lots : /\ status'[l] = "live" => status[l] = "live"
                        /\ status'[l] = "absent" => status[l] = "absent"
    BY <1>0, <2>1, <2>2 DEF TypeOK
  <2> QED
    BY <2>2, <2>3 DEF Books, Projection, NothingYet, Live, Balance
<1>6. ASSUME NEW r \in Requests, Consume(r) PROVE Books'
  <2>0. PICK p \in Parts, n \in Units :
           \E take \in Draws(p, n) :
             Post({l \in Lots : take[l] > 0}, [l \in Lots |-> 0 - take[l]], "consume",
                  onHand, Standing)
    BY <1>6 DEF Consume
  <2>1. PICK take \in Draws(p, n) :
           Post({l \in Lots : take[l] > 0}, [l \in Lots |-> 0 - take[l]], "consume",
                onHand, Standing)
    BY <2>0
  <2>2. /\ take \in [Lots -> Nat]
        /\ \A l \in Lots : take[l] > 0 => Live(l)
    BY <1>0, StockAssumption, DrawTakes
  <2>3. [l \in Lots |-> 0 - take[l]] \in [Lots -> Int]
    BY <2>2
  <2>4. \A l \in {m \in Lots : take[m] > 0} : status[l] # "absent"
    BY <2>2 DEF Live
  <2>5. "consume" \in Reason /\ UNCHANGED status
    BY <1>6 DEF Reason, Consume, lots
  <2> QED
    BY <2>1, <2>3, <2>4, <2>5, BooksPostStanding
<1>7. ASSUME NEW r \in Requests, CycleCount(r) PROVE Books'
  <2>1. aim[r] \in Lots /\ status[aim[r]] # "absent"
    BY <1>0, <1>7 DEF CycleCount, Aimed
  <2>2. PICK counted \in Units \cup {0} :
           LET delta == counted - seen[r][aim[r]]
           IN  IF delta = 0
               THEN UNCHANGED <<onHand, ledger>>
               ELSE Post({aim[r]}, [Zero EXCEPT ![aim[r]] = delta], "adjust",
                         onHand, Standing)
    BY <1>7 DEF CycleCount
  <2> DEFINE delta == counted - seen[r][aim[r]]
  <2>3. "adjust" \in Reason /\ UNCHANGED status
    BY <1>7 DEF Reason, CycleCount, lots
  <2>4. CASE delta = 0
    BY <1>1, <2>2, <2>3, <2>4 DEF ledger
  <2>5. CASE delta # 0
    <3>1. Post({aim[r]}, [Zero EXCEPT ![aim[r]] = delta], "adjust", onHand, Standing)
      BY <2>2, <2>5
    <3>2. delta \in Int
      <4>1. seen[r][aim[r]] \in Int
        BY <1>0, <2>1 DEF TypeOK
      <4>2. counted \in Int
        BY StockAssumption
      <4> QED
        BY <4>1, <4>2
    <3> HIDE DEF delta
    <3>3. [Zero EXCEPT ![aim[r]] = delta] \in [Lots -> Int]
      BY <2>1, <3>2, OneMoved
    <3> QED
      BY <2>1, <2>3, <3>1, <3>3, BooksPostStanding
  <2> QED
    BY <2>4, <2>5
<1>8. ASSUME NEW r \in Requests, OpenKit(r) PROVE Books'
  <2> DEFINE k == aim[r]
             N == Cardinality(Items(part[k]))
  <2>1. k \in Lots /\ part[k] \in Parts /\ status[k] # "absent"
    BY <1>0, <1>8 DEF OpenKit, Aimed, PartKnown
  <2>2. PICK n \in Units, holds \in Bijection(Fresh(N), Items(part[k])) :
           LET new == DOMAIN holds
           IN  /\ status' = [l \in Lots |-> IF l \in new THEN "live" ELSE status[l]]
               /\ Post(new \cup {k}, Opened(k, n, holds), "opened", onHand, Standing \cup new)
    BY <1>8 DEF OpenKit, Opened
  <2>3. /\ Opened(k, n, holds) \in [Lots -> Int]
        /\ DOMAIN holds = Fresh(N)
        /\ Fresh(N) \subseteq Lots
    BY <2>1, OpenedIsInt
  <2>4. \A l \in Fresh(N) : status[l] = "absent"
    BY FreshIsAbsent
  <2> HIDE DEF N
  <2>5. /\ Fresh(N) \cup {k} \in SUBSET Lots
        /\ Standing \cup Fresh(N) \in SUBSET Lots
        /\ "opened" \in Reason
    BY <2>1, <2>3 DEF Standing, Reason
  <2>6. \A l \in Lots : /\ status'[l] = "live" => /\ l \in Standing \cup Fresh(N)
                                                 /\ status[l] \in {"live", "absent"}
                        /\ status'[l] = "absent" => /\ status[l] = "absent"
                                                    /\ l \notin Fresh(N) \cup {k}
    BY <2>1, <2>2, <2>3, <2>4 DEF Standing, Live
  <2>7. Post(Fresh(N) \cup {k}, Opened(k, n, holds), "opened", onHand, Standing \cup Fresh(N))
    BY <2>2, <2>3
  <2> HIDE DEF k
  <2> QED
    BY <1>0, <2>3, <2>5, <2>6, <2>7, BooksPost
<1>9. ASSUME NEW r \in Requests, CloseKit(r) PROVE Books'
  <2> DEFINE k == aim[r]
  <2>1. k \in Lots /\ status[k] # "absent"
    BY <1>0, <1>9 DEF CloseKit, Aimed
  <2>2. PICK n \in Units \cup {0} :
           Post(picked[r] \cup {k}, [l \in Lots |-> IF l = k THEN n ELSE 0 - seen[r][l]],
                "closed", onHand, Standing)
    BY <1>9 DEF CloseKit
  <2>3. [l \in Lots |-> IF l = k THEN n ELSE 0 - seen[r][l]] \in [Lots -> Int]
    BY <1>0, StockAssumption DEF TypeOK
  <2>4. picked[r] \cup {k} \in SUBSET Lots /\ "closed" \in Reason /\ UNCHANGED status
    BY <1>0, <1>9, <2>1 DEF Reason, TypeOK, CloseKit, lots
  <2>5. \A l \in picked[r] \cup {k} : status[l] # "absent"
    BY <1>0, <2>1 DEF Aimed
  <2> QED
    BY <2>2, <2>3, <2>4, <2>5, BooksPostStanding
<1>10. ASSUME NEW r \in Requests,
              \/ CloseKitCheck(r)
              \/ Refuse(r)
              \/ \E l \in Lots, screen \in Screens, doing \in Busy : View(r, l, screen, doing)
       PROVE  Books'
  BY <1>1, <1>10 DEF CloseKitCheck, Refuse, View, lots, ledger
<1>11. CASE UNCHANGED stockVars
  BY <1>1, <1>11 DEF stockVars, lots, ledger
<1>12. CASE StockNext
  <2>1. PICK r \in Requests : Screen(r)
    BY <1>12 DEF StockNext
  <2>2. ASSUME NEW l \in Lots,
               \/ View(r, l, "count", "counting")
               \/ View(r, l, "edit", "editing")
               \/ View(r, l, "open", "opening")
               \/ View(r, l, "close", "closing")
               \/ LotDeleteCheck(r, l)
        PROVE  Books'
    BY <1>1, <2>2 DEF View, LotDeleteCheck, lots, ledger
  <2> QED
    BY <1>2, <1>3, <1>4, <1>5, <1>6, <1>7, <1>8, <1>9, <1>10, <2>1, <2>2
       DEF Screen, OpenOrClose
<1> QED
  BY <1>11, <1>12

\* Where the edit form is not used no request is ever in it.
NoEdit == \A r \in Requests : pc[r] # "editing"

LEMMA NoEditStep ==
  ASSUME "edit" \notin Screens
  PROVE  TypeOK /\ NoEdit /\ [StockNext]_stockVars => NoEdit'
<1> SUFFICES ASSUME TypeOK, NoEdit, [StockNext]_stockVars PROVE NoEdit'
  OBVIOUS
<1>1. CASE UNCHANGED stockVars
  BY <1>1 DEF stockVars, request, NoEdit
<1>2. ASSUME NEW r \in Requests, Screen(r) PROVE NoEdit'
  <2>1. CASE Respond(r)
    <3>1. pc' = [pc EXCEPT ![r] = "idle"] /\ pc \in [Requests -> Busy]
      BY <2>1 DEF Respond, TypeOK
    <3> QED
      BY <3>1 DEF NoEdit
  <2>2. CASE \E doing \in Busy \ {"editing"} : pc' = [pc EXCEPT ![r] = doing]
    BY <2>2 DEF TypeOK, NoEdit
  <2>3. CASE UNCHANGED pc
    BY <2>3 DEF NoEdit
  <2> QED
    BY <1>2, <2>1, <2>2, <2>3
       DEF Screen, OpenOrClose, LotAdd, LotAddRecord, View, LotDeleteCheck, LotEditSave,
           LotDeleteSave, Consume, CycleCount, OpenKit, CloseKitCheck, CloseKit, Refuse,
           request, Busy
<1> QED
  BY <1>1, <1>2 DEF StockNext

\* Without the edit form, however many requests interleave, the quantity of a
\* lot on the shelf is the sum of its ledger rows.
THEOREM ProjectionHolds ==
  ASSUME "edit" \notin Screens
  PROVE  StockSpec => []Projection
<1>1. Init => NoEdit
  BY DEF Init, NoEdit
<1>2. TypeOK /\ NoEdit /\ [StockNext]_stockVars => NoEdit'
  BY NoEditStep
<1>3. NoEdit => EditsInPlace
  BY DEF EditsInPlace, NoEdit
<1>4. ShelfInv => TypeOK
  BY DEF ShelfInv
<1>5. StockSpec => [](ShelfInv /\ NoEdit /\ Books)
  BY ShelfInit, ShelfStep, BooksInit, BooksStep, <1>1, <1>2, <1>3, <1>4, PTL DEF StockSpec
<1>6. Books => Projection
  BY DEF Books
<1> QED
  BY <1>5, <1>6, PTL

-----------------------------------------------------------------------------
(* One request at a time: what is read before a transaction still holds in *)
(* it.  Two requests at once can drive a lot negative, which is why every  *)
(* read is in the invariant.                                               *)

\* What a request has read is so: its lot is on the shelf, holds what was seen,
\* and when it is about to be deleted nothing came out of it.
ReadsHold ==
  \A r \in Requests :
    /\ pc[r] # "idle" => Live(aim[r])
    /\ pc[r] \in {"counting", "opening", "editing"} => seen[r][aim[r]] = onHand[aim[r]]
    /\ pc[r] = "deleting" => ~drawn[aim[r]]
    /\ pc[r] # "closing" => picked[r] = {}
    /\ \A l \in picked[r] : Live(l) /\ seen[r][l] = onHand[l]

Calm == NonNegative /\ DrawnIsKept /\ ReadsHold

LEMMA CalmInit == Init => Calm
  BY DEF Init, Calm, NonNegative, DrawnIsKept, ReadsHold, Zero

\* A transaction that takes from standing lots no more than they hold.
LEMMA CalmPost ==
  ASSUME TypeOK, NonNegative, DrawnIsKept,
         NEW S \in SUBSET Lots, NEW delta \in [Lots -> Int], NEW why \in Reason,
         NEW alive \in SUBSET Lots,
         Post(S, delta, why, onHand, alive),
         \A l \in S : onHand[l] + delta[l] >= 0 /\ status'[l] = "live",
         \A l \in Lots : status'[l] = "deleted" => status[l] = "deleted"
  PROVE  NonNegative' /\ DrawnIsKept'
<1>0. Posted(S, delta, alive)
  BY PostMoves
<1>1. ASSUME NEW l \in Lots PROVE onHand'[l] >= 0
  <2>1. CASE l \in S \cap alive
    BY <1>0, <2>1 DEF Posted
  <2>2. CASE l \notin S \cap alive
    <3>1. onHand'[l] = onHand[l]
      BY <1>0, <2>2 DEF Posted
    <3> QED
      BY <3>1 DEF NonNegative
  <2> QED
    BY <2>1, <2>2
<1>2. ASSUME NEW l \in Lots, status'[l] = "deleted" PROVE ~drawn'[l]
  <2>1. l \notin S /\ status[l] = "deleted"
    BY <1>2
  <2>2. drawn'[l] = (drawn[l] \/ (l \in S /\ delta[l] < 0))
    BY <1>0 DEF Posted
  <2>3. ~drawn[l]
    BY <2>1 DEF DrawnIsKept
  <2> QED
    BY <2>1, <2>2, <2>3
<1> QED
  BY <1>1, <1>2 DEF NonNegative, DrawnIsKept

\* With one request, a response leaves nothing read behind.
LEMMA CalmResponse ==
  ASSUME \A r, s \in Requests : r = s,
         TypeOK, NEW r \in Requests, Respond(r)
  PROVE  ReadsHold'
<1>1. pc'[r] = "idle" /\ picked'[r] = {}
  BY RespondTypes
<1>2. \A s \in Requests : s = r
  OBVIOUS
<1> QED
  BY <1>1, <1>2 DEF ReadsHold

LEMMA CalmStep ==
  ASSUME \A r, s \in Requests : r = s
  PROVE  ShelfInv /\ Calm /\ [StockNext]_stockVars => Calm'
<1> SUFFICES ASSUME ShelfInv, Calm, [StockNext]_stockVars PROVE Calm'
  OBVIOUS
<1>0. /\ TypeOK /\ PartKnown /\ Aimed
      /\ NonNegative /\ DrawnIsKept /\ ReadsHold
      /\ \A r, s \in Requests : r = s
  BY DEF ShelfInv, Calm
<1>a. Standing \in SUBSET Lots /\ \A l \in Lots : Live(l) <=> l \in Standing
  BY DEF Standing
<1>1. ASSUME NEW r \in Requests, NEW l \in Lots, NEW screen, NEW doing \in Busy \ {"idle"},
             doing = "deleting" => ~drawn[l],
             View(r, l, screen, doing)
      PROVE  Calm'
  <2>1. /\ pc'[r] = doing /\ aim'[r] = l /\ seen'[r][l] = onHand[l]
        /\ Live(l) /\ picked[r] = {} /\ picked' = picked
    <3>1. /\ pc' = [pc EXCEPT ![r] = doing]
          /\ aim' = [aim EXCEPT ![r] = l]
          /\ seen' = [seen EXCEPT ![r] = [Zero EXCEPT ![l] = onHand[l]]]
          /\ pc[r] = "idle" /\ Live(l) /\ UNCHANGED picked
      BY <1>1 DEF View
    <3>2. pc'[r] = doing /\ aim'[r] = l /\ seen'[r] = [Zero EXCEPT ![l] = onHand[l]]
      BY <1>0, <3>1 DEF TypeOK
    <3>3. onHand[l] \in Int
      BY <1>0 DEF TypeOK
    <3>4. seen'[r][l] = onHand[l]
      BY <3>2, <3>3, OneMoved
    <3>5. picked[r] = {}
      BY <1>0, <3>1 DEF ReadsHold
    <3> QED
      BY <3>1, <3>2, <3>4, <3>5
  <2>2. UNCHANGED <<status, onHand, drawn>>
    BY <1>1 DEF View, lots, ledger
  <2>3. ReadsHold'
    BY <1>0, <1>1, <2>1, <2>2 DEF ReadsHold, Live
  <2> QED
    BY <1>0, <2>2, <2>3 DEF Calm, NonNegative, DrawnIsKept
<1>2. ASSUME NEW r \in Requests, LotAdd(r) PROVE Calm'
  <2>1. PICK l \in Fresh(1) : /\ status' = [status EXCEPT ![l] = "live"]
                              /\ aim' = [aim EXCEPT ![r] = l]
    BY <1>2 DEF LotAdd
  <2>2. /\ pc' = [pc EXCEPT ![r] = "adding"] /\ pc[r] = "idle"
        /\ UNCHANGED <<onHand, drawn, picked>>
    BY <1>2 DEF LotAdd, ledger
  <2>3. l \in Lots
    BY DEF Fresh, Absent
  <2>4. /\ pc'[r] = "adding" /\ aim'[r] = l /\ status'[l] = "live"
        /\ \A m \in Lots : status'[m] = "deleted" => status[m] = "deleted"
    BY <1>0, <2>1, <2>2, <2>3 DEF TypeOK
  <2>5. picked'[r] = {}
    BY <1>0, <2>2 DEF ReadsHold
  <2>6. ReadsHold'
    BY <1>0, <2>4, <2>5 DEF ReadsHold, Live
  <2> QED
    BY <1>0, <2>2, <2>4, <2>6 DEF Calm, NonNegative, DrawnIsKept
<1>3. ASSUME NEW r \in Requests, LotAddRecord(r) PROVE Calm'
  <2>1. aim[r] \in Lots /\ status[aim[r]] = "live"
    BY <1>0, <1>3 DEF LotAddRecord, Aimed, ReadsHold, Live
  <2>2. PICK n \in Units :
           Post({aim[r]}, [Zero EXCEPT ![aim[r]] = n], "found", onHand, Standing)
    BY <1>3 DEF LotAddRecord
  <2>3. n \in Int /\ n >= 0
    BY StockAssumption
  <2>4. /\ [Zero EXCEPT ![aim[r]] = n] \in [Lots -> Int]
        /\ [Zero EXCEPT ![aim[r]] = n][aim[r]] = n
    BY <2>1, <2>3, OneMoved
  <2>5. "found" \in Reason /\ UNCHANGED status /\ Respond(r)
    BY <1>3 DEF Reason, LotAddRecord, lots
  <2>6. onHand[aim[r]] + n >= 0
    BY <1>0, <2>1, <2>3 DEF NonNegative, TypeOK
  <2>7. NonNegative' /\ DrawnIsKept'
    <3>1. \A l \in {aim[r]} : /\ onHand[l] + [Zero EXCEPT ![aim[r]] = n][l] >= 0
                             /\ status'[l] = "live"
      BY <2>1, <2>4, <2>5, <2>6
    <3>2. {aim[r]} \in SUBSET Lots
      BY <2>1
    <3> QED
      BY <1>0, <1>a, <2>2, <2>4, <2>5, <3>1, <3>2, CalmPost
  <2> QED
    BY <1>0, <2>5, <2>7, CalmResponse DEF Calm
<1>4. ASSUME NEW r \in Requests, LotEditSave(r) PROVE Calm'
  <2>1. /\ aim[r] \in Lots /\ status[aim[r]] = "live"
        /\ seen[r][aim[r]] = onHand[aim[r]]
    BY <1>0, <1>4 DEF LotEditSave, Aimed, ReadsHold, Live
  <2>2. UNCHANGED <<status, onHand, drawn>> /\ Respond(r)
    BY <1>0, <1>4, <2>1 DEF LotEditSave, TypeOK, ledger
  <2> QED
    BY <1>0, <2>2, CalmResponse DEF Calm, NonNegative, DrawnIsKept
<1>5. ASSUME NEW r \in Requests, LotDeleteSave(r) PROVE Calm'
  <2>1. aim[r] \in Lots /\ ~drawn[aim[r]]
    BY <1>0, <1>5 DEF LotDeleteSave, Aimed, ReadsHold
  <2>2. /\ status' = [status EXCEPT ![aim[r]] = "deleted"]
        /\ UNCHANGED <<onHand, drawn>> /\ Respond(r)
    BY <1>5 DEF LotDeleteSave, ledger
  <2>3. \A l \in Lots \ {aim[r]} : status'[l] = status[l]
    BY <1>0, <2>2 DEF TypeOK
  <2>4. NonNegative' /\ DrawnIsKept'
    BY <1>0, <2>1, <2>2, <2>3 DEF NonNegative, DrawnIsKept
  <2> QED
    BY <1>0, <2>2, <2>4, CalmResponse DEF Calm
<1>6. ASSUME NEW r \in Requests, Consume(r) PROVE Calm'
  <2>0. PICK p \in Parts, n \in Units :
           \E take \in Draws(p, n) :
             /\ SumOver(take) > 0
             /\ Post({l \in Lots : take[l] > 0}, [l \in Lots |-> 0 - take[l]], "consume",
                     onHand, Standing)
    BY <1>6 DEF Consume
  <2>1. PICK take \in Draws(p, n) :
           Post({l \in Lots : take[l] > 0}, [l \in Lots |-> 0 - take[l]], "consume",
                onHand, Standing)
    BY <2>0
  <2>2. /\ take \in [Lots -> Nat]
        /\ \A l \in Lots : take[l] > 0 => Live(l) /\ take[l] <= onHand[l]
    BY <1>0, StockAssumption, DrawTakes
  <2> DEFINE S == {l \in Lots : take[l] > 0}
             delta == [l \in Lots |-> 0 - take[l]]
  <2>3. delta \in [Lots -> Int]
    BY <2>2
  <2>4. UNCHANGED <<lots, request>> /\ "consume" \in Reason /\ S \in SUBSET Lots
    BY <1>6 DEF Consume, Reason
  <2>5. \A l \in S : onHand[l] + delta[l] >= 0 /\ status'[l] = "live"
    BY <1>0, <2>2, <2>4 DEF Live, lots, TypeOK
  <2>6. Post(S, delta, "consume", onHand, Standing)
    BY <2>1
  <2>7. \A l \in Lots : status'[l] = "deleted" => status[l] = "deleted"
    BY <2>4 DEF lots
  <2> HIDE DEF S, delta
  <2>8. NonNegative' /\ DrawnIsKept'
    BY <1>0, <1>a, <2>3, <2>4, <2>5, <2>6, <2>7, CalmPost
  <2>9. ReadsHold'
    <3>1. pc[r] = "idle" /\ picked[r] = {}
      BY <1>0, <1>6 DEF Consume, ReadsHold
    <3> QED
      BY <1>0, <2>4, <3>1 DEF ReadsHold, request
  <2> QED
    BY <2>8, <2>9 DEF Calm
<1>7. ASSUME NEW r \in Requests, CycleCount(r) PROVE Calm'
  <2>1. /\ aim[r] \in Lots /\ status[aim[r]] = "live"
        /\ seen[r][aim[r]] = onHand[aim[r]]
    BY <1>0, <1>7 DEF CycleCount, Aimed, ReadsHold, Live
  <2>2. PICK counted \in Units \cup {0} :
           LET delta == counted - seen[r][aim[r]]
           IN  IF delta = 0
               THEN UNCHANGED <<onHand, ledger>>
               ELSE Post({aim[r]}, [Zero EXCEPT ![aim[r]] = delta], "adjust",
                         onHand, Standing)
    BY <1>7 DEF CycleCount
  <2> DEFINE delta == counted - seen[r][aim[r]]
  <2>3. "adjust" \in Reason /\ UNCHANGED status /\ Respond(r)
    BY <1>7 DEF Reason, CycleCount, lots
  <2>4. CASE delta = 0
    <3>1. UNCHANGED <<onHand, drawn>>
      BY <2>2, <2>4 DEF ledger
    <3> QED
      BY <1>0, <2>3, <3>1, CalmResponse DEF Calm, NonNegative, DrawnIsKept
  <2>5. CASE delta # 0
    <3>1. Post({aim[r]}, [Zero EXCEPT ![aim[r]] = delta], "adjust", onHand, Standing)
      BY <2>2, <2>5
    <3>2. delta \in Int /\ onHand[aim[r]] + delta >= 0
      <4>1. onHand[aim[r]] \in Int
        BY <1>0, <2>1 DEF TypeOK
      <4>2. counted \in Int /\ counted >= 0
        BY StockAssumption
      <4> QED
        BY <2>1, <4>1, <4>2
    <3> HIDE DEF delta
    <3>3. /\ [Zero EXCEPT ![aim[r]] = delta] \in [Lots -> Int]
          /\ [Zero EXCEPT ![aim[r]] = delta][aim[r]] = delta
      BY <2>1, <3>2, OneMoved
    <3>4. NonNegative' /\ DrawnIsKept'
      <4>1. \A l \in {aim[r]} : /\ onHand[l] + [Zero EXCEPT ![aim[r]] = delta][l] >= 0
                               /\ status'[l] = "live"
        BY <2>1, <2>3, <3>2, <3>3
      <4>2. {aim[r]} \in SUBSET Lots
        BY <2>1
      <4> QED
        BY <1>0, <1>a, <2>3, <3>1, <3>3, <4>1, <4>2, CalmPost
    <3> QED
      BY <1>0, <2>3, <3>4, CalmResponse DEF Calm
  <2> QED
    BY <2>4, <2>5
<1>8. ASSUME NEW r \in Requests, OpenKit(r) PROVE Calm'
  <2> DEFINE k == aim[r]
             N == Cardinality(Items(part[k]))
  <2>1. /\ k \in Lots /\ part[k] \in Parts /\ status[k] = "live"
        /\ seen[r][k] = onHand[k]
    BY <1>0, <1>8 DEF OpenKit, Aimed, PartKnown, ReadsHold, Live
  <2>2. PICK n \in Units, holds \in Bijection(Fresh(N), Items(part[k])) :
           LET new == DOMAIN holds
           IN  /\ n <= seen[r][k]
               /\ status' = [l \in Lots |-> IF l \in new THEN "live" ELSE status[l]]
               /\ Post(new \cup {k}, Opened(k, n, holds), "opened", onHand, Standing \cup new)
    BY <1>8 DEF OpenKit, Opened
  <2>3. /\ Opened(k, n, holds) \in [Lots -> Int]
        /\ DOMAIN holds = Fresh(N)
        /\ holds \in [Fresh(N) -> Parts]
        /\ Fresh(N) \subseteq Lots
    BY <2>1, OpenedIsInt
  <2>4. Respond(r)
    BY <1>8 DEF OpenKit
  <2> HIDE DEF N
  <2>5. /\ Fresh(N) \cup {k} \in SUBSET Lots
        /\ Standing \cup Fresh(N) \in SUBSET Lots
        /\ "opened" \in Reason
    BY <1>a, <2>1, <2>3 DEF Reason
  <2>6. \A l \in Lots : /\ l \in Fresh(N) \cup {k} => status'[l] = "live"
                        /\ status'[l] = "deleted" => status[l] = "deleted"
    BY <2>1, <2>2, <2>3
  <2>7. onHand[k] + Opened(k, n, holds)[k] >= 0
    <3>1. n <= onHand[k] /\ n \in Int /\ onHand[k] \in Int
      <4>1. n <= onHand[k]
        BY <2>1, <2>2
      <4>2. n \in Int
        BY StockAssumption
      <4>3. onHand[k] \in Int
        BY <1>0, <2>1 DEF TypeOK
      <4> QED
        BY <4>1, <4>2, <4>3
    <3>2. Opened(k, n, holds)[k] = 0 - n
      BY <2>1 DEF Opened
    <3> QED
      BY <3>1, <3>2
  <2>8. ASSUME NEW l \in Fresh(N), l # k
        PROVE  onHand[l] + Opened(k, n, holds)[l] >= 0
    <3>1. Inside[part[k]][holds[l]] \in Nat
      BY <2>1, <2>3, StockAssumption
    <3>2. n * Inside[part[k]][holds[l]] \in Nat
      BY <3>1, Multiply, StockAssumption
    <3>3. Opened(k, n, holds)[l] = n * Inside[part[k]][holds[l]]
      BY <2>3, <2>8 DEF Opened
    <3>4. onHand[l] \in Int /\ onHand[l] >= 0
      BY <1>0, <2>3 DEF TypeOK, NonNegative
    <3> QED
      BY <3>2, <3>3, <3>4
  <2>9. Post(Fresh(N) \cup {k}, Opened(k, n, holds), "opened", onHand, Standing \cup Fresh(N))
    BY <2>2, <2>3
  <2> HIDE DEF k
  <2>10. NonNegative' /\ DrawnIsKept'
    BY <1>0, <2>3, <2>5, <2>6, <2>7, <2>8, <2>9, CalmPost
  <2> QED
    BY <1>0, <2>4, <2>10, CalmResponse DEF Calm
<1>9. ASSUME NEW r \in Requests, CloseKitCheck(r) PROVE Calm'
  <2>1. /\ picked' = [picked EXCEPT ![r] = Released(aim[r])]
        /\ seen' = [seen EXCEPT ![r] = [l \in Lots |-> IF l \in Released(aim[r])
                                                       THEN onHand[l] ELSE 0]]
        /\ pc[r] = "closing"
        /\ UNCHANGED <<status, onHand, drawn, pc, aim>>
    BY <1>9 DEF CloseKitCheck, lots, ledger
  <2>2. /\ picked'[r] = Released(aim[r])
        /\ \A l \in Released(aim[r]) : Live(l) /\ seen'[r][l] = onHand[l]
    BY <1>0, <2>1 DEF Released, TypeOK
  <2>3. ReadsHold'
    BY <1>0, <2>1, <2>2 DEF ReadsHold, Live
  <2> QED
    BY <1>0, <2>1, <2>3 DEF Calm, NonNegative, DrawnIsKept
<1>10. ASSUME NEW r \in Requests, CloseKit(r) PROVE Calm'
  <2> DEFINE k == aim[r]
             S == picked[r] \cup {k}
  <2>1. k \in Lots /\ status[k] = "live"
    BY <1>0, <1>10 DEF CloseKit, Aimed, ReadsHold, Live
  <2>2. PICK n \in Units \cup {0} :
           Post(S, [l \in Lots |-> IF l = k THEN n ELSE 0 - seen[r][l]],
                "closed", onHand, Standing)
    BY <1>10 DEF CloseKit
  <2> DEFINE delta == [l \in Lots |-> IF l = k THEN n ELSE 0 - seen[r][l]]
  <2>3. n \in Int /\ n >= 0
    BY StockAssumption
  <2>4. delta \in [Lots -> Int]
    BY <1>0, <2>3 DEF TypeOK
  <2>5. /\ S \in SUBSET Lots /\ "closed" \in Reason
        /\ UNCHANGED status /\ Respond(r)
    BY <1>0, <1>10, <2>1 DEF Reason, TypeOK, CloseKit, lots
  <2>6. \A l \in S : onHand[l] + delta[l] >= 0 /\ status'[l] = "live"
    <3>1. \A l \in picked[r] : /\ l \in Lots /\ status[l] = "live" /\ seen[r][l] = onHand[l]
      BY <1>0 DEF ReadsHold, Live, TypeOK
    <3>2. \A l \in Lots : onHand[l] \in Int /\ onHand[l] >= 0
      BY <1>0 DEF TypeOK, NonNegative
    <3> QED
      BY <2>1, <2>3, <2>5, <3>1, <3>2
  <2>7. Post(S, delta, "closed", onHand, Standing)
    BY <2>2
  <2> HIDE DEF S, delta
  <2>8. NonNegative' /\ DrawnIsKept'
    BY <1>0, <1>a, <2>4, <2>5, <2>6, <2>7, CalmPost
  <2> QED
    BY <1>0, <2>5, <2>8, CalmResponse DEF Calm
<1>11. ASSUME NEW r \in Requests, Refuse(r) PROVE Calm'
  <2>1. Respond(r) /\ UNCHANGED <<status, onHand, drawn>>
    BY <1>11 DEF Refuse, lots, ledger
  <2> QED
    BY <1>0, <2>1, CalmResponse DEF Calm, NonNegative, DrawnIsKept
<1>12. CASE UNCHANGED stockVars
  BY <1>0, <1>12 DEF Calm, NonNegative, DrawnIsKept, ReadsHold, Live,
                     stockVars, lots, ledger, request
<1>13. CASE StockNext
  <2>1. PICK r \in Requests : Screen(r)
    BY <1>13 DEF StockNext
  <2>2. ASSUME NEW l \in Lots,
               \/ View(r, l, "count", "counting")
               \/ View(r, l, "edit", "editing")
               \/ View(r, l, "open", "opening")
               \/ View(r, l, "close", "closing")
               \/ LotDeleteCheck(r, l)
        PROVE  Calm'
    BY <1>1, <2>2 DEF LotDeleteCheck, Busy
  <2> QED
    BY <1>2, <1>3, <1>4, <1>5, <1>6, <1>7, <1>8, <1>9, <1>10, <1>11, <2>1, <2>2
       DEF Screen, OpenOrClose
<1> QED
  BY <1>12, <1>13

LEMMA CalmHolds ==
  ASSUME \A r, s \in Requests : r = s
  PROVE  StockSpec => [](ShelfInv /\ Calm)
  BY ShelfInit, ShelfStep, CalmInit, CalmStep, PTL DEF StockSpec

\* With one request at a time, no lot ever holds less than nothing: every draw
\* is bounded by what is there.
THEOREM SerialNonNegative ==
  ASSUME \A r, s \in Requests : r = s
  PROVE  StockSpec => []NonNegative
<1>1. StockSpec => [](ShelfInv /\ Calm)
  BY CalmHolds
<1>2. Calm => NonNegative
  BY DEF Calm
<1> QED
  BY <1>1, <1>2, PTL

\* With one request at a time, what a job was charged for stays: a lot anything
\* came out of is never in the trash.
THEOREM SerialDrawnIsKept ==
  ASSUME \A r, s \in Requests : r = s
  PROVE  StockSpec => []DrawnIsKept
<1>1. StockSpec => [](ShelfInv /\ Calm)
  BY CalmHolds
<1>2. Calm => DrawnIsKept
  BY DEF Calm
<1> QED
  BY <1>1, <1>2, PTL

\* With one request at a time the edit form too saves what the lot holds, so the
\* quantity is the ledger's sum whatever screens are in use.
THEOREM SerialProjection ==
  ASSUME \A r, s \in Requests : r = s
  PROVE  StockSpec => []Projection
<1>1. StockSpec => [](ShelfInv /\ Calm)
  BY CalmHolds
<1>2. Calm => EditsInPlace
  BY DEF Calm, ReadsHold, EditsInPlace
<1>3. StockSpec => []Books
  BY <1>1, <1>2, BooksInit, BooksStep, PTL DEF StockSpec
<1>4. Books => Projection
  BY DEF Books
<1> QED
  BY <1>3, <1>4, PTL

-----------------------------------------------------------------------------
(* Boxes, with any number of requests at once: what came out of one, kits  *)
(* inside kits included.  close_kit() reads the lots outside the           *)
(* transaction that takes them, so what it has read is in the invariant.   *)

\* How many of part p fill n boxes of kit q, and what in q is not a box itself.
Filling(n, q, p) == n * Inside[q][p]
LooseIn(q) == {p \in Items(q) : Items(p) = {}}

\* Nothing is on record of a lot that does not exist, and no row moved nothing.
NotYet ==
  \A l \in Lots : status[l] = "absent" =>
    from[l] = NoLot /\ onHand[l] = 0 /\ \A why \in Reason : rows[l][why] = 0
RowsAccount == \A l \in Lots : \A why \in Reason : rows[l][why] = 0 => moved[l][why] = 0

\* A lot from a box stays on the shelf, and what is loose was put there by one opening.
CameOut(l) ==
  /\ status[l] = "live" /\ from[l] \in Lots /\ from[l] # l /\ status[from[l]] # "absent"
  /\ part[l] \in Items(part[from[l]])
  /\ rows[l]["opened"] >= 1
  /\ Items(part[l]) = {} => rows[l]["opened"] = 1

\* The n boxes that filled lot l filled a lot of each loose part beside it.
Together(l, n) ==
  /\ moved[l]["opened"] = Filling(n, part[from[l]], part[l])
  /\ \A p \in LooseIn(part[from[l]]) :
       \E m \in Lots : /\ from[m] = from[l] /\ part[m] = p
                       /\ moved[m]["opened"] = Filling(n, part[from[l]], p)

Boxed ==
  \A l \in Lots : from[l] # NoLot =>
    CameOut(l) /\ (rows[l]["opened"] = 1 => \E n \in Nat : Together(l, n))

\* So do the lots a request has read to put a box together again, as it read them.
ReadTogether(r, l, n) ==
  /\ seen[r][l] = Filling(n, part[aim[r]], part[l])
  /\ \A p \in LooseIn(part[aim[r]]) :
       \E m \in picked[r] : part[m] = p /\ seen[r][m] = Filling(n, part[aim[r]], p)

ReadSo ==
  \A r \in Requests : \A l \in picked[r] :
    /\ from[l] = aim[r] /\ from[l] # NoLot /\ seen[r][l] >= 0
    /\ \E n \in Nat : ReadTogether(r, l, n)

\* Only a request that closes a box has read any, and none deletes what came out of one.
InTheMiddle ==
  \A r \in Requests : /\ pc[r] # "closing" => picked[r] = {}
                      /\ pc[r] = "deleting" => from[aim[r]] = NoLot

KitInv == NotYet /\ RowsAccount /\ Boxed /\ ReadSo /\ InTheMiddle

\* There are no lots and no readers to begin with.
LEMMA KitInit == Init => KitInv
BY StockAssumption DEF Init, KitInv, NotYet, RowsAccount, Boxed, ReadSo, InTheMiddle, Zero

\* Lots that exist stay what they are, and nothing more comes out of a box.
LotsStay ==
  \A l \in Lots : status[l] # "absent" =>
    status'[l] # "absent" /\ part'[l] = part[l] /\ from'[l] = from[l]

KitsQuiet ==
  /\ LotsStay /\ from' = from /\ RowsAccount'
  /\ \A l \in Lots : from[l] # NoLot => status'[l] = "live"
  /\ \A l \in Lots : status'[l] = "absent" =>
       status[l] = "absent" /\ onHand'[l] = onHand[l] /\ rows'[l] = rows[l]
  /\ \A l \in Lots : moved'[l]["opened"] = moved[l]["opened"]
                     /\ rows'[l]["opened"] = rows[l]["opened"]

\* Nobody has read a box anew.
RequestsQuiet ==
  \A r \in Requests :
    \/ UNCHANGED <<pc[r], aim[r], seen[r], picked[r]>>
    \/ picked'[r] = {} /\ (pc'[r] = "deleting" => from'[aim'[r]] = NoLot)

NoneClosed == \A l \in Lots : moved'[l]["closed"] = moved[l]["closed"]

\* A step that is quiet about boxes keeps what is known of them...
LEMMA BoxesStill ==
  ASSUME KitInv, KitsQuiet
  PROVE  NotYet' /\ RowsAccount' /\ Boxed'
<1>1. NotYet /\ Boxed
  BY DEF KitInv
<1>2. RowsAccount' /\ from' = from /\ LotsStay
  BY DEF KitsQuiet
<1>3. NotYet'
  BY <1>1, <1>2 DEF KitsQuiet, NotYet
<1>4. ASSUME NEW l \in Lots, from[l] # NoLot
      PROVE  /\ CameOut(l)' /\ part'[l] = part[l] /\ part'[from[l]] = part[from[l]]
             /\ from[l] \in Lots /\ rows'[l]["opened"] = rows[l]["opened"]
             /\ moved'[l]["opened"] = moved[l]["opened"]
  <2>1. CameOut(l)
    BY <1>1, <1>4 DEF Boxed
  <2>2. status[l] # "absent" /\ from[l] \in Lots /\ status[from[l]] # "absent"
    BY <2>1 DEF CameOut
  <2>3. part'[l] = part[l] /\ part'[from[l]] = part[from[l]] /\ status'[from[l]] # "absent"
    BY <1>2, <2>2 DEF LotsStay
  <2>4. /\ status'[l] = "live" /\ rows'[l]["opened"] = rows[l]["opened"]
        /\ moved'[l]["opened"] = moved[l]["opened"]
    BY <1>4 DEF KitsQuiet
  <2> QED
    BY <1>2, <2>1, <2>2, <2>3, <2>4 DEF CameOut
<1>5. ASSUME NEW l \in Lots, from[l] # NoLot, NEW n \in Nat, Together(l, n)
      PROVE  Together(l, n)'
  <2>1. part'[l] = part[l] /\ part'[from[l]] = part[from[l]] /\ from[l] \in Lots
    BY <1>4, <1>5
  <2>2. moved'[l]["opened"] = Filling(n, part[from[l]], part[l])
    BY <1>4, <1>5 DEF Together
  <2>3. ASSUME NEW p \in LooseIn(part[from[l]])
        PROVE  \E m \in Lots : /\ from'[m] = from[l] /\ part'[m] = p
                               /\ moved'[m]["opened"] = Filling(n, part[from[l]], p)
    <3>1. PICK m \in Lots : /\ from[m] = from[l] /\ part[m] = p
                            /\ moved[m]["opened"] = Filling(n, part[from[l]], p)
      BY <1>5 DEF Together
    <3>2. part'[m] = part[m] /\ moved'[m]["opened"] = moved[m]["opened"]
      BY <1>4, <1>5, <3>1
    <3> QED
      BY <1>2, <3>1, <3>2
  <2>4. from'[l] = from[l]
    BY <1>2
  <2> QED
    BY <2>1, <2>2, <2>3, <2>4 DEF Together
<1>6. Boxed'
  <2> SUFFICES ASSUME NEW l \in Lots, from[l] # NoLot
               PROVE  CameOut(l)' /\ (rows'[l]["opened"] = 1 => \E n \in Nat : Together(l, n)')
    BY <1>2 DEF Boxed
  <2>1. rows[l]["opened"] = 1 => \E n \in Nat : Together(l, n)
    BY <1>1 DEF Boxed
  <2> QED
    BY <1>4, <1>5, <2>1
<1> QED
  BY <1>2, <1>3, <1>6

\* ...and, if nobody reads a box anew, what is known of those who have read one.
LEMMA ReadsStand ==
  ASSUME ShelfInv, KitInv, LotsStay, RequestsQuiet
  PROVE  ReadSo' /\ InTheMiddle'
<1>0. TypeOK /\ Aimed /\ ReadSo /\ InTheMiddle
  BY DEF ShelfInv, KitInv
<1>1. ASSUME NEW r \in Requests, UNCHANGED <<pc[r], aim[r], seen[r], picked[r]>>,
             NEW l \in picked[r]
      PROVE  /\ from'[l] = aim[r] /\ from'[l] # NoLot /\ seen[r][l] >= 0
             /\ \E n \in Nat : ReadTogether(r, l, n)'
  <2>1. picked[r] \in SUBSET Lots /\ \A m \in picked[r] : status[m] # "absent"
    BY <1>0 DEF TypeOK, Aimed
  <2>2. \A m \in picked[r] : part'[m] = part[m] /\ from'[m] = from[m]
    BY <2>1 DEF LotsStay
  <2>3. /\ from[l] = aim[r] /\ from[l] # NoLot /\ seen[r][l] >= 0
        /\ \E n \in Nat : ReadTogether(r, l, n)
    BY <1>0 DEF ReadSo
  <2>4. pc[r] # "idle"
    BY <1>0 DEF InTheMiddle
  <2>5. aim[r] \in Lots /\ status[aim[r]] # "absent"
    BY <1>0, <2>4 DEF Aimed
  <2>6. part'[aim[r]] = part[aim[r]]
    BY <2>5 DEF LotsStay
  <2>7. PICK n \in Nat : ReadTogether(r, l, n)
    BY <2>3
  <2>8. ReadTogether(r, l, n)'
    BY <1>1, <2>2, <2>6, <2>7 DEF ReadTogether
  <2> QED
    BY <2>2, <2>3, <2>8
<1>2. ReadSo'
  BY <1>1 DEF RequestsQuiet, ReadSo
<1>3. ASSUME NEW r \in Requests
      PROVE  /\ pc'[r] # "closing" => picked'[r] = {}
             /\ pc'[r] = "deleting" => from'[aim'[r]] = NoLot
  <2>1. CASE UNCHANGED <<pc[r], aim[r], seen[r], picked[r]>>
    <3>1. pc[r] = "deleting" => aim[r] \in Lots /\ status[aim[r]] # "absent"
      BY <1>0 DEF Aimed
    <3> QED
      BY <1>0, <2>1, <3>1 DEF InTheMiddle, LotsStay
  <2> QED
    BY <2>1 DEF RequestsQuiet
<1> QED
  BY <1>2, <1>3 DEF InTheMiddle

\* A movement leaves what was moved for another reason, and what does not exist, alone.
Left(S, delta, why) ==
  /\ RowsAccount'
  /\ \A l \in Lots : status'[l] = "absent" => onHand'[l] = onHand[l] /\ rows'[l] = rows[l]
  /\ \A l \in Lots : \A other \in Reason : other # why =>
       moved'[l][other] = moved[l][other] /\ rows'[l][other] = rows[l][other]
  /\ \A l \in S : /\ moved'[l][why] = moved[l][why] + delta[l]
                  /\ rows'[l][why] = rows[l][why] + 1
  /\ \A l \in Lots \ S : moved'[l] = moved[l] /\ rows'[l] = rows[l]

LEMMA PostLeaves ==
  ASSUME TypeOK, RowsAccount,
         NEW S \in SUBSET Lots, NEW delta, NEW why \in Reason, NEW held, NEW alive,
         Post(S, delta, why, held, alive),
         \A l \in S : status'[l] # "absent",
         \A l \in Lots \ S : held[l] = onHand[l]
  PROVE  Left(S, delta, why)
<1>1. ASSUME NEW l \in S
      PROVE  /\ \A other \in Reason : other # why =>
                  moved'[l][other] = moved[l][other] /\ rows'[l][other] = rows[l][other]
             /\ moved'[l][why] = moved[l][why] + delta[l]
             /\ rows'[l][why] = rows[l][why] + 1
  <2>1. moved'[l] = [moved[l] EXCEPT ![why] = @ + delta[l]]
    BY DEF Post
  <2>2. rows'[l] = [rows[l] EXCEPT ![why] = @ + 1]
    BY DEF Post
  <2>3. moved[l] \in [Reason -> Int] /\ rows[l] \in [Reason -> Nat]
    BY DEF TypeOK
  <2> QED
    BY <2>1, <2>2, <2>3
<1>2. \A l \in Lots \ S : moved'[l] = moved[l] /\ rows'[l] = rows[l] /\ onHand'[l] = onHand[l]
  BY DEF Post
<1>3. \A l \in S : rows[l][why] \in Nat
  BY DEF TypeOK
<1>4. RowsAccount'
  <2> SUFFICES ASSUME NEW l \in Lots, NEW other \in Reason, rows'[l][other] = 0
               PROVE  moved'[l][other] = 0
    BY DEF RowsAccount
  <2>1. CASE l \in S /\ other = why
    BY <1>1, <1>3, <2>1
  <2>2. CASE l \notin S \/ other # why
    BY <1>1, <1>2, <2>2 DEF RowsAccount
  <2> QED
    BY <2>1, <2>2
<1> QED
  BY <1>1, <1>2, <1>4 DEF Left

\* A movement of lots that exist, for a reason that is not a box's.
LEMMA QuietPost ==
  ASSUME TypeOK, KitInv,
         NEW S \in SUBSET Lots, NEW delta, NEW why \in Reason \ {"opened", "closed"},
         NEW held, NEW alive,
         Post(S, delta, why, held, alive),
         \A l \in Lots \ S : held[l] = onHand[l],
         \A l \in S : status'[l] # "absent",
         LotsStay, from' = from,
         \A l \in Lots : from[l] # NoLot => status'[l] = "live",
         \A l \in Lots : status'[l] = "absent" => status[l] = "absent"
  PROVE  KitsQuiet /\ NoneClosed
<1>0. RowsAccount /\ why \in Reason
  BY DEF KitInv
<1>1. "opened" \in Reason /\ "closed" \in Reason /\ why # "opened" /\ why # "closed"
  BY DEF Reason
<1>2. Left(S, delta, why)
  BY <1>0, PostLeaves
<1> QED
  BY <1>1, <1>2 DEF KitsQuiet, NoneClosed, Left

\* The screens of the shelf, but for opening and putting together.
ShelfScreen(r) ==
  \/ LotAdd(r) \/ LotAddRecord(r) \/ LotEditSave(r) \/ LotDeleteSave(r)
  \/ Consume(r) \/ CycleCount(r) \/ Refuse(r)
  \/ \E l \in Lots : \/ View(r, l, "count", "counting")
                     \/ View(r, l, "edit", "editing")
                     \/ View(r, l, "open", "opening")
                     \/ View(r, l, "close", "closing")
                     \/ LotDeleteCheck(r, l)

\* A response forgets what the request had read.
LEMMA RespondQuiet ==
  ASSUME TypeOK, NEW r \in Requests, Respond(r)
  PROVE  RequestsQuiet
<1>1. pc'[r] = "idle" /\ picked'[r] = {}
  BY RespondTypes
<1>2. \A s \in Requests \ {r} : UNCHANGED <<pc[s], aim[s], seen[s], picked[s]>>
  BY RespondTypes
<1> QED
  BY <1>1, <1>2 DEF RequestsQuiet

\* No other screen opens a box or puts one together.
LEMMA ScreensAreQuiet ==
  ASSUME ShelfInv, KitInv, NEW r \in Requests, ShelfScreen(r)
  PROVE  KitsQuiet /\ NoneClosed /\ RequestsQuiet
<1>0. TypeOK /\ PartKnown /\ Aimed /\ NotYet /\ RowsAccount /\ Boxed /\ InTheMiddle
  BY DEF ShelfInv, KitInv
<1>a. \A l \in Lots : from[l] # NoLot => status[l] = "live"
  BY <1>0 DEF Boxed, CameOut
\* The lots as they are, or moved without their ledger.
<1>b. ASSUME UNCHANGED <<part, from, moved, rows>>,
             \A l \in Lots : status[l] # "absent" => status'[l] # "absent",
             \A l \in Lots : status'[l] = "absent" => onHand'[l] = onHand[l],
             \A l \in Lots : from[l] # NoLot => status'[l] = "live"
      PROVE  KitsQuiet /\ NoneClosed
  BY <1>0, <1>b DEF KitsQuiet, NoneClosed, LotsStay, RowsAccount
<1>c. ASSUME NEW S \in SUBSET Lots, NEW delta, NEW why \in Reason \ {"opened", "closed"},
             NEW alive, Post(S, delta, why, onHand, alive),
             UNCHANGED lots, \A l \in S : status[l] # "absent"
      PROVE  KitsQuiet /\ NoneClosed
  <2>1. UNCHANGED <<status, part, from>>
    BY <1>c DEF lots
  <2>2. LotsStay
    BY <2>1 DEF LotsStay
  <2> QED
    BY <1>0, <1>a, <1>c, <2>1, <2>2, QuietPost
<1>1. CASE LotAdd(r)
  <2>1. PICK p \in Parts, l \in Fresh(1) :
           /\ status' = [status EXCEPT ![l] = "live"]
           /\ part' = [part EXCEPT ![l] = p]
           /\ aim' = [aim EXCEPT ![r] = l]
    BY <1>1 DEF LotAdd
  <2>2. l \in Lots /\ status[l] = "absent" /\ from[l] = NoLot
    BY <1>0, FreshIsAbsent DEF NotYet
  <2>3. UNCHANGED <<from, onHand, moved, rows, seen, picked>> /\ pc[r] = "idle"
    BY <1>1 DEF LotAdd, ledger
  <2>4. LotsStay /\ \A m \in Lots : status'[m] = "absent" => status[m] = "absent"
    BY <1>0, <2>1, <2>2, <2>3 DEF LotsStay, TypeOK
  <2>5. \A m \in Lots : from[m] # NoLot => status'[m] = "live"
    BY <1>0, <1>a, <2>1, <2>2 DEF TypeOK
  <2>6. KitsQuiet /\ NoneClosed
    BY <1>0, <2>3, <2>4, <2>5 DEF KitsQuiet, NoneClosed, RowsAccount
  <2>7. RequestsQuiet
    <3>1. pc' = [pc EXCEPT ![r] = "adding"]
      BY <1>1 DEF LotAdd
    <3>2. \A s \in Requests \ {r} : UNCHANGED <<pc[s], aim[s], seen[s], picked[s]>>
      BY <1>0, <2>1, <2>3, <3>1 DEF TypeOK
    <3>3. pc'[r] = "adding" /\ picked'[r] = {}
      BY <1>0, <2>3, <3>1 DEF TypeOK, InTheMiddle
    <3> QED
      BY <3>2, <3>3 DEF RequestsQuiet
  <2> QED
    BY <2>6, <2>7
<1>2. CASE LotAddRecord(r)
  <2>1. aim[r] \in Lots /\ status[aim[r]] # "absent"
    BY <1>0, <1>2 DEF LotAddRecord, Aimed
  <2>2. PICK n \in Units :
           Post({aim[r]}, [Zero EXCEPT ![aim[r]] = n], "found", onHand, Standing)
    BY <1>2 DEF LotAddRecord
  <2>3. UNCHANGED lots /\ "found" \in Reason \ {"opened", "closed"} /\ Respond(r)
    BY <1>2 DEF LotAddRecord, Reason
  <2>4. {aim[r]} \in SUBSET Lots
    BY <2>1
  <2> QED
    BY <1>0, <1>c, <2>1, <2>2, <2>3, <2>4, RespondQuiet
<1>3. CASE LotEditSave(r)
  <2>1. aim[r] \in Lots /\ status[aim[r]] # "absent"
    BY <1>0, <1>3 DEF LotEditSave, Aimed
  <2>2. /\ status' = [status EXCEPT ![aim[r]] = "live"]
        /\ onHand' = [onHand EXCEPT ![aim[r]] = seen[r][aim[r]]]
        /\ UNCHANGED <<part, from, moved, rows>> /\ Respond(r)
    BY <1>3 DEF LotEditSave, ledger
  <2>3. \A l \in Lots : status'[l] = IF l = aim[r] THEN "live" ELSE status[l]
    BY <1>0, <2>2 DEF TypeOK
  <2>4. \A l \in Lots : status'[l] = "absent" => onHand'[l] = onHand[l]
    BY <1>0, <2>2, <2>3 DEF TypeOK
  <2> QED
    BY <1>0, <1>a, <1>b, <2>2, <2>3, <2>4, RespondQuiet
<1>4. CASE LotDeleteSave(r)
  <2>1. aim[r] \in Lots /\ from[aim[r]] = NoLot
    BY <1>0, <1>4 DEF LotDeleteSave, Aimed, InTheMiddle
  <2>2. /\ status' = [status EXCEPT ![aim[r]] = "deleted"]
        /\ UNCHANGED <<part, from, moved, rows, onHand>> /\ Respond(r)
    BY <1>4 DEF LotDeleteSave, ledger
  <2>3. \A l \in Lots : status'[l] = IF l = aim[r] THEN "deleted" ELSE status[l]
    BY <1>0, <2>2 DEF TypeOK
  <2> QED
    BY <1>0, <1>a, <1>b, <2>1, <2>2, <2>3, RespondQuiet
<1>5. CASE Consume(r)
  <2>0. PICK p \in Parts, n \in Units :
           \E take \in Draws(p, n) :
             Post({l \in Lots : take[l] > 0}, [l \in Lots |-> 0 - take[l]], "consume",
                  onHand, Standing)
    BY <1>5 DEF Consume
  <2>1. PICK take \in Draws(p, n) :
           Post({l \in Lots : take[l] > 0}, [l \in Lots |-> 0 - take[l]], "consume",
                onHand, Standing)
    BY <2>0
  <2>2. \A l \in Lots : take[l] > 0 => Live(l)
    BY <1>0, StockAssumption, DrawTakes
  <2>3. \A l \in {m \in Lots : take[m] > 0} : status[l] # "absent"
    BY <2>2 DEF Live
  <2>4. UNCHANGED <<lots, request>> /\ "consume" \in Reason \ {"opened", "closed"}
    BY <1>5 DEF Consume, Reason
  <2> DEFINE S == {m \in Lots : take[m] > 0}
             delta == [l \in Lots |-> 0 - take[l]]
  <2>5. S \in SUBSET Lots /\ Post(S, delta, "consume", onHand, Standing)
    BY <2>1
  <2> HIDE DEF S, delta
  <2>6. \A l \in S : status[l] # "absent"
    BY <2>3 DEF S
  <2>7. RequestsQuiet
    BY <2>4 DEF request, RequestsQuiet
  <2> QED
    BY <1>c, <2>4, <2>5, <2>6, <2>7
<1>6. CASE CycleCount(r)
  <2>1. aim[r] \in Lots /\ status[aim[r]] # "absent"
    BY <1>0, <1>6 DEF CycleCount, Aimed
  <2>2. PICK counted \in Units \cup {0} :
           LET delta == counted - seen[r][aim[r]]
           IN  IF delta = 0
               THEN UNCHANGED <<onHand, ledger>>
               ELSE Post({aim[r]}, [Zero EXCEPT ![aim[r]] = delta], "adjust",
                         onHand, Standing)
    BY <1>6 DEF CycleCount
  <2>3. UNCHANGED lots /\ "adjust" \in Reason \ {"opened", "closed"} /\ Respond(r)
    BY <1>6 DEF CycleCount, Reason
  <2>4. {aim[r]} \in SUBSET Lots
    BY <2>1
  <2> DEFINE delta == counted - seen[r][aim[r]]
  <2>5. CASE UNCHANGED <<onHand, ledger>>
    BY <1>0, <1>a, <1>b, <2>3, <2>5, RespondQuiet DEF ledger, lots
  <2>6. CASE Post({aim[r]}, [Zero EXCEPT ![aim[r]] = delta], "adjust", onHand, Standing)
    <3> HIDE DEF delta
    <3> QED
      BY <1>0, <1>c, <2>1, <2>3, <2>4, <2>6, RespondQuiet
  <2> QED
    BY <2>2, <2>5, <2>6
<1>7. CASE Refuse(r)
  BY <1>0, <1>a, <1>b, <1>7, RespondQuiet DEF Refuse, lots, ledger
<1>8. ASSUME NEW l \in Lots, NEW screen, NEW doing, View(r, l, screen, doing),
             doing = "deleting" => from[l] = NoLot
      PROVE  KitsQuiet /\ NoneClosed /\ RequestsQuiet
  <2>1. /\ pc[r] = "idle" /\ pc' = [pc EXCEPT ![r] = doing] /\ aim' = [aim EXCEPT ![r] = l]
        /\ seen' = [seen EXCEPT ![r] = [Zero EXCEPT ![l] = onHand[l]]]
        /\ UNCHANGED <<status, part, from, moved, rows, onHand, picked>>
    BY <1>8 DEF View, lots, ledger
  <2>2. KitsQuiet /\ NoneClosed
    BY <1>a, <1>b, <2>1
  <2>3. \A s \in Requests \ {r} : UNCHANGED <<pc[s], aim[s], seen[s], picked[s]>>
    BY <1>0, <2>1 DEF TypeOK
  <2>4. pc'[r] = doing /\ aim'[r] = l /\ picked'[r] = {}
    BY <1>0, <2>1 DEF TypeOK, InTheMiddle
  <2>5. RequestsQuiet
    BY <1>8, <2>1, <2>3, <2>4 DEF RequestsQuiet
  <2> QED
    BY <2>2, <2>5
<1> QED
  BY <1>1, <1>2, <1>3, <1>4, <1>5, <1>6, <1>7, <1>8 DEF ShelfScreen, LotDeleteCheck

\* What opening n boxes of lot k leaves behind: a new lot of each part that is in one.
BoxOpened(k, n, holds, new) ==
  /\ k \in Lots /\ status[k] # "absent" /\ part[k] \in Parts /\ Items(part[k]) # {}
  /\ \A l \in new : l \in Lots /\ status[l] = "absent" /\ holds[l] \in Items(part[k])
  /\ \A p \in Items(part[k]) : \E l \in new : holds[l] = p
  /\ \A l, m \in new : holds[l] = holds[m] => l = m
  /\ \A l \in Lots : /\ status'[l] = IF l \in new THEN "live" ELSE status[l]
                     /\ part'[l] = IF l \in new THEN holds[l] ELSE part[l]
                     /\ from'[l] = IF l \in new THEN k ELSE from[l]
                     /\ moved'[l]["closed"] = moved[l]["closed"]
                     /\ moved'[l]["consume"] = moved[l]["consume"]
                     /\ moved'[l]["receive"] = moved[l]["receive"]
                     /\ moved'[l]["found"] = moved[l]["found"]
                     /\ rows'[l]["adjust"] = rows[l]["adjust"]
  /\ \A l \in new : /\ moved'[l]["opened"] = Filling(n, part[k], holds[l])
                    /\ onHand'[l] = Filling(n, part[k], holds[l])
                    /\ rows'[l]["opened"] = 1
  /\ moved'[k]["opened"] = moved[k]["opened"] - n /\ onHand'[k] <= onHand[k]
  /\ rows'[k]["opened"] = rows[k]["opened"] + 1
  /\ \A l \in Lots \ (new \cup {k}) :
       moved'[l] = moved[l] /\ rows'[l] = rows[l] /\ onHand'[l] = onHand[l]
  /\ RowsAccount'

\* open_kit() does that, for some number of boxes and some pairing of lots with contents.
LEMMA OpenKitOpens ==
  ASSUME ShelfInv, KitInv, NEW r \in Requests, OpenKit(r)
  PROVE  /\ \E n \in Nat : \E holds, new : BoxOpened(aim[r], n, holds, new)
         /\ Respond(r)
<1>0. TypeOK /\ PartKnown /\ Aimed /\ NotYet /\ RowsAccount
  BY DEF ShelfInv, KitInv
<1> DEFINE k == aim[r]
           N == Cardinality(Items(part[k]))
<1>1. k \in Lots /\ part[k] \in Parts /\ status[k] # "absent" /\ Items(part[k]) # {}
  BY <1>0 DEF OpenKit, Aimed, PartKnown
<1>2. PICK n \in Units, holds \in Bijection(Fresh(N), Items(part[k])) :
         LET new == DOMAIN holds
         IN  /\ status' = [l \in Lots |-> IF l \in new THEN "live" ELSE status[l]]
             /\ part' = [l \in Lots |-> IF l \in new THEN holds[l] ELSE part[l]]
             /\ from' = [l \in Lots |-> IF l \in new THEN k ELSE from[l]]
             /\ Post(new \cup {k}, Opened(k, n, holds), "opened", onHand, Standing \cup new)
  BY DEF OpenKit, Opened
<1> DEFINE new == Fresh(N)
<1>3. DOMAIN holds = new /\ new \subseteq Lots /\ Opened(k, n, holds) \in [Lots -> Int]
  BY <1>1, OpenedIsInt
<1>4. \A l \in new : status[l] = "absent"
  BY FreshIsAbsent
<1>5. /\ \A l \in new : holds[l] \in Items(part[k])
      /\ \A p \in Items(part[k]) : \E l \in new : holds[l] = p
      /\ \A l, m \in new : holds[l] = holds[m] => l = m
  BY <1>3 DEF Bijection, Injection, Surjection, IsInjective
<1>6. n \in Nat
  BY StockAssumption
<1> DEFINE S == new \cup {k}
           delta == Opened(k, n, holds)
<1>7. /\ Post(S, delta, "opened", onHand, Standing \cup new)
      /\ \A l \in Lots : /\ status'[l] = IF l \in new THEN "live" ELSE status[l]
                         /\ part'[l] = IF l \in new THEN holds[l] ELSE part[l]
                         /\ from'[l] = IF l \in new THEN k ELSE from[l]
  BY <1>2, <1>3
<1>8. k \notin new
  BY <1>1, <1>4
<1>9. delta[k] = 0 - n /\ \A l \in new : delta[l] = Filling(n, part[k], holds[l])
  BY <1>1, <1>3, <1>8 DEF Opened, Filling
<1>10. \A l \in new : onHand[l] = 0 /\ rows[l]["opened"] = 0 /\ moved[l]["opened"] = 0
  BY <1>0, <1>3, <1>4 DEF NotYet, RowsAccount, Reason
<1>11. ASSUME NEW l \in new PROVE delta[l] \in Int
  BY <1>3
<1> HIDE DEF N, delta
<1>12. new \in SUBSET Lots /\ S \in SUBSET Lots /\ S = new \cup {k}
  BY <1>1, <1>3
<1> HIDE DEF S, new
<1>13. \A l \in S : status'[l] # "absent"
  BY <1>1, <1>7, <1>12
<1>14. "opened" \in Reason /\ \A l \in Lots \ S : onHand[l] = onHand[l]
  BY DEF Reason
<1>15. Left(S, delta, "opened")
  BY <1>0, <1>7, <1>12, <1>13, <1>14, PostLeaves
<1>16. /\ \A l \in new : onHand'[l] = onHand[l] + delta[l]
       /\ onHand'[k] = onHand[k] + delta[k] \/ onHand'[k] = onHand[k]
       /\ \A l \in Lots \ S : onHand'[l] = onHand[l]
  BY <1>1, <1>7, <1>12 DEF Post
<1>17. moved[k]["opened"] \in Int /\ onHand[k] \in Int
  BY <1>0, <1>1 DEF TypeOK, Reason
<1>18. {"closed", "consume", "receive", "found", "adjust"} \subseteq Reason
  BY DEF Reason
<1>19. ASSUME NEW l \in new
       PROVE  /\ moved'[l]["opened"] = Filling(n, part[k], holds[l])
              /\ onHand'[l] = Filling(n, part[k], holds[l])
              /\ rows'[l]["opened"] = 1
  <2>1. moved'[l]["opened"] = 0 + delta[l] /\ onHand'[l] = 0 + delta[l] /\ rows'[l]["opened"] = 0 + 1
    BY <1>10, <1>12, <1>15, <1>16 DEF Left
  <2>2. delta[l] \in Int /\ delta[l] = Filling(n, part[k], holds[l])
    BY <1>9, <1>11
  <2> HIDE DEF k
  <2> QED
    BY <2>1, <2>2
<1>20. /\ moved'[k]["opened"] = moved[k]["opened"] - n /\ onHand'[k] <= onHand[k]
       /\ rows'[k]["opened"] = rows[k]["opened"] + 1
  <2>1. k \in S /\ delta[k] = 0 - n
    BY <1>9, <1>12
  <2> HIDE DEF k
  <2> QED
    BY <1>6, <1>15, <1>16, <1>17, <2>1 DEF Left
<1>21. Respond(r)
  BY DEF OpenKit
<1> HIDE DEF k
<1>22. BoxOpened(k, n, holds, new)
  BY <1>1, <1>4, <1>5, <1>7, <1>12, <1>15, <1>16, <1>18, <1>19, <1>20 DEF BoxOpened, Left
<1> QED
  BY <1>6, <1>21, <1>22 DEF k

\* Opening a box makes lots that fill as many boxes each; a box that was itself out of a
\* box has more than one row from then on.
LEMMA OpenKitBoxes ==
  ASSUME ShelfInv, KitInv, NEW r \in Requests, OpenKit(r)
  PROVE  KitInv'
<1>0. NotYet /\ Boxed /\ TypeOK
  BY DEF KitInv, ShelfInv
<1>1. PICK n \in Nat : \E holds, new : BoxOpened(aim[r], n, holds, new)
  BY OpenKitOpens
<1> DEFINE k == aim[r]
<1>2. PICK holds, new : BoxOpened(k, n, holds, new)
  BY <1>1
<1> HIDE DEF k
<1>3. LotsStay
  BY <1>2 DEF BoxOpened, LotsStay
<1>4. NotYet'
  <2> SUFFICES ASSUME NEW l \in Lots, status'[l] = "absent"
               PROVE  from'[l] = NoLot /\ onHand'[l] = 0 /\ \A why \in Reason : rows'[l][why] = 0
    BY DEF NotYet
  <2>1. l \notin new /\ l # k /\ status[l] = "absent"
    BY <1>2 DEF BoxOpened
  <2> QED
    BY <1>0, <1>2, <2>1 DEF BoxOpened, NotYet
<1>5. k \notin new /\ k \in Lots /\ part'[k] = part[k] /\ status'[k] # "absent"
  BY <1>2 DEF BoxOpened
\* The lots that came out of it.
<1>6. ASSUME NEW l \in new
      PROVE  l \in Lots /\ CameOut(l)' /\ Together(l, n)'
  <2>1. /\ l \in Lots /\ l # k /\ status'[l] = "live" /\ from'[l] = k /\ part'[l] = holds[l]
        /\ holds[l] \in Items(part[k])
        /\ rows'[l]["opened"] = 1
        /\ moved'[l]["opened"] = Filling(n, part[k], holds[l])
    BY <1>2, <1>5 DEF BoxOpened
  <2>2. CameOut(l)'
    BY <1>5, <2>1 DEF CameOut
  <2>3. ASSUME NEW p \in LooseIn(part[k])
        PROVE  \E m \in Lots : /\ from'[m] = k /\ part'[m] = p
                               /\ moved'[m]["opened"] = Filling(n, part[k], p)
    <3>1. PICK m \in new : holds[m] = p
      BY <1>2 DEF BoxOpened, LooseIn
    <3> QED
      BY <1>2, <3>1 DEF BoxOpened
  <2> QED
    BY <1>5, <2>1, <2>2, <2>3 DEF Together
\* The lots that were out of one already, this one perhaps among them.
<1>7. ASSUME NEW l \in Lots, l \notin new, from[l] # NoLot
      PROVE  CameOut(l)' /\ (rows'[l]["opened"] = 1 => \E i \in Nat : Together(l, i)')
  <2>1. CameOut(l) /\ (rows[l]["opened"] = 1 => \E i \in Nat : Together(l, i))
    BY <1>0, <1>7 DEF Boxed
  <2>2. from[l] \in Lots /\ from[l] \notin new
    BY <1>2, <2>1 DEF CameOut, BoxOpened
  <2>3. /\ status'[l] = status[l] /\ part'[l] = part[l] /\ from'[l] = from[l]
        /\ part'[from[l]] = part[from[l]] /\ status'[from[l]] = status[from[l]]
    BY <1>2, <1>7, <2>2 DEF BoxOpened
  <2>4. rows[l]["opened"] \in Nat
    BY <1>0 DEF TypeOK, Reason
  <2>5. CASE l = k
    <3>1. rows'[l]["opened"] = rows[l]["opened"] + 1 /\ Items(part[l]) # {}
      BY <1>2, <2>5 DEF BoxOpened
    <3> QED
      BY <2>1, <2>3, <2>4, <3>1 DEF CameOut
  <2>6. CASE l # k
    <3>1. rows'[l] = rows[l] /\ moved'[l] = moved[l]
      BY <1>2, <1>7, <2>6 DEF BoxOpened
    <3>2. CameOut(l)'
      BY <2>1, <2>3, <3>1 DEF CameOut
    <3>3. ASSUME NEW i \in Nat, Together(l, i) PROVE Together(l, i)'
      <4>1. ASSUME NEW p \in LooseIn(part[from[l]])
            PROVE  \E m \in Lots : /\ from'[m] = from[l] /\ part'[m] = p
                                   /\ moved'[m]["opened"] = Filling(i, part[from[l]], p)
        <5>1. PICK m \in Lots : /\ from[m] = from[l] /\ part[m] = p
                                /\ moved[m]["opened"] = Filling(i, part[from[l]], p)
          BY <3>3 DEF Together
        <5>2. m # k
          BY <1>2, <5>1 DEF BoxOpened, LooseIn
        <5>3. m \notin new
          BY <1>0, <1>2, <1>7, <5>1 DEF NotYet, BoxOpened
        <5> QED
          BY <1>2, <5>1, <5>2, <5>3 DEF BoxOpened
      <4> QED
        BY <2>3, <3>1, <3>3, <4>1 DEF Together
    <3> QED
      BY <2>1, <3>1, <3>2, <3>3
  <2> QED
    BY <2>5, <2>6
<1>8. Boxed'
  <2> SUFFICES ASSUME NEW l \in Lots, from'[l] # NoLot
               PROVE  CameOut(l)' /\ (rows'[l]["opened"] = 1 => \E i \in Nat : Together(l, i)')
    BY DEF Boxed
  <2>1. l \notin new => from[l] # NoLot
    BY <1>2 DEF BoxOpened
  <2> QED
    BY <1>6, <1>7, <2>1
<1>9. RowsAccount'
  BY <1>2 DEF BoxOpened
<1>10. RequestsQuiet
  BY <1>0, OpenKitOpens, RespondQuiet
<1> QED
  BY <1>3, <1>4, <1>8, <1>9, <1>10, ReadsStand DEF KitInv

\* A single row is the one that is known.
LEMMA OnlyRow ==
  ASSUME NEW f \in [Reason -> Nat], OfReasons(f) = 1, f["opened"] >= 1
  PROVE  f["opened"] = 1 /\ \A why \in Reason : why # "opened" => f[why] = 0
<1>1. ASSUME NEW a \in Nat, NEW b \in Nat, NEW c \in Nat, NEW d \in Nat, NEW e \in Nat,
             NEW g \in Nat, NEW h \in Nat, a + b + c + d + e + g + h = 1, g >= 1
      PROVE  a = 0 /\ b = 0 /\ c = 0 /\ d = 0 /\ e = 0 /\ g = 1 /\ h = 0
  BY <1>1
<1>2. /\ f["receive"] \in Nat /\ f["unreceive"] \in Nat /\ f["found"] \in Nat
      /\ f["consume"] \in Nat /\ f["adjust"] \in Nat /\ f["opened"] \in Nat
      /\ f["closed"] \in Nat
  BY DEF Reason
<1>3. /\ f["opened"] = 1 /\ f["receive"] = 0 /\ f["unreceive"] = 0 /\ f["found"] = 0
      /\ f["consume"] = 0 /\ f["adjust"] = 0 /\ f["closed"] = 0
  BY <1>1, <1>2 DEF OfReasons
<1> QED
  BY <1>3 DEF Reason

\* A released lot that nobody touched holds what its opening put into it.
LEMMA UntouchedHolds ==
  ASSUME TypeOK, RowsAccount, NEW l \in Lots, Untouched(l), rows[l]["opened"] >= 1
  PROVE  rows[l]["opened"] = 1 /\ onHand[l] = moved[l]["opened"]
<1>1. rows[l] \in [Reason -> Nat] /\ moved[l] \in [Reason -> Int]
  BY DEF TypeOK
<1>2. OfReasons(rows[l]) = 1 /\ onHand[l] = OfReasons(moved[l])
  BY DEF Untouched, Entries, Balance
<1>3. /\ rows[l]["opened"] = 1
      /\ \A why \in Reason : why # "opened" => rows[l][why] = 0
  BY <1>1, <1>2, OnlyRow
<1>4. \A why \in Reason : why # "opened" => moved[l][why] = 0
  BY <1>3 DEF RowsAccount
<1>5. OfReasons(moved[l]) = moved[l]["opened"]
  BY <1>1, <1>4 DEF OfReasons, Reason
<1> QED
  BY <1>2, <1>3, <1>5

\* What fills boxes is counted.
LEMMA FillingIsNat ==
  ASSUME NEW n \in Nat, NEW q \in Parts, NEW p \in Parts PROVE Filling(n, q, p) \in Nat
<1>1. Inside[q][p] \in Nat
  BY StockAssumption
<1> QED
  BY <1>1, Multiply DEF Filling

\* close_kit() refuses unless every lot it reads is as its opening left it, so the
\* quantities it reads fill as many boxes each.
LEMMA CheckReadsBoxes ==
  ASSUME ShelfInv, KitInv, NEW r \in Requests, CloseKitCheck(r)
  PROVE  KitInv' /\ KitsQuiet /\ NoneClosed
<1>0. TypeOK /\ PartKnown /\ Aimed /\ NotYet /\ RowsAccount /\ Boxed /\ ReadSo /\ InTheMiddle
  BY DEF ShelfInv, KitInv
<1> DEFINE k == aim[r]
<1>1. /\ pc[r] = "closing" /\ picked' = [picked EXCEPT ![r] = Released(k)]
      /\ seen' = [seen EXCEPT ![r] = [l \in Lots |-> IF l \in Released(k) THEN onHand[l] ELSE 0]]
      /\ \A l \in Released(k) : Untouched(l)
      /\ UNCHANGED <<status, part, from, onHand, moved, rows, pc, aim>>
  BY DEF CloseKitCheck, lots, ledger
<1>2. k \in Lots /\ status[k] # "absent" /\ part[k] \in Parts /\ k # NoLot
  BY <1>0, <1>1, StockAssumption DEF Aimed, PartKnown
<1>3. KitsQuiet /\ NoneClosed
  BY <1>0, <1>1 DEF KitsQuiet, NoneClosed, LotsStay, RowsAccount, Boxed, CameOut
<1>4. NotYet' /\ RowsAccount' /\ Boxed'
  BY <1>3, BoxesStill
<1>5. InTheMiddle'
  <2>1. \A s \in Requests : pc'[s] # "closing" => picked'[s] = picked[s]
    BY <1>0, <1>1 DEF TypeOK
  <2> QED
    BY <1>0, <1>1, <2>1 DEF InTheMiddle
<1>6. /\ picked'[r] = Released(k)
      /\ \A l \in Released(k) : l \in Lots /\ seen'[r][l] = onHand[l]
      /\ \A s \in Requests \ {r} : picked'[s] = picked[s] /\ seen'[s] = seen[s]
  BY <1>0, <1>1 DEF TypeOK, Released
\* Each is of this lot and untouched.
<1>7. ASSUME NEW l \in Lots, from[l] = k
      PROVE  /\ l \in Released(k) /\ seen'[r][l] = moved[l]["opened"]
             /\ \E n \in Nat : Together(l, n)
             /\ part[l] \in Parts /\ CameOut(l)
  <2>1. CameOut(l) /\ (rows[l]["opened"] = 1 => \E n \in Nat : Together(l, n))
    BY <1>0, <1>2, <1>7 DEF Boxed
  <2>2. l \in Released(k)
    BY <1>7, <2>1 DEF CameOut, Released, Live
  <2>3. rows[l]["opened"] = 1 /\ onHand[l] = moved[l]["opened"]
    BY <1>0, <1>1, <2>1, <2>2, UntouchedHolds DEF CameOut
  <2> QED
    BY <1>6, <2>1, <2>2, <2>3 DEF CameOut, Items
<1>8. ASSUME NEW l \in Released(k)
      PROVE  /\ from'[l] = aim'[r] /\ from'[l] # NoLot /\ seen'[r][l] >= 0
             /\ \E n \in Nat : ReadTogether(r, l, n)'
  <2>1. l \in Lots /\ from[l] = k
    BY DEF Released
  <2>2. PICK n \in Nat : Together(l, n)
    BY <1>7, <2>1
  <2>3. seen'[r][l] = Filling(n, part[k], part[l]) /\ part[l] \in Parts
    BY <1>7, <2>1, <2>2 DEF Together
  <2>4. ASSUME NEW p \in LooseIn(part[k])
        PROVE  \E m \in Released(k) : part[m] = p /\ seen'[r][m] = Filling(n, part[k], p)
    <3>1. PICK m \in Lots : /\ from[m] = k /\ part[m] = p
                            /\ moved[m]["opened"] = Filling(n, part[k], p)
      BY <2>1, <2>2 DEF Together
    <3> QED
      BY <1>7, <3>1
  <2>5. seen'[r][l] >= 0
    BY <1>2, <2>3, FillingIsNat
  <2>0. aim'[r] = k /\ part' = part /\ picked'[r] = Released(k)
    BY <1>1, <1>6
  <2>6. ReadTogether(r, l, n)'
    BY <2>0, <2>3, <2>4 DEF ReadTogether
  <2>7. from' = from /\ k # NoLot
    BY <1>1, <1>2
  <2> QED
    BY <2>0, <2>1, <2>5, <2>6, <2>7
<1>9. ASSUME NEW s \in Requests, s # r, NEW l \in picked[s]
      PROVE  /\ from'[l] = aim'[s] /\ from'[l] # NoLot /\ seen'[s][l] >= 0
             /\ \E n \in Nat : ReadTogether(s, l, n)'
  <2>1. /\ from[l] = aim[s] /\ from[l] # NoLot /\ seen[s][l] >= 0
        /\ \E n \in Nat : ReadTogether(s, l, n)
    BY <1>0 DEF ReadSo
  <2>2. PICK n \in Nat : ReadTogether(s, l, n)
    BY <2>1
  <2>0. UNCHANGED <<part, aim>> /\ picked'[s] = picked[s] /\ seen'[s] = seen[s]
    BY <1>1, <1>6, <1>9
  <2>3. ReadTogether(s, l, n)'
    BY <2>0, <2>2 DEF ReadTogether
  <2> QED
    BY <1>1, <1>6, <1>9, <2>1, <2>3
<1>10. ReadSo'
  BY <1>6, <1>8, <1>9 DEF ReadSo
<1> QED
  BY <1>3, <1>4, <1>5, <1>10 DEF KitInv

\* What putting a box together leaves behind.
BoxClosed(r, k, n) ==
  /\ k \in Lots /\ status[k] # "absent" /\ part[k] \in Parts
  /\ picked[r] # {} /\ picked[r] \subseteq Lots /\ k \notin picked[r]
  /\ \E l \in picked[r] : seen[r][l] = n * Inside[part[k]][part[l]]
  /\ UNCHANGED <<status, part, from>>
  /\ \A l \in Lots : /\ moved'[l]["opened"] = moved[l]["opened"]
                     /\ moved'[l]["consume"] = moved[l]["consume"]
                     /\ moved'[l]["receive"] = moved[l]["receive"]
                     /\ moved'[l]["found"] = moved[l]["found"]
                     /\ rows'[l]["adjust"] = rows[l]["adjust"]
  /\ \A l \in picked[r] : /\ moved'[l]["closed"] = moved[l]["closed"] - seen[r][l]
                          /\ onHand'[l] <= onHand[l]
  /\ moved'[k]["closed"] = moved[k]["closed"] + n /\ onHand'[k] <= onHand[k] + n
  /\ \A l \in Lots \ (picked[r] \cup {k}) : moved'[l] = moved[l] /\ onHand'[l] = onHand[l]

\* close_kit() does that, to the lots it read, whatever happened to them since.
LEMMA CloseKitCloses ==
  ASSUME ShelfInv, KitInv, NEW r \in Requests, CloseKit(r)
  PROVE  /\ \E n \in Nat : BoxClosed(r, aim[r], n)
         /\ KitInv'
<1>0. TypeOK /\ PartKnown /\ Aimed /\ NotYet /\ RowsAccount /\ Boxed /\ ReadSo
  BY DEF ShelfInv, KitInv
<1> DEFINE k == aim[r]
           S == picked[r] \cup {k}
<1>1. /\ picked[r] # {} /\ UNCHANGED <<status, part, from>> /\ Respond(r)
      /\ pc[r] = "closing"
  BY DEF CloseKit, lots
<1>2. k \in Lots /\ part[k] \in Parts /\ status[k] # "absent"
  BY <1>0, <1>1 DEF Aimed, PartKnown
<1>3. PICK n \in Units \cup {0} :
         /\ BoxesFilled(r, n)
         /\ Post(S, [l \in Lots |-> IF l = k THEN n ELSE 0 - seen[r][l]],
                 "closed", onHand, Standing)
  BY DEF CloseKit
<1> DEFINE delta == [l \in Lots |-> IF l = k THEN n ELSE 0 - seen[r][l]]
<1>4. Post(S, delta, "closed", onHand, Standing)
  BY <1>3
<1>5. n \in Nat
  BY StockAssumption
<1>6. /\ picked[r] \in SUBSET Lots /\ S \in SUBSET Lots
      /\ \A l \in S : status[l] # "absent"
  BY <1>0, <1>2 DEF Aimed, TypeOK
<1>7. \A l \in picked[r] : from[l] = k /\ from[l] # NoLot /\ seen[r][l] >= 0 /\ seen[r][l] \in Int
  BY <1>0, <1>6 DEF ReadSo, TypeOK
<1>8. k \notin picked[r]
  BY <1>0, <1>6, <1>7 DEF Boxed, CameOut
<1>9. delta[k] = n /\ \A l \in picked[r] : delta[l] = 0 - seen[r][l]
  BY <1>2, <1>6, <1>8
<1>10. \E l \in picked[r] : seen[r][l] = n * Inside[part[k]][part[l]]
  BY <1>3 DEF BoxesFilled
<1>11. S = picked[r] \cup {k}
  OBVIOUS
<1> HIDE DEF delta, S
<1>12. /\ "closed" \in Reason /\ \A l \in Lots \ S : onHand[l] = onHand[l]
       /\ \A l \in S : status'[l] # "absent"
  BY <1>1, <1>6 DEF Reason
<1>13. Left(S, delta, "closed")
  BY <1>0, <1>4, <1>6, <1>12, PostLeaves
<1>14. \A l \in Lots : onHand'[l] = IF l \in S /\ l \in Standing THEN onHand[l] + delta[l] ELSE onHand[l]
  BY <1>4 DEF Post
<1>15. \A l \in Lots : onHand[l] \in Int /\ moved[l]["closed"] \in Int
  BY <1>0 DEF TypeOK, Reason
<1>16. ASSUME NEW l \in picked[r]
       PROVE  moved'[l]["closed"] = moved[l]["closed"] - seen[r][l] /\ onHand'[l] <= onHand[l]
  <2>1. l \in S /\ l \in Lots /\ delta[l] = 0 - seen[r][l] /\ seen[r][l] \in Int /\ seen[r][l] >= 0
    BY <1>6, <1>7, <1>9, <1>11
  <2> QED
    BY <1>13, <1>14, <1>15, <2>1 DEF Left
<1>17. moved'[k]["closed"] = moved[k]["closed"] + n /\ onHand'[k] <= onHand[k] + n
  <2>1. k \in S /\ k \in Lots /\ delta[k] = n
    BY <1>2, <1>9, <1>11
  <2> HIDE DEF k
  <2> QED
    BY <1>5, <1>13, <1>14, <1>15, <2>1 DEF Left
<1>18. {"opened", "consume", "receive", "found", "adjust"} \subseteq Reason
  BY DEF Reason
<1>19. \A l \in Lots : /\ moved'[l]["opened"] = moved[l]["opened"]
                       /\ rows'[l]["opened"] = rows[l]["opened"]
                       /\ moved'[l]["consume"] = moved[l]["consume"]
                       /\ moved'[l]["receive"] = moved[l]["receive"]
                       /\ moved'[l]["found"] = moved[l]["found"]
                       /\ rows'[l]["adjust"] = rows[l]["adjust"]
  BY <1>13, <1>18 DEF Left
<1>20. \A l \in Lots \ (picked[r] \cup {k}) : moved'[l] = moved[l] /\ onHand'[l] = onHand[l]
  BY <1>11, <1>13, <1>14 DEF Left
<1>21. KitsQuiet
  <2>1. LotsStay
    BY <1>1 DEF LotsStay
  <2>2. \A l \in Lots : from[l] # NoLot => status'[l] = "live"
    BY <1>0, <1>1 DEF Boxed, CameOut
  <2> QED
    BY <1>1, <1>13, <1>19, <2>1, <2>2 DEF KitsQuiet, Left
<1>22. RequestsQuiet
  BY <1>0, <1>1, RespondQuiet
<1>23. KitInv'
  <2>1. LotsStay
    BY <1>21 DEF KitsQuiet
  <2> QED
    BY <1>21, <1>22, <2>1, BoxesStill, ReadsStand DEF KitInv
<1> HIDE DEF k
<1>24. BoxClosed(r, k, n)
  BY <1>1, <1>2, <1>6, <1>8, <1>10, <1>16, <1>17, <1>19, <1>20 DEF BoxClosed
<1> QED
  BY <1>5, <1>23, <1>24 DEF k

-----------------------------------------------------------------------------
(* What stands loose came out of boxes that are not on the shelf.          *)

Out == [l \in Lots |-> moved[l]["opened"] + moved[l]["closed"]]
OutOf(k, p) == {l \in Lots : from[l] = k /\ part[l] = p}

OutBounded ==
  \A k \in Lots : from[k] = NoLot /\ part[k] \in Parts =>
    \A p \in LooseIn(part[k]) :
      SumFunctionOnSet(Out, OutOf(k, p)) <= Filling(BoxesOpen(k), part[k], p)

\* It is the property, with the sums taken as the lemmas about sums take them.
LEMMA OutIsNothingFromNowhere == OutBounded => NothingFromNowhere
<1> SUFFICES ASSUME OutBounded, NEW k \in KitLots, NEW p \in LooseItems(k)
             PROVE  PartsOut(k, p) <= BoxesOpen(k) * Inside[part[k]][p]
  BY DEF NothingFromNowhere
<1>1. k \in Lots /\ from[k] = NoLot /\ part[k] \in Parts /\ p \in LooseIn(part[k])
  BY DEF KitLots, LooseItems, LooseIn
<1> DEFINE f == [l \in {m \in Lots : from[m] = k /\ part[m] = p} |->
                   moved[l]["opened"] + moved[l]["closed"]]
<1>2. DOMAIN f = OutOf(k, p) /\ IsFiniteSet(OutOf(k, p))
  BY StockAssumption, FS_Subset DEF OutOf
<1>3. \A l \in OutOf(k, p) : f[l] = Out[l]
  BY DEF Out, OutOf
<1>4. PartsOut(k, p) = SumFunctionOnSet(f, OutOf(k, p))
  BY <1>2 DEF PartsOut, SumOver, FoldFunction, SumFunctionOnSet
<1> HIDE DEF f
<1>5. SumFunctionOnSet(f, OutOf(k, p)) = SumFunctionOnSet(Out, OutOf(k, p))
  BY <1>2, <1>3, SumSame
<1> QED
  BY <1>1, <1>4, <1>5 DEF OutBounded, Filling

\* What came out of the lots is counted in whole numbers,
LEMMA OutIsInt ==
  ASSUME TypeOK
  PROVE  /\ \A l \in Lots : Out[l] \in Int /\ Out[l] = moved[l]["opened"] + moved[l]["closed"]
         /\ \A l \in Lots : moved[l]["opened"] \in Int /\ moved[l]["closed"] \in Int
<1>1. \A l \in Lots : moved[l]["opened"] \in Int /\ moved[l]["closed"] \in Int
  BY DEF TypeOK, Reason
<1> QED
  BY <1>1 DEF Out

\* over finitely many lots;
LEMMA OutOfIsFinite ==
  ASSUME NEW k, NEW p PROVE IsFiniteSet(OutOf(k, p)) /\ OutOf(k, p) \subseteq Lots
BY StockAssumption, FS_Subset DEF OutOf

\* so is what fills boxes,
LEMMA FillingIsInt ==
  ASSUME NEW a \in Int, NEW q \in Parts, NEW p \in Parts
  PROVE  Filling(a, q, p) \in Int
BY StockAssumption DEF Filling

\* which adds up box by box,
LEMMA FillingAdds ==
  ASSUME NEW a \in Int, NEW n \in Int, NEW q \in Parts, NEW p \in Parts
  PROVE  /\ Filling(a, q, p) \in Int /\ Filling(n, q, p) \in Int
         /\ Filling(a + n, q, p) = Filling(a, q, p) + Filling(n, q, p)
         /\ Filling(a - n, q, p) = Filling(a, q, p) - Filling(n, q, p)
         /\ Filling(0, q, p) = 0
<1>1. Inside[q][p] \in Int
  BY StockAssumption
<1>2. ASSUME NEW b \in Int
      PROVE  /\ a * b \in Int /\ n * b \in Int
             /\ (a + n) * b = a * b + n * b /\ (a - n) * b = a * b - n * b /\ 0 * b = 0
  OBVIOUS
<1> QED
  BY <1>1, <1>2 DEF Filling

\* and tells how many boxes there were.
LEMMA FillingOnce ==
  ASSUME NEW m \in Nat, NEW n \in Nat, NEW q \in Parts, NEW p \in Items(q),
         Filling(m, q, p) = Filling(n, q, p)
  PROVE  m = n
<1>1. Inside[q][p] \in Nat /\ Inside[q][p] > 0
  BY StockAssumption DEF Items
<1>2. ASSUME NEW b \in Nat, b > 0, m * b = n * b PROVE m = n
  <2>1. CASE m < n
    <3>1. (n - m) * b = n * b - m * b /\ n - m > 0 /\ n - m \in Nat
      BY <2>1
    <3>2. \A c \in Nat : c > 0 => c * b > 0
      BY <1>2
    <3> QED
      BY <1>2, <3>1, <3>2
  <2>2. CASE n < m
    <3>1. (m - n) * b = m * b - n * b /\ m - n > 0 /\ m - n \in Nat
      BY <2>2
    <3>2. \A c \in Nat : c > 0 => c * b > 0
      BY <1>2
    <3> QED
      BY <1>2, <3>1, <3>2
  <2> QED
    BY <2>1, <2>2
<1> QED
  BY <1>1, <1>2 DEF Filling

\* Nothing is out to begin with,
LEMMA OutInit == Init => OutBounded
<1> SUFFICES ASSUME Init, NEW k \in Lots, part[k] \in Parts PROVE FALSE
  BY DEF OutBounded
<1> QED
  BY StockAssumption DEF Init

\* and what is out stays so in a step that is quiet about boxes.
LEMMA QuietOut ==
  ASSUME ShelfInv, KitInv, OutBounded, KitsQuiet, NoneClosed
  PROVE  OutBounded'
<1>0. TypeOK /\ NotYet /\ RowsAccount /\ Boxed /\ LotsStay /\ from' = from
  BY DEF ShelfInv, KitInv, KitsQuiet
<1> SUFFICES ASSUME NEW k \in Lots, from'[k] = NoLot, part'[k] \in Parts,
                    NEW p \in LooseIn(part'[k])
             PROVE  SumFunctionOnSet(Out', OutOf(k, p)') <= Filling(BoxesOpen(k)', part'[k], p)
  BY DEF OutBounded
<1>1. \A l \in Lots : from[l] # NoLot =>
        part'[l] = part[l] /\ from[l] \in Lots /\ status[from[l]] # "absent"
  BY <1>0 DEF Boxed, CameOut, LotsStay
<1>2. k # NoLot
  BY StockAssumption
<1>3. OutOf(k, p)' = OutOf(k, p)
  BY <1>0, <1>1, <1>2 DEF OutOf
<1>4. \A l \in Lots : /\ moved'[l]["opened"] = moved[l]["opened"]
                      /\ moved'[l]["closed"] = moved[l]["closed"]
  BY DEF KitsQuiet, NoneClosed
<1>5. \A l \in OutOf(k, p) : Out'[l] = Out[l]
  BY <1>4, OutOfIsFinite DEF Out
<1>6. SumFunctionOnSet(Out', OutOf(k, p)') = SumFunctionOnSet(Out, OutOf(k, p))
  <2> DEFINE S == OutOf(k, p)
             f == Out
             g == Out'
  <2>1. IsFiniteSet(S) /\ \A l \in S : g[l] = f[l]
    BY <1>5, OutOfIsFinite
  <2> HIDE DEF S, f, g
  <2>2. SumFunctionOnSet(g, S) = SumFunctionOnSet(f, S)
    BY <2>1, SumSame
  <2> QED
    BY <1>3, <2>2 DEF S, f, g
<1>7. BoxesOpen(k)' = BoxesOpen(k)
  BY <1>4 DEF BoxesOpen
<1>8. CASE status[k] # "absent"
  <2>1. part'[k] = part[k] /\ from[k] = NoLot
    BY <1>0, <1>8 DEF LotsStay
  <2> QED
    BY <1>6, <1>7, <2>1 DEF OutBounded
<1>9. CASE status[k] = "absent"
  <2>1. OutOf(k, p) = {}
    BY <1>1, <1>2, <1>9 DEF OutOf
  <2>2. moved[k]["opened"] = 0 /\ moved[k]["closed"] = 0
    BY <1>0, <1>9 DEF NotYet, RowsAccount, Reason
  <2>3. BoxesOpen(k) = 0
    BY <2>2 DEF BoxesOpen
  <2>4. p \in Parts
    BY DEF LooseIn, Items
  <2>5. Filling(0, part'[k], p) = 0
    BY <2>4, FillingAdds
  <2> QED
    BY <1>6, <1>7, <2>1, <2>3, <2>5, SumEmpty
<1> QED
  BY <1>8, <1>9

\* Opening n boxes lets out, of each loose part, what fills n boxes, in a lot of its own.
LEMMA OpenedOut ==
  ASSUME ShelfInv, ShelfInv', KitInv, OutBounded, NEW r \in Requests, OpenKit(r)
  PROVE  OutBounded'
<1>0. TypeOK /\ TypeOK' /\ NotYet /\ RowsAccount /\ Boxed
  BY DEF ShelfInv, KitInv
<1>1. PICK n \in Nat : \E holds, new : BoxOpened(aim[r], n, holds, new)
  BY OpenKitOpens
<1> DEFINE k == aim[r]
<1>2. PICK holds, new : BoxOpened(k, n, holds, new)
  BY <1>1
<1> HIDE DEF k
<1>3. /\ k \in Lots /\ k \notin new /\ part[k] \in Parts /\ Items(part[k]) # {} /\ k # NoLot
      /\ \A l \in new : l \in Lots /\ from[l] = NoLot
  BY <1>0, <1>2, StockAssumption DEF BoxOpened, NotYet
<1> SUFFICES ASSUME NEW j \in Lots, from'[j] = NoLot, part'[j] \in Parts,
                    NEW p \in LooseIn(part'[j])
             PROVE  SumFunctionOnSet(Out', OutOf(j, p)') <= Filling(BoxesOpen(j)', part'[j], p)
  BY DEF OutBounded
<1>4. j \notin new /\ from[j] = NoLot /\ part'[j] = part[j] /\ j # NoLot /\ p \in Parts
  BY <1>2, <1>3, StockAssumption DEF BoxOpened, LooseIn, Items
<1>5. SumFunctionOnSet(Out, OutOf(j, p)) <= Filling(BoxesOpen(j), part[j], p)
  BY <1>4 DEF OutBounded
\* A loose part is not the box, and was there before the box was opened.
<1>6. ASSUME NEW l \in OutOf(j, p)
      PROVE  /\ l \in Lots /\ l # k /\ l \notin new
             /\ from'[l] = j /\ part'[l] = p /\ Out'[l] = Out[l] /\ Out[l] \in Int
  <2>1. l \in Lots /\ from[l] = j /\ part[l] = p
    BY DEF OutOf
  <2>2. l # k /\ l \notin new
    BY <1>3, <1>4, <2>1 DEF LooseIn
  <2>3. moved'[l] = moved[l] /\ from'[l] = from[l] /\ part'[l] = part[l]
    BY <1>2, <2>1, <2>2 DEF BoxOpened
  <2>4. Out'[l] = Out[l] /\ Out[l] \in Int
    BY <1>0, <2>1, <2>3, OutIsInt DEF Out
  <2> QED
    BY <2>1, <2>2, <2>3, <2>4
<1> DEFINE S == OutOf(j, p)
           T == OutOf(j, p)'
           f == Out
           g == Out'
<1>7. /\ IsFiniteSet(S) /\ S \subseteq Lots /\ T = {l \in Lots : from'[l] = j /\ part'[l] = p}
      /\ \A l \in S : g[l] = f[l] /\ f[l] \in Int
  BY <1>6, OutOfIsFinite DEF OutOf
<1>8. BoxesOpen(j) \in Int
  BY <1>0, OutIsInt DEF BoxesOpen
<1>9. CASE j # k
  <2>1. T = S
    <3>1. ASSUME NEW l \in Lots, from'[l] = j PROVE from[l] = from'[l] /\ part[l] = part'[l]
      BY <1>2, <1>9, <3>1 DEF BoxOpened
    <3> QED
      BY <1>6, <1>7, <3>1 DEF OutOf
  <2>2. BoxesOpen(j)' = BoxesOpen(j)
    BY <1>2, <1>4, <1>9 DEF BoxOpened, BoxesOpen
  <2> HIDE DEF S, T, f, g
  <2>3. SumFunctionOnSet(g, S) = SumFunctionOnSet(f, S)
    BY <1>7, SumSame
  <2>4. SumFunctionOnSet(g, T) = SumFunctionOnSet(f, S)
    BY <2>1, <2>3
  <2> QED
    BY <1>4, <1>5, <2>2, <2>4 DEF S, T, f, g
<1>10. CASE j = k
  <2>1. PICK m \in new : holds[m] = p
    BY <1>2, <1>4, <1>10 DEF BoxOpened, LooseIn
  <2>2. /\ m \in Lots /\ m \notin S /\ m \notin OutOf(j, p)
        /\ \A l \in new : holds[l] = p => l = m
    BY <1>2, <1>6, <2>1 DEF BoxOpened
  <2>3. T = S \cup {m}
    <3>1. ASSUME NEW l \in Lots, l \notin new PROVE from[l] = from'[l] /\ part[l] = part'[l]
      BY <1>2, <3>1 DEF BoxOpened
    <3>2. \A l \in new : from'[l] = j /\ part'[l] = holds[l]
      BY <1>2, <1>10 DEF BoxOpened
    <3> QED
      BY <1>6, <1>7, <2>1, <2>2, <3>1, <3>2 DEF OutOf
  <2>4. g[m] = Filling(n, part[k], p)
    <3>1. moved'[m]["opened"] = Filling(n, part[k], p) /\ moved'[m]["closed"] = moved[m]["closed"]
      BY <1>2, <2>1, <2>2 DEF BoxOpened
    <3>2. status[m] = "absent"
      BY <1>2, <2>1 DEF BoxOpened
    <3>3. moved[m]["closed"] = 0
      BY <1>0, <2>2, <3>2 DEF NotYet, RowsAccount, Reason
    <3>4. Filling(n, part[k], p) \in Int
      BY <1>3, <1>4, FillingIsInt
    <3> QED
      BY <2>2, <3>1, <3>3, <3>4 DEF Out
  <2>5. Filling(n, part[k], p) \in Int
    BY <1>3, <1>4, FillingIsInt
  <2>6. BoxesOpen(j)' = BoxesOpen(j) + n
    <3>1. moved'[k]["opened"] = moved[k]["opened"] - n /\ moved'[k]["closed"] = moved[k]["closed"]
      BY <1>2, <1>3 DEF BoxOpened
    <3>2. moved[k]["opened"] \in Int /\ moved[k]["closed"] \in Int
      BY <1>0, <1>3, OutIsInt
    <3> QED
      BY <1>10, <3>1, <3>2 DEF BoxesOpen
  <2>7. Filling(BoxesOpen(j) + n, part[k], p) =
          Filling(BoxesOpen(j), part[k], p) + Filling(n, part[k], p)
        /\ Filling(BoxesOpen(j), part[k], p) \in Int
    <3>1. /\ BoxesOpen(j) \in Int /\ n \in Int /\ part[k] \in Parts /\ p \in Parts
      BY <1>3, <1>4, <1>8
    <3> HIDE DEF BoxesOpen
    <3> QED
      BY <3>1, FillingAdds
  <2> HIDE DEF S, T, f, g
  <2>8. SumFunctionOnSet(g, S) = SumFunctionOnSet(f, S) /\ SumFunctionOnSet(f, S) \in Int
    BY <1>7, SumSame, SumInt
  <2>9. \A l \in S \cup {m} : g[l] \in Int
    BY <1>7, <2>4, <2>5
  <2>10. SumFunctionOnSet(g, S \cup {m}) = g[m] + SumFunctionOnSet(g, S)
    BY <1>7, <2>2, <2>9, SumPutIn
  <2>11. SumFunctionOnSet(g, T) <= Filling(BoxesOpen(j)', part[k], p)
    <3>1. SumFunctionOnSet(f, S) <= Filling(BoxesOpen(j), part[k], p)
      BY <1>5, <1>10 DEF S, f
    <3> HIDE DEF BoxesOpen
    <3> QED
      BY <2>3, <2>4, <2>5, <2>6, <2>7, <2>8, <2>10, <3>1
  <2> QED
    BY <1>4, <1>10, <2>11 DEF T, g
<1> QED
  BY <1>9, <1>10

\* Putting n boxes together takes in what fills n boxes of each loose part, from lots that
\* are beside the box.  A second request that read the same lots takes them in again, which
\* leaves less out than the boxes account for, never more.
LEMMA ClosedOut ==
  ASSUME ShelfInv, ShelfInv', KitInv, OutBounded, NEW r \in Requests, CloseKit(r)
  PROVE  OutBounded'
<1>0. TypeOK /\ TypeOK' /\ PartKnown /\ Boxed /\ ReadSo
  BY DEF ShelfInv, KitInv
<1>1. PICK n \in Nat : BoxClosed(r, aim[r], n)
  BY CloseKitCloses
<1> DEFINE k == aim[r]
<1>2. BoxClosed(r, k, n)
  BY <1>1
<1>3. \A l \in picked[r] : /\ l \in Lots /\ from[l] = k /\ seen[r][l] >= 0 /\ seen[r][l] \in Int
                           /\ part[l] \in Items(part[k])
                           /\ \E i \in Nat : ReadTogether(r, l, i)
  BY <1>0, <1>2 DEF BoxClosed, ReadSo, Boxed, CameOut, TypeOK
<1>4. /\ k \in Lots /\ part[k] \in Parts /\ Items(part[k]) # {} /\ k \notin picked[r]
      /\ UNCHANGED <<part, from>>
  BY <1>2, <1>3 DEF BoxClosed
\* The lot that fills most boxes has one of each loose part beside it that fills as many.
<1>5. ASSUME NEW p \in LooseIn(part[k])
      PROVE  \E m \in picked[r] : part[m] = p /\ seen[r][m] = Filling(n, part[k], p)
  <2>1. PICK l \in picked[r] : seen[r][l] = n * Inside[part[k]][part[l]]
    BY <1>2 DEF BoxClosed
  <2>2. PICK i \in Nat : ReadTogether(r, l, i)
    BY <1>3
  <2>3. Filling(i, part[k], part[l]) = Filling(n, part[k], part[l])
    BY <2>1, <2>2 DEF ReadTogether, Filling
  <2>4. i = n
    BY <1>3, <1>4, <2>3, FillingOnce
  <2> QED
    BY <2>2, <2>4 DEF ReadTogether
<1> HIDE DEF k
<1> SUFFICES ASSUME NEW j \in Lots, from'[j] = NoLot, part'[j] \in Parts,
                    NEW p \in LooseIn(part'[j])
             PROVE  SumFunctionOnSet(Out', OutOf(j, p)') <= Filling(BoxesOpen(j)', part'[j], p)
  BY DEF OutBounded
<1>6. /\ from[j] = NoLot /\ part'[j] = part[j] /\ j # NoLot /\ p \in Parts /\ part[j] \in Parts
      /\ p \in LooseIn(part[j])
  BY <1>4, StockAssumption DEF LooseIn, Items
<1>7. SumFunctionOnSet(Out, OutOf(j, p)) <= Filling(BoxesOpen(j), part[j], p)
  BY <1>6 DEF OutBounded
<1>8. OutOf(j, p)' = OutOf(j, p)
  BY <1>4 DEF OutOf
<1>9. \A l \in OutOf(j, p) : l \in Lots /\ from[l] = j /\ part[l] = p /\ l # k
  BY <1>4, <1>6 DEF OutOf, LooseIn
<1>10. \A l \in Lots : /\ Out[l] \in Int /\ Out'[l] \in Int
                       /\ Out[l] = moved[l]["opened"] + moved[l]["closed"]
                       /\ Out'[l] = moved'[l]["opened"] + moved'[l]["closed"]
                       /\ moved[l]["opened"] \in Int /\ moved[l]["closed"] \in Int
  <2>1. \A l \in Lots : moved'[l]["opened"] \in Int /\ moved'[l]["closed"] \in Int
    BY <1>0 DEF TypeOK, Reason
  <2>2. \A l \in Lots : Out'[l] = moved'[l]["opened"] + moved'[l]["closed"]
    BY DEF Out
  <2> QED
    BY <1>0, <2>1, <2>2, OutIsInt
<1>11. \A l \in Lots : /\ l \notin picked[r] /\ l # k => Out'[l] = Out[l]
                       /\ l \in picked[r] => Out'[l] = Out[l] - seen[r][l]
  <2> SUFFICES ASSUME NEW l \in Lots
               PROVE  /\ l \notin picked[r] /\ l # k => Out'[l] = Out[l]
                      /\ l \in picked[r] => Out'[l] = Out[l] - seen[r][l]
    OBVIOUS
  <2>1. CASE l \in picked[r]
    <3>1. moved'[l]["opened"] = moved[l]["opened"]
          /\ moved'[l]["closed"] = moved[l]["closed"] - seen[r][l]
      BY <1>2, <2>1 DEF BoxClosed
    <3> QED
      BY <1>3, <1>10, <2>1, <3>1
  <2>2. CASE l \notin picked[r] /\ l # k
    <3>1. moved'[l] = moved[l]
      BY <1>2, <2>2 DEF BoxClosed
    <3> QED
      BY <1>10, <2>2, <3>1
  <2> QED
    BY <2>1, <2>2
<1>12. BoxesOpen(j) \in Int
  BY <1>0, OutIsInt DEF BoxesOpen
<1> DEFINE S == OutOf(j, p)
           f == Out
           g == Out'
<1>13. /\ IsFiniteSet(S) /\ \A l \in S : f[l] \in Int /\ g[l] \in Int
  BY <1>9, <1>10, OutOfIsFinite
<1>14. CASE j # k
  <2>1. \A l \in S : g[l] = f[l]
    BY <1>3, <1>9, <1>11, <1>14
  <2>2. BoxesOpen(j)' = BoxesOpen(j)
    <3>1. j \notin picked[r]
      BY <1>3, <1>4, <1>6, StockAssumption
    <3>2. moved'[j] = moved[j]
      BY <1>2, <1>14, <3>1 DEF BoxClosed
    <3> QED
      BY <3>2 DEF BoxesOpen
  <2> HIDE DEF S, f, g
  <2>3. SumFunctionOnSet(g, S) = SumFunctionOnSet(f, S)
    BY <1>13, <2>1, SumSame
  <2> QED
    BY <1>6, <1>7, <1>8, <2>2, <2>3 DEF S, f, g
<1>15. CASE j = k
  <2>1. PICK m \in picked[r] : part[m] = p /\ seen[r][m] = Filling(n, part[k], p)
    BY <1>5, <1>6, <1>15
  <2>2. m \in S /\ g[m] = f[m] - Filling(n, part[k], p) /\ Filling(n, part[k], p) \in Int
    BY <1>3, <1>11, <1>15, <2>1 DEF OutOf
  <2>3. \A l \in S : g[l] <= f[l]
    <3> SUFFICES ASSUME NEW l \in S PROVE g[l] <= f[l]
      OBVIOUS
    <3>1. l \in Lots /\ l # k
      BY <1>9
    <3>2. CASE l \in picked[r]
      <4>1. g[l] = f[l] - seen[r][l] /\ seen[r][l] \in Int /\ seen[r][l] >= 0 /\ f[l] \in Int
        BY <1>3, <1>10, <1>11, <3>1, <3>2
      <4> HIDE DEF f, g
      <4> QED
        BY <4>1
    <3>3. CASE l \notin picked[r]
      <4>1. g[l] = f[l] /\ f[l] \in Int
        BY <1>10, <1>11, <3>1, <3>3
      <4> HIDE DEF f, g
      <4> QED
        BY <4>1
    <3> QED
      BY <3>2, <3>3
  <2>4. BoxesOpen(j)' = BoxesOpen(j) - n
    <3>1. moved'[k]["opened"] = moved[k]["opened"] /\ moved'[k]["closed"] = moved[k]["closed"] + n
      BY <1>2, <1>4 DEF BoxClosed
    <3>2. moved[k]["opened"] \in Int /\ moved[k]["closed"] \in Int
      BY <1>4, <1>10
    <3> QED
      BY <1>15, <3>1, <3>2 DEF BoxesOpen
  <2>5. Filling(BoxesOpen(j) - n, part[k], p) =
          Filling(BoxesOpen(j), part[k], p) - Filling(n, part[k], p)
        /\ Filling(BoxesOpen(j), part[k], p) \in Int
    <3>1. /\ BoxesOpen(j) \in Int /\ n \in Int /\ part[k] \in Parts /\ p \in Parts
      BY <1>4, <1>6, <1>12
    <3> HIDE DEF BoxesOpen
    <3> QED
      BY <3>1, FillingAdds
  <2>6. SumFunctionOnSet(f, S) <= Filling(BoxesOpen(j), part[k], p)
    BY <1>7, <1>15
  <2> HIDE DEF S, f, g
  <2> DEFINE h == [l \in S |-> IF l = m THEN g[l] ELSE f[l]]
  <2>7. /\ \A l \in S : g[l] <= h[l] /\ h[l] \in Int
        /\ h[m] = g[m] /\ \A l \in S \ {m} : h[l] = f[l]
    BY <1>13, <2>2, <2>3
  <2> HIDE DEF h
  <2>8. SumFunctionOnSet(g, S) <= SumFunctionOnSet(h, S)
    BY <1>13, <2>7, SumAtMost
  <2>9. SumFunctionOnSet(h, S) = SumFunctionOnSet(f, S) + (h[m] - f[m])
    BY <1>13, <2>2, <2>7, SumChange
  <2>10. /\ SumFunctionOnSet(f, S) \in Int /\ SumFunctionOnSet(g, S) \in Int
         /\ SumFunctionOnSet(h, S) \in Int /\ f[m] \in Int /\ h[m] = f[m] - Filling(n, part[k], p)
    BY <1>13, <2>2, <2>7, SumInt
  <2>11. SumFunctionOnSet(g, S) <= Filling(BoxesOpen(j)', part[k], p)
    <3> HIDE DEF BoxesOpen
    <3> QED
      BY <2>2, <2>4, <2>5, <2>6, <2>8, <2>9, <2>10
  <2> QED
    BY <1>6, <1>8, <1>15, <2>11 DEF S, g
<1> QED
  BY <1>14, <1>15

-----------------------------------------------------------------------------
(* What is used has come in, with any number of requests at once.          *)

\* What is not counted, and is loose if it is out of a box.
Plain(l) == rows[l]["adjust"] = 0 /\ (from[l] # NoLot => Items(part[l]) = {})

\* What was used of the lot and what it holds came in on it, and what was used did where
\* it holds less than nothing.
Covered(l) ==
  /\ 0 - moved[l]["consume"] <= CameIn(l)
  /\ onHand[l] - moved[l]["consume"] <= CameIn(l)

Fair == \A l \in Lots : Plain(l) => Covered(l)

\* What a step may do to a lot: let some in, let some go, or take what it holds.
LetIn(l) ==
  \E n \in Nat : /\ CameIn(l)' = CameIn(l) + n
                 /\ moved'[l]["consume"] = moved[l]["consume"]
                 /\ onHand'[l] <= onHand[l] + n \/ onHand'[l] <= n
TakesOut(l) ==
  \E n \in Nat : /\ CameIn(l)' = CameIn(l) /\ n <= onHand[l]
                 /\ moved'[l]["consume"] = moved[l]["consume"] - n
                 /\ onHand'[l] = onHand[l] - n
Gently == \A l \in Lots : Plain(l)' => Plain(l) /\ (LetIn(l) \/ TakesOut(l))

\* All of it is counted in whole numbers.
LEMMA CameInIsInt ==
  ASSUME TypeOK
  PROVE  \A l \in Lots : /\ CameIn(l) \in Int /\ onHand[l] \in Int
                         /\ moved[l]["consume"] \in Int
  BY DEF TypeOK, CameIn, Reason

\* Neither lets out more than came in.
LEMMA CoveredStill ==
  ASSUME TypeOK, TypeOK', NEW l \in Lots, Covered(l), LetIn(l) \/ TakesOut(l)
  PROVE  Covered(l)'
<1>1. /\ CameIn(l) \in Int /\ onHand[l] \in Int /\ moved[l]["consume"] \in Int
      /\ CameIn(l)' \in Int /\ onHand'[l] \in Int /\ moved'[l]["consume"] \in Int
  <2>1. onHand'[l] \in Int /\ moved'[l]["consume"] \in Int /\ CameIn(l)' \in Int
    BY DEF TypeOK, CameIn, Reason
  <2> QED
    BY <2>1, CameInIsInt
<1>2. CASE LetIn(l)
  <2>1. PICK n \in Nat : /\ CameIn(l)' = CameIn(l) + n
                         /\ moved'[l]["consume"] = moved[l]["consume"]
                         /\ onHand'[l] <= onHand[l] + n \/ onHand'[l] <= n
    BY <1>2 DEF LetIn
  <2> QED
    BY <1>1, <2>1 DEF Covered
<1>3. CASE TakesOut(l)
  <2>1. PICK n \in Nat : /\ CameIn(l)' = CameIn(l) /\ n <= onHand[l]
                         /\ moved'[l]["consume"] = moved[l]["consume"] - n
                         /\ onHand'[l] = onHand[l] - n
    BY <1>3 DEF TakesOut
  <2> QED
    BY <1>1, <2>1 DEF Covered
<1> QED
  BY <1>2, <1>3

\* So a step that does no more than that, lot by lot, keeps what is used covered.
LEMMA FairStill == ASSUME TypeOK, TypeOK', Fair, Gently PROVE Fair'
  BY CoveredStill DEF Fair, Gently

\* A lot of which nothing moved.
LEMMA Nothing ==
  ASSUME TypeOK, NEW l \in Lots, moved'[l] = moved[l], onHand'[l] <= onHand[l],
         from'[l] = from[l]
  PROVE  LetIn(l)
<1>1. CameIn(l)' = CameIn(l) + 0 /\ onHand[l] + 0 = onHand[l]
  BY CameInIsInt DEF CameIn
<1> QED
  BY <1>1 DEF LetIn

\* What the movements of the shelf have in common, lot by lot.
Fits(l, n, why, held, alive) ==
  /\ n \in Int
  /\ \/ why = "adjust"
     \/ why \in {"receive", "found"} /\ n >= 0 /\ (held[l] = onHand[l] \/ held[l] = 0)
     \/ why = "unreceive" /\ n <= 0 /\ held[l] = onHand[l]
     \/ why = "consume" /\ n <= 0 /\ 0 - n <= onHand[l] /\ held[l] = onHand[l] /\ l \in alive

\* Such a movement is gentle with every lot: it lets some in, takes some out, or counts.
LEMMA PostGently ==
  ASSUME TypeOK, RowsAccount,
         NEW S \in SUBSET Lots, NEW delta, NEW why \in Reason, NEW held, NEW alive,
         Post(S, delta, why, held, alive),
         \A l \in S : status'[l] # "absent" /\ Fits(l, delta[l], why, held, alive),
         \A l \in Lots \ S : held[l] = onHand[l],
         from' = from, \A l \in Lots : from[l] # NoLot => part'[l] = part[l]
  PROVE  Gently
<1>1. Left(S, delta, why)
  BY PostLeaves
<1>2. \A l \in Lots : onHand'[l] = IF l \in S /\ l \in alive THEN held[l] + delta[l] ELSE held[l]
  BY DEF Post
<1>3. {"receive", "found", "consume", "adjust", "opened", "closed", "unreceive"} \subseteq Reason
  BY DEF Reason
<1>4. ASSUME NEW l \in Lots, l \notin S
      PROVE  rows'[l] = rows[l] /\ LetIn(l)
  <2>1. moved'[l] = moved[l] /\ rows'[l] = rows[l]
    BY <1>1, <1>4 DEF Left
  <2>2. onHand'[l] = onHand[l] /\ onHand[l] \in Int
    BY <1>2, <1>4 DEF TypeOK
  <2> QED
    BY <2>1, <2>2, Nothing
<1>5. ASSUME NEW l \in S, why = "adjust"
      PROVE  rows'[l]["adjust"] # 0
  <2>1. rows'[l]["adjust"] = rows[l]["adjust"] + 1 /\ rows[l]["adjust"] \in Nat
    BY <1>1, <1>3, <1>5 DEF Left, TypeOK
  <2> QED
    BY <2>1
<1>6. ASSUME NEW l \in S, why # "adjust"
      PROVE  rows'[l]["adjust"] = rows[l]["adjust"] /\ (LetIn(l) \/ TakesOut(l))
  <2> DEFINE n == delta[l]
  <2>0. /\ l \in Lots /\ n \in Int /\ Fits(l, n, why, held, alive)
        /\ onHand'[l] = IF l \in alive THEN held[l] + n ELSE held[l]
    BY <1>2 DEF Fits
  <2>1. rows'[l]["adjust"] = rows[l]["adjust"]
    BY <1>1, <1>3, <1>6 DEF Left
  <2>2. /\ \A other \in Reason : other # why => moved'[l][other] = moved[l][other]
        /\ moved'[l][why] = moved[l][why] + n
    BY <1>1 DEF Left
  <2>3. \A other \in Reason : moved[l][other] \in Int
    BY <2>0 DEF TypeOK
  <2>4. /\ CameIn(l) \in Int /\ onHand[l] \in Int
        /\ CameIn(l) = moved[l]["receive"] + moved[l]["found"]
                         + moved[l][IF from[l] = NoLot THEN "closed" ELSE "opened"]
        /\ CameIn(l)' = moved'[l]["receive"] + moved'[l]["found"]
                          + moved'[l][IF from[l] = NoLot THEN "closed" ELSE "opened"]
    BY <2>0, CameInIsInt DEF CameIn
  <2> HIDE DEF n
  <2>5. CASE why \in {"receive", "found"}
    <3>1. CameIn(l)' = CameIn(l) + n /\ moved'[l]["consume"] = moved[l]["consume"]
      BY <1>3, <2>0, <2>2, <2>3, <2>4, <2>5
    <3>2. n \in Nat /\ (onHand'[l] <= onHand[l] + n \/ onHand'[l] <= n)
      BY <2>0, <2>4, <2>5 DEF Fits
    <3> QED
      BY <2>1, <3>1, <3>2 DEF LetIn
  <2>6. CASE why = "unreceive"
    <3>1. CameIn(l)' = CameIn(l) + 0 /\ moved'[l]["consume"] = moved[l]["consume"]
      BY <1>3, <2>0, <2>2, <2>3, <2>4, <2>6
    <3>2. onHand'[l] <= onHand[l] + 0
      BY <2>0, <2>4, <2>6 DEF Fits
    <3> QED
      BY <2>1, <3>1, <3>2 DEF LetIn
  <2>7. CASE why = "consume"
    <3>1. CameIn(l)' = CameIn(l)
      BY <1>3, <2>0, <2>2, <2>3, <2>4, <2>7
    <3>2. /\ moved'[l]["consume"] = moved[l]["consume"] - (0 - n)
          /\ 0 - n \in Nat /\ 0 - n <= onHand[l] /\ onHand'[l] = onHand[l] - (0 - n)
      BY <1>3, <2>0, <2>2, <2>3, <2>4, <2>7 DEF Fits
    <3> QED
      BY <2>1, <3>1, <3>2 DEF TakesOut
  <2> QED
    BY <1>6, <2>0, <2>5, <2>6, <2>7 DEF Fits
<1> QED
  BY <1>4, <1>5, <1>6 DEF Gently, Plain

\* A step that moves nothing.
LEMMA StillGently ==
  ASSUME TypeOK, UNCHANGED <<onHand, moved, rows, from>>,
         \A l \in Lots : from[l] # NoLot => part'[l] = part[l]
  PROVE  Gently
<1> SUFFICES ASSUME NEW l \in Lots, Plain(l)' PROVE Plain(l) /\ LetIn(l)
  BY DEF Gently
<1>1. onHand'[l] <= onHand[l]
  BY DEF TypeOK
<1> QED
  BY <1>1, Nothing DEF Plain

\* The screens of the shelf, but for the edit form, are gentle.
LEMMA ScreensAreGentle ==
  ASSUME ShelfInv, KitInv, NoEdit, NEW r \in Requests, ShelfScreen(r)
  PROVE  Gently
<1>0. TypeOK /\ PartKnown /\ Aimed /\ NotYet /\ RowsAccount /\ Boxed
  BY DEF ShelfInv, KitInv
<1>1. CASE LotAdd(r)
  <2>1. PICK p \in Parts, l \in Fresh(1) : part' = [part EXCEPT ![l] = p]
    BY <1>1 DEF LotAdd
  <2>2. l \in Lots /\ from[l] = NoLot
    BY <1>0, FreshIsAbsent DEF NotYet
  <2>3. UNCHANGED <<onHand, moved, rows, from>>
    BY <1>1 DEF LotAdd, ledger
  <2>4. \A m \in Lots : from[m] # NoLot => part'[m] = part[m]
    BY <1>0, <2>1, <2>2 DEF TypeOK
  <2> QED
    BY <1>0, <2>3, <2>4, StillGently
<1>2. CASE LotAddRecord(r)
  <2>1. aim[r] \in Lots /\ status[aim[r]] # "absent"
    BY <1>0, <1>2 DEF LotAddRecord, Aimed
  <2>2. PICK n \in Units :
           Post({aim[r]}, [Zero EXCEPT ![aim[r]] = n], "found", onHand, Standing)
    BY <1>2 DEF LotAddRecord
  <2>3. UNCHANGED <<status, part, from>> /\ "found" \in Reason /\ n \in Nat
    BY <1>2, StockAssumption DEF LotAddRecord, Reason, lots
  <2> DEFINE S == {aim[r]}
             delta == [Zero EXCEPT ![aim[r]] = n]
  <2>4. S \in SUBSET Lots /\ Post(S, delta, "found", onHand, Standing)
    BY <2>1, <2>2
  <2>5. \A l \in S : delta[l] = n /\ status'[l] # "absent"
    BY <2>1, <2>3 DEF Zero
  <2> HIDE DEF S, delta
  <2>6. \A l \in S : status'[l] # "absent" /\ Fits(l, delta[l], "found", onHand, Standing)
    BY <2>3, <2>5 DEF Fits
  <2> QED
    BY <1>0, <2>3, <2>4, <2>6, PostGently
<1>3. CASE LotEditSave(r)
  BY <1>3 DEF NoEdit, LotEditSave
<1>4. CASE LotDeleteSave(r)
  BY <1>0, <1>4, StillGently DEF LotDeleteSave, ledger
<1>5. CASE Consume(r)
  <2>0. PICK p \in Parts, n \in Units :
           \E take \in Draws(p, n) :
             Post({l \in Lots : take[l] > 0}, [l \in Lots |-> 0 - take[l]], "consume",
                  onHand, Standing)
    BY <1>5 DEF Consume
  <2>1. PICK take \in Draws(p, n) :
           Post({l \in Lots : take[l] > 0}, [l \in Lots |-> 0 - take[l]], "consume",
                onHand, Standing)
    BY <2>0
  <2>2. take \in [Lots -> Nat] /\ \A l \in Lots : take[l] > 0 => Live(l) /\ take[l] <= onHand[l]
    BY <1>0, StockAssumption, DrawTakes
  <2>3. UNCHANGED <<status, part, from>> /\ "consume" \in Reason
    BY <1>5 DEF Consume, Reason, lots
  <2> DEFINE S == {m \in Lots : take[m] > 0}
             delta == [l \in Lots |-> 0 - take[l]]
  <2>4. S \in SUBSET Lots /\ Post(S, delta, "consume", onHand, Standing)
    BY <2>1
  <2>5. \A l \in S : /\ l \in Lots /\ delta[l] = 0 - take[l] /\ take[l] \in Nat
                     /\ take[l] <= onHand[l] /\ Live(l)
    BY <2>2
  <2> HIDE DEF S, delta
  <2>6. \A l \in S : status'[l] # "absent" /\ Fits(l, delta[l], "consume", onHand, Standing)
    <3> SUFFICES ASSUME NEW l \in S
                 PROVE  status'[l] # "absent" /\ Fits(l, delta[l], "consume", onHand, Standing)
      OBVIOUS
    <3>1. delta[l] = 0 - take[l] /\ take[l] \in Nat /\ take[l] <= onHand[l]
      BY <2>5
    <3>2. delta[l] \in Int /\ delta[l] <= 0 /\ 0 - delta[l] <= onHand[l]
      BY <3>1
    <3>3. l \in Standing /\ status'[l] # "absent"
      BY <2>3, <2>5 DEF Standing, Live
    <3> QED
      BY <3>2, <3>3 DEF Fits
  <2> QED
    BY <1>0, <2>3, <2>4, <2>6, PostGently
<1>6. CASE CycleCount(r)
  <2>1. aim[r] \in Lots /\ status[aim[r]] # "absent" /\ seen[r][aim[r]] \in Int
    BY <1>0, <1>6 DEF CycleCount, Aimed, TypeOK
  <2>2. PICK counted \in Units \cup {0} :
           LET delta == counted - seen[r][aim[r]]
           IN  IF delta = 0
               THEN UNCHANGED <<onHand, ledger>>
               ELSE Post({aim[r]}, [Zero EXCEPT ![aim[r]] = delta], "adjust",
                         onHand, Standing)
    BY <1>6 DEF CycleCount
  <2>3. UNCHANGED <<status, part, from>> /\ "adjust" \in Reason /\ counted \in Int
    BY <1>6, StockAssumption DEF CycleCount, Reason, lots
  <2>4. CASE UNCHANGED <<onHand, ledger>>
    BY <1>0, <2>3, <2>4, StillGently DEF ledger
  <2> DEFINE n == counted - seen[r][aim[r]]
             S == {aim[r]}
             delta == [Zero EXCEPT ![aim[r]] = n]
  <2>5. CASE Post(S, delta, "adjust", onHand, Standing)
    <3>1. S \in SUBSET Lots /\ n \in Int
      BY <2>1, <2>3
    <3>2. \A l \in S : delta[l] = n /\ status'[l] # "absent"
      BY <2>1, <2>3 DEF Zero
    <3> HIDE DEF S, delta, n
    <3>3. \A l \in S : status'[l] # "absent" /\ Fits(l, delta[l], "adjust", onHand, Standing)
      BY <3>1, <3>2 DEF Fits
    <3> QED
      BY <1>0, <2>3, <2>5, <3>1, <3>3, PostGently
  <2> QED
    BY <2>2, <2>4, <2>5
<1>7. CASE Refuse(r)
  BY <1>0, <1>7, StillGently DEF Refuse, lots, ledger
<1>8. ASSUME NEW l, NEW screen, NEW doing, View(r, l, screen, doing) PROVE Gently
  BY <1>0, <1>8, StillGently DEF View, lots, ledger
<1> QED
  BY <1>1, <1>2, <1>3, <1>4, <1>5, <1>6, <1>7, <1>8 DEF ShelfScreen, LotDeleteCheck

\* A box in a box is opened, or put together, and is no longer plain; what comes out of a
\* box came in.
LEMMA OpenKitFair ==
  ASSUME ShelfInv, ShelfInv', KitInv, Fair, NEW r \in Requests, OpenKit(r)
  PROVE  Fair'
<1>0. TypeOK /\ TypeOK' /\ NotYet /\ RowsAccount
  BY DEF ShelfInv, KitInv
<1>1. PICK n \in Nat : \E holds, new : BoxOpened(aim[r], n, holds, new)
  BY OpenKitOpens
<1> DEFINE k == aim[r]
<1>2. PICK holds, new : BoxOpened(k, n, holds, new)
  BY <1>1
<1> HIDE DEF k
<1> SUFFICES ASSUME NEW l \in Lots, Plain(l)' PROVE Covered(l)'
  BY DEF Fair
<1>3. CASE l \in new
  <2>1. status[l] = "absent" /\ from'[l] = k /\ k # NoLot /\ holds[l] \in Parts
    BY <1>2, <1>3, StockAssumption DEF BoxOpened, Items
  <2>2. moved[l]["consume"] = 0 /\ moved[l]["receive"] = 0 /\ moved[l]["found"] = 0
    BY <1>0, <2>1 DEF NotYet, RowsAccount, Reason
  <2>3. /\ moved'[l]["consume"] = 0 /\ moved'[l]["receive"] = 0 /\ moved'[l]["found"] = 0
        /\ moved'[l]["opened"] = Filling(n, part[k], holds[l])
        /\ onHand'[l] = Filling(n, part[k], holds[l])
    BY <1>2, <1>3, <2>2 DEF BoxOpened
  <2>4. Filling(n, part[k], holds[l]) \in Nat
    BY <1>2, <2>1, FillingIsNat DEF BoxOpened
  <2>5. CameIn(l)' = 0 + 0 + Filling(n, part[k], holds[l])
    BY <2>1, <2>3 DEF CameIn
  <2> QED
    BY <2>3, <2>4, <2>5 DEF Covered
<1>4. CASE l \notin new
  <2>1. from'[l] = from[l] /\ part'[l] = part[l] /\ rows'[l]["adjust"] = rows[l]["adjust"]
    BY <1>2, <1>4 DEF BoxOpened
  <2>2. Plain(l)
    BY <2>1 DEF Plain
  <2>3. LetIn(l)
    <3>1. CASE l = k
      <4>1. from[l] = NoLot
        BY <1>2, <2>2, <3>1 DEF Plain, BoxOpened
      <4>2. CameIn(l)' = CameIn(l) + 0
        BY <1>0, <1>2, <2>1, <4>1, CameInIsInt DEF CameIn, BoxOpened
      <4>3. moved'[l]["consume"] = moved[l]["consume"] /\ onHand'[l] <= onHand[l] + 0
        BY <1>0, <1>2, <3>1, CameInIsInt DEF BoxOpened
      <4> QED
        BY <4>2, <4>3 DEF LetIn
    <3>2. CASE l # k
      <4>1. moved'[l] = moved[l] /\ onHand'[l] = onHand[l]
        BY <1>2, <1>4, <3>2 DEF BoxOpened
      <4>2. onHand'[l] <= onHand[l]
        BY <1>0, <4>1 DEF TypeOK
      <4> QED
        BY <1>0, <2>1, <4>1, <4>2, Nothing
    <3> QED
      BY <3>1, <3>2
  <2> QED
    BY <1>0, <2>2, <2>3, CoveredStill DEF Fair
<1> QED
  BY <1>3, <1>4

\* Boxes put together come in; what goes into them is let go.
LEMMA CloseKitGently ==
  ASSUME ShelfInv, KitInv, NEW r \in Requests, CloseKit(r)
  PROVE  Gently
<1>0. TypeOK /\ Boxed /\ ReadSo
  BY DEF ShelfInv, KitInv
<1>1. PICK n \in Nat : BoxClosed(r, aim[r], n)
  BY CloseKitCloses
<1> DEFINE k == aim[r]
<1>2. BoxClosed(r, k, n)
  BY <1>1
<1>3. /\ \A l \in picked[r] : l \in Lots /\ from[l] = k /\ from[l] # NoLot
      /\ Items(part[k]) # {}
  BY <1>0, <1>2 DEF BoxClosed, ReadSo, Boxed, CameOut
<1> HIDE DEF k
<1> SUFFICES ASSUME NEW l \in Lots, Plain(l)' PROVE Plain(l) /\ LetIn(l)
  BY DEF Gently
<1>4. /\ from' = from /\ part' = part /\ rows'[l]["adjust"] = rows[l]["adjust"]
      /\ moved'[l]["consume"] = moved[l]["consume"]
      /\ moved'[l]["receive"] = moved[l]["receive"] /\ moved'[l]["found"] = moved[l]["found"]
      /\ moved'[l]["opened"] = moved[l]["opened"]
  BY <1>2 DEF BoxClosed
<1>5. Plain(l)
  BY <1>4 DEF Plain
<1>6. CameIn(l) \in Int /\ onHand[l] \in Int /\ moved[l]["closed"] \in Int
      /\ moved[l]["receive"] \in Int /\ moved[l]["found"] \in Int
  BY <1>0, CameInIsInt DEF TypeOK, Reason
<1>7. CASE l = k
  <2>1. from[l] = NoLot
    BY <1>3, <1>5, <1>7 DEF Plain
  <2>2. moved'[l]["closed"] = moved[l]["closed"] + n /\ onHand'[l] <= onHand[l] + n
    BY <1>2, <1>7 DEF BoxClosed
  <2>3. CameIn(l)' = CameIn(l) + n
    BY <1>4, <1>6, <2>1, <2>2 DEF CameIn
  <2> QED
    BY <1>4, <1>5, <2>2, <2>3 DEF LetIn
<1>8. CASE l \in picked[r]
  <2>1. from[l] # NoLot /\ onHand'[l] <= onHand[l] + 0
    BY <1>2, <1>3, <1>6, <1>8 DEF BoxClosed
  <2>2. CameIn(l)' = CameIn(l) + 0
    BY <1>4, <1>6, <2>1 DEF CameIn
  <2> QED
    BY <1>4, <1>5, <2>1, <2>2 DEF LetIn
<1>9. CASE l # k /\ l \notin picked[r]
  <2>1. moved'[l] = moved[l] /\ onHand'[l] = onHand[l]
    BY <1>2, <1>9 DEF BoxClosed
  <2>2. onHand'[l] <= onHand[l]
    BY <1>6, <2>1
  <2> QED
    BY <1>0, <1>4, <1>5, <2>1, <2>2, Nothing
<1> QED
  BY <1>7, <1>8, <1>9

-----------------------------------------------------------------------------
(* The order: any number of requests at once, the shelf's screens beside.  *)

OnALine == {"receiving", "taking back", "correcting", "removing", "settling", "saving"}
Decided == {"settling", "saving"}
Plans == [refill : Lots \cup {NoLot}, delta : [Lots -> Int], why : Reason, count : Nat]

\* What a request remembers is of the type of what it read.
ClerkTypes ==
  /\ received \in [Lines -> Int]
  /\ ordered \in [Lines -> Int]
  /\ linePart \in [Lines -> MaybePart]
  /\ step \in [Requests -> Steps]
  /\ about \in [Requests -> Lines \cup {NoLine}]
  /\ known \in [Requests -> LineRow]
  /\ plan \in [Requests -> Plans]

LEMMA Counted ==
  /\ \A n \in Units : n \in Nat
  /\ \A q \in Quantities : q \in Int
  /\ \A p \in LineParts : p \in MaybePart
BY StockAssumption, ReceivingAssumption DEF MaybePart

LEMMA PlanIsAPlan ==
  ASSUME NEW refill \in Lots \cup {NoLot}, NEW delta \in [Lots -> Int], NEW why \in Reason,
         NEW n \in Nat
  PROVE  [refill |-> refill, delta |-> delta, why |-> why, count |-> n] \in Plans
BY DEF Plans

LEMMA NoPlanIsAPlan == NoPlan \in Plans
BY DEF NoPlan, Plans, Zero, Reason

LEMMA NoRowIsARow == NoRow \in LineRow
BY DEF NoRow, LineRow, MaybePart

\* An instance of a line that says no more came than it says was ordered.
RowWithin(row) == row.got >= 0 /\ (row.got # 0 => row.got <= row.wanted)

LEMMA WithinIs ==
  ASSUME NEW row, NEW g \in Int, NEW w \in Int, row.got = g, row.wanted = w,
         g # 0 => g > 0 /\ g <= w
  PROVE  RowWithin(row)
BY DEF RowWithin

\* What the request that is on a line holds of it, and what it decided, are within what
\* it holds was ordered; one that corrects a line holds that nothing came.
WithinLine(r) ==
  /\ step[r] \in OnALine => about[r] \in Lines /\ RowWithin(known[r])
  /\ step[r] = "correcting" => known[r].got = 0
  /\ step[r] \in Decided =>
       IF plan[r].why = "receive"
       THEN plan[r].count <= known[r].wanted - known[r].got /\ known[r].item \in Parts
       ELSE plan[r].count <= known[r].got

OrderInv == ClerkTypes /\ WithinOrder /\ \A r \in Requests : WithinLine(r)

LEMMA OrderInit == RcvInit => OrderInv
<1> SUFFICES ASSUME RcvInit PROVE OrderInv
  OBVIOUS
<1>1. ClerkTypes
  <2>1. PICK first \in Lines, q \in Quantities, p \in LineParts :
          /\ ordered = [n \in Lines |-> IF n = first THEN q ELSE 0]
          /\ linePart = [n \in Lines |-> IF n = first THEN p ELSE NoPart]
    BY DEF RcvInit
  <2>2. ordered \in [Lines -> Int] /\ linePart \in [Lines -> MaybePart]
    BY <2>1, Counted DEF MaybePart
  <2> QED
    BY <2>2, NoPlanIsAPlan, NoRowIsARow DEF RcvInit, ClerkTypes, Steps
<1>2. WithinOrder
  BY DEF RcvInit, WithinOrder
<1>3. \A r \in Requests : WithinLine(r)
  BY DEF RcvInit, WithinLine, OnALine, Decided
<1> QED
  BY <1>1, <1>2, <1>3 DEF OrderInv

LineAsItWas == UNCHANGED <<received, ordered, linePart>>

\* A line that is saved whole is as the instance says.
LEMMA LineSaved ==
  ASSUME ClerkTypes, WithinOrder, NEW n \in Lines, NEW row \in LineRow, RowWithin(row),
         SaveLine(n, row)
  PROVE  /\ received' \in [Lines -> Int] /\ ordered' \in [Lines -> Int]
         /\ linePart' \in [Lines -> MaybePart]
         /\ WithinOrder'
BY DEF ClerkTypes, WithinOrder, RowWithin, SaveLine, LineRow

\* Whoever is done with a line holds nothing of it.
LEMMA Finished ==
  ASSUME OrderInv, NEW r \in Requests, Finish(r),
         \/ LineAsItWas
         \/ \E n \in Lines, row \in LineRow : RowWithin(row) /\ SaveLine(n, row)
  PROVE  OrderInv'
<1>1. /\ received' \in [Lines -> Int] /\ ordered' \in [Lines -> Int]
      /\ linePart' \in [Lines -> MaybePart]
      /\ WithinOrder'
  <2>1. CASE LineAsItWas
    BY <2>1 DEF OrderInv, ClerkTypes, WithinOrder, LineAsItWas
  <2>2. CASE \E n \in Lines, row \in LineRow : RowWithin(row) /\ SaveLine(n, row)
    BY <2>2, LineSaved DEF OrderInv
  <2> QED
    BY <2>1, <2>2
<1>2. ClerkTypes'
  <2>1. plan' \in [Requests -> Plans]
    BY NoPlanIsAPlan DEF OrderInv, ClerkTypes, Finish
  <2>2. step' \in [Requests -> Steps]
    BY DEF OrderInv, ClerkTypes, Finish, Steps
  <2>3. about' \in [Requests -> Lines \cup {NoLine}] /\ known' \in [Requests -> LineRow]
    BY NoRowIsARow DEF OrderInv, ClerkTypes, Finish
  <2> QED
    BY <1>1, <2>1, <2>2, <2>3 DEF ClerkTypes
<1>3. \A q \in Requests : WithinLine(q)'
  BY DEF OrderInv, ClerkTypes, WithinLine, RowWithin, Finish, OnALine, Decided
<1> QED
  BY <1>1, <1>2, <1>3 DEF OrderInv

\* The transaction decides on the line it read, and moves no more than that allows.
LEMMA Decides ==
  ASSUME OrderInv, NEW r \in Requests, step[r] \in OnALine, NEW what \in Plans,
         Decide(r, what),
         IF what.why = "receive"
         THEN what.count <= known[r].wanted - known[r].got /\ known[r].item \in Parts
         ELSE what.count <= known[r].got
  PROVE  OrderInv'
<1>1. ClerkTypes'
  BY DEF OrderInv, ClerkTypes, Decide, Steps, purchase
<1>2. WithinOrder'
  BY DEF OrderInv, WithinOrder, Decide, purchase
<1>3. \A q \in Requests : WithinLine(q)'
  <2> TAKE q \in Requests
  <2>1. CASE q = r
    BY <2>1 DEF OrderInv, ClerkTypes, WithinLine, RowWithin, Decide, OnALine, Decided
  <2>2. CASE q # r
    BY <2>2 DEF OrderInv, ClerkTypes, WithinLine, RowWithin, Decide
  <2> QED
    BY <2>1, <2>2
<1> QED
  BY <1>1, <1>2, <1>3 DEF OrderInv

\* A step that moves one request on, on the line it is on.
LEMMA MovesOn ==
  ASSUME OrderInv, NEW r \in Requests, NEW to \in Steps \ {"correcting"},
         step' = [step EXCEPT ![r] = to], UNCHANGED <<about, known, plan>>,
         to \in OnALine => step[r] \in OnALine, to \in Decided => step[r] \in Decided,
         \/ LineAsItWas
         \/ \E n \in Lines, row \in LineRow : RowWithin(row) /\ SaveLine(n, row)
  PROVE  OrderInv'
<1>1. /\ received' \in [Lines -> Int] /\ ordered' \in [Lines -> Int]
      /\ linePart' \in [Lines -> MaybePart]
      /\ WithinOrder'
  <2>1. CASE LineAsItWas
    BY <2>1 DEF OrderInv, ClerkTypes, WithinOrder, LineAsItWas
  <2>2. CASE \E n \in Lines, row \in LineRow : RowWithin(row) /\ SaveLine(n, row)
    BY <2>2, LineSaved DEF OrderInv
  <2> QED
    BY <2>1, <2>2
<1>2. ClerkTypes'
  BY <1>1 DEF OrderInv, ClerkTypes
<1>3. \A q \in Requests : WithinLine(q)'
  BY DEF OrderInv, ClerkTypes, WithinLine, RowWithin
<1> QED
  BY <1>1, <1>2, <1>3 DEF OrderInv

LEMMA Taken ==
  ASSUME NEW n, NEW count \in Nat, NEW take \in TakenBack(n, count)
  PROVE  [l \in Lots |-> 0 - take[l]] \in [Lots -> Int]
<1>1. take \in [Lots -> 0..count]
  BY DEF TakenBack
<1> QED
  BY <1>1

\* Lots are numbered, so of some of them one is the oldest.
LEMMA OldestIsOne ==
  ASSUME NEW S \in SUBSET Lots, S # {} PROVE Oldest(S) \in S
<1>1. S \in SUBSET Nat
  BY StockAssumption
<1>2. \E l \in S : \A m \in S : l <= m
  BY <1>1, LeastNumber
<1> QED
  BY <1>2, Zenon DEF Oldest

LEMMA RefillIsALot ==
  ASSUME NEW n
  PROVE  (IF Emptied(n) = {} THEN NoLot ELSE Oldest(Emptied(n))) \in Emptied(n) \cup {NoLot}
<1>1. Emptied(n) \in SUBSET Lots
  BY DEF Emptied, LotsOf
<1> QED
  BY <1>1, OldestIsOne

LEMMA OrderStep == OrderInv /\ [RcvNext]_allVars => OrderInv'
<1> SUFFICES ASSUME OrderInv, [RcvNext]_allVars PROVE OrderInv'
  OBVIOUS
<1>1. ASSUME UNCHANGED <<purchase, clerk>> PROVE OrderInv'
  BY <1>1 DEF purchase, clerk, OrderInv, ClerkTypes, WithinOrder, WithinLine, RowWithin
<1>2. ASSUME NEW r \in Requests, Clerk(r) PROVE OrderInv'
  <2>1. ASSUME NEW n \in Lines, NEW screen,
               NEW doing \in {"receiving", "taking back", "correcting", "removing"},
               doing = "correcting" => received[n] = 0,
               LineView(r, n, screen, doing)
        PROVE  OrderInv'
    <3> DEFINE row == [got |-> received[n], wanted |-> ordered[n], item |-> linePart[n]]
    <3>1. row \in LineRow /\ RowWithin(row) /\ (doing = "correcting" => row.got = 0)
      <4>1. received[n] \in Int /\ ordered[n] \in Int /\ linePart[n] \in MaybePart
        BY DEF OrderInv, ClerkTypes
      <4>2. received[n] # 0 => received[n] > 0 /\ received[n] <= ordered[n]
        BY DEF OrderInv, WithinOrder
      <4>3. row \in LineRow
        BY <4>1 DEF LineRow
      <4>4. row.got = received[n] /\ row.wanted = ordered[n]
        OBVIOUS
      <4>5. doing = "correcting" => row.got = 0
        BY <2>1, <4>4
      <4>6. RowWithin(row)
        BY <4>1, <4>2, <4>4, WithinIs
      <4> QED
        BY <4>3, <4>5, <4>6
    <3>2. /\ step' = [step EXCEPT ![r] = doing] /\ about' = [about EXCEPT ![r] = n]
          /\ known' = [known EXCEPT ![r] = row] /\ plan' = plan
          /\ LineAsItWas
      BY <2>1 DEF LineView, purchase, LineAsItWas
    <3> HIDE DEF row
    <3>3. ClerkTypes'
      BY <3>1, <3>2 DEF OrderInv, ClerkTypes, LineAsItWas, Steps
    <3>4. WithinOrder'
      BY <3>2 DEF OrderInv, WithinOrder, LineAsItWas
    <3>5. \A q \in Requests : WithinLine(q)'
      BY <3>1, <3>2 DEF OrderInv, ClerkTypes, WithinLine, RowWithin, OnALine, Decided
    <3> QED
      BY <3>3, <3>4, <3>5 DEF OrderInv
  <2>2. ASSUME NEW n \in Lines, LineAdd(r, n) PROVE OrderInv'
    <3>1. PICK q \in Quantities, p \in LineParts :
            SaveLine(n, [got |-> 0, wanted |-> q, item |-> p])
      BY <2>2 DEF LineAdd
    <3> DEFINE row == [got |-> 0, wanted |-> q, item |-> p]
    <3>2. row \in LineRow /\ RowWithin(row)
      BY Counted DEF LineRow, RowWithin
    <3>3. SaveLine(n, row)
      BY <3>1
    <3> HIDE DEF row
    <3>4. /\ received' \in [Lines -> Int] /\ ordered' \in [Lines -> Int]
          /\ linePart' \in [Lines -> MaybePart]
          /\ WithinOrder'
      BY <3>2, <3>3, LineSaved DEF OrderInv
    <3>5. UNCHANGED <<step, about, known, plan>>
      BY <2>2 DEF LineAdd, clerk
    <3> QED
      BY <3>4, <3>5 DEF OrderInv, ClerkTypes, WithinLine, RowWithin
  <2>3. CASE ReceiveDecide(r)
    <3>1. step[r] \in OnALine
      BY <2>3 DEF ReceiveDecide, OnALine
    <3>2. known[r].item \in Parts
      BY <2>3 DEF ReceiveDecide, OrderInv, ClerkTypes, LineRow, MaybePart
    <3>3. PICK n \in Units :
            LET empty == Emptied(about[r])
                refill == IF empty = {} THEN NoLot ELSE Oldest(empty)
            IN  /\ n <= known[r].wanted - known[r].got
                /\ Decide(r, [refill |-> refill, delta |-> Zero, why |-> "receive", count |-> n])
      BY <2>3 DEF ReceiveDecide
    <3> DEFINE empty == Emptied(about[r])
               refill == IF empty = {} THEN NoLot ELSE Oldest(empty)
    <3>4. refill \in Lots \cup {NoLot}
      <4>1. Emptied(about[r]) \subseteq Lots
        BY DEF Emptied, LotsOf
      <4> QED
        BY <4>1, RefillIsALot
    <3> HIDE DEF refill
    <3> DEFINE what == [refill |-> refill, delta |-> Zero, why |-> "receive", count |-> n]
    <3>5. what \in Plans
      BY <3>4, Counted, PlanIsAPlan DEF Zero, Reason
    <3>6. /\ Decide(r, what) /\ what.why = "receive"
          /\ what.count <= known[r].wanted - known[r].got
      BY <3>3 DEF refill
    <3> HIDE DEF what
    <3> QED
      BY <3>1, <3>2, <3>5, <3>6, Decides
  <2>4. CASE UnreceiveDecide(r)
    <3>1. step[r] \in OnALine
      BY <2>4 DEF UnreceiveDecide, OnALine
    <3>2. PICK n \in Units :
            /\ n <= known[r].got
            /\ \E take \in TakenBack(about[r], n) :
                 Decide(r, [refill |-> NoLot, delta |-> [l \in Lots |-> 0 - take[l]],
                            why |-> "unreceive", count |-> n])
      BY <2>4 DEF UnreceiveDecide
    <3>3. PICK take \in TakenBack(about[r], n) :
            Decide(r, [refill |-> NoLot, delta |-> [l \in Lots |-> 0 - take[l]],
                       why |-> "unreceive", count |-> n])
      BY <3>2
    <3> DEFINE delta == [l \in Lots |-> 0 - take[l]]
    <3>4. delta \in [Lots -> Int]
      BY Counted, Taken
    <3> HIDE DEF delta
    <3> DEFINE what == [refill |-> NoLot, delta |-> delta, why |-> "unreceive", count |-> n]
    <3>5. what \in Plans
      BY <3>4, Counted, PlanIsAPlan DEF Reason
    <3>6. Decide(r, what) /\ what.why # "receive" /\ what.count <= known[r].got
      BY <3>2, <3>3 DEF delta
    <3> HIDE DEF what
    <3> QED
      BY <3>1, <3>5, <3>6, Decides
  <2>5. CASE Settle(r)
    <3>1. /\ step[r] = "settling" /\ step' = [step EXCEPT ![r] = "saving"]
          /\ UNCHANGED <<about, known, plan>> /\ LineAsItWas
      BY <2>5 DEF Settle, purchase, LineAsItWas
    <3> QED
      BY <3>1, MovesOn DEF Steps, OnALine, Decided
  <2>6. CASE CommitReceive(r) \/ CommitUnreceive(r)
    <3> DEFINE m == IF plan[r].why = "receive" THEN known[r].got + plan[r].count
                                               ELSE known[r].got - plan[r].count
               row == [known[r] EXCEPT !.got = m]
    <3>1. /\ step[r] = "saving" /\ Finish(r) /\ SaveLine(about[r], row)
      BY <2>6 DEF CommitReceive, CommitUnreceive, SaveBoth
    <3>2. /\ about[r] \in Lines /\ known[r] \in LineRow /\ RowWithin(known[r])
          /\ IF plan[r].why = "receive" THEN plan[r].count <= known[r].wanted - known[r].got
                                        ELSE plan[r].count <= known[r].got
      BY <3>1 DEF OrderInv, ClerkTypes, WithinLine, OnALine, Decided
    <3>3. plan[r].count \in Nat
      BY DEF OrderInv, ClerkTypes, Plans
    <3>4. m \in Int /\ m >= 0 /\ (m # 0 => m <= known[r].wanted)
      BY <3>2, <3>3 DEF LineRow, RowWithin
    <3> HIDE DEF m
    <3>5. row \in LineRow /\ RowWithin(row)
      BY <3>2, <3>4 DEF LineRow, RowWithin
    <3> HIDE DEF row
    <3> QED
      BY <3>1, <3>2, <3>5, Finished
  <2>7. CASE LineCorrect(r)
    <3>1. PICK q \in Quantities, p \in LineParts :
            SaveLine(about[r], [known[r] EXCEPT !.wanted = q, !.item = p])
      BY <2>7 DEF LineCorrect
    <3> DEFINE row == [known[r] EXCEPT !.wanted = q, !.item = p]
    <3>2. /\ step[r] = "correcting" /\ step' = [step EXCEPT ![r] = "saving order"]
          /\ UNCHANGED <<about, known, plan>>
      BY <2>7 DEF LineCorrect
    <3>3. about[r] \in Lines /\ known[r] \in LineRow /\ known[r].got = 0
      BY <3>2 DEF OrderInv, ClerkTypes, WithinLine, OnALine
    <3>4. row \in LineRow /\ RowWithin(row) /\ SaveLine(about[r], row)
      <4>1. row.got = 0 /\ q \in Int /\ p \in MaybePart
        BY <3>3, Counted DEF LineRow
      <4>2. row \in LineRow
        BY <3>3, <4>1 DEF LineRow
      <4> HIDE DEF row
      <4>3. RowWithin(row)
        BY <4>1 DEF RowWithin
      <4> QED
        BY <3>1, <4>2, <4>3 DEF row
    <3> HIDE DEF row
    <3> QED
      BY <3>2, <3>3, <3>4, MovesOn DEF Steps, OnALine, Decided
  <2>8. CASE LineRemove(r)
    <3>1. /\ step' = [step EXCEPT ![r] = "saving order"]
          /\ UNCHANGED <<about, known, plan>> /\ LineAsItWas
      BY <2>8 DEF LineRemove, LineAsItWas
    <3> QED
      BY <3>1, MovesOn DEF Steps, OnALine, Decided
  <2>9. CASE OrderReread(r)
    <3>1. LineAsItWas
      BY <2>9 DEF OrderReread, purchase, LineAsItWas
    <3>2. CASE Finish(r)
      BY <3>1, <3>2, Finished
    <3>3. CASE /\ step' = [step EXCEPT ![r] = "order reread"]
               /\ UNCHANGED <<about, known, plan>>
      BY <3>1, <3>3, MovesOn DEF Steps, OnALine, Decided
    <3> QED
      BY <2>9, <3>2, <3>3 DEF OrderReread
  <2>10. CASE OrderSave(r) \/ OrderEdit(r) \/ Turn(r)
    <3>1. Finish(r) /\ LineAsItWas
      BY <2>10 DEF OrderSave, OrderEdit, Turn, purchase, LineAsItWas
    <3> QED
      BY <3>1, Finished
  <2>11. CASE OrderView(r)
    <3>1. /\ step' = [step EXCEPT ![r] = "filing order"]
          /\ UNCHANGED <<about, known, plan>> /\ LineAsItWas
      BY <2>11 DEF OrderView, purchase, LineAsItWas
    <3> QED
      BY <3>1, MovesOn DEF Steps, OnALine, Decided
  <2> QED
    BY <1>2, <2>1, <2>2, <2>3, <2>4, <2>5, <2>6, <2>7, <2>8, <2>9, <2>10, <2>11 DEF Clerk
<1> QED
  BY <1>1, <1>2 DEF RcvNext, allVars

\* However many requests receive a line, take it back, correct its quantity and part, or
\* remove it at once, and however stale what they read, no line says that more arrived
\* than it says was ordered, nor less than nothing.
THEOREM WithinOrderHolds == RcvSpec => []WithinOrder
<1>1. OrderInv => WithinOrder
  BY DEF OrderInv
<1> QED
  BY <1>1, OrderInit, OrderStep, PTL DEF RcvSpec

-----------------------------------------------------------------------------
Papers == [order : OrderStatus, arrived : BOOLEAN]

\* The order on file, and as the requests hold it, is one the form can show.
OrderTyped == order \in OrderStatus /\ arrived \in BOOLEAN /\ paper \in [Requests -> Papers]

LEMMA RecomputedIsAPaper ==
  ASSUME NEW p \in Papers, NEW have, NEW want, NEW open
  PROVE  Recomputed(p, have, want, open) \in Papers
<1> DEFINE s == StatusOf(have, want, open)
           date == CASE s = "received" -> TRUE [] s = "partial" -> p.arrived [] OTHER -> FALSE
<1>1. s \in OrderStatus
  BY DEF StatusOf, OrderStatus
<1>2. date \in BOOLEAN
  BY DEF Papers
<1> HIDE DEF date, s
<1>3. [order |-> s, arrived |-> date] \in Papers
  BY <1>1, <1>2 DEF Papers
<1> QED
  BY <1>3 DEF Recomputed, s, date

LEMMA OrderTypedInit == RcvInit => OrderTyped
<1> SUFFICES ASSUME RcvInit PROVE OrderTyped
  OBVIOUS
<1>1. order \in OrderStatus /\ arrived = FALSE
  BY ReceivingAssumption DEF RcvInit
<1>2. [order |-> "ordered", arrived |-> FALSE] \in Papers
  BY DEF Papers, OrderStatus
<1>3. paper \in [Requests -> Papers]
  BY <1>2 DEF RcvInit
<1> QED
  BY <1>1, <1>3 DEF OrderTyped

LEMMA PapersMove ==
  ASSUME OrderTyped, NEW r \in Requests, NEW p \in Papers,
         paper' = paper \/ paper' = [paper EXCEPT ![r] = p],
         \/ UNCHANGED <<order, arrived>>
         \/ order' = paper[r].order /\ arrived' = paper[r].arrived
         \/ order' \in OrderStatus /\ arrived' = paper[r].arrived
  PROVE  OrderTyped'
BY DEF OrderTyped, Papers

LEMMA OrderTypedStep == OrderTyped /\ [RcvNext]_allVars => OrderTyped'
<1> SUFFICES ASSUME OrderTyped, [RcvNext]_allVars PROVE OrderTyped'
  OBVIOUS
<1> DEFINE Blank == [order |-> "ordered", arrived |-> FALSE]
           Now == [order |-> order, arrived |-> arrived]
<1>1. Blank \in Papers /\ Now \in Papers
  BY DEF Papers, OrderStatus, OrderTyped
<1>2. \A r \in Requests : paper[r] \in Papers
  BY DEF OrderTyped
<1> HIDE DEF Blank, Now
<1>3. ASSUME UNCHANGED <<purchase, clerk>> PROVE OrderTyped'
  BY <1>3 DEF purchase, clerk, OrderTyped
<1>4. ASSUME NEW r \in Requests, Clerk(r) PROVE OrderTyped'
  <2>1. CASE \/ \E n \in Lines : \/ LineView(r, n, "receive", "receiving")
                                 \/ LineView(r, n, "unreceive", "taking back")
                                 \/ LineView(r, n, "line", "correcting")
                                 \/ LineView(r, n, "line", "removing")
             \/ ReceiveDecide(r) \/ UnreceiveDecide(r) \/ OrderView(r)
    <3>1. paper' = [paper EXCEPT ![r] = Now] /\ UNCHANGED <<order, arrived>>
      BY <2>1 DEF LineView, ReceiveDecide, UnreceiveDecide, Decide, OrderView, purchase, Now
    <3> QED
      BY <1>1, <3>1, PapersMove
  <2>2. CASE Settle(r)
    <3>1. PICK have, want :
            /\ paper' = [paper EXCEPT ![r] =
                           Recomputed(paper[r], have, want, LiveLines \cup {about[r]})]
            /\ UNCHANGED <<order, arrived>>
      BY <2>2 DEF Settle, purchase
    <3>2. Recomputed(paper[r], have, want, LiveLines \cup {about[r]}) \in Papers
      BY <1>2, RecomputedIsAPaper
    <3> QED
      BY <3>1, <3>2, PapersMove
  <2>3. CASE CommitReceive(r) \/ CommitUnreceive(r) \/ OrderSave(r)
    <3>1. paper' = [paper EXCEPT ![r] = Blank] /\ SaveOrder(r)
      BY <2>3 DEF CommitReceive, CommitUnreceive, OrderSave, SaveBoth, Finish, Blank
    <3> QED
      BY <1>1, <3>1, PapersMove DEF SaveOrder
  <2>4. CASE OrderReread(r)
    <3>1. UNCHANGED <<order, arrived>>
      BY <2>4 DEF OrderReread, purchase
    <3>2. CASE Finish(r)
      BY <1>1, <3>1, <3>2, PapersMove DEF Finish, Blank
    <3>3. CASE paper' = [paper EXCEPT ![r] = Recomputed(@, received, ordered, LiveLines)]
      <4>1. Recomputed(paper[r], received, ordered, LiveLines) \in Papers
        BY <1>2, RecomputedIsAPaper
      <4> QED
        BY <3>1, <3>3, <4>1, PapersMove
    <3> QED
      BY <2>4, <3>2, <3>3 DEF OrderReread
  <2>5. CASE LineCorrect(r) \/ LineRemove(r) \/ \E n \in Lines : LineAdd(r, n)
    <3>1. UNCHANGED <<order, arrived, paper>>
      BY <2>5 DEF LineCorrect, LineRemove, LineAdd, clerk
    <3> QED
      BY <1>1, <3>1, PapersMove
  <2>6. CASE OrderEdit(r)
    <3>1. /\ order' \in OrderStatus /\ arrived' = paper[r].arrived
          /\ paper' = [paper EXCEPT ![r] = Blank]
      BY <2>6 DEF OrderEdit, Finish, Blank
    <3> QED
      BY <1>1, <3>1, PapersMove
  <2>7. CASE Turn(r)
    BY <1>1, <2>7, PapersMove DEF Turn, Finish, purchase, Blank
  <2> QED
    BY <1>4, <2>1, <2>2, <2>3, <2>4, <2>5, <2>6, <2>7 DEF Clerk
<1> QED
  BY <1>3, <1>4 DEF RcvNext, allVars
=============================================================================
