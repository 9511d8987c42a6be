--------------------------- MODULE PartsReadiness ---------------------------
(***************************************************************************)
(* Whether a job can start, as far as one part goes                        *)
(* (homeautoshop/work/parts_readiness.py, and the screens of work/views.py *)
(* that claim, use and order parts).  Nothing reserves stock: a claim is a *)
(* row, and what is free for a job is what is on hand less what open jobs  *)
(* asked for before it and have not used.                                  *)
(*                                                                         *)
(* Every request is one step.  The figures are sums over rows of several   *)
(* jobs, and the hazard is that they do not add up across jobs after       *)
(* claims are dropped and made again, jobs closed, reopened, deleted and   *)
(* restored, and parts drawn that were not on the shelf.                   *)
(***************************************************************************)
EXTENDS Integers, FiniteSets, Functions

CONSTANTS
  Orders,     \* WorkOrder ids
  Claims,     \* PartRequirement ids, in the order of created_at
  Most,       \* bound on any quantity
  MostBought, \* bound on what is ordered for one work order
  NoOrder     \* the work order of a requirement that was never made

ASSUME ReadinessAssumption ==
  /\ Claims \subseteq Nat /\ IsFiniteSet(Claims) /\ IsFiniteSet(Orders)
  /\ Most \in Nat \ {0} /\ MostBought \in Nat
  /\ NoOrder \notin Orders

VARIABLES
  claim,   \* the requirements: work order, quantity, and whether it was removed
  open,    \* the work orders with an open status
  binned,  \* the work orders in the trash
  used,    \* the PartUsages of each work order
  inHand,   \* qty_on_hand over all lots
  coming   \* what was ordered for it and has not been received

readyVars == <<claim, open, binned, used, inHand, coming>>

Unmade == [of |-> NoOrder, qty |-> 0, dropped |-> FALSE]
Dropped == [of |-> NoOrder, qty |-> 0, dropped |-> TRUE]

ReadyTypeOK ==
  /\ claim \in [Claims -> [of : Orders \cup {NoOrder}, qty : 0..Most, dropped : BOOLEAN]]
  /\ open \subseteq Orders /\ binned \subseteq Orders
  /\ used \in [Orders -> 0..Most]
  /\ inHand \in 0..Most
  /\ coming \in [Orders -> 0..MostBought]

ReadyInit ==
  /\ claim = [c \in Claims |-> Unmade]
  /\ open = Orders /\ binned = {}
  /\ used = [w \in Orders |-> 0]
  /\ inHand = 0
  /\ coming = [w \in Orders |-> 0]

-----------------------------------------------------------------------------
(* for_work_order().                                                       *)

Clip(n) == IF n > 0 THEN n ELSE 0

ClaimsOf(w) == {c \in Claims : claim[c].of = w}

Needed(w) == SumFunctionOnSet([c \in Claims |-> claim[c].qty], ClaimsOf(w))

\* Still to come off the shelf.
Outstanding(w) == Clip(Needed(w) - used[w])
Owed == [w \in Orders |-> Outstanding(w)]

\* When a work order first asked, of the claims it still has.
AskedAt(w) == CHOOSE c \in ClaimsOf(w) : \A d \in ClaimsOf(w) : c <= d

\* Slip: a job that has begun claims nothing more.
MutBeforeStarted(w) ==
  {v \in open \ {w} : ClaimsOf(v) # {} /\ AskedAt(v) < AskedAt(w) /\ used[v] = 0}

\* The rows of _committed_elsewhere(): it asks for an open status, and takes the work
\* orders in the trash for open ones.
Before(w) ==
  {v \in open \ {w} : ClaimsOf(v) # {} /\ AskedAt(v) < AskedAt(w)}

CommittedElsewhere(w) == SumFunctionOnSet(Owed, Before(w))

\* Slip: nothing is kept for others.
MutFreeFor(w) == inHand

FreeFor(w) == Clip(inHand - CommittedElsewhere(w))

Short(w) == Clip(Outstanding(w) - FreeFor(w) - coming[w])

\* A job that claims nothing is ready.
Ready(w) == ClaimsOf(w) # {} => Short(w) = 0

-----------------------------------------------------------------------------
(* The screens.                                                            *)

OnScreen(w) == w \notin binned

\* part_require(): more of a claim that is there, or a new one.  The line of work it
\* is for tells claims apart, so a second claim of the same order is possible.
PartRequire(w, q) ==
  /\ OnScreen(w)
  /\ \/ \E c \in ClaimsOf(w) :
          /\ claim[c].qty + q <= Most
          /\ claim' = [claim EXCEPT ![c].qty = @ + q]
     \/ \E c \in Claims :
          /\ claim[c] = Unmade /\ \A d \in Claims : d < c => claim[d] # Unmade
          /\ claim' = [claim EXCEPT ![c] = [of |-> w, qty |-> q, dropped |-> FALSE]]
  /\ UNCHANGED <<open, binned, used, inHand, coming>>

\* part_unrequire().
PartUnrequire(w, c) ==
  /\ OnScreen(w) /\ c \in ClaimsOf(w)
  /\ claim' = [claim EXCEPT ![c] = Dropped]
  /\ UNCHANGED <<open, binned, used, inHand, coming>>

\* part_use(): what the shelf has is drawn, the rest counts as bought for the job.
PartUse(w, q) ==
  /\ OnScreen(w) /\ used[w] + q <= Most
  /\ used' = [used EXCEPT ![w] = @ + q]
  /\ inHand' = Clip(inHand - q)
  /\ UNCHANGED <<claim, open, binned, coming>>

\* Something is ordered for a work order, on the order's screen or drafted as a cart by
\* part_order_shortfall() and then placed; until it is placed it counts for nothing.
PlaceOrder(w, q) ==
  /\ coming[w] + q <= MostBought
  /\ coming' = [coming EXCEPT ![w] = @ + q]
  /\ UNCHANGED <<claim, open, binned, used, inHand>>

Receive(w) ==
  /\ coming[w] > 0 /\ inHand < Most
  /\ coming' = [coming EXCEPT ![w] = @ - 1]
  /\ inHand' = inHand + 1
  /\ UNCHANGED <<claim, open, binned, used>>

\* Whatever else moves the shelf: restocking, a count, another draw.
Count(n) ==
  /\ n # inHand
  /\ inHand' = n
  /\ UNCHANGED <<claim, open, binned, used, coming>>

\* transition_to() into or out of an open status.
TurnOrder(w) ==
  /\ OnScreen(w)
  /\ open' = IF w \in open THEN open \ {w} ELSE open \cup {w}
  /\ UNCHANGED <<claim, binned, used, inHand, coming>>

\* work_order_delete(), trash_restore().
Bin(w) ==
  /\ OnScreen(w)
  /\ binned' = binned \cup {w}
  /\ UNCHANGED <<claim, open, used, inHand, coming>>

Unbin(w) ==
  /\ w \in binned
  /\ binned' = binned \ {w}
  /\ UNCHANGED <<claim, open, used, inHand, coming>>

ReadyNext ==
  \/ \E w \in Orders :
       \/ \E q \in 1..Most : PartRequire(w, q) \/ PartUse(w, q)
       \/ \E c \in Claims : PartUnrequire(w, c)
       \/ \E q \in 1..MostBought : PlaceOrder(w, q)
       \/ Receive(w)
       \/ TurnOrder(w) \/ Bin(w) \/ Unbin(w)
  \/ \E n \in 0..Most : Count(n)

ReadySpec == ReadyInit /\ [][ReadyNext]_readyVars

-----------------------------------------------------------------------------
(* Properties.                                                             *)

\* The open jobs that want the part, and a screen shows.
Waiting == {w \in open \ binned : ClaimsOf(w) # {}}

\* The jobs that are told that what they still need is on the shelf can all have it.
NoPartPromisedTwice ==
  SumFunctionOnSet(Owed, {w \in Waiting : Owed[w] <= FreeFor(w)}) <= inHand

\* When the open jobs want more than there is and is bought for them, one is told so.
ShortageIsSeen ==
  (SumFunctionOnSet(Owed, Waiting) > inHand + SumFunctionOnSet(coming, Waiting))
    => \E w \in Waiting : ~Ready(w)

=============================================================================
