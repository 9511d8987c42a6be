--------------------------- MODULE MCStockLedger ---------------------------
(* Small instances of StockLedger for TLC.                                 *)
EXTENDS StockLedger

CONSTANTS kit, drier, r1, r2

ThreeLots == 1..3
OnePart == {drier}
KitAndDrier == {kit, drier}
Loose == [k \in Parts |-> [p \in Parts |-> 0]]
OneDrier == [k \in Parts |-> [p \in Parts |-> IF k = kit /\ p = drier THEN 1 ELSE 0]]
OneRequest == {r1}
TwoRequests == {r1, r2}
OneOrTwo == {1, 2}
=============================================================================
