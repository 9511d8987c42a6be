---------------------------- MODULE MCReceiving ----------------------------
(* Small instances of Receiving for TLC.                                   *)
EXTENDS Receiving, TLC

CONSTANTS kit, drier, r1, r2, first, second

TwoLots == 1..2
ThreeLots == 1..3
OnePart == {drier}
KitAndDrier == {kit, drier}
Loose == [k \in Parts |-> [p \in Parts |-> 0]]
OneDrier == [k \in Parts |-> [p \in Parts |-> IF k = kit /\ p = drier THEN 1 ELSE 0]]
OneLine == {first}
TwoLines == {first, second}
NoneOrTwo == {0, 2}
OneRequest == {r1}
TwoRequests == {r1, r2}
EitherLine == Permutations(Lines)
JustOne == {1}
OneOrTwo == {1, 2}
=============================================================================
