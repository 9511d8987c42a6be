--------------------------- MODULE MCOfflineSync ---------------------------
(* Small instances of OfflineSync for TLC.                                 *)
EXTENDS OfflineSync

CONSTANTS t1, t2

OneWrite == {1}
TwoWrites == 1..2
TwoTabs == {t1, t2}
TwoCalls == 1..2
Readings == [w \in Writes |-> {"reading"}]
Mixed == [w \in Writes |-> IF w = 1 THEN {"job", "reading"} ELSE {"note"}]
=============================================================================
