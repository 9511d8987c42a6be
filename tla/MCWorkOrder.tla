---------------------------- MODULE MCWorkOrder ----------------------------
(* Small instances of WorkOrder for TLC.                                   *)
EXTENDS WorkOrder

CONSTANTS oil, service

OneItem == {1}
AddedAgain == {1, 2}
OneJob == {service}
TwoReadings == {1, 3}
ByBoth == [miles |-> 1, days |-> 1]
ByDate == [miles |-> 0, days |-> 1]
Dates == {ByDate}
Builtin == [i \in Items |-> ByBoth]
OilChange == [i \in Items |-> oil]
=============================================================================
