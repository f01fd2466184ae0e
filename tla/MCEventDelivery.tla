--------------------------- MODULE MCEventDelivery ---------------------------
(* Instances of EventDelivery for TLC: one endpoint wants every type, the    *)
(* other only alarms.                                                        *)
EXTENDS EventDelivery, TLC

CONSTANTS t1, t2, e1, e2

TaskSymmetry == Permutations({t1, t2})
SomeWants == [k \in {"alarm", "value"} |-> IF k = "alarm" THEN {e1, e2} ELSE {e1}]
==============================================================================
