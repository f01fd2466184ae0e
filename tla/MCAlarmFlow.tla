------------------------------ MODULE MCAlarmFlow ------------------------------
(* An instance of AlarmFlow for TLC: two tasks publish the readings of three  *)
(* points, two of which (on different devices) have the same object name.     *)
EXTENDS AlarmFlow, TLC

CONSTANTS t1, t2, p1, p2, p3, n1, n2

OwnNames == p1 :> n1 @@ p3 :> n2
SharedName == p1 :> n1 @@ p2 :> n2 @@ p3 :> n2

TaskSymmetry == Permutations({t1, t2})
================================================================================
