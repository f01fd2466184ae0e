---------------------------- MODULE MCPointWrites ----------------------------
(* Instances of PointWrites for TLC: a point of a device BACnet exposes and  *)
(* one of a device of another protocol, for which no instance is running.    *)
EXTENDS PointWrites, TLC

CONSTANTS t1, t2, p1, p2, v1, v2

Symmetry == Permutations({t1, t2}) \cup Permutations({v1, v2})
==============================================================================
