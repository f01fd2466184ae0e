----------------------------- MODULE MCSimulation -----------------------------
(* An instance of Simulation for TLC: one point from the start and one that  *)
(* is added later, two values, and three loops: two that live at a time, and *)
(* a third whose start rebuilds the dictionary under them.                   *)
EXTENDS Simulation, TLC

CONSTANTS v1, v2, q1

ValueSymmetry == Permutations({v1, v2})
===============================================================================
