------------------------------ MODULE MCScenario ------------------------------
(* Instances of Scenario for TLC, with two requests in stop at a time.       *)
EXTENDS Scenario

CONSTANTS q1, q2
===============================================================================
