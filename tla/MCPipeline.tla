------------------------------ MODULE MCPipeline ------------------------------
(* An instance of Pipeline for TLC: alarms of two points, in any order.      *)
EXTENDS Pipeline

CONSTANTS p1, p2
===============================================================================
