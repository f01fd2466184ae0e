--------------------------- MODULE MCDeviceRegistry ---------------------------
(* Instances of DeviceRegistry for TLC: a seed with the id 1 and a controller *)
(* of the poller's file with the id 2; a discovered controller that brings    *)
(* the seed's id, a Modbus device that brings the id 3, and an ETS import.    *)
EXTENDS DeviceRegistry, TLC

CONSTANTS seed, real, controller, plant, modbus, knx, q1, q2, s1, s2

ADevice == {seed, real, controller, plant, modbus, knx}
AnOwnId == [d \in ADevice |->
             IF d \in {seed, controller} THEN 1
             ELSE IF d = real THEN 2 ELSE IF d \in {plant, modbus} THEN 3 ELSE 0]
ASlotsOf == [d \in ADevice |-> IF d \in {seed, knx} THEN {s1, s2} ELSE {s1}]
RequestSymmetry == Permutations({q1, q2})
ABatch == {<<controller, modbus>>, <<plant>>, <<knx>>}

\* States that differ in what no later step reads are one: the id of a request
\* that works on none, the status of one that sets none, and how an id was
\* found once it is saved.
Live ==
  <<tables, live, pc, todo, seen, added, replaced, raced, unsaved, bounds,
    [q \in {r \in Request : pc[r] \notin Unbound} |-> id[q]],
    [q \in {r \in Request : pc[r] = "status"} |-> next[q]],
    [q \in Choosing |-> <<alone[q], blind[q]>>]>>
===============================================================================
