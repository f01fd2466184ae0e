--------------------------------- MODULE Fleet ---------------------------------
(***************************************************************************)
(* How the device files are multiplied at boot: plain copies of all of     *)
(* them, or a generated fleet of several kinds and protocols.              *)
(*                                                                         *)
(* A device's name is the sequence of its parts between dashes, each a     *)
(* word or a number with its leading zeros.  A point's name is a device's  *)
(* name, or none, and a local one; it refers to others by their names.  A  *)
(* simulation is a model with a centre and bounds, or NoModel.             *)
(*                                                                         *)
(* Source: adapters/bacnet/device_factory.py.                              *)
(***************************************************************************)
EXTENDS Integers, SequencesExt

Word(w) == <<w>>
Number(zeros, n) == <<zeros, n>>

NoModel == [model |-> "none", low |-> 0, centre |-> 0, high |-> 0]

Dynamic == {"random_walk", "sine", "first_order_lag", "derived", "pid_actuator"}
HardLimitUnits == {"degC", "mm/s", "ppm", "%RH"}
Analog == {"analogInput", "analogOutput", "analogValue"}

NextId(devices) == 1 + Max({devices[i].id : i \in DOMAIN devices})

(* _rewrite_ref: the names that begin with the template's own, and a       *)
(* slash.                                                                  *)
Rewrite(name, old, new) == IF name.device = old THEN [name EXCEPT !.device = new] ELSE name

(* _clone_point.  Mutant: the references are copied as they are. *)
ClonePointWithItsRefs(point, old, new) == [point EXCEPT !.name = Rewrite(@, old, new)]

ClonePoint(point, old, new) ==
  [point EXCEPT !.name = Rewrite(@, old, new), !.refs = {Rewrite(r, old, new) : r \in @}]

Clone(base, id, name) ==
  [base EXCEPT !.id = id, !.name = name,
               !.points = [i \in DOMAIN @ |-> ClonePoint(@[i], base.name, name)]]

(* scale_devices: copy by copy, the templates in turn. *)
ScaleDevices(templates, count) ==
  LET n == Len(templates)
      first == NextId(templates)
      Copy(k) ==  \* the device at place k
        LET base == templates[((k - 1) % n) + 1]
        IN  Clone(base, first + k - n - 1, Append(base.name, Number(0, (k - 1) \div n + 1)))
  IN  IF n = 0 \/ count <= n THEN templates
      ELSE [k \in 1..count |-> IF k <= n THEN templates[k] ELSE Copy(k)]

-----------------------------------------------------------------------------
(* _jitter_sim_ranges, in hundredths of the template's unit. *)
Jitter(sim, percent) ==
  [sim EXCEPT !.low = percent * @, !.centre = percent * @, !.high = percent * @]

Jittered(point, percent) == [point EXCEPT !.sim = Jitter(@, percent)]

IsDynamicAnalog(point) == point.type \in Analog /\ point.sim.model \in Dynamic

AnomalyCapable(device) ==
  \E i \in DOMAIN device.points :
    IsDynamicAnalog(device.points[i]) /\ device.points[i].unit \in HardLimitUnits

RandomWalk(centre) ==
  [model |-> "random_walk", low |-> centre - 2000, centre |-> centre, high |-> centre + 2000]

(* The point is given a model and a unit, each only if it lacks one.       *)
(* Mutant: the unit is kept.                                               *)
PromotedModelOnly(point) ==
  [point EXCEPT !.sim = IF IsDynamicAnalog(point) THEN @ ELSE RandomWalk(point.value)]

Promoted(point) ==
  [point EXCEPT !.sim = IF IsDynamicAnalog(point) THEN @ ELSE RandomWalk(point.value),
                !.unit = IF @ \in HardLimitUnits THEN @ ELSE "degC"]

(* _ensure_anomaly_capable: the first analog input is promoted; if there   *)
(* is none, a temperature is added under the next instance.                *)
EnsureAnomalyCapable(device) ==
  LET input == SelectInSeq(device.points, LAMBDA p : p.type = "analogInput")
      instances == {device.points[i].instance : i \in DOMAIN device.points} \cup {0}
      temperature ==
        [type |-> "analogInput", instance |-> Max(instances) + 1,
         name |-> [device |-> device.name, local |-> "Temperature"], refs |-> {},
         value |-> 2200, unit |-> "degC", sim |-> RandomWalk(2200)]
  IN  IF AnomalyCapable(device) THEN device
      ELSE IF input # 0 THEN [device EXCEPT !.points[input] = Promoted(@)]
      ELSE [device EXCEPT !.points = Append(@, temperature)]

-----------------------------------------------------------------------------
Kinds == <<"AHU", "FCU", "TEMP", "CO2", "METER">>
Preferred == [k \in 1..5 |-> <<Word(<<"AHU", "FCU", "OAT", "CO2", "PM">>[k]), Number(1, 1)>>]

BacnetQuota(count) == Max({2, Min({8, count \div 20})})

ProtocolOf(i, quota) ==
  IF i < quota THEN "bacnet" ELSE <<"mqtt", "knx", "modbus">>[((i - quota) % 3) + 1]

Padded(n) == Number(IF n < 10 THEN 2 ELSE IF n < 100 THEN 1 ELSE 0, n)

FleetName(i) == <<Word(Kinds[(i % Len(Kinds)) + 1]), Padded(i + 1)>>

(* The i-th device that is generated, counted from 0. *)
Generated(templates, count, i) ==
  LET k == (i % Len(Kinds)) + 1
      preferred == SelectLastInSeq(templates, LAMBDA d : d.name = Preferred[k])
      base == templates[IF preferred # 0 THEN preferred ELSE (i % Len(templates)) + 1]
      clone == Clone(base, NextId(templates) + i, FleetName(i))
  IN  EnsureAnomalyCapable(
        [clone EXCEPT !.protocol = ProtocolOf(i, BacnetQuota(count)),
                      !.points = [p \in DOMAIN @ |-> Jittered(@[p], 80 + 5 * (i % 9))]])

(* generate_fleet *)
GenerateFleet(templates, count) ==
  LET n == Len(templates)
  IN  IF n = 0 \/ count <= n THEN templates
      ELSE [k \in 1..count |->
             IF k <= n THEN templates[k] ELSE Generated(templates, count, k - n - 1)]

-----------------------------------------------------------------------------
Names(device) == {device.points[i].name : i \in DOMAIN device.points}

(* A copy stands alone: what referred to a point of the template by its    *)
(* full name refers to the same point of the copy.  A reference without a  *)
(* device is resolved among all points, and stays as it is.                *)
StandsAlone(base, copy) ==
  /\ \A i \in DOMAIN base.points :
       \A r \in base.points[i].refs :
         r \in Names(base) /\ r.device = base.name =>
           [device |-> copy.name, local |-> r.local] \in Names(copy) \cap copy.points[i].refs
  /\ \A i \in DOMAIN copy.points : \A r \in copy.points[i].refs : r.device # base.name

TellApart(points) ==
  \A i, j \in DOMAIN points :
    points[i].type = points[j].type /\ points[i].instance = points[j].instance => i = j

(* No template is named as a copy of another, or a device of the fleet,    *)
(* will be.                                                                *)
NoLookalikes(templates, count) ==
  \A j \in DOMAIN templates :
    /\ \A i \in DOMAIN templates \ {j} : ~IsPrefix(templates[i].name, templates[j].name)
    /\ templates[j].name \notin {FleetName(i) : i \in 0..(count - 1)}

CountReached(templates, devices, count) ==
  Len(devices) = Max({Len(templates), IF templates = <<>> THEN 0 ELSE count})

DistinctIn(devices, templates) ==
  /\ \A i, j \in DOMAIN devices : i # j => devices[i].id # devices[j].id
  /\ NoLookalikes(templates, Len(devices)) =>
       \A i, j \in DOMAIN devices : i # j => devices[i].name # devices[j].name

(* Copying reaches the count, with ids and names of their own, and every   *)
(* copy stands alone.                                                      *)
ScaledAsDescribed(templates, count, devices) ==
  /\ CountReached(templates, devices, count)
  /\ DistinctIn(devices, templates)
  /\ \A k \in DOMAIN devices : k > Len(templates) =>
       StandsAlone(templates[((k - 1) % Len(templates)) + 1], devices[k])

(* So does the fleet; every device of it can have an anomaly, tells its    *)
(* points apart and keeps its centres within their bounds, and at most     *)
(* eight of them open a BACnet stack.                                      *)
FleetAsDescribed(templates, count, devices) ==
  LET new == (Len(templates) + 1)..Len(devices)
      Within(sim) == sim.low <= sim.centre /\ sim.centre <= sim.high
  IN  /\ CountReached(templates, devices, count)
      /\ DistinctIn(devices, templates)
      /\ \A k \in new :
           /\ AnomalyCapable(devices[k])
           /\ TellApart(devices[k].points)
           /\ \A i \in DOMAIN devices[k].points : Within(devices[k].points[i].sim)
           /\ \E b \in DOMAIN templates : StandsAlone(templates[b], devices[k])
      /\ \A k \in new : devices[k].protocol = "bacnet" <=> k - Len(templates) <= BacnetQuota(count)
      /\ BacnetQuota(count) \in 2..8
================================================================================
