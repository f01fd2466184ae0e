------------------------------ MODULE Discovered ------------------------------
(***************************************************************************)
(* What a scan lists and what is made of the devices chosen from it, for   *)
(* each protocol that can be scanned.                                      *)
(*                                                                         *)
(* An address is a number.  A host answers with the instance of its        *)
(* device, or with NoAnswer when it is silent, late or no controller.  An  *)
(* object of a controller has a type, an instance, and for each of name,   *)
(* value and units what is read, or NoAnswer.                              *)
(*                                                                         *)
(* Sources: adapters/bacnet/discovery.py, adapters/modbus/discovery.py,    *)
(* adapters/modbus/engine.py, adapters/mqtt/discovery.py,                  *)
(* adapters/knx/discovery.py, application/discovery_service.py.            *)
(***************************************************************************)
EXTENDS EtsImport

CONSTANT NoAnswer  \* nothing was read, or nothing given

MaxRange == 65536

(* _expand_range: the ends in either order.  Mutant: only in one.          *)
ExpandUpwards(a, b) == a..b

ExpandRange(a, b) ==
  LET first == IF a < b THEN a ELSE b
      last == IF a < b THEN b ELSE a
  IN  first..(IF last - first >= MaxRange THEN first + MaxRange - 1 ELSE last)

(* _targets: a range, or all hosts of the own network but oneself.         *)
Targets(config) ==
  IF config.mode = "ip_range" /\ config.from # NoAnswer /\ config.to # NoAnswer
  THEN ExpandRange(config.from, config.to)
  ELSE config.network \ {config.me}

(* BACnetDiscovery._sweep *)
Responders(config, answers) == {ip \in Targets(config) : answers[ip] # NoAnswer}

Mapped == {"analog", "binary", "multi"}

OrElse(read, default) == IF read = NoAnswer THEN default ELSE read

(* BACnetDiscovery._read_objects: the cap counts the objects that are not  *)
(* points, too.                                                            *)
ReadObjects(list, max) ==
  LET read == Kept(list, {i \in DOMAIN list : i <= max /\ list[i].type \in Mapped})
  IN  [i \in DOMAIN read |->
        [type |-> read[i].type, instance |-> read[i].instance,
         name |-> OrElse(read[i].name, <<read[i].type, read[i].instance>>),
         value |-> read[i].value,
         ga |-> NoAddress, dpt |-> <<>>]]

Listed(ref, protocol, id, objects) ==
  [ref |-> ref, protocol |-> protocol, id |-> id, objects |-> objects]

(* BACnetDiscovery.discover: by the instances of the devices, equal ones   *)
(* as their hosts answered, here by address.  An object list that cannot   *)
(* be read leaves a device without points.                                 *)
DiscoverBacnet(config, answers, lists) ==
  LET hosts == Responders(config, answers)
      found == InOrder(hosts, {e \in hosts \X hosts : answers[e[1]] < answers[e[2]]})
  IN  [i \in DOMAIN found |->
        Listed(<<found[i], answers[found[i]]>>, "bacnet", answers[found[i]],
               IF lists[found[i]] = NoAnswer \/ ~config.deep THEN <<>>
               ELSE ReadObjects(lists[found[i]], config.max))]

(* ModbusEngine.discover and ModbusDiscovery: each unit that answers for   *)
(* its holding register 0 is listed with that register.                    *)
HoldingRegister(value) ==
  [type |-> "analog", instance |-> 0, name |-> "HoldingRegister_0", value |-> value,
   ga |-> NoAddress, dpt |-> <<>>]

DiscoverModbus(first, last, registers) ==
  LET units == InOrder({u \in first..last : registers[u] # NoAnswer}, {})
  IN  [i \in DOMAIN units |->
        Listed(units[i], "modbus", units[i], <<HoldingRegister(registers[units[i]])>>)]

(* The keys of a dictionary that is filled in this order.                  *)
Firsts(seq) == Kept(seq, {i \in DOMAIN seq : \A j \in 1..(i - 1) : seq[j] # seq[i]})

(* MqttDiscovery: of the topics heard in the window, as device and name    *)
(* with the last value; an id that is not a number is none.                *)
DiscoverMqtt(heard) ==
  LET devices == Firsts([i \in DOMAIN heard |-> heard[i].device])
      Of(d) == Kept(heard, {i \in DOMAIN heard : heard[i].device = d})
      Names(d) == Firsts([i \in DOMAIN Of(d) |-> Of(d)[i].name])
      LastOf(d, n) == heard[Max({i \in DOMAIN heard : heard[i].device = d /\ heard[i].name = n})].value
  IN  [i \in DOMAIN devices |->
        Listed(devices[i], "mqtt", IF devices[i] \in Nat THEN devices[i] ELSE NoAnswer,
               [j \in DOMAIN Names(devices[i]) |->
                 [type |-> "unknown", instance |-> 0, name |-> Names(devices[i])[j],
                  value |-> LastOf(devices[i], Names(devices[i])[j]),
                  ga |-> NoAddress, dpt |-> <<>>]])]

(* KnxDiscovery: the imported file as one device, or the gateway as one    *)
(* without points.                                                         *)
DiscoverKnx(mode, entries) ==
  IF mode = "gateway" THEN <<Listed("gateway", "knx", NoAnswer, <<>>)>>
  ELSE <<Listed("ets", "knx", NoAnswer, DiscoveredKnx(entries))>>

-----------------------------------------------------------------------------
(* DiscoveryService.add_devices: one row for each ref that is asked for,   *)
(* in their order.                                                         *)
NotFound == <<"ref not found">>

Chosen(devices, refs) ==
  [i \in DOMAIN refs |->
    LET named == {j \in DOMAIN devices : devices[j].ref = refs[i]}
    IN  IF named = {} THEN NotFound ELSE <<Materialized(devices[Max(named)].objects)>>]

(* A scan lists no device twice, each under a handle of its own.           *)
HandlesDiffer(devices) ==
  \A i, j \in DOMAIN devices : devices[i].ref = devices[j].ref => i = j

(* Each object that was listed becomes a point with its type and its name, *)
(* and with its instance, except that instance 0 becomes the position in   *)
(* the list: another object of the same device, which may be listed too.   *)
ListedBecomesPoint(device) ==
  LET made == Materialized(device.objects)
  IN  /\ DOMAIN made = DOMAIN device.objects
      /\ \A i \in DOMAIN made :
           /\ made[i].name = device.objects[i].name
           /\ device.objects[i].type \in Mapped => made[i].kind = device.objects[i].type
           /\ (made[i].instance = device.objects[i].instance) <=> device.objects[i].instance # 0
      /\ ~ToldApart(made) => \E i \in DOMAIN made : device.objects[i].instance = 0

(* A sweep lists every controller of its range that answers, in the order  *)
(* of their instances, with the objects read in the order of the list.     *)
SweepFindsAll(config, answers, found) ==
  LET Between(ip) == (config.from <= ip /\ ip <= config.to) \/ (config.to <= ip /\ ip <= config.from)
  IN  /\ \A ip \in DOMAIN answers :
           (\E i \in DOMAIN found : found[i].ref = <<ip, answers[ip]>>) <=>
             /\ answers[ip] # NoAnswer
             /\ IF config.mode = "ip_range" THEN Between(ip)
                ELSE ip \in config.network /\ ip # config.me
      /\ \A i \in 1..(Len(found) - 1) : found[i].id <= found[i + 1].id
      /\ HandlesDiffer(found)
================================================================================
