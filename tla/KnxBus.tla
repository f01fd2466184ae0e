--------------------------------- MODULE KnxBus ---------------------------------
(***************************************************************************)
(* The KNX engine and the bus: what is written to a point goes out as a    *)
(* telegram to its group address, and a telegram from the bus changes the  *)
(* point in memory.                                                        *)
(*                                                                         *)
(* A point is <<device, index>>.  Two tasks that start the first devices   *)
(* connect both: the later connection is kept, and the other one goes on   *)
(* receiving.  A connection keeps its telegrams in order and loses none.   *)
(* Values are those the encodings keep; "text" is one they refuse.         *)
(*                                                                         *)
(* Sources: adapters/knx/engine.py; the library behind it as it is used.   *)
(***************************************************************************)
EXTENDS Integers, SequencesExt, Functions, Dicts

CONSTANTS
  KnxDevices,
  PointsOf,   \* the points of a device in order: [name, address]
  Addresses,  \* group addresses
  Values,
  Links,      \* 1..n, bound on the connections that are made
  MaxFlight   \* bound on the telegrams on their way

NoAddress == "none"
Text == "text"

VARIABLES
  memory,      \* present value by point
  devices,     \* _devices
  connecting,  \* devices whose start awaits a connection
  ga,          \* _ga: address by <<device, name>>
  rev,         \* _rev: <<device, name>> by address
  link,        \* _xknx; 0 for none
  alive,       \* connections that are not stopped
  outbox,      \* by connection: telegrams that are not sent yet
  inbox,       \* by connection: telegrams that are not handled yet
  bus,         \* by address: the value the group was told last
  crossed      \* addresses whose telegrams passed each other

wires == <<memory, devices, connecting, ga, rev, link, alive, outbox, inbox, bus, crossed>>

KnxPoints == UNION {{<<d, i>> : i \in DOMAIN PointsOf[d]} : d \in KnxDevices}
NameOf(p) == PointsOf[p[1]][p[2]].name
AddressOf(p) == PointsOf[p[1]][p[2]].address

(* The points of a device are a list, each with an address or none; what   *)
(* stands for no address and for a refused value is not one of the others. *)
ASSUME KnxAssumption ==
  /\ \A d \in KnxDevices : Len(PointsOf[d]) \in Nat /\ DOMAIN PointsOf[d] = 1..Len(PointsOf[d])
  /\ \A p \in KnxPoints : AddressOf(p) \in Addresses \cup {NoAddress}
  /\ NoAddress \notin Addresses /\ Text \notin Values
  /\ Links \subseteq Nat \ {0}

KnxInit ==
  /\ memory \in [KnxPoints -> Values] /\ bus \in [Addresses -> Values]
  /\ devices = {} /\ connecting = {}
  /\ ga = <<>> /\ rev = <<>>
  /\ link = 0 /\ alive = {}
  /\ outbox = [l \in Links |-> <<>>] /\ inbox = outbox
  /\ crossed = {}

Carries(box, g) == \E i \in DOMAIN box : box[i].address = g
InFlight(g) == \E l \in Links : Carries(outbox[l], g) \/ Carries(inbox[l], g)
Flight == FoldSet(LAMBDA l, n : n + Len(outbox[l]) + Len(inbox[l]), 0, Links)

(* Our telegrams on one connection are in order; the others may pass them. *)
Crossing(l, g) ==
  \/ \E k \in Links : Carries(inbox[k], g)
  \/ \E k \in Links \ {l} : Carries(outbox[k], g)

(* Telegrams are put into the queue of a connection.                       *)
Put(l, telegrams) ==
  LET groups == {telegrams[i].address : i \in DOMAIN telegrams} IN
  /\ Flight + Len(telegrams) <= MaxFlight
  /\ outbox' = [outbox EXCEPT ![l] = @ \o telegrams]
  /\ crossed' = {g \in Addresses : IF g \in groups THEN Crossing(l, g) ELSE g \in crossed}

-----------------------------------------------------------------------------
Exposed(d) == {i \in DOMAIN PointsOf[d] : PointsOf[d][i].address # NoAddress}

(* Of two points with one name the later one takes the name, of two with   *)
(* one address the later one takes the address.                            *)
LastNamed(d, name) == PointsOf[d][Max({i \in Exposed(d) : PointsOf[d][i].name = name})]
LastAt(d, g) == PointsOf[d][Max({i \in Exposed(d) : PointsOf[d][i].address = g})]

Map(d) ==
  /\ devices' = devices \cup {d}
  /\ LET names == {PointsOf[d][i].name : i \in Exposed(d)} IN
     ga' = Over([n \in {d} \X names |-> LastNamed(d, n[2]).address], ga)
  /\ LET groups == {PointsOf[d][i].address : i \in Exposed(d)} IN
     rev' = Over([g \in groups |-> <<d, LastAt(d, g).name>>], rev)
  /\ connecting' = connecting \ {d}
  /\ UNCHANGED <<memory, inbox, bus>>

(* Mutant: the values do not go out.                                       *)
ExposeSilently(d, l) == Map(d) /\ UNCHANGED <<outbox, crossed>>

(* start_device, when there is a connection: every value goes out, in the  *)
(* order of the points.                                                    *)
Expose(d, l) ==
  LET sent == {i \in Exposed(d) : memory[<<d, i>>] # Text} IN
  /\ Map(d)
  /\ \E order \in [1..Cardinality(sent) -> sent] :
       /\ Range(order) = sent
       /\ \A i, j \in DOMAIN order : i < j => order[i] < order[j]
       /\ Put(l, [n \in DOMAIN order |->
                    [address |-> PointsOf[d][order[n]].address, value |-> memory[<<d, order[n]>>]]])

StartDevice(d) ==
  IF link # 0
  THEN Expose(d, link) /\ UNCHANGED <<link, alive>>
  ELSE /\ connecting' = connecting \cup {d}
       /\ UNCHANGED <<memory, devices, ga, rev, link, alive, outbox, inbox, bus, crossed>>

(* _ensure_xknx returns: each task that waits has a connection of its own. *)
Connected(d) ==
  /\ d \in connecting
  /\ \E l \in Links \ alive :
       /\ \A k \in Links \ alive : l <= k
       /\ alive' = alive \cup {l} /\ link' = l
       /\ Expose(d, l)

ConnectFails(d) ==
  /\ d \in connecting
  /\ connecting' = connecting \ {d}
  /\ UNCHANGED <<memory, devices, ga, rev, link, alive, outbox, inbox, bus, crossed>>

StopDevice(d) ==
  /\ d \in devices
  /\ devices' = devices \ {d}
  /\ ga' = Restrict(ga, {n \in DOMAIN ga : n[1] # d})
  /\ rev' = Restrict(rev, {g \in DOMAIN rev : rev[g][1] # d})
  /\ UNCHANGED <<memory, connecting, link, alive, outbox, inbox, bus, crossed>>

(* stop_all: an earlier connection is left as it is.                       *)
StopAll ==
  /\ link # 0
  /\ devices' = {} /\ ga' = <<>> /\ rev' = <<>>
  /\ link' = 0 /\ alive' = alive \ {link}
  /\ outbox' = [outbox EXCEPT ![link] = <<>>] /\ inbox' = [inbox EXCEPT ![link] = <<>>]
  /\ UNCHANGED <<memory, connecting, bus, crossed>>

-----------------------------------------------------------------------------
(* DeviceService and write_point_value: in memory in any case, and to the  *)
(* address of the name if the engine has it and can encode the value.      *)
Write(p, value) ==
  LET n == <<p[1], NameOf(p)>> IN
  /\ memory' = [memory EXCEPT ![p] = value]
  /\ IF link # 0 /\ n \in DOMAIN ga /\ value # Text
     THEN Put(link, <<[address |-> ga[n], value |-> value]>>)
     ELSE UNCHANGED <<outbox, crossed>>
  /\ UNCHANGED <<devices, connecting, ga, rev, link, alive, inbox, bus>>

(* A telegram reaches the bus, and the connections that did not send it.   *)
Told(telegram, listeners) ==
  /\ bus' = [bus EXCEPT ![telegram.address] = telegram.value]
  /\ inbox' = [l \in Links |-> IF l \in listeners THEN Append(inbox[l], telegram) ELSE inbox[l]]
  /\ UNCHANGED <<memory, devices, connecting, ga, rev, link, alive>>

SendTelegram(l) ==
  /\ outbox[l] # <<>>
  /\ outbox' = [outbox EXCEPT ![l] = Tail(@)]
  /\ Told(Head(outbox[l]), alive \ {l})
  /\ UNCHANGED crossed

(* Another member of the group writes, or answers a read.                  *)
OthersSend(g, value) ==
  /\ Flight + Cardinality(alive) <= MaxFlight
  /\ Told([address |-> g, value |-> value], alive)
  /\ crossed' = IF \E l \in Links : Carries(outbox[l], g) THEN crossed \cup {g} ELSE crossed \ {g}
  /\ UNCHANGED outbox

(* _on_telegram: the first point of the name that has the address.         *)
OnTelegram(l) ==
  /\ inbox[l] # <<>>
  /\ LET g == Head(inbox[l]).address
         heard == {p \in KnxPoints : g \in DOMAIN rev /\ p[1] \in devices /\ rev[g] = <<p[1], NameOf(p)>>}
         first == {p \in heard : \A q \in heard : p[2] <= q[2]}
     IN  memory' = [p \in KnxPoints |-> IF p \in first THEN Head(inbox[l]).value ELSE memory[p]]
  /\ inbox' = [inbox EXCEPT ![l] = Tail(@)]
  /\ UNCHANGED <<devices, connecting, ga, rev, link, alive, outbox, bus, crossed>>

KnxNext ==
  \/ \E d \in KnxDevices : StartDevice(d) \/ Connected(d) \/ ConnectFails(d) \/ StopDevice(d)
  \/ StopAll
  \/ \E p \in KnxPoints, value \in Values \cup {Text} : Write(p, value)
  \/ \E g \in Addresses, value \in Values : OthersSend(g, value)
  \/ \E l \in Links : SendTelegram(l) \/ OnTelegram(l)

KnxSpec == KnxInit /\ [][KnxNext]_wires

-----------------------------------------------------------------------------
(* No other point has its address, nor its name in its device.             *)
Own(p) ==
  \A q \in KnxPoints \ {p} : AddressOf(q) # AddressOf(p) /\ ~(q[1] = p[1] /\ NameOf(q) = NameOf(p))

(* When no telegram is on its way, the value of a point in memory is what  *)
(* its group was told last, whoever told it and however often its device   *)
(* was stopped and started: unless telegrams of both sides passed each     *)
(* other, the point shares its address or its name, or its value is one    *)
(* the bus cannot carry.                                                   *)
GroupValueAgrees ==
  \A p \in KnxPoints :
    /\ p[1] \in devices /\ Own(p) /\ AddressOf(p) # NoAddress /\ memory[p] # Text
    /\ ~InFlight(AddressOf(p)) /\ AddressOf(p) \notin crossed
    => memory[p] = bus[AddressOf(p)]
================================================================================
