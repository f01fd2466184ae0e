---------------------------- MODULE DeviceRegistry ----------------------------
(***************************************************************************)
(* How devices get their ids and where they live.  At boot the devices of  *)
(* the YAML files are started, stored and held in memory, and the poller   *)
(* onboards the controllers of its own file.  Later, requests add devices: *)
(* DiscoveryService.add_devices takes the selected results of a scan one   *)
(* by one, and an ETS import adds one KNX device.  A device without an id  *)
(* of its own gets the largest id plus one of the rows that can be read:   *)
(* the ids are selected first, then each row is read by itself.  The       *)
(* device is stored, entered in memory, and then either started on the     *)
(* network or given to the poller.  Memory and poller start empty again    *)
(* when the process restarts; what was stored stays, and is not loaded.    *)
(* The offline scenario sets statuses, and a stop may cancel it there.     *)
(*                                                                         *)
(* Sources: application/discovery_service.py, application/device_service   *)
(* .py, adapters/bacnet/real_poller.py, SqliteDeviceRepository, the ETS    *)
(* import of adapters/http/routers/discovery.py.                           *)
(***************************************************************************)
EXTENDS Naturals, Sequences, FiniteSetsExt

CONSTANTS
  Device,       \* devices of the YAML files, discovered and imported ones
  Seeded,       \* devices of the YAML files
  Configured,   \* controllers of the poller's file
  BACnet,       \* discovered BACnet controllers
  OwnId,        \* the id each device brings, 0 for none
  Slot,         \* (object type, instance) pairs
  SlotsOf,      \* the points of each device
  Batch,        \* what a request adds: sequences of devices
  Request,      \* the requests in work at a time
  NoDevice,     \* no device
  MaxId,        \* bound on ids
  MaxRequests,  \* bound on requests
  MaxFailures,  \* bound on failing reads, saves and updates
  MaxRestarts   \* bound on restarts

Id == 1..MaxId

ASSUME RegistryAssumption ==
  /\ MaxId \in Nat
  /\ Seeded \cup Configured \cup BACnet \subseteq Device /\ NoDevice \notin Device
  /\ OwnId \in [Device -> 0..MaxId]
  /\ \A d \in Seeded \cup Configured : OwnId[d] # 0
  /\ \A d, e \in Seeded : OwnId[d] = OwnId[e] => d = e
  /\ \A d, e \in Configured : OwnId[d] = OwnId[e] => d = e
  /\ SlotsOf \in [Device -> SUBSET Slot]
  /\ Batch \subseteq Seq(Device)

VARIABLES
  row,       \* the devices table: the device stored under each id
  points,    \* the points table: whose point is stored in each slot of an id
  rowStatus, \* the status stored under each id
  memory,    \* DeviceService._devices
  status,    \* Device.status of the device in memory
  polled,    \* RealBACnetPoller._point_map: the device read for each id
  connected, \* the poller has a BACnet client
  pc,        \* each request
  todo,      \* the devices it has yet to add, the one in work first
  id,        \* the id it has chosen for that one (or whose status it sets)
  next,      \* the status it sets
  seen,      \* the ids its query for a new one has selected
  added,     \* history: ids of controllers reported as added
  alone,     \* history: no other request chose an id meanwhile
  blind,     \* history: its query for the id skipped a row
  replaced,  \* history: saves that replaced another device's row
  raced,     \* history: ids in work by two requests at a time, or taken as
             \* new when they were not
  unsaved,   \* history: ids whose status was changed and not stored
  requests, failures, restarts

tables == <<row, points, rowStatus>>
live == <<memory, status, polled, connected>>
request == <<pc, todo, id, next, seen>>
history == <<added, alone, blind, replaced, raced, unsaved>>
bounds == <<requests, failures, restarts>>
vars == <<tables, live, request, history, bounds>>

Stage ==
  {"idle", "choose", "query", "read", "save", "saved", "activate", "status"}

\* The stages of a request that works on no id.
Unbound == {"idle", "choose", "query", "read"}

-----------------------------------------------------------------------------
(***************************************************************************)
(* SqliteDeviceRepository.save and DeviceService.next_device_id            *)
(***************************************************************************)

\* INSERT OR REPLACE of the device and of each of its points; the points it
\* does not have stay as they were.
WithPoints(table, d) == [s \in Slot |-> IF s \in SlotsOf[d] THEN d ELSE table[s]]

Stored == {i \in Id : row[i] # NoDevice}

\* The id after the largest of those read.
NextDeviceId(read) == 1 + Max(read \cup {0})

-----------------------------------------------------------------------------
(***************************************************************************)
(* Boot: initialize_devices, then the poller.  No request comes before.    *)
(***************************************************************************)

\* The device of a set that brings the id i, if there is one.
Bringing(set, i) ==
  IF \E d \in set : OwnId[d] = i THEN CHOOSE d \in set : OwnId[d] = i ELSE NoDevice

\* The tables and the memory after one device per id of the set is saved.
SaveAll(table, set) ==
  [i \in Id |-> IF Bringing(set, i) = NoDevice THEN table[i] ELSE Bringing(set, i)]

SavePoints(table, set) ==
  [i \in Id |-> IF Bringing(set, i) = NoDevice THEN table[i]
                ELSE WithPoints(table[i], Bringing(set, i))]

\* What a boot holds in memory: the seeds, and the controllers that answer and
\* have readable points.
BootMemory(real) == SaveAll(SaveAll([i \in Id |-> NoDevice], Seeded), real)

\* Seeds that the engine fails to start have the status "error".
BootStatus(mem, failed) == [i \in Id |-> IF mem[i] \in failed THEN "error" ELSE "online"]

\* History: the saves of a boot that replace another device.
BootReplaced(mem, oldRow) ==
  {[by |-> mem[i], id |-> i, alone |-> TRUE, blind |-> FALSE, restarted |-> TRUE] :
     i \in {j \in Id : mem[j] # NoDevice
             /\ {oldRow[j], Bringing(Seeded, j)} \ {NoDevice, mem[j]} # {}}}

\* What a boot makes of the tables: the seeds are saved, then the controllers,
\* if the poller's client can bind its port.
Booted(oldRow, oldPoints, oldStatus, real, failed) ==
  LET mem == BootMemory(real)
      stat == BootStatus(mem, failed \ real)
  IN [memory |-> mem,
      status |-> stat,
      polled |-> SaveAll([i \in Id |-> NoDevice], real),
      row |-> SaveAll(SaveAll(oldRow, Seeded), real),
      replaced |-> BootReplaced(mem, oldRow),
      points |-> SavePoints(SavePoints(oldPoints, Seeded), real),
      rowStatus |-> [i \in Id |-> IF mem[i] = NoDevice THEN oldStatus[i] ELSE stat[i]]]

BootStates(oldRow, oldPoints, oldStatus) ==
  {Booted(oldRow, oldPoints, oldStatus, real, failed) :
     real \in SUBSET Configured, failed \in SUBSET Seeded}

Init ==
  /\ connected \in BOOLEAN
  /\ \E b \in BootStates([i \in Id |-> NoDevice],
                         [i \in Id |-> [s \in Slot |-> NoDevice]],
                         [i \in Id |-> "online"]) :
       /\ row = b.row /\ points = b.points /\ rowStatus = b.rowStatus
       /\ memory = b.memory /\ status = b.status /\ polled = b.polled
       /\ replaced = b.replaced
       /\ (\E i \in Id : polled[i] # NoDevice) => connected
  /\ pc = [q \in Request |-> "idle"]
  /\ todo = [q \in Request |-> <<>>]
  /\ id = [q \in Request |-> 0]
  /\ next = [q \in Request |-> "online"]
  /\ seen = [q \in Request |-> {}]
  /\ added = {} /\ alone = [q \in Request |-> TRUE]
  /\ blind = [q \in Request |-> FALSE]
  /\ raced = {} /\ unsaved = {}
  /\ requests = 0 /\ failures = 0 /\ restarts = 0

\* The process dies and boots again; requests are lost where they are.
Restart ==
  /\ restarts < MaxRestarts
  /\ restarts' = restarts + 1
  /\ connected' \in BOOLEAN
  /\ \E b \in BootStates(row, points, rowStatus) :
       /\ row' = b.row /\ points' = b.points /\ rowStatus' = b.rowStatus
       /\ memory' = b.memory /\ status' = b.status /\ polled' = b.polled
       /\ replaced' = replaced \cup b.replaced
       /\ (\E i \in Id : b.polled[i] # NoDevice) => connected'
  /\ pc' = [q \in Request |-> "idle"]
  /\ todo' = [q \in Request |-> <<>>]
  /\ seen' = [q \in Request |-> {}]
  /\ added' = {} /\ unsaved' = {}
  /\ UNCHANGED <<id, next, alone, blind, raced, requests, failures>>

-----------------------------------------------------------------------------
(***************************************************************************)
(* Adding devices                                                          *)
(***************************************************************************)

Goto(q, stage) == pc' = [pc EXCEPT ![q] = stage]

\* The requests that have chosen an id and not entered the device yet.
Choosing == {q \in Request : pc[q] \in {"query", "read", "save", "saved"}}

\* The next device of the batch, or the answer to the request.
Advance(q) ==
  /\ todo' = [todo EXCEPT ![q] = Tail(@)]
  /\ Goto(q, IF Tail(todo[q]) = <<>> THEN "idle" ELSE "choose")

Add(q, batch) ==
  /\ pc[q] = "idle" /\ requests < MaxRequests
  /\ requests' = requests + 1
  /\ batch # <<>>
  /\ todo' = [todo EXCEPT ![q] = batch]
  /\ Goto(q, "choose")
  /\ UNCHANGED <<tables, live, id, next, seen, history, failures, restarts>>

\* History: whoever chooses while another request is between its choice and
\* its entry is not alone, and neither is the other.
NotAlone(q) ==
  alone' = [r \in Request |->
             IF r = q THEN Choosing \ {q} = {} ELSE alone[r] /\ r \notin Choosing]

\* Mutant: every device keeps the id it brings.
KeepsAny(d) == OwnId[d] # 0

\* A controller keeps its device instance; another device keeps its id when
\* the memory does not hold it.
KeepsId(d) ==
  /\ OwnId[d] # 0
  /\ d \in BACnet \/ memory[OwnId[d]] = NoDevice

\* History: another request has the id i and is not done with it, or the id is
\* taken as new and is not.
Race(q, i, old) ==
  raced' = IF old \/ \E r \in Request \ {q} : pc[r] \notin Unbound /\ id[r] = i
           THEN raced \cup {i} ELSE raced

\* The request goes on with the id i, found by a query that skipped a row if
\* skips.
Take(q, i, skips) ==
  /\ id' = [id EXCEPT ![q] = i]
  /\ blind' = [blind EXCEPT ![q] = skips]
  /\ seen' = [seen EXCEPT ![q] = {}]
  /\ Goto(q, "save")

Choose(q) ==
  LET i == OwnId[Head(todo[q])]
  IN /\ pc[q] = "choose"
     /\ \/ KeepsId(Head(todo[q])) /\ Take(q, i, FALSE) /\ Race(q, i, FALSE)
        \/ /\ ~KeepsId(Head(todo[q]))
           /\ Goto(q, "query")
           /\ UNCHANGED <<id, blind, seen, raced>>
     /\ NotAlone(q)
     /\ UNCHANGED <<tables, live, todo, next, added, replaced, unsaved, bounds>>

\* next_device_id, list_all: one SELECT of the ids.
Look(q) ==
  /\ pc[q] = "query"
  /\ seen' = [seen EXCEPT ![q] = Stored]
  /\ Goto(q, "read")
  /\ UNCHANGED <<tables, live, todo, id, next, history, bounds>>

\* Each of those rows is read by itself, and skipped if that raises; the rows
\* stored since the SELECT are not read.
Pick(q) ==
  /\ pc[q] = "read"
  /\ \E unread \in SUBSET seen[q] :
       LET i == NextDeviceId(seen[q] \ unread)
       IN /\ i \in Id
          /\ unread # {} => failures < MaxFailures
          /\ failures' = IF unread = {} THEN failures ELSE failures + 1
          /\ Take(q, i, unread # {}) /\ Race(q, i, row[i] # NoDevice)
  /\ UNCHANGED <<tables, live, todo, next, added, alone, replaced, unsaved, requests,
                 restarts>>

Save(q) ==
  LET d == Head(todo[q])
      i == id[q]
  IN /\ pc[q] = "save"
     /\ row' = [row EXCEPT ![i] = d]
     /\ points' = [points EXCEPT ![i] = WithPoints(@, d)]
     /\ rowStatus' = [rowStatus EXCEPT ![i] = "online"]
     /\ replaced' = IF row[i] \in {NoDevice, d} THEN replaced
                    ELSE replaced \cup {[by |-> d, id |-> i, alone |-> alone[q],
                                         blind |-> blind[q],
                                         restarted |-> restarts > 0]}
     /\ Goto(q, "saved")
     /\ UNCHANGED <<live, todo, id, next, seen, added, alone, blind, raced, unsaved,
                    bounds>>

\* Mutant: the error is logged, and the request goes on as if it had stored.
SaveFailsUnseen(q) ==
  /\ pc[q] = "save" /\ failures < MaxFailures
  /\ failures' = failures + 1
  /\ Goto(q, "saved")
  /\ UNCHANGED <<tables, live, todo, id, next, seen, history, requests, restarts>>

\* Mutant: the device is committed before its points.
SaveFailsHalfway(q) ==
  /\ pc[q] = "save" /\ failures < MaxFailures
  /\ failures' = failures + 1
  /\ row' = [row EXCEPT ![id[q]] = Head(todo[q])]
  /\ todo' = [todo EXCEPT ![q] = <<>>]
  /\ Goto(q, "idle")
  /\ UNCHANGED <<points, rowStatus, live, id, next, seen, history, requests, restarts>>

\* Mutant: the batch goes on, even if nothing is left of it.
SaveFailsGoesOn(q) ==
  /\ pc[q] = "save" /\ failures < MaxFailures
  /\ failures' = failures + 1
  /\ todo' = [todo EXCEPT ![q] = Tail(@)]
  /\ Goto(q, "choose")
  /\ UNCHANGED <<tables, live, id, next, seen, history, requests, restarts>>

\* SQLite raises: the request ends, with the devices added before in place.
SaveFails(q) ==
  /\ pc[q] = "save" /\ failures < MaxFailures
  /\ failures' = failures + 1
  /\ todo' = [todo EXCEPT ![q] = <<>>]
  /\ Goto(q, "idle")
  /\ UNCHANGED <<tables, live, id, next, seen, history, requests, restarts>>

\* Mutant: a controller whose client is not there counts as added all the same.
EnterUnpolled(q) ==
  LET d == Head(todo[q])
      i == id[q]
  IN /\ pc[q] = "saved"
     /\ memory' = [memory EXCEPT ![i] = d]
     /\ status' = [status EXCEPT ![i] = "online"]
     /\ IF d \in BACnet
        THEN /\ polled' = IF connected THEN [polled EXCEPT ![i] = d] ELSE polled
             /\ added' = added \cup {i}
             /\ Advance(q)
        ELSE Goto(q, "activate") /\ UNCHANGED <<todo, added, polled>>
     /\ UNCHANGED <<tables, connected, id, next, seen, alone, blind, replaced, raced,
                    unsaved, bounds>>

\* save_device is done.  A controller goes to the poller, and the request
\* fails if it has no client: attach_device calls _connect without its
\* argument.  Another device goes on to the network.
Enter(q) ==
  LET d == Head(todo[q])
      i == id[q]
  IN /\ pc[q] = "saved"
     /\ memory' = [memory EXCEPT ![i] = d]
     /\ status' = [status EXCEPT ![i] = "online"]
     /\ \/ /\ d \in BACnet /\ connected
           /\ polled' = [polled EXCEPT ![i] = d]
           /\ added' = added \cup {i}
           /\ Advance(q)
        \/ /\ d \in BACnet /\ ~connected
           /\ todo' = [todo EXCEPT ![q] = <<>>]
           /\ Goto(q, "idle")
           /\ UNCHANGED <<polled, added>>
        \/ /\ d \notin BACnet
           /\ Goto(q, "activate")
           /\ UNCHANGED <<polled, added, todo>>
     /\ UNCHANGED <<tables, connected, id, next, seen, alone, blind, replaced, raced,
                    unsaved, bounds>>

\* activate_device: started or not, the device is in memory; its status is not
\* stored.
Activate(q) ==
  LET d == Head(todo[q])
      i == id[q]
  IN /\ pc[q] = "activate"
     /\ memory' = [memory EXCEPT ![i] = d]
     /\ status' \in {[status EXCEPT ![i] = s] : s \in {"online", "error"}}
     /\ unsaved' = IF status'[i] = "error" THEN unsaved \cup {i} ELSE unsaved
     /\ Advance(q)
     /\ UNCHANGED <<tables, polled, connected, id, next, seen, added, alone, blind,
                    replaced, raced, bounds>>

-----------------------------------------------------------------------------
(***************************************************************************)
(* set_device_status: the memory first, then the table.                    *)
(***************************************************************************)

\* Mutant: the old status is handed to the repository.
SetStatusOld(q, i, s) ==
  /\ pc[q] = "idle" /\ requests < MaxRequests
  /\ memory[i] # NoDevice
  /\ requests' = requests + 1
  /\ status' = [status EXCEPT ![i] = s]
  /\ id' = [id EXCEPT ![q] = i]
  /\ next' = [next EXCEPT ![q] = status[i]]
  /\ unsaved' = IF \E r \in Request \ {q} : pc[r] # "idle" /\ id[r] = i
                THEN unsaved \cup {i} ELSE unsaved
  /\ Goto(q, "status")
  /\ UNCHANGED <<tables, memory, polled, connected, todo, seen, added, alone, blind,
                 replaced, raced, failures, restarts>>

SetStatus(q, i, s) ==
  /\ pc[q] = "idle" /\ requests < MaxRequests
  /\ memory[i] # NoDevice
  /\ requests' = requests + 1
  /\ status' = [status EXCEPT ![i] = s]
  /\ id' = [id EXCEPT ![q] = i]
  /\ next' = [next EXCEPT ![q] = s]
  /\ unsaved' = IF \E r \in Request \ {q} : pc[r] # "idle" /\ id[r] = i
                THEN unsaved \cup {i} ELSE unsaved
  /\ Goto(q, "status")
  /\ UNCHANGED <<tables, memory, polled, connected, todo, seen, added, alone, blind,
                 replaced, raced, failures, restarts>>

StoreStatus(q) ==
  /\ pc[q] = "status"
  /\ rowStatus' = [rowStatus EXCEPT ![id[q]] = next[q]]
  /\ Goto(q, "idle")
  /\ UNCHANGED <<row, points, live, todo, id, next, seen, history, bounds>>

StoreStatusFails(q) ==
  /\ pc[q] = "status" /\ failures < MaxFailures
  /\ failures' = failures + 1
  /\ unsaved' = unsaved \cup {id[q]}
  /\ Goto(q, "idle")
  /\ UNCHANGED <<tables, live, todo, id, next, seen, added, alone, blind, replaced,
                 raced, requests, restarts>>

\* A stop cancels the scenario that waits for the update, before it is made: the
\* memory keeps the new status.
StatusCancelled(q) ==
  /\ pc[q] = "status"
  /\ unsaved' = unsaved \cup {id[q]}
  /\ Goto(q, "idle")
  /\ UNCHANGED <<tables, live, todo, id, next, seen, added, alone, blind, replaced,
                 raced, bounds>>

-----------------------------------------------------------------------------
Step(q) ==
  \/ Choose(q) \/ Look(q) \/ Pick(q) \/ Save(q) \/ SaveFails(q) \/ Enter(q)
  \/ Activate(q) \/ StoreStatus(q) \/ StoreStatusFails(q) \/ StatusCancelled(q)

Next ==
  \/ \E q \in Request :
       \/ \E batch \in Batch : Add(q, batch)
       \/ \E i \in Id, s \in {"online", "offline"} : SetStatus(q, i, s)
       \/ Step(q)
  \/ Restart

Spec == Init /\ [][Next]_vars

-----------------------------------------------------------------------------
Holder == Device \cup {NoDevice}
Status == {"online", "offline", "error"}

\* Every variable keeps its type; a request in work has a device to add.
TypeOK ==
  /\ row \in [Id -> Holder] /\ memory \in [Id -> Holder] /\ polled \in [Id -> Holder]
  /\ points \in [Id -> [Slot -> Holder]]
  /\ rowStatus \in [Id -> Status] /\ status \in [Id -> Status]
  /\ connected \in BOOLEAN
  /\ pc \in [Request -> Stage]
  /\ todo \in [Request -> Seq(Device)] /\ id \in [Request -> 0..MaxId]
  /\ next \in [Request -> Status] /\ seen \in [Request -> SUBSET Id]
  /\ \A q \in Request :
       /\ pc[q] \notin {"idle", "status"} => todo[q] # <<>>
       /\ pc[q] \in {"save", "saved", "activate", "status"} => id[q] \in Id
  /\ alone \in [Request -> BOOLEAN] /\ blind \in [Request -> BOOLEAN]
  /\ added \subseteq Id
  /\ replaced \subseteq [by : Device, id : Id, alone : BOOLEAN, blind : BOOLEAN,
                         restarted : BOOLEAN]
  /\ raced \subseteq Id /\ unsaved \subseteq Id
  /\ requests \in Nat /\ failures \in Nat /\ restarts \in Nat

Busy(i) == \E q \in Request : pc[q] \notin Unbound /\ id[q] = i

\* A stored device is replaced by another for four reasons only: a device of
\* a file, or a controller, that keeps its id whatever is there; two requests
\* that choose their ids at a time; a query for a new id that skipped a row it
\* could not read; and a device that brings the id of a stored device the
\* memory has forgotten since a restart.
ReplacedForCause ==
  \A r \in replaced :
    \/ r.by \in Seeded \cup Configured \cup BACnet
    \/ ~r.alone
    \/ r.blind
    \/ OwnId[r.by] = r.id /\ r.restarted

\* The table agrees with the memory on which device has an id, once no request
\* works on it, unless two requests worked on it at a time or it was taken as
\* new and was not.
MemoryIsStored ==
  \A i \in Id \ raced : memory[i] # NoDevice /\ ~Busy(i) => row[i] = memory[i]

\* A stored device has its own points and no others, unless it replaced
\* another or was replaced itself.
PointsOfOneDevice ==
  \A i \in Id : (\A r \in replaced : r.id # i) =>
    \A s \in Slot : points[i][s] =
      IF row[i] # NoDevice /\ s \in SlotsOf[row[i]] THEN row[i] ELSE NoDevice

\* A controller reported as added is read by the poller until the restart, and
\* what the poller reads under an id is the device the memory has there, so no
\* reading is ingested into another device, unless two requests worked on the
\* id at a time or it was taken as new and was not.
PolledIsInMemory ==
  /\ \A i \in Id \ raced : polled[i] # NoDevice /\ ~Busy(i) => memory[i] = polled[i]
  /\ \A i \in added : polled[i] # NoDevice

\* The stored status, which the API shows, is the device's, except after a
\* failed activation, an update that failed or was cancelled, two requests on
\* one device, or an id taken as new that was not.
StatusIsStored ==
  \A i \in Id \ (unsaved \cup raced) :
    memory[i] # NoDevice /\ ~Busy(i) => rowStatus[i] = status[i]

\* What the API shows of a device that works is what the engine has of it.
StoredAsInMemory == MemoryIsStored /\ StatusIsStored
================================================================================
