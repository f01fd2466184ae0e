------------------------------ MODULE PointWrites ------------------------------
(***************************************************************************)
(* One value, four copies: DeviceService keeps a point's value in memory,  *)
(* the BACnet object shows it to the network, SQLite stores it (the HTTP   *)
(* API reads it there), and the bus tells it to the subscribers.           *)
(*                                                                         *)
(* write_point is the command path (engine, memory, SQLite, event);        *)
(* ingest_point_value takes a value that was read off the wire (memory,    *)
(* SQLite, event); what arrives over KNX or MQTT changes the memory only.  *)
(* The engines' writes reach no suspension, so a change is atomic up to    *)
(* the SQLite update; each update has a connection of its own, and two of  *)
(* them may commit in either order.  A writer is a task of the simulation, *)
(* of a scenario, of the poller or of a request: a stop can cancel it at   *)
(* either of its awaits, the update and the publication.                   *)
(*                                                                         *)
(* Sources: application/device_service.py, adapters/network_composite.py,  *)
(* adapters/bacnet/engine.py, adapters/knx/engine.py, SqliteDevice-        *)
(* Repository.update_point_value.                                          *)
(***************************************************************************)
EXTENDS Naturals

CONSTANTS
  Task,         \* tasks that call DeviceService
  Point,        \* points of the registered devices
  Value,        \* values
  Running,      \* points whose device has a BACnet instance
  MaxChanges,   \* bound on calls and telegrams
  MaxFailures,  \* bound on failing calls of the engine and of SQLite
  MaxCancels    \* bound on stops that cancel a writer

ASSUME PointWritesAssumption ==
  /\ Value # {} /\ Running \subseteq Point
  /\ MaxChanges \in Nat /\ MaxFailures \in Nat /\ MaxCancels \in Nat

VARIABLES
  composite, \* TRUE when MQTT or KNX is enabled beside BACnet
  pc,       \* "idle", "persist" (in update_point_value), "tell" (on the bus)
  point,    \* the point a task changes
  old, new, \* the event's old_value and new_value
  mem,      \* Point.present_value of the device in memory
  exposed,  \* presentValue of the BACnet object
  db,       \* points.present_value in SQLite
  told,     \* new_value of the last PointValueChanged handled
  by,       \* history: what last set the memory
  excused,  \* history: points with overlapping, silent, unsaved or cancelled changes
  changes, failures, cancels

taskVars == <<pc, point, old, new>>
valueVars == <<mem, exposed, db, told>>
vars == <<composite, taskVars, valueVars, by, excused, changes, failures, cancels>>

Init ==
  /\ composite \in BOOLEAN
  /\ pc = [t \in Task |-> "idle"]
  /\ point \in [Task -> Point]
  /\ \E v \in [Point -> Value] :
       mem = v /\ exposed = v /\ db = v /\ told = v
  /\ \E v \in Value : old = [t \in Task |-> v] /\ new = [t \in Task |-> v]
  /\ by = [p \in Point |-> "boot"]
  /\ excused = {} /\ changes = 0 /\ failures = 0 /\ cancels = 0

Busy(p) == \E t \in Task : pc[t] # "idle" /\ point[t] = p

\* Mutant: old_value is read after the memory has changed.
ChangeThenRead(t, p, v, who) ==
  /\ mem' = [mem EXCEPT ![p] = v]
  /\ by' = [by EXCEPT ![p] = who]
  /\ pc' = [pc EXCEPT ![t] = "persist"]
  /\ point' = [point EXCEPT ![t] = p]
  /\ old' = [old EXCEPT ![t] = v]
  /\ new' = [new EXCEPT ![t] = v]
  /\ excused' = IF Busy(p) THEN excused \cup {p} ELSE excused

\* The memory takes v; the task goes on to persist it and tell it.
Change(t, p, v, who) ==
  /\ mem' = [mem EXCEPT ![p] = v]
  /\ by' = [by EXCEPT ![p] = who]
  /\ pc' = [pc EXCEPT ![t] = "persist"]
  /\ point' = [point EXCEPT ![t] = p]
  /\ old' = [old EXCEPT ![t] = mem[p]]
  /\ new' = [new EXCEPT ![t] = v]
  /\ excused' = IF Busy(p) THEN excused \cup {p} ELSE excused

\* Mutant: an engine's errors are logged and forgotten, composite or not.
EngineWriteLogged(p, v, ok) ==
  /\ ok => p \in Running
  /\ exposed' = IF ok THEN [exposed EXCEPT ![p] = v] ELSE exposed

\* Mutant: a failing write drops the object from the BACnet instance.
EngineWriteDrops(p, v, ok) ==
  /\ ok => p \in Running
  /\ ok \/ composite
  /\ exposed' = IF ok THEN [exposed EXCEPT ![p] = v]
                 ELSE [q \in DOMAIN exposed \ {p} |-> exposed[q]]

\* The engine's write: only a running instance can take it, and an error
\* propagates unless CompositeDeviceNetwork stands between and logs it.
EngineWrite(p, v, ok) ==
  /\ ok => p \in Running
  /\ ok \/ composite
  /\ exposed' = IF ok THEN [exposed EXCEPT ![p] = v] ELSE exposed

WritePoint(t, p, v) ==
  /\ pc[t] = "idle" /\ changes < MaxChanges
  /\ changes' = changes + 1
  /\ \E ok \in BOOLEAN :
       /\ EngineWrite(p, v, ok)
       /\ ~ok => failures < MaxFailures
       /\ failures' = IF ok THEN failures ELSE failures + 1
  /\ Change(t, p, v, "command")
  /\ UNCHANGED <<db, told>>

\* The engine's error reaches the caller of write_point: nothing else happens.
WriteRefused(t) ==
  /\ pc[t] = "idle" /\ changes < MaxChanges /\ failures < MaxFailures
  /\ ~composite
  /\ changes' = changes + 1 /\ failures' = failures + 1
  /\ UNCHANGED <<taskVars, valueVars, by, excused>>

\* A value that does not differ from the memory is dropped.
Ingest(t, p, v) ==
  /\ pc[t] = "idle" /\ changes < MaxChanges
  /\ v # mem[p]
  /\ changes' = changes + 1
  /\ Change(t, p, v, "ingest")
  /\ UNCHANGED <<exposed, db, told, failures>>

\* KnxEngine._on_telegram: on_bus_value has no subscriber, the memory is all.
\* MqttEngine._on_message does the same from the client's own thread.
BusTelegram(p, v) ==
  /\ changes < MaxChanges
  /\ changes' = changes + 1
  /\ mem' = [mem EXCEPT ![p] = v]
  /\ by' = [by EXCEPT ![p] = "bus"]
  /\ excused' = excused \cup {p}
  /\ UNCHANGED <<taskVars, exposed, db, told, failures>>

Persist(t) ==
  /\ pc[t] = "persist"
  /\ db' = [db EXCEPT ![point[t]] = new[t]]
  /\ pc' = [pc EXCEPT ![t] = "tell"]
  /\ UNCHANGED <<point, old, new, mem, exposed, told, by, excused, changes,
                 failures>>

\* Mutant: the repository logs its error and returns as if it had written.
PersistFailsUnseen(t) ==
  /\ pc[t] = "persist" /\ failures < MaxFailures
  /\ failures' = failures + 1
  /\ pc' = [pc EXCEPT ![t] = "tell"]
  /\ UNCHANGED <<point, old, new, valueVars, by, excused, changes>>

\* SQLite raises: the caller gets the error and no event is published.
PersistFails(t) ==
  /\ pc[t] = "persist" /\ failures < MaxFailures
  /\ failures' = failures + 1
  /\ excused' = excused \cup {point[t]}
  /\ pc' = [pc EXCEPT ![t] = "idle"]
  /\ UNCHANGED <<point, old, new, valueVars, by, changes>>

\* PointValueChanged has passed EventService and reaches the other handlers.
Tell(t) ==
  /\ pc[t] = "tell"
  /\ told' = [told EXCEPT ![point[t]] = new[t]]
  /\ pc' = [pc EXCEPT ![t] = "idle"]
  /\ UNCHANGED <<point, old, new, mem, exposed, db, by, excused, changes,
                 failures>>

\* SimulationEngine.stop, Scenario.stop or the end of the poller cancels the
\* task in its await: the update may have been committed and the event have
\* reached its handlers, or not.  The memory has changed, and stays so.
Cancel(t) ==
  /\ pc[t] # "idle" /\ cancels < MaxCancels
  /\ cancels' = cancels + 1
  /\ excused' = excused \cup {point[t]}
  /\ pc' = [pc EXCEPT ![t] = "idle"]
  /\ \/ UNCHANGED <<db, told>>
     \/ /\ pc[t] = "persist"
        /\ db' = [db EXCEPT ![point[t]] = new[t]]
        /\ UNCHANGED told
     \/ /\ pc[t] = "tell"
        /\ told' = [told EXCEPT ![point[t]] = new[t]]
        /\ UNCHANGED db
  /\ UNCHANGED <<point, old, new, mem, exposed, by, changes, failures>>

\* Which engines are wired is settled when the program starts.
Next ==
  /\ UNCHANGED composite
  /\ \/ /\ \/ \E t \in Task, p \in Point, v \in Value :
                WritePoint(t, p, v) \/ Ingest(t, p, v)
           \/ \E p \in Point, v \in Value : BusTelegram(p, v)
           \/ \E t \in Task :
                WriteRefused(t) \/ Persist(t) \/ PersistFails(t) \/ Tell(t)
        /\ UNCHANGED cancels
     \/ \E t \in Task : Cancel(t)

Spec == Init /\ [][Next]_vars

--------------------------------------------------------------------------------
\* Every variable keeps its type: the copies of the values and the stages of the writes.
TypeOK ==
  /\ composite \in BOOLEAN
  /\ pc \in [Task -> {"idle", "persist", "tell"}]
  /\ point \in [Task -> Point]
  /\ old \in [Task -> Value] /\ new \in [Task -> Value]
  /\ mem \in [Point -> Value] /\ exposed \in [Point -> Value]
  /\ db \in [Point -> Value] /\ told \in [Point -> Value]
  /\ by \in [Point -> {"boot", "command", "ingest", "bus"}]
  /\ excused \subseteq Point
  /\ changes \in Nat /\ failures \in Nat /\ cancels \in Nat

\* A point at rest has one value: what SQLite stores (and the API shows) and
\* what the subscribers heard last are the memory's.  Four things break it for
\* good, and only these: overlapping changes of the point, whose updates may
\* commit and be told in the other order; a failed update; a value that came
\* over the bus; a writer that was cancelled before its event was told.
QuietCopiesAgree ==
  \A p \in Point \ excused : ~Busy(p) => db[p] = mem[p] /\ told[p] = mem[p]

\* Without those, events form a chain: each starts from the value the one
\* before it told, so a subscriber misses no change.
EventsChain ==
  \A t \in Task :
    pc[t] = "tell" /\ point[t] \notin excused => told[point[t]] = old[t]

\* The change that is under way on a point: where it is, and what it replaces.
\* The task at work is the only one while the point is not excused.
Worker(p) == CHOOSE t \in Task : pc[t] # "idle" /\ point[t] = p
Stage(p) ==
  IF p \in excused \/ ~Busy(p) THEN "rest"
  ELSE IF pc[Worker(p)] = "persist" THEN "store" ELSE "tell"
From(p) == IF p \in excused \/ ~Busy(p) THEN mem[p] ELSE old[Worker(p)]

Reg == INSTANCE Register WITH
  held <- mem, stored <- db, told <- told, givenUp <- excused,
  from <- [p \in Point |-> From(p)], stage <- [p \in Point |-> Stage(p)]

\* DeviceService is a register for each point: it takes a change when the one
\* before it is done, stores it, and then tells it with the value that was told
\* before, as long as the point is not excused.
ImplementsRegister == Reg!Spec

\* With BACnet alone, a value commanded is a value the device received: the
\* memory never holds a command the BACnet object refused.
CommandReachedDevice ==
  \A p \in Point : ~composite /\ by[p] = "command" => exposed[p] = mem[p]

\* The engine's comment says so of every configuration: its errors propagate,
\* so that callers do not update domain state with a value the device never
\* received.
RefusedNotKept ==
  \A p \in Point : by[p] = "command" => exposed[p] = mem[p]
================================================================================
