------------------------------- MODULE Historian -------------------------------
(***************************************************************************)
(* The time-series store: devices are registered in a transaction each,    *)
(* which finds or makes an id for every point; a cache by the name of the  *)
(* point says under which id the values are stored; the forecasts find the *)
(* id in the table, by the name too.                                       *)
(*                                                                         *)
(* A point is <<device, name>>.  The table holds what is committed.  The   *)
(* store may fail at any statement, and the process may end at any time;   *)
(* the devices in memory come back from SQLite then.                       *)
(*                                                                         *)
(* Sources: adapters/persistence/timescale.py,                             *)
(* application/historian_service.py, application/forecast_scheduler.py,    *)
(* forecasting/service.py, forecasting/db.py, and those who register: the  *)
(* poller, the discovery and the import of ETS files.                      *)
(***************************************************************************)
EXTENDS Integers, SequencesExt, Functions, Dicts

CONSTANTS
  Devices,
  NamesOf,  \* the names of the points of a device, as a sequence
  Tasks,    \* tasks that register devices
  Boot,     \* the one of them that starts the service
  MaxId     \* bound on the ids that are made

(* The devices can be listed, and so can the names of each.                *)
StoreAssumption ==
  /\ IsFiniteSet(Devices) /\ Boot \in Tasks /\ MaxId \in Nat
  /\ \A d \in Devices : Len(NamesOf[d]) \in Nat /\ DOMAIN NamesOf[d] = 1..Len(NamesOf[d])
  /\ \A d \in Devices : NamesOf[d] = <<>> <=> Len(NamesOf[d]) = 0

ASSUME HistorianAssumption == StoreAssumption

VARIABLES
  known,      \* the devices in memory
  ready,      \* the store is connected
  sampling,   \* the sample loop runs
  open,       \* by task, its transaction: the devices it has left, the next
              \* point of the first of them, and its rows
  table,      \* id by point, committed
  nextId,
  cache,      \* _point_ids: id by name
  reading,    \* one of the values last stored: its point and its id
  forecast    \* the one made last: its name, the id of its series and its own

used == <<reading, forecast>>
history == <<known, ready, sampling, open, table, nextId, cache, used>>

Idle == [todo |-> <<>>, at |-> 1, rows |-> <<>>, running |-> FALSE]

Points == UNION {{<<d, NamesOf[d][i]>> : i \in DOMAIN NamesOf[d]} : d \in Devices}

None == 0  \* no id

HistorianInit ==
  /\ known \in SUBSET Devices
  /\ ready = FALSE /\ sampling = FALSE
  /\ open = [t \in Tasks |-> Idle]
  /\ table = <<>> /\ nextId = 1 /\ cache = <<>>
  /\ reading = {} /\ forecast = {}

(* register_devices: nothing is done while the store is not connected.     *)
Registering(t, connected, batch) ==
  \E order \in SetToSeqs({d \in batch : NamesOf[d] # <<>>}) :
    open' = [open EXCEPT ![t] = IF connected THEN [Idle EXCEPT !.todo = order, !.running = TRUE]
                                ELSE @]

-----------------------------------------------------------------------------
(* HistorianService.start: connects, and registers all devices in memory.  *)
Start ==
  /\ ~ready /\ ~open[Boot].running
  /\ ready' = TRUE
  /\ Registering(Boot, TRUE, known)
  /\ UNCHANGED <<known, sampling, table, nextId, cache, used>>

(* A controller is onboarded or attached again, a device is added.         *)
Add(t, device) ==
  /\ t # Boot /\ ~open[t].running
  /\ ready => sampling
  /\ known' = known \cup {device}
  /\ Registering(t, ready, {device})
  /\ UNCHANGED <<ready, sampling, table, nextId, cache, used>>

Rows(t) == open[t].rows

(* The row of a device is locked by the first transaction that upserts it. *)
Locked(t, point) ==
  \E u \in Tasks \ {t} : \E q \in DOMAIN Rows(u) : q[1] = point[1]

(* The point a transaction upserts next, and those it has left after it.   *)
NextPoint(t) ==
  LET d == Head(open[t].todo) IN <<d, NamesOf[d][open[t].at]>>

Left(t) ==
  LET d == Head(open[t].todo)
      i == open[t].at
  IN  IF i < Len(NamesOf[d]) THEN [open[t] EXCEPT !.at = i + 1]
      ELSE [open[t] EXCEPT !.at = 1, !.todo = Tail(@)]

IdFor(t, point) ==
  IF point \in DOMAIN Rows(t) THEN Rows(t)[point]
  ELSE IF point \in DOMAIN table THEN table[point] ELSE nextId

Inserted(t, point, id, cached) ==
  /\ open[t].todo # <<>>
  /\ ~Locked(t, point) /\ id <= MaxId
  /\ open' = [open EXCEPT ![t] = [Left(t) EXCEPT !.rows = Over(@, Single(point, id))]]
  /\ nextId' = IF id = nextId THEN nextId + 1 ELSE nextId
  /\ cache' = cached
  /\ UNCHANGED <<known, ready, sampling, table, used>>

(* The upsert of a point.  The cache takes the id before it is committed.  *)
(* Mutant: an id that is in the cache is left there.                       *)
UpsertPointOnce(t) ==
  LET point == NextPoint(t)
      id == IdFor(t, point)
  IN  Inserted(t, point, id, Over(cache, Single(point[2], id)))

UpsertPoint(t) ==
  LET point == NextPoint(t)
      id == IdFor(t, point)
  IN  Inserted(t, point, id, Over(Single(point[2], id), cache))

Ends(t, committed) ==
  /\ open' = [open EXCEPT ![t] = Idle]
  /\ table' = committed
  /\ sampling' = (sampling \/ t = Boot)
  /\ UNCHANGED <<known, ready, nextId, cache, used>>

Commit(t) ==
  /\ open[t].running /\ open[t].todo = <<>>
  /\ Ends(t, Over(Rows(t), table))

(* A statement fails: logged, and what the cache took stays in it.         *)
Rollback(t) == open[t].running /\ Ends(t, table)

-----------------------------------------------------------------------------
(* _sample_loop and write_readings: all points in memory whose name is in  *)
(* the cache.                                                              *)
Sample ==
  /\ sampling
  /\ \E p \in Points :
       /\ p[1] \in known /\ p[2] \in DOMAIN cache
       /\ reading' = {[point |-> p, id |-> cache[p[2]]]}
  /\ UNCHANGED <<known, ready, sampling, open, table, nextId, cache, forecast>>

(* _resolve_point_id: any row of that name.                                *)
Resolved(name) == {table[p] : p \in {q \in DOMAIN table : q[2] = name}}

(* ForecastService.forecast_point, by the scheduler, a request or the      *)
(* copilot: the id is looked up for the series, and again for the result   *)
(* when the model has answered.  A series that cannot be read counts as an *)
(* empty one, whose forecast is zero.  Without an id for the result,       *)
(* or when the store fails, nothing is stored.                             *)
FetchSeries(name) ==
  /\ \E id \in Resolved(name) \cup {None} : forecast' = {[name |-> name, from |-> id, to |-> None]}
  /\ UNCHANGED <<known, ready, sampling, open, table, nextId, cache, reading>>

StoreForecast ==
  /\ \E f \in forecast : \E id \in Resolved(f.name) :
       f.to = None /\ forecast' = {[f EXCEPT !.to = id]}
  /\ UNCHANGED <<known, ready, sampling, open, table, nextId, cache, reading>>

(* The process ends, or is stopped, and starts again.                      *)
Restart ==
  /\ ready
  /\ ready' = FALSE /\ sampling' = FALSE
  /\ open' = [t \in Tasks |-> Idle]
  /\ cache' = <<>> /\ forecast' = {f \in forecast : f.to # None}
  /\ UNCHANGED <<known, table, nextId, reading>>

HistorianNext ==
  \/ Start \/ Sample \/ Restart
  \/ \E t \in Tasks : UpsertPoint(t) \/ Commit(t) \/ Rollback(t)
  \/ \E t \in Tasks, d \in Devices : Add(t, d)
  \/ StoreForecast \/ \E p \in Points : FetchSeries(p[2])

HistorianSpec == HistorianInit /\ [][HistorianNext]_history

-----------------------------------------------------------------------------
Ids == {table[p] : p \in DOMAIN table}
Named(id) == CHOOSE p \in DOMAIN table : table[p] = id

(* No other device has a point of that name. *)
Sole(point) == \A q \in Points : q[2] = point[2] => q = point

(* A point that is registered is sampled into its own series, across all   *)
(* transactions that fail and all restarts, unless another device has a    *)
(* point of that name; a series holds the values of points of its name     *)
(* only; and a forecast is made from the series it is stored beside, or    *)
(* from none.                                                              *)
SamplesOfOwnPoint ==
  /\ \A p \in DOMAIN table :
       Sole(p) /\ p[2] \in DOMAIN cache => cache[p[2]] = table[p]
  /\ \A r \in reading :
       /\ r.id \in Ids => Named(r.id)[2] = r.point[2]
       /\ Sole(r.point) /\ r.id \in Ids => Named(r.id) = r.point
  /\ \A f \in {g \in forecast : g.to # None} :
       /\ Named(f.to)[2] = f.name
       /\ Sole(Named(f.to)) => f.from \in {f.to, None}
================================================================================
