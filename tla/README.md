# A TLA+ model of the BACnet lab backend

The repository simulates and supervises building devices: points change, the changes travel over
an in-process event bus, an anomaly detector turns them into alarms, a pipeline enriches the alarms,
webhooks and sockets tell the outside. This directory models the parts in which several asyncio
tasks share state and the algorithms they rest on, checks them with TLC, and proves the main safety
results with TLAPS.

Paths below are relative to `src/src/bacnet_lab/` in this tree (`src/bacnet_lab/` of the repository).

## 1. How the program runs

One process and one asyncio thread. A task runs without interruption from one `await` that really
suspends to the next, so an **action** of a module is what a task does between two suspensions, and
**interleaving** is between tasks: HTTP requests, the simulation loop, the pollers, scenario runs,
the pipeline's worker. An `await` of a coroutine that never suspends (the engines' writes) gives no
other task a turn, and is part of its action.

`InProcessEventBus.publish` awaits its handlers one after the other *in the publisher's own task*
and logs what they raise. The order is fixed at boot
(`bootstrap.py`): EventService, AlarmService, AnomalyDetector, PipelineService, AnomalyFeed,
WebSocket, webhook subscriber, Historian. Two things follow that the modules turn on: an event sits
in EventService, which awaits webhooks for up to ten seconds, before anyone else hears of it; and an
event published by a handler runs through the whole chain inside that handler.

**Cancellation.** `SimulationEngine.stop`, `Scenario.stop` and the stop of the pipeline cancel a task wherever it
awaits: in a table write, in a webhook post of EventService, in a query of the detector. `CancelledError` is no
`Exception`, so the bus and the handlers let it pass, no later handler is called, and what memory has taken stays
taken. A table write under way has a connection and a transaction of its own: by the time the task has ended it was
committed or never will be. Every module whose tasks may be cancelled has these steps (`Cancel`, `Cancelled`,
`StatusCancelled`), each with both outcomes of the write.

What survives a restart is SQLite (devices, points, alarms, endpoints, event log) and the
time-series database. Everything else is in memory. SQLite repositories open a connection and a
transaction per call.

## 2. Inventory

| Component | State | Operations | Hard because | Correct when | Module |
|---|---|---|---|---|---|
| Event bus | handler lists, made at boot | publish | handlers suspend, raise, publish again, are cancelled | every handler gets every event, whatever another raises, unless the task is cancelled | part of AlarmFlow, PointWrites, EventDelivery, Pipeline |
| Anomaly detector, alarm service, alarm table | open excursions (memory), rows (SQLite) | judge a reading, raise, clear, insert, update | the two events of one alarm are published by two tasks; forecasts are awaited; tasks are cancelled; restarts forget | the active list is the list of open excursions | AlarmFlow |
| DeviceService, point values | memory, engine object, SQLite row, last event | write_point, ingest_point_value, bus telegrams | four copies, updated one await apart | the copies agree at rest; refused commands are not kept | PointWrites |
| Protocol engines | objects, topics, group addresses, KNX connections | write, start, stop, telegram | composite swallows errors; codecs have ranges; names have slashes; telegrams cross; addresses are shared | what is read back is what was written; memory and bus agree | PointWrites, KnxBus, KnxCodec, ValueForms |
| Pipeline and anomaly feed | bounded queue, worker, counters, keyed and bounded feed | on_event, worker steps, acknowledge, stop | full queue, failing enrichment, cancellation, replaced and evicted items | each alarm has exactly one fate; the feed shows the newest of each point, in order | Pipeline, FifoStage |
| Scenarios | status, task handle, effect outside | start, stop, the run | stop awaits clean-up while others start and stop | what a run did is undone; status is true | Scenario |
| Validation, day cycle | loop variables | run | nothing to undo | - | not modelled |
| Device registry, discovery | devices in memory, SQLite, poller | boot, batch add, ETS import, status | ids are read row by row and chosen before they are stored; updates are cancelled; restart forgets | one device per id; the copies agree | DeviceRegistry |
| Real poller | clients, task | attach, poll, reconnect | crashed loop; attach without client | attached controllers are read | partly DeviceRegistry, PointWrites, Historian, ValueForms |
| Event log, endpoints | rows | log, deliver, mark, create, toggle, test, delete | concurrent posts, counts, whole-row saves, cancelled publishers | the delivered mark is true; failures are counted | EventDelivery |
| Simulation engine, faults | loop task, values, generators, faults | start, stop, tick, inject, override, add device | stop and start overlap; writes fail; dictionary rebuilt under the loop; a fault that raises | status true; last values true; faults hold | Simulation |
| Generators, world model | signal state, the world | next value, step | references to other points, long steps | stay within bounds, converge | Signals (any value in Simulation) |
| WebSocket fan-out | set of clients | connect, leave, broadcast | set changes while a send is awaited | a client that stays and answers gets each message in order, unless the set changed or a send failed under the broadcast | Fanout |
| Webhook subscriber | - | deliver with one retry | late answer, duplicate | only what was published arrives; a message is repeated only after the subscriber stopped waiting for it | Fanout |
| Historian, time-series store | id cache, readiness | register, sample | rolled-back transaction, names as keys | a sample belongs to its point | Historian |
| Forecasting | stored trajectories | schedule, read, store | the id is looked up twice; a series that cannot be read is forecast as zeros | a forecast is stored for its own series | Historian, Prediction (any band in AlarmFlow) |
| Prediction | - | scan, health, fleet figures | old trajectories, past steps | every prediction has a breach in the newest trajectory | Prediction |
| Copilot | reasoning rows | prompt, query | external model | - | not modelled |
| Telemetry | - | publish snapshots | - | - | not modelled |
| Assets | rows | create, update, seed | read-modify-write | no update lost | planned |
| Discovery adapters | - | scans | network | each device found is described as it answered | Discovered (the network gives any answers) |
| ETS parser | - | parse | addresses and types written in many ways | one point per address, each with its own name | EtsImport |
| Device files, fleets | - | load, replicate | generated ids, references between points | ids differ, references stay inside the copy | Fleet |
| HTTP API, dashboard | - | one service call per route | - | - | calls are the actions |
| Boot, shutdown, configuration | - | start and stop services in order | signal and server end race | - | partly, in the modules of the parts |

`PROJECT.json` lists the same components with their source files, and the hazards by line.

### How the modules meet

The modules are checked apart, each with the others reduced to what it can observe of them:

* AlarmFlow, Pipeline and PointWrites see **EventService** as a stage in which an event waits for any
  time, which may fail without harm to the handlers after it, and in which the task may be cancelled.
  EventDelivery is what happens inside that stage.
* AlarmFlow sees **writers** as tasks that publish readings at any time; PointWrites, Simulation and
  Scenario are three of those writers.
* Pipeline sees **AlarmFlow** as alarms that are raised at any time.
* PointWrites and Simulation see the **registry** as a fixed set of points, respectively one that
  grows; DeviceRegistry is how it grows.
* Fanout sees the **pipeline's worker** as a task that publishes one message after the other, as
  Pipeline has it; Historian sees **registrations** by the boot and by any task, and readings of any
  point at any time; KnxBus sees **writers** of any value.
* Observers extends Historian, Fanout and KnxBus (`Spec`): the three share nothing but the
  devices, so a behaviour takes one of them as its `subject` and the other two do not move. Calculations
  does the same for the pure algorithms: a behaviour picks a `topic` and makes one `call`.
* FifoStage is the abstract stage; Pipeline implements it. Register is the abstract keeper of a value;
  PointWrites implements it (section 5).

## 3. Modules

Each `MC<Module>` only names model values, constant functions and symmetry. Operators whose comment
begins with `Mutant:` are plausible mistakes in the definition after them. They are in no
specification; each stands for one the named property has to catch.

**AlarmFlow** (`forecasting/anomaly_detector.py`, `application/alarm_service.py`, alarm repository, bus).
A task walks `event → forecast → raise → save` or `→ clear → update`. `event`, `raise`, `clear` are
waits in EventService, `forecast` the query for the latest band, `save` and `update` the table. The
verdict on a reading (`in`, `margin`, `out`, or beyond a hard limit) is free, because limits and
forecasts are. `active` is `AnomalyDetector._active`, keyed by object *name* as in the code, and points may share one.
`Cancel` ends a task at any of its awaits. History variables record who was overtaken, lost, or overlapped.

**PointWrites** (`application/device_service.py`, `adapters/network_composite.py`, the engines' writes).
`WritePoint` is everything up to the SQLite update: the engine's write does not suspend, so reading
`old_value`, writing the object and setting memory are one action. `Persist` and `Tell` follow, and `Cancel` cuts
the task off before either. A bus telegram of KNX or MQTT changes the memory alone.
`composite` is chosen at start: with a second protocol the engine's error is logged and passed over.

**Pipeline** (`application/pipeline_service.py`, `application/anomaly_feed.py`). The worker's stages are
its awaits: predict, explain, announce (EventService for AnomalyEnriched), fanout (the handlers behind
the feed), the same two for the work order. `Stop` cancels at any of them. `feed` is the `OrderedDict`, keyed by kind
and point: a fresh item replaces the one of its key, the oldest beyond the bound goes, and `Ack` marks what the feed
has under a key by then.

**Scenario** (`adapters/scenarios/base.py` with the alarm, override and offline scenarios). A run has
a stage per await; `cancelled` holds the tasks that resume with CancelledError. `stop` cancels whatever
`_task` is, awaits it, and then forgets whatever `_task` is *by then*. For an override two runs write
one point, so their effect is shared; alarms and outages belong to the run. What a run did has two copies, `effect`
in memory and `stored` in SQLite; `pending` holds the writes under way, which a stop may cut off (`cut`).

**DeviceRegistry** (`application/discovery_service.py`, `device_service.add_device`, device repository,
poller's registry, ETS route). A request chooses an id, stores, enters memory, activates; a batch does
so for each device. `Look` selects the stored ids; `Pick` is the end of the reads that follow, one per row, which may
have skipped rows. A status changes in memory first; its update is made, fails, or is cancelled (`StatusCancelled`).
`Restart` empties memory and poller and boots again from the files.

**EventDelivery** (`application/event_service.py`, `application/endpoint_service.py`,
`adapters/webhook/delivery.py`). `stage[t][e]` is one post of a `gather`. An endpoint may take the
event and still look failed (a late answer), and the count is an UPDATE of its own. `Cancelled` ends the publishing
task with its posts. `toggle` reads a row and saves it whole.

**Simulation** (`application/simulation_service.py`, `adapters/simulation/faults.py`). Loops tick over the
points that have a generator. Values of generators and offsets of faults are any value; what is kept is
*when* `_values`, the memory and the frozen value of a stuck fault change, and what the loop does when
the dictionary it iterates changes size or a fault raises on a parameter that is no number.

**Fanout** (`adapters/web/websocket.py`, `adapters/http/routers/ws.py`, `adapters/webhook/subscriber.py`).
The worker publishes a message; the bus awaits the broadcast, which iterates over the set of clients, and
then the webhook's two attempts. Connections come and go while a send is awaited. A set that changed size
makes the next step of the iteration raise; one that kept its size may or may not still visit whom it had
(`Churn`), because that depends on the hash table. A post is in flight until the receiver has it or it is
lost, and the sender may have given up long before.

**Historian** (`adapters/persistence/timescale.py`, `application/historian_service.py`,
`application/forecast_scheduler.py`, `forecasting/`). A registration is a transaction that looks up or makes
an id per point and fills the cache on the way, before the commit that may not come. A reading is stored in
two steps under the id the cache has by *name*. A forecast is `FetchSeries`, which may find nothing or fail
(the code then forecasts zeros: `from = None`), and `StoreForecast`, which looks the id up again.
`Restart` loses the cache and the devices that SQLite does not have.

**KnxBus** (`adapters/knx/engine.py`). `ga` and `rev` are the engine's maps by name and by address, which
keep the last of equal keys. Start, write, telegram in and stop are actions; tasks that start devices
while none is connected make a connection each, and the earlier one goes on receiving. `crossed` records
the addresses on which a telegram of ours and one of the bus passed each other. **Dicts** has the
dictionaries of this module and of Historian.

**KnxCodec, ValueForms, EtsImport, Discovered, Fleet, Prediction, Signals** (with **Rounding** and **Positions**,
the elements of a list at a set of its positions, in order) are operators: the conversions to and from KNX,
SQLite, BACnet objects, Modbus and MQTT; ETS files; scan results; copies and generated fleets; predictions;
generators and world. Numbers are integers in the resolution the code rounds to: hundredths for DPT 9 and
stored values, thousandths for signals, fiftieths for predictions. Texts are known by the form the code tests;
names that the code puts together (a template's name and the number of the copy, `Fleet-` and three digits)
are the list of their parts, so that "007" and "7" differ. Lists that the code filters, deduplicates or sorts
are given by the positions that stay and by their order. Each module states beside an algorithm what it is for;
**Calculations** calls every one with every argument of its small sets.
Its marks for "no number" and "no answer" are none of the integers, as Python's `None` is none: were one of
them a number, a host that gives that number as its device would count as one that is silent, and the sweep
would not list it.

## 4. What TLC checks

Passing runs; every bound is a constant of the `.cfg`.

| Run | Instance | States | Shows |
|---|---|---|---|
| AlarmFlowAll | 2 tasks, 3 points of which 2 share a name, 3 readings, 1 failed write, 1 cancelled task, 1 restart | 387 k | A held-open excursion is never marked cleared and has its row; an active row is an open excursion or one of four named causes; the list entry of a name whose readings do not overlap matches its newest verdict, whichever of its points was read; a raised alarm reaches the table |
| PointWritesAll | 2 tasks, 2 points (1 with a BACnet object), 2 values, 4 changes, 1 failure, 1 cancelled task | 375 k | At rest the copies agree but for four named causes; refinement of Register: changes are taken, stored and told one after the other; with BACnet alone no refused command is kept |
| PipelineAll | queue of 2, 4 alarms of 2 points, feed of 3 items, 1 acknowledgement | 113 k | One fate per alarm and counters that agree (`EveryAlarmAccounted`); the feed shows the newest item of each point by age (`FeedInOrder`); refinement of FifoStage; no queued alarm is held up |
| ScenarioAll | 2 requests, 3 runs, 3 stops, 1 failure | 229 k | Effects undone in memory and in SQLite but for named causes, status true, a stopped scenario winds down |
| DeviceRegistryAll | 6 devices (a controller and a Modbus device with one id), 4 ids, 2 requests at a time of 3, 1 failure, 1 restart | 711 k | Whose id may be taken over; memory and SQLite agree on devices and statuses (`StoredAsInMemory`), and the poller with both, but for named causes |
| EventDeliveryAll | 2 tasks, 2 endpoints, 2 events, 2 requests, 1 failure, any task cancelled | 3.7 M | The delivered mark is true and complete (`MarkIsRight`); counts are right and deletions last but for an overlapping toggle (`ReportsKept`) |
| CalculationsAll | every algorithm on its bounded inputs | 297 k | Values read back as far as their form allows; imports, scans and fleets give the devices they should; a prediction rests on the newest forecast; signals keep to their bounds |
| ObserversAll | 2 clients, 2 messages; 2 devices with 3 points, 2 names and 2 addresses; 2 registrations at a time, 4 ids; 2 connections, 2 telegrams in flight | 761 k | Who is told what; samples and forecasts are under their own point's id but for named causes; memory and bus agree at rest but for named causes; a publication ends |
| SimulationAll | 2 points (1 added late), 2 values, 1 stop at a time of 2, 3 loops, 1 fault, 1 command, 1 failure | 936 k | Status matches the loops; the engine's last values are the memory's but for named causes; a stuck point stays stuck |

Several invariants have the form "X, unless one of these named things happened". That is the point of
them: the exceptions are what the code really permits, recorded by history variables as they occur,
and the invariant says the list is *complete*.

**Why the bounds are enough.** The hazards are races of two actors and one fault: an overtaking
needs two tasks and two readings of one point, a third reading lets the detector act on the result; a
lost handle needs a start during a stop, and a third loop or run to act on it (two stops that overlap,
of the same shape in both, are in ScenarioAll); a repeated id needs two requests, or one and a restart;
a queue of two with four alarms is full, drains and fills again; a feed of three has one item too few for two kinds
of two points, so it replaces and evicts. Second points, endpoints and devices are there so that "another's" can be
told from "one's own"; in AlarmFlow two points share a name and the third has its own. Failures, cancelled tasks and
restarts are bounded by one because each leaves a mark that the invariant must tolerate; more of them only adds marks.
The theorems of section 5 hold without these bounds.
The inputs of CalculationsAll sit at every boundary the code tests, one step to either side, and at the
extremes: every doubling of the DPT 9 mantissa and beyond its range, every percentage, rows and columns with
and without each heading word, one and two devices, trajectories of two runs with past and coming steps, signals
at, inside and outside their bounds. In ObserversAll two clients are enough for one to disturb the message of
the other; the name "a" on two devices and two points of one device on one address are the two kinds of
sharing the maps have; two connections are what two starts can make. Larger instances of KnxBus alone (an
address shared by two devices, 427 thousand states; four points on three addresses, stopped after 4 million)
showed nothing else. The constants of the three parts are independent, so a larger one is a matter of time only.
`CHECK_DEADLOCK FALSE` is set in all: when the bounds are used up, or the service is stopped, a
behaviour really ends.

**Fairness.** Only what is under way goes on; nobody has to publish, raise or stop anything.
AlarmFlow: weak fairness of each task's chain: webhook posts have a ten-second timeout, queries return
or raise, and asyncio resumes what is ready. Pipeline: of the worker and of its start, which `main`
does. Scenario: of each run and of a stop whose task is done, since sleeps and writes end. Fanout: of the
worker's publishing steps, since a send to a dead client raises when its keep-alive or its connection ends, and
the webhook's client has a ten-second timeout; nothing is assumed of clients, receivers or the network, and
posts may stay in flight for ever. The other modules state no liveness.

The liveness properties name what ends a cancelled task's duty: its alarm is among the lost, its run at rest, the
worker stopped.

**Symmetry** is used only in runs without liveness (tasks, requests, values that nothing distinguishes).
DeviceRegistryAll also has a **view** (`Live`): it takes two states for one when they differ only in what no later
step and no invariant reads (the id of a request that works on none, the status of one that sets none, how an id was
found once it is saved).

### Disagreements between code and comments

Three runs are expected to fail, each with one property that a comment states:

* **AlarmFlowOvertaken**: `anomaly_detector.py:15-16` says the active list reflects reality. AlarmRaised
  waits in EventService; another task's reading is back in band and its AlarmCleared is through first;
  the UPDATE finds no row; the row inserted afterwards is active for ever.
* **PointWritesRefused**: `bacnet/engine.py:118-119` lets errors propagate so that callers do not keep a
  value the device never received. With MQTT or KNX enabled, `network_composite.py:34` logs the error.
* **ScenarioReleased**: `manual_override.py:43` says "always release, even on cancellation". The write
  that overrides is awaited before the `try`.

Two more are pinned by a property that passes, because it says what the code does:

* **Shared names**: `anomaly_detector.py:122` says an in-band reading clears the open excursion "for this point". The
  excursion is looked up by object name alone (`:189`), and discovered devices may share names: a reading of one device
  clears the alarm of another's point. `QuietListMatches` holds name by name, for points that share one as for one point.
* **MQTT commands**: `mqtt/engine.py:6-7` and `:73` promise that `<prefix>/<device>/<object_name>/set` updates the point
  of that name. `_on_message` splits the topic at slashes and takes the last level for the name. `ReadsBack` (and the
  theorem `MqttBack`) says that a command reaches its point exactly if the name has one level; the names of the
  repository's own devices (`KNX-LIGHT-01/DimmerLevel`) have two, so their commands reach no point.

## 5. What TLAPS proves

For every value of the constants that satisfies the modules' named assumptions. No assumption on a
bound is stronger than being a natural number. Object names may be shared by any points.

* **AlarmFlow_proofs**: `TypeCorrect`, `OpenAlarmsStayOpen`, `OpenAlarmsAreStored`,
  `ActiveRowsAccounted`, `QuietListRight`. None is inductive alone. `IInv` adds: uuids in use have been
  drawn (`FreshUids`), an open excursion is under its own name (`OpenUnderOwnName`), an alarm being
  cleared is no longer open (`ClearingIsClosed`), one being raised has no row yet (`RaisingIsFresh`) and
  is open, being cleared, overtaken or lost (`RaisingAccounted`). The steps, those of a cancelled task included, are
  sorted into seven kinds by their effect (walk, open, close, reach, save, update, lose) plus restart (`StepKinds`);
  one lemma per kind shows that `IInv` survives. `QuietListRight` rests on that, on whose alarm a task carries
  (`OwnAlarms`: one of its own point or of a point with the same name), and on the order of the
  readings: under a name that is not contended one task is at work (`Alone`), with a reading newer than the last
  verdict (`UnjudgedIsNewest`), and that verdict says whether the excursion of the name is open (`VerdictKept`). So
  the table can only differ by a clear that found no row, which two readings under the name at a time, a failed or
  cancelled insert, or a restart explain (`GapsExplained`).
* **PointWrites_proofs**: `TypeCorrect`, `CopiesAgree`, `EventsFormChain`, `CommandsReachDevice`, `Refinement`. `IInv`
  adds that a point not excused has at most one task at work on it (`OneTask`) and that this task
  carries the value between the copies (`TaskCarries`). `CommandsReachDevice` is by its own induction. `Refinement`:
  every step is one of Register or a stutter, under the mapping that takes where a change is, and what it replaces,
  from the one task at work on the point (`WorkerIsAlone`), and the excused points for those that are given up. A
  cancelled writer gives its point up (`CancelGivesUp`), as a bus telegram does.
  The module also has the theorems about the values of points that Calculations computes, for all integers:
  * *Signals*: `SignalsStay` (each generator within its bounds, a lag and a holding ramp between the value and the
    target, an integral not wound up), `ReferencesExact` (any list of keys) and `WorldSettles`. What is taken of a
    way is between nothing and all of it, although the division rounds down (`ShareOf`). They assume bounds in
    order, a percentage from 0 to 100, a period above zero, times and rates that are not negative, and a mark for
    "no number" that is none. `SignalsAreRight` follows: no question Calculations asks of the signals has a wrong answer.
  * *Conversions*: `KnxBack` (every value and DPT). For DPT 9 the number of halvings exists and is the least
    (`HalvingsOf`, by `HasLeast`), the word is taken apart as it was put together (`WordBack`), and what is lost
    is less than a step (`RoundedDown`); beyond its range the exponent runs into the sign, and what comes back is
    negative (`Float16Beyond`); for DPT 5.001 two roundings lose at most a quarter of a percent (`RoundNear`,
    `PercentBack`). `AddressBack` (addresses of sixteen bits), `StoredBack` (every value of the four types),
    `ExposedBack`, `ModbusBack`, and `MqttBack` (any prefix and names, none of whose levels is "set": a command reaches
    its point exactly if the name has one level).
    `ConversionsReadBack` follows: the property `ReadsBack` for what Calculations asks.
* **Pipeline_proofs**: `TypeCorrect`; `FeedOrdered`: the queue ascends and is behind the alarm in work, which is behind
  what was announced (`IInv`), so a fresh item is the newest of all (`AnnouncedInLine`); putting it under its key
  (`AddedShows`) and cutting the oldest (`CutShows`) then keep what the feed shows (`FeedInv`); `Refinement`: every
  step of the service is a step of FifoStage or a
  stutter, under the mapping that counts the alarm in work as waiting; and `AlarmsAccounted`: the queue, the
  alarm in work, the feed and the three ways to end badly cover what was raised without overlap (`Cover`),
  each step moves one alarm between two of them, and a counter lags only during its own publish.
  The module also has the theorems about what the pipeline asks of the prediction service, for all numbers, any rows
  of forecasts, alarms and assets. `WarnedWithReason`: the trajectory a point is judged by is that of its newest
  forecast in the order of time (`TrajectoryIsNewest`), and a warning names the first breach that is not past, or
  that of the value (`PredictsNow`, `PredictsAhead`, `PredictsTrend`, `PredictsNothing`). `HealthFollows`: the scan has
  every warned point once, the most urgent first (`ScanIsSorted`), scores are from 0 to 100 and go with their status
  (`OneHealth`), and the figures of the fleet are sums over its assets (`SumAdds`, `SizesAdd`). `PredictionsAreGrounded`
  follows for what Calculations asks. These and the devices' proofs rest on one argument, needed because
  the library's induction theorems cannot be used: a set of numbers that has a member has a least one
  (`HasLeast`, from the well-foundedness of <), so a claim that fails for some number fails for a least one, and holds
  for the one before. By it a finite set has a last member in any strict total order (`HasLast`), can be numbered
  (`CanBeNumbered`), and is listed in that order by the lists the modules make (`Sorted`, `Ascending`).
* **Scenario_proofs**: `TypeCorrect`, `StatusTellsTheTruth`, `NothingLeftBehind`. `StepMoves` reduces the
  steps of a run to where the run goes and what it does to the effect. `OneAtATime` is the inductive form of the
  status: while no requests overlap, only the handle's run lives, a pending stop awaits that run, and no run is
  cancelled without one. `EffectsOwed`: what stands in memory is standing by a run that will come to take it back
  (`Stands`), and what SQLite has is owed by a run that has not committed its clean-up (`Owing`); a cancelled clean-up is
  `cut`, after which only the memory of a device is still promised.
* **EventDelivery_proofs**: `TypeCorrect`, `MarkRight`, `ReportsStay`. `OwnEvent` (no two tasks handle the same
  event) and `StagesTell` (the stages of a delivery say which the targets are and what they answered) make the
  types inductive too; then a step can change only what the mark says of the acting task's own event, and a
  cancelled task leaves its event among the missed.
  `CountsAgree` adds that an undisturbed toggle writes back the count that is there, to a row that is there.
* **Simulation_proofs**: `TypeCorrect`, `StatusTellsTheTruth` (by an `OneAtATime` of its own),
  `LastValuesAgree` (a point not excused has one writer, which carries the value the engine knows) and
  `StuckPointsStay`, an action property (a write to a stuck point carries the frozen value: `FrozenWritten`).
* **DeviceRegistry_proofs**: `TypeCorrect`, `StoredIsRight`, `PolledIsRight`, `ReplacedRightly`, `PointsAreOwn`. A boot is
  treated once (`BootFacts`): what it enters it stores, and it reads only what it entered. For an id that two requests have
  not worked on at a time, `CopiesAgree` and `StatusAgrees` say which of the copies a request between two writes has
  reached. `CausesKnown` explains replacements: what a request that is alone has selected is what is stored until it
  has chosen (`seen`), so its id is free (`NextIsNew`: the largest id plus one, by `MaxIsLargest`, as the maximum of a
  bounded set is its least bound), unless its query skipped a row (`blind`) or the memory forgot the device.
  The module also has the theorems about where devices come from, which end in `DevicesAreAsDescribed`: no question
  Calculations asks of imports, scans and fleets has a wrong answer, and the answers are right for far more than it asks.
  * *ETS files*: `ArchiveAsDescribed` (any archive and password: one entry per readable address, the first with it, and
    an error exactly when something is locked and nothing is read), `TableReadsBack` (any entries in the forms a file
    has, under any heading that has the columns and in which a word of the address stands alone), `RoutesAlwaysAgree`
    (any entries).
  * *Scans*: `SweepAsDescribed` (a range or a network of hosts with any answers, each with a list of different objects or
    none: every controller of the range once, in order, none else), `ModbusAsDescribed`, `MqttAsDescribed`,
    `KnxAsDescribed` (any answers, topics and entries). What a scan lists becomes points a device can tell apart
    (`ListIsRight`).
  * *Fleets*: `ScaledRight` and `FleetRight`, for any count and any templates with ids of their own, points told apart,
    centres within their bounds, and none named as a device of the fleet. Ids come in turn after the greatest one
    (`IdsInTurn`). A copy's name tells its template and its round, and neither can be taken for another's unless one
    template's name begins with another's (`CopiesNamed`). A reference of the template is one of the copy under the
    copy's name (`CopyStandsAlone`). Promotion leaves every point its type and instance (`PromotedInPlace`) or adds one
    behind the greatest instance (`EnsureIs`), and jitter moves centre and bounds together (`JitterIs`).
* **Observers_proofs**: one invariant for each of the three parts; `PartsBehave` shows that a behaviour of Observers is
  a behaviour of each (`HistorianSpec`, `FanoutSpec`, `KnxSpec`), so the three hold there too (`ObserversAreRight`).
  * `SamplesAreRight`. `IdsAreUnique` counts the rows of open transactions with the table (`Given`): a point has one id
    and an id one point. `CacheIsRight` follows although the cache is filled before the commit, because an id that was
    rolled back is not used again (`UpsertFacts`: an upsert takes the id the point has, or one that nothing has).
    Every other step only takes ids out of use (`NoNewIds`). Its assumption: devices and names can be listed.
  * `WatchersAreTold`, by two invariants that share only the number of the message. `AudienceInv` follows a
    client through a broadcast: while nobody enters or leaves, the set keeps the size the loop began with, and who has had
    its turn was told, is being told or is among the dead (`Undisturbed`). `HookInv`
    follows the posts: the attempt in work is the latest one sent (`Attempts`), what is in flight or received was sent
    (`PostsAreRight`), and a receiver is out of order only by a post the sender gave up (`ReceivedInOrder`).
    It assumes that the clients are finitely many.
  * `BusAgrees`. `Directory`: a point that shares neither name nor address is under its own in both maps while
    its device is started. `OneWay`: unless telegrams crossed, those of one address wait to go out on one connection only,
    which has none of them to handle, and what a connection has to handle ends with what the group was told last.
    `Agreement` says what memory may differ by: the value of the last telegram that waits to go out, or of those
    still to be handled; a sender does not hear its own telegram, but another connection of the same process does.
    With no telegram on its way, what is left is the property. It assumes that the points of a device are a list with
    addresses or none, and that the marks for "no address" and "a value that is refused" are none of the others.

Every invariant and every refinement that a passing run checks is stated by one of these theorems, and so is the
action property of Simulation. Only model-checked are the properties that say something must happen:
`RaisedEventuallyStored`, `QueuedEventuallyEnriched`, `StoppedWindsDown` and `PublicationsEnd`. They are liveness under
fairness, which is out of the prover's reach.

Run `tlapm <Module>_proofs.tla` for the proofs, `tlc -config <Run>.cfg <module>` for the runs, with the
module `MC<Component>` (`Pipeline` and `Calculations` themselves for PipelineAll and CalculationsAll).

## 6. Not modelled, and why

* The content of forecasts, prompts and explanations: external models. Modules that depend on them let them be
  anything. The exponential, the sine and the normal distribution in Signals are rational stand-ins or any value.
* Protocol stacks: external libraries; a write is taken or refused, a host found or not. The KNX link is assumed to
  keep its telegrams in order and to lose none, as a TCP tunnel does; KNX routing over multicast is not covered.
* The loops of the poller and of the MQTT client: reconnecting and sleeping around the operations that are modelled.
  A poller loop that crashed leaves its task behind (`real_poller.py:218`); nothing starts it again.
* The shutdown of all services at once: `__main__.py:73` can run it twice when a signal meets the end of the server.
  The stops of the pipeline, the simulation and the scenarios are modelled one by one; no module holds them all.
* The seed of a signal, a hash that differs from process to process (`simulation_service.py:75`): a model has one hash.
* Queries of the event log and the store, copilot, telemetry, assets, formats, routes, authentication, dashboard: no
  state that others rely on.
* Day cycle and validation scenarios: fixed writes with nothing to undo.
* Modbus: its engine is never wired at boot; its conversions are in ValueForms.
* `DeviceService.shutdown` only stops engines; environment variables and table definitions are fixed.

## 7. Plan

Done, in this order: AlarmFlow, PointWrites, Pipeline, Scenario, DeviceRegistry, EventDelivery, Simulation, because
alarms are what the system is for; then the algorithms and the three observers, and the proofs of all their invariants.

Next, in this order:

1. **Shutdown** of all services as one module, with the poller's loop and the double call.
2. Abstract specifications: an alarm list that AlarmFlow implements for one writer; a broadcast that Fanout implements
   while nobody comes or goes.
3. Assets' read-modify-write; the feed's clearing, once something calls it.
