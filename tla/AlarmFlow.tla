------------------------------ MODULE AlarmFlow ------------------------------
(***************************************************************************)
(* From a point change to the list of active alarms.                       *)
(*                                                                         *)
(* A writer (scenario, simulation loop, HTTP request, poller) publishes    *)
(* PointValueChanged and its task runs the bus handlers one after the      *)
(* other.  EventService comes first and may wait long on webhooks; then    *)
(* AnomalyDetector judges the value, perhaps after awaiting a forecast,    *)
(* and publishes AlarmRaised or AlarmCleared from inside its own handler.  *)
(* Those nested events wait in EventService again before AlarmService      *)
(* applies them to the alarms table.  Tasks interleave at each await, and   *)
(* stopping the simulation or a scenario cancels its task at any of them.  *)
(*                                                                         *)
(* Sources: forecasting/anomaly_detector.py, application/alarm_service.py, *)
(* adapters/event_bus/in_process.py, and SqliteAlarmRepository.            *)
(***************************************************************************)
EXTENDS Naturals

CONSTANTS
  Task,          \* the tasks that publish point changes
  Point,         \* physical points: a device and one of its objects
  Name,          \* the object names the detector keys its excursions by
  NameOf,        \* the object name of each point; two devices may share one
  NoAlarm,       \* the absence of an open excursion
  MaxReadings,   \* bound on published readings
  MaxFailures,   \* bound on failing writes to the alarms table
  MaxCancels,    \* bound on cancelled tasks
  MaxRestarts    \* bound on process restarts

\* An alarm: its uuid, and the point its row and its events name.
Alarm == [uid : Nat, point : Point]

ASSUME AlarmFlowAssumption ==
  /\ NameOf \in [Point -> Name]
  /\ NoAlarm \notin Alarm
  /\ MaxReadings \in Nat /\ MaxFailures \in Nat
  /\ MaxCancels \in Nat /\ MaxRestarts \in Nat

VARIABLES
  pc,        \* where each task is in its chain of handlers
  point,     \* the point of the reading a task publishes
  seq,       \* the publication number of that reading
  alarm,     \* the alarm a task is publishing
  active,    \* AnomalyDetector._active
  rows,      \* alarms with a row in the table
  cleared,   \* rows whose cleared_at is set
  uid,       \* uuids drawn so far
  readings,  \* readings published so far
  newest,    \* history: the latest reading under a name with a verdict
  contended, \* history: names that had two readings in work at a time
  overtaken, \* history: alarms whose UPDATE found no row
  lost,      \* history: alarms with a write that failed or was cancelled
  failures,  \* failed writes so far
  cancels,   \* cancelled tasks so far
  restarts,  \* restarts so far
  epoch      \* history: uuids drawn when the process last started

taskVars == <<pc, point, seq, alarm>>
tableVars == <<rows, cleared, overtaken, lost, failures>>
envVars == <<cancels, restarts, epoch>>
vars == <<taskVars, active, tableVars, uid, readings, newest, contended,
          envVars>>

\* "event", "raise" and "clear" wait in EventService for PointValueChanged,
\* AlarmRaised and AlarmCleared; "save" and "update" wait for the table.
Stage == {"idle", "event", "forecast", "raise", "save", "clear", "update"}

\* What a judged reading was: inside the band, outside by less than
\* min_band_ratio, or outside by more (or beyond a hard limit).
Judgement == {"in", "margin", "out"}

Unjudged == [seq |-> 0, verdict |-> "margin"]

Init ==
  /\ pc = [t \in Task |-> "idle"]
  /\ point \in [Task -> Point]
  /\ seq = [t \in Task |-> 0]
  /\ alarm = [t \in Task |-> NoAlarm]
  /\ active = [n \in Name |-> NoAlarm]
  /\ rows = {} /\ cleared = {}
  /\ uid = 0 /\ readings = 0
  /\ newest = [n \in Name |-> Unjudged] /\ contended = {}
  /\ overtaken = {} /\ lost = {} /\ failures = 0 /\ cancels = 0
  /\ restarts = 0 /\ epoch = 0

\* No reading of a point of this name is in work.
Quiet(n) == \A t \in Task : pc[t] # "idle" => NameOf[point[t]] # n

Goto(t, stage) == pc' = [pc EXCEPT ![t] = stage]

-----------------------------------------------------------------------------
(***************************************************************************)
(* A writer publishes a changed value.                                     *)
(***************************************************************************)

Publish(t, p) ==
  /\ pc[t] = "idle" /\ readings < MaxReadings
  /\ readings' = readings + 1
  /\ point' = [point EXCEPT ![t] = p]
  /\ seq' = [seq EXCEPT ![t] = readings + 1]
  /\ Goto(t, "event")
  /\ contended' = IF Quiet(NameOf[p]) THEN contended ELSE contended \cup {NameOf[p]}
  /\ UNCHANGED <<alarm, active, tableVars, uid, newest, envVars>>

(***************************************************************************)
(* AnomalyDetector.check_anomaly.                                          *)
(***************************************************************************)

\* History: the verdict counts when no later reading under the name has one.
Judge(t, verdict) ==
  LET n == NameOf[point[t]]
  IN newest' = IF seq[t] > newest[n].seq
               THEN [newest EXCEPT ![n] = [seq |-> seq[t], verdict |-> verdict]]
               ELSE newest

\* _raise_anomaly_alarm: the excursion opens before the event is published.
RaiseAnomalyAlarm(t) ==
  LET a == [uid |-> uid + 1, point |-> point[t]]
  IN /\ uid' = uid + 1
     /\ active' = [active EXCEPT ![NameOf[point[t]]] = a]
     /\ alarm' = [alarm EXCEPT ![t] = a]
     /\ Goto(t, "raise")

\* Mutant: the test for an alarm already open is dropped.
BreachNoDedup(t) == RaiseAnomalyAlarm(t)

\* Both breach paths: one alarm per excursion of an object name.
Breach(t) ==
  IF active[NameOf[point[t]]] # NoAlarm
  THEN Goto(t, "idle") /\ UNCHANGED <<uid, active, alarm>>
  ELSE RaiseAnomalyAlarm(t)

\* Mutant: the open excursion is read (get), not taken out (pop).
MaybeClearKeeping(t) ==
  LET open == active[NameOf[point[t]]]
  IN /\ IF open = NoAlarm
        THEN Goto(t, "idle") /\ UNCHANGED alarm
        ELSE alarm' = [alarm EXCEPT ![t] = open] /\ Goto(t, "clear")
     /\ UNCHANGED <<uid, active>>

\* _maybe_clear: the excursion closes before the event is published.
MaybeClear(t) ==
  LET open == active[NameOf[point[t]]]
  IN /\ active' = [active EXCEPT ![NameOf[point[t]]] = NoAlarm]
     /\ IF open = NoAlarm
        THEN Goto(t, "idle") /\ UNCHANGED alarm
        ELSE /\ alarm' = [alarm EXCEPT ![t] = open]
             /\ Goto(t, "clear")
     /\ UNCHANGED uid

\* EventService is done with PointValueChanged and the detector takes over:
\* it drops a value that is not numeric, or goes on to await the forecast.
SkipValue(t) ==
  /\ pc[t] = "event"
  /\ Goto(t, "idle")
  /\ UNCHANGED <<point, seq, alarm, active, tableVars, uid, readings, newest,
                 contended, envVars>>

AwaitForecast(t) ==
  /\ pc[t] = "event"
  /\ Goto(t, "forecast")
  /\ UNCHANGED <<point, seq, alarm, active, tableVars, uid, readings, newest,
                 contended, envVars>>

\* _check_hard_limit: beyond the limits of its units, judged without await.
HardLimit(t) ==
  /\ pc[t] = "event"
  /\ Judge(t, "out")
  /\ Breach(t)
  /\ UNCHANGED <<point, seq, tableVars, readings, contended,
                 envVars>>

\* The forecast query returned nothing recent enough, or failed.
NoForecast(t) ==
  /\ pc[t] = "forecast"
  /\ Goto(t, "idle")
  /\ UNCHANGED <<point, seq, alarm, active, tableVars, uid, readings, newest,
                 contended, envVars>>

\* Mutant: an in-band value returns before the open excursion is looked up.
InsideNoClear(t) ==
  /\ pc[t] = "forecast"
  /\ Judge(t, "in")
  /\ Goto(t, "idle")
  /\ UNCHANGED <<point, seq, alarm, active, tableVars, uid, readings,
                 contended, envVars>>

\* It returned a band, and the value read before the await is judged by it.
Inside(t) ==
  /\ pc[t] = "forecast"
  /\ Judge(t, "in")
  /\ MaybeClear(t)
  /\ UNCHANGED <<point, seq, tableVars, readings, contended,
                 envVars>>

WithinMargin(t) ==
  /\ pc[t] = "forecast"
  /\ Judge(t, "margin")
  /\ Goto(t, "idle")
  /\ UNCHANGED <<point, seq, alarm, active, tableVars, uid, readings,
                 contended, envVars>>

Outside(t) ==
  /\ pc[t] = "forecast"
  /\ Judge(t, "out")
  /\ Breach(t)
  /\ UNCHANGED <<point, seq, tableVars, readings, contended,
                 envVars>>

-----------------------------------------------------------------------------
(***************************************************************************)
(* The nested event: InProcessEventPublisher.publish hands it to the next  *)
(* handler whether EventService returned or raised (ok = FALSE).           *)
(***************************************************************************)

\* Mutant: an exception of one handler ends the publication.
NextHandlerUnlessFailed(t, ok) ==
  Goto(t, IF ~ok THEN "idle" ELSE IF pc[t] = "raise" THEN "save" ELSE "update")

NextHandler(t, ok) == Goto(t, IF pc[t] = "raise" THEN "save" ELSE "update")

EventServiceDone(t) ==
  /\ pc[t] \in {"raise", "clear"}
  /\ \E ok \in BOOLEAN : NextHandler(t, ok)
  /\ UNCHANGED <<point, seq, alarm, active, tableVars, uid, readings, newest,
                 contended, envVars>>

\* repo.save: INSERT OR REPLACE of a row with no cleared_at.
InsertRow(a) ==
  /\ rows' = rows \cup {a}
  /\ cleared' = cleared \ {a}
  /\ UNCHANGED overtaken

\* Mutant: the clear is an upsert that does not need the row.
UpdateRowUnchecked(a) ==
  /\ cleared' = cleared \cup {a}
  /\ UNCHANGED <<rows, overtaken>>

\* repo.clear: UPDATE by id, which finds nothing when the row is not there.
UpdateRow(a) ==
  /\ UNCHANGED rows
  /\ IF a \in rows
     THEN cleared' = cleared \cup {a} /\ UNCHANGED overtaken
     ELSE overtaken' = overtaken \cup {a} /\ UNCHANGED cleared

\* What AlarmService writes for the event it is given.
TableWrite(t) ==
  \/ pc[t] = "save" /\ InsertRow(alarm[t])
  \/ pc[t] = "update" /\ UpdateRow(alarm[t])

AlarmServiceWrites(t) ==
  /\ TableWrite(t)
  /\ Goto(t, "idle")
  /\ UNCHANGED <<point, seq, alarm, active, lost, failures, uid, readings,
                 newest, contended, envVars>>

\* The write raises (database locked, disk full); the bus logs it.
AlarmServiceFails(t) ==
  /\ pc[t] \in {"save", "update"} /\ failures < MaxFailures
  /\ failures' = failures + 1
  /\ lost' = lost \cup {alarm[t]}
  /\ Goto(t, "idle")
  /\ UNCHANGED <<point, seq, alarm, active, rows, cleared, overtaken, uid,
                 readings, newest, contended, envVars>>

(***************************************************************************)
(* stop() of the simulation engine or of a scenario cancels the task.  The *)
(* CancelledError is no Exception: it passes the bus, no further handler   *)
(* is called, and the excursion stays as the detector left it.  A write    *)
(* that is under way has been committed by then or never is.               *)
(***************************************************************************)

CancelledOutside(t) ==
  /\ pc[t] \in {"event", "forecast"}
  /\ UNCHANGED <<rows, cleared, overtaken, lost>>

CancelledUnwritten(t) ==
  /\ pc[t] \in {"raise", "save", "clear", "update"}
  /\ lost' = lost \cup {alarm[t]}
  /\ UNCHANGED <<rows, cleared, overtaken>>

Cancel(t) ==
  /\ cancels < MaxCancels
  /\ cancels' = cancels + 1
  /\ \/ CancelledOutside(t)
     \/ CancelledUnwritten(t)
     \/ TableWrite(t) /\ UNCHANGED lost
  /\ Goto(t, "idle")
  /\ UNCHANGED <<point, seq, alarm, active, failures, uid, readings, newest,
                 contended, restarts, epoch>>

(***************************************************************************)
(* The process dies and boots again: the table is all that remains.        *)
(***************************************************************************)

Restart ==
  /\ restarts < MaxRestarts
  /\ restarts' = restarts + 1
  /\ epoch' = uid
  /\ pc' = [t \in Task |-> "idle"]
  /\ alarm' = [t \in Task |-> NoAlarm]
  /\ active' = [n \in Name |-> NoAlarm]
  /\ newest' = [n \in Name |-> Unjudged] /\ contended' = {}
  /\ UNCHANGED <<point, seq, tableVars, uid, readings, cancels>>

Continue(t) ==
  \/ SkipValue(t) \/ AwaitForecast(t) \/ HardLimit(t)
  \/ NoForecast(t) \/ Inside(t) \/ WithinMargin(t) \/ Outside(t)
  \/ EventServiceDone(t) \/ AlarmServiceWrites(t) \/ AlarmServiceFails(t)

Next ==
  \/ \E t \in Task : (\E p \in Point : Publish(t, p)) \/ Continue(t) \/ Cancel(t)
  \/ Restart

Spec == Init /\ [][Next]_vars

\* Every await of the chain ends: webhooks time out after ten seconds, the
\* queries return or raise.  Nothing obliges a writer to publish again, and
\* a task may be cancelled as long as it is not done.
FairSpec == Spec /\ \A t \in Task : WF_vars(Continue(t))

-----------------------------------------------------------------------------
\* Every variable keeps its type: readings, excursions, rows and the stages of the tasks.
TypeOK ==
  /\ pc \in [Task -> Stage]
  /\ point \in [Task -> Point]
  /\ seq \in [Task -> Nat]
  /\ alarm \in [Task -> Alarm \cup {NoAlarm}]
  /\ \A t \in Task :
       pc[t] \in {"raise", "save", "clear", "update"} => alarm[t] # NoAlarm
  /\ active \in [Name -> Alarm \cup {NoAlarm}]
  /\ rows \subseteq Alarm /\ cleared \subseteq rows
  /\ overtaken \subseteq Alarm /\ lost \subseteq Alarm
  /\ uid \in Nat /\ readings \in Nat /\ failures \in Nat /\ cancels \in Nat
  /\ restarts \in Nat /\ epoch \in Nat
  /\ newest \in [Name -> [seq : Nat, verdict : Judgement]]
  /\ contended \subseteq Name

Raising(t, a) == pc[t] \in {"raise", "save"} /\ alarm[t] = a
Clearing(t, a) == pc[t] \in {"clear", "update"} /\ alarm[t] = a

\* An excursion the detector holds open is never shown as cleared: no late
\* AlarmCleared of another task can hit the alarm of the current excursion.
OpenNeverCleared ==
  \A n \in Name : active[n] # NoAlarm => active[n] \notin cleared

\* An excursion held open (which silences every further breach of the point)
\* has its row, or a task that is about to insert it, unless the write failed
\* or the publishing task was cancelled.
OpenIsStored ==
  \A n \in Name : active[n] # NoAlarm =>
    \/ active[n] \in rows \cup lost
    \/ \E t \in Task : Raising(t, active[n])

\* A row shown as active is an open excursion of its point, or is about to be
\* cleared.  Exactly four things leave a row behind for good: AlarmCleared
\* overtaking AlarmRaised, a failed write, a cancelled task, and a restart.
StoredOpenAccounted ==
  \A a \in rows \ cleared :
    \/ active[NameOf[a.point]] = a
    \/ \E t \in Task : Clearing(t, a)
    \/ a \in overtaken \cup lost
    \/ a.uid <= epoch

OpenRow(n) == \E a \in rows \ cleared : NameOf[a.point] = n /\ a.uid > epoch

\* The list follows the readings, name by name: where those under a name never
\* overlapped, and once their handlers are done, it shows an alarm under the
\* name when the newest judged reading broke out, and none when that was back
\* in band.  Only an alarm whose own write failed or was cancelled is missing or
\* left over.  Points that share a name count as one: a reading of either is the
\* newest, and may close the alarm that the other raised.
QuietListMatches ==
  \A n \in Name \ contended : Quiet(n) =>
    /\ newest[n].verdict = "out" => OpenRow(n) \/ active[n] \in lost
    /\ newest[n].verdict = "in" =>
         \A a \in rows \ cleared : NameOf[a.point] = n /\ a.uid > epoch => a \in lost

\* When nothing is being handled, the active rows are the open excursions.
QuietOpenRowsActive ==
  (\A t \in Task : pc[t] = "idle") =>
    \A a \in rows \ cleared : active[NameOf[a.point]] = a

\* An alarm raised reaches the table: whatever EventService does, publishing
\* goes on to AlarmService.  Only a failed write, a cancelled task or a restart
\* prevents it.
RaisedEventuallyStored ==
  \A u \in 1..MaxReadings :
    (\E t \in Task, p \in Point : Raising(t, [uid |-> u, point |-> p]))
      ~> (u <= epoch \/ \E a \in rows \cup lost : a.uid = u)
=============================================================================
