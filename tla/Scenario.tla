------------------------------- MODULE Scenario -------------------------------
(***************************************************************************)
(* A scenario: start creates a task that runs it, stop cancels the task    *)
(* and awaits it.  Requests overlap: while a stop awaits the clean-up of a *)
(* run, a start may create the next one and a second stop may cancel the   *)
(* clean-up.  Three scenarios leave something behind that they promise to  *)
(* take back: an alarm, an overridden value, a device set offline.         *)
(*                                                                         *)
(* Sources: adapters/scenarios/base.py, alarm.py, manual_override.py,      *)
(* device_offline.py.                                                      *)
(***************************************************************************)
EXTENDS Naturals

CONSTANTS
  Request,       \* the HTTP requests that can be in stop at a time
  MaxRuns,       \* bound on starts
  MaxStops,      \* bound on stops
  MaxFailures    \* bound on writes that raise

ASSUME ScenarioAssumption ==
  /\ MaxRuns \in Nat /\ MaxStops \in Nat /\ MaxFailures \in Nat

Run == 1..MaxRuns

VARIABLES
  kind,      \* which scenario it is: "alarm", "override" or "offline"
  status,    \* _status
  handle,    \* the run _task refers to, 0 for none
  runs,      \* how many runs were started
  pc,        \* what each run awaits
  cancelled, \* runs whose task is to resume with CancelledError
  awaited,   \* the run each stop awaits, 0 for none
  effect,    \* runs whose alarm is active, or whose value or status the memory has
  stored,    \* SQLite has the overriding value or the outage
  pending,   \* runs whose write has not been committed
  stops, failures,
  overlap,   \* history: a request came while a stop was pending
  excused,   \* history: a write of the scenario raised
  cut        \* history: a stop hit a clean-up before its write, or an override before its try

writeVars == <<effect, stored, pending, cut>>
failureVars == <<failures, excused>>
requestVars == <<handle, runs, awaited, stops, overlap, kind>>
vars == <<status, pc, cancelled, requestVars, writeVars, failureVars>>

\* "start": the task exists and has not run.  "apply", "undo" and "cleanup"
\* await a write and events; "hold" and "pause" sleep.
Stage == {"none", "start", "apply", "hold", "undo", "pause", "cleanup", "done"}

Live == {r \in Run : pc[r] \notin {"none", "done"}}
Pending == \E q \in Request : awaited[q] # 0

Init ==
  /\ kind \in {"alarm", "override", "offline"}
  /\ status = "idle" /\ handle = 0 /\ runs = 0
  /\ pc = [r \in Run |-> "none"] /\ cancelled = {}
  /\ awaited = [q \in Request |-> 0]
  /\ effect = {} /\ stored = FALSE /\ pending = {}
  /\ stops = 0 /\ failures = 0
  /\ overlap = FALSE /\ excused = FALSE /\ cut = FALSE

-----------------------------------------------------------------------------
(***************************************************************************)
(* start and stop                                                          *)
(***************************************************************************)

Start ==
  /\ status # "running" /\ runs < MaxRuns
  /\ overlap' = (overlap \/ Pending)
  /\ runs' = runs + 1
  /\ status' = "running"
  /\ handle' = runs'
  /\ pc' = [pc EXCEPT ![runs'] = "start"]
  /\ UNCHANGED <<cancelled, awaited, stops, writeVars, failureVars, kind>>

\* Mutant: the task is cancelled but not awaited.
StopWithoutWait(q) ==
  /\ awaited[q] = 0 /\ stops < MaxStops
  /\ overlap' = (overlap \/ Pending)
  /\ stops' = stops + 1
  /\ status' = "stopped"
  /\ cancelled' = cancelled \cup ({handle} \cap Live)
  /\ handle' = 0
  /\ UNCHANGED <<runs, awaited, pc, writeVars, failureVars, kind>>

\* Mutant: the test for a task is dropped.
StopUnchecked(q) ==
  /\ awaited[q] = 0 /\ stops < MaxStops
  /\ overlap' = (overlap \/ Pending)
  /\ stops' = stops + 1
  /\ status' = "stopped"
  /\ cancelled' = cancelled \cup {handle}
  /\ awaited' = [awaited EXCEPT ![q] = handle]
  /\ UNCHANGED <<handle, runs, pc, writeVars, failureVars, kind>>

\* A task that is done already is neither cancelled nor waited for.
Stop(q) ==
  /\ awaited[q] = 0 /\ stops < MaxStops
  /\ overlap' = (overlap \/ Pending)
  /\ stops' = stops + 1
  /\ status' = "stopped"
  /\ IF handle \in Live
     THEN /\ cancelled' = cancelled \cup {handle}
          /\ awaited' = [awaited EXCEPT ![q] = handle]
          /\ UNCHANGED handle
     ELSE /\ handle' = 0
          /\ UNCHANGED <<cancelled, awaited>>
  /\ UNCHANGED <<runs, pc, writeVars, failureVars, kind>>

\* Whatever _task refers to by now, it is forgotten.
StopReturns(q) ==
  /\ awaited[q] # 0 /\ awaited[q] \notin Live
  /\ handle' = 0
  /\ awaited' = [awaited EXCEPT ![q] = 0]
  /\ UNCHANGED <<status, runs, pc, cancelled, stops, writeVars, failureVars, overlap, kind>>

-----------------------------------------------------------------------------
(***************************************************************************)
(* A run.  The write of an override and the status of a device change the  *)
(* memory before they await the update of SQLite; the alarm is raised and  *)
(* cleared by events, behind which the alarms table is written.            *)
(***************************************************************************)

Shared == kind # "alarm"

Goto(r, stage) == pc' = [pc EXCEPT ![r] = stage]

\* The end of _run_wrapper: the status is one for all runs.
End(r) ==
  /\ Goto(r, "done")
  /\ status' = IF status = "running" THEN "stopped" ELSE status

Fail ==
  /\ failures < MaxFailures
  /\ failures' = failures + 1 /\ excused' = TRUE

\* What follows on a write and its events, done or failed.
Behind(r, stage) ==
  IF stage = "cleanup" THEN End(r)
  ELSE Goto(r, IF stage = "apply" THEN "hold" ELSE "pause") /\ UNCHANGED status

\* The override gives up if it was refused; the others log the error.
GivenUp(r, stage) ==
  IF kind = "override" /\ stage = "apply" THEN End(r) ELSE Behind(r, stage)

\* A write begins, unless the engine refuses it or the device is not known.
Write(r, stage) ==
  /\ UNCHANGED stored
  /\ \/ /\ Goto(r, stage) /\ UNCHANGED <<status, failureVars>>
        /\ pending' = pending \cup {r}
        /\ effect' = IF ~Shared THEN effect ELSE IF stage = "apply" THEN effect \cup {r} ELSE {}
     \/ /\ Shared /\ Fail /\ GivenUp(r, stage)
        /\ pending' = pending \ {r} /\ UNCHANGED effect

\* Mutant: the try surrounds the sleep only.
OwesWhileHeld(r) == pc[r] = "hold"

\* Where the finally block finds something to take back: while the alarm has
\* its active_alarm_id, and inside the try of the other two.
Owes(r) ==
  \/ kind = "alarm" /\ pc[r] \in {"apply", "hold", "undo"}
  \/ kind = "offline" /\ pc[r] # "cleanup"
  \/ kind = "override" /\ pc[r] = "hold"

\* run is left, normally or by CancelledError: a write it awaited is given up.
Leave(r) ==
  IF Owes(r) THEN Write(r, "cleanup")
  ELSE End(r) /\ pending' = pending \ {r} /\ UNCHANGED <<effect, stored, failureVars>>

\* Mutant: the loop goes on unless the scenario failed.
NotFailed == status # "error"

\* is_running: the status is that of the scenario, not of this run.
IsRunning == status = "running"

LoopHead(r) == IF IsRunning \/ kind = "override" THEN Write(r, "apply") ELSE Leave(r)

Begin(r) ==
  /\ pc[r] = "start" /\ r \notin cancelled
  /\ LoopHead(r)
  /\ UNCHANGED <<requestVars, cancelled, cut>>

\* A parameter that is not a number: run raises before its try.
BadParameters(r) ==
  /\ pc[r] = "start" /\ r \notin cancelled
  /\ Goto(r, "done")
  /\ status' = "error"
  /\ UNCHANGED <<requestVars, cancelled, writeVars, failureVars>>

\* The write is committed, which no cancellation undoes.
Committed(r) ==
  /\ r \in pending
  /\ pending' = pending \ {r}
  /\ IF Shared
     THEN stored' = (pc[r] = "apply") /\ UNCHANGED effect
     ELSE effect' = (IF pc[r] = "apply" THEN effect \cup {r} ELSE effect \ {r}) /\ UNCHANGED stored
  /\ UNCHANGED <<status, pc, cancelled, requestVars, failureVars, cut>>

\* The write is done, and so are the subscribers behind it.
Done(r) ==
  /\ pc[r] \in {"apply", "undo", "cleanup"} /\ r \notin cancelled \cup pending
  /\ Behind(r, pc[r])
  /\ UNCHANGED <<requestVars, cancelled, writeVars, failureVars>>

\* SQLite fails: the run gets the error of its own update, and the bus that of
\* AlarmService.
Raised(r) ==
  /\ r \in pending /\ r \notin cancelled
  /\ Fail
  /\ pending' = pending \ {r}
  /\ IF Shared THEN GivenUp(r, pc[r]) ELSE UNCHANGED <<pc, status>>
  /\ UNCHANGED <<requestVars, cancelled, effect, stored, cut>>

Held(r) ==
  /\ pc[r] = "hold" /\ r \notin cancelled
  /\ IF kind # "override" /\ IsRunning THEN Write(r, "undo") ELSE Leave(r)
  /\ UNCHANGED <<requestVars, cancelled, cut>>

Paused(r) ==
  /\ pc[r] = "pause" /\ r \notin cancelled
  /\ LoopHead(r)
  /\ UNCHANGED <<requestVars, cancelled, cut>>

\* The task resumes with CancelledError; one that has not run yet ends without
\* its wrapper.
Cancelled(r) ==
  /\ r \in cancelled
  /\ cancelled' = cancelled \ {r}
  /\ cut' = \/ cut
            \/ pc[r] = "cleanup" /\ r \in pending
            \/ pc[r] = "apply" /\ kind = "override"
  /\ IF pc[r] = "start"
     THEN Goto(r, "done") /\ UNCHANGED <<status, effect, stored, pending, failureVars>>
     ELSE Leave(r)
  /\ UNCHANGED requestVars

Step(r) ==
  \/ Begin(r) \/ BadParameters(r) \/ Done(r) \/ Raised(r) \/ Held(r)
  \/ Paused(r) \/ Cancelled(r)

Next ==
  \/ Start
  \/ \E q \in Request : Stop(q) \/ StopReturns(q)
  \/ \E r \in Run : Step(r) \/ Committed(r)

Spec == Init /\ [][Next]_vars

\* Sleeps and writes end, and a stop resumes once its task is done.
FairSpec ==
  /\ Spec
  /\ \A r \in Run : WF_vars(Step(r) \/ Committed(r))
  /\ \A q \in Request : WF_vars(StopReturns(q))

-----------------------------------------------------------------------------
\* Every variable keeps its type; only runs that exist are cancelled or
\* awaited, and only one that awaits a write has one under way.
TypeOK ==
  /\ kind \in {"alarm", "override", "offline"}
  /\ status \in {"idle", "running", "stopped", "error"}
  /\ handle \in 0..runs /\ runs \in 0..MaxRuns
  /\ pc \in [Run -> Stage]
  /\ \A r \in Run : pc[r] = "none" <=> r > runs
  /\ cancelled \subseteq Live
  /\ awaited \in [Request -> 0..runs]
  /\ effect \subseteq Run /\ stored \in BOOLEAN
  /\ pending \subseteq Run /\ \A r \in pending : pc[r] \in {"apply", "undo", "cleanup"}
  /\ stops \in Nat /\ failures \in Nat
  /\ overlap \in BOOLEAN /\ excused \in BOOLEAN /\ cut \in BOOLEAN

\* When no task of the scenario is left, neither is what it did: the alarm is
\* cleared, the value released and the device online again, in memory and in
\* SQLite.  Only a write that raised and a stop at the wrong moment leave it: one
\* that cancels a clean-up before its write, or an override before its try.  The
\* memory of a device is online even then.
EffectUndone ==
  Live = {} /\ ~excused =>
    /\ effect = {} \/ (cut /\ kind # "offline")
    /\ ~stored \/ cut

\* With one request at a time, the status tells the truth: running means one
\* run, the one stop would cancel, and anything else means none.
StatusMatchesRuns ==
  ~overlap /\ ~Pending => Live = IF status = "running" THEN {handle} ELSE {}

\* A scenario that is stopped winds down, the runs included that overlapping
\* requests left without a handle, unless it is started again.
StoppedWindsDown == status = "stopped" ~> (Live = {} \/ status = "running")

\* The override is always released, even on cancellation, as its comment says,
\* if no request overlaps another and no write fails.
AlwaysReleased ==
  kind = "override" /\ Live = {} /\ ~excused /\ ~overlap => effect = {}
=============================================================================
