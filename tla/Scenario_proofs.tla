--------------------------- MODULE Scenario_proofs ---------------------------
(***************************************************************************)
(* What holds of scenarios for any number of requests, runs, stops and     *)
(* failing writes: the types, that the status tells the truth while        *)
(* requests do not overlap, and that an ended run leaves nothing behind.   *)
(***************************************************************************)
EXTENDS Scenario, TLAPS

-----------------------------------------------------------------------------
(***************************************************************************)
(* What a step of a run does to the variables the theorems speak of.       *)
(***************************************************************************)

\* The run has a write to take back, or has not committed taking it back.
Owing(r) == pc[r] \in {"apply", "hold"} \/ (pc[r] \in {"undo", "cleanup"} /\ r \in pending)

\* Where what run r did stands: the memory is put right before the write.
Stands(r) == IF kind = "alarm" THEN Owing(r) ELSE pc[r] \in {"apply", "hold"}

\* Run r goes to stage s.  Only a run that ends changes the status, and one
\* that was not cancelled leaves it other than running.
Moves(r, s) ==
  /\ r \in Live
  /\ pc' = [pc EXCEPT ![r] = s]
  /\ UNCHANGED requestVars
  /\ cancelled' = cancelled \ {r}
  /\ s # "done" => status' = status
  /\ s = "done" => /\ status' \in {status, "stopped", "error"}
                   /\ r \in cancelled \/ status' # "running"

\* The effect changes for r alone, or ends for all, and r has one afterwards only
\* where it stands; while SQLite has it, a run that owes keeps owing.  A write that
\* raised is excused, and a cut is told.
Affects(r) ==
  /\ effect' \subseteq Run /\ stored' = stored /\ cut' \in BOOLEAN
  /\ failures' \in Nat /\ excused' \in BOOLEAN
  /\ pending' \subseteq pending \cup {r} /\ pending \subseteq pending' \cup {r}
  /\ r \in pending' => pc'[r] \in {"apply", "undo", "cleanup"}
  /\ excused => excused'
  /\ cut => cut'
  /\ kind = "override" => pc'[r] \notin {"undo", "pause"}
  /\ effect' \ {r} \subseteq effect
  /\ ~excused' /\ (~cut' \/ kind = "offline") /\ r \in effect' /\ (r \in effect => Stands(r))
       => Stands(r)'
  /\ ~excused' /\ ~cut' /\ stored /\ Owing(r) => Owing(r)'

\* What the theorems need of the state a run moves in.
RunTypes(r) ==
  /\ pc \in [Run -> Stage] /\ pc[r] \in Stage /\ cancelled \subseteq Live /\ effect \subseteq Run
  /\ failures \in Nat /\ excused \in BOOLEAN /\ stored \in BOOLEAN /\ cut \in BOOLEAN
  /\ kind \in {"alarm", "override", "offline"}
  /\ status \in {"idle", "running", "stopped", "error"}
  /\ pending \subseteq Run /\ (r \in pending => pc[r] \in {"apply", "undo", "cleanup"})
  /\ kind = "override" => pc[r] \notin {"undo", "pause"}

\* The override neither takes back in its loop nor pauses; an alarm stores no value.
OwnStages ==
  /\ kind = "override" => \A r \in Run : pc[r] \notin {"undo", "pause"}
  /\ kind = "alarm" => ~stored

LEMMA TypesOfRun ==
  ASSUME TypeOK, OwnStages, NEW r \in Run
  PROVE  RunTypes(r)
BY DEF TypeOK, OwnStages, RunTypes

LEMMA WriteMoves ==
  ASSUME NEW r \in Run, NEW s \in {"apply", "undo", "cleanup"}, RunTypes(r), r \in Live,
         UNCHANGED requestVars, cancelled' = cancelled \ {r}, cut' \in BOOLEAN, cut => cut',
         Write(r, s), kind = "override" => s # "undo",
         s = "cleanup" => ~IsRunning \/ r \in cancelled \/ kind = "override"
  PROVE  \E t \in Stage \ {"none", "start"} : Moves(r, t) /\ Affects(r)
<1> USE DEF RunTypes, Stage
<1>1. UNCHANGED <<stored, kind>>
  BY DEF Write, requestVars
<1>2. CASE /\ Goto(r, s) /\ UNCHANGED <<status, failureVars>>
           /\ pending' = pending \cup {r}
           /\ effect' = IF ~Shared THEN effect ELSE IF s = "apply" THEN effect \cup {r} ELSE {}
  <2>1. Moves(r, s)
    BY <1>2 DEF Moves, Goto
  <2>2. pc'[r] = s
    BY <1>2 DEF Goto
  <2>3. Owing(r)'
    BY <1>2, <2>2 DEF Owing
  <2>4. r \in effect' => Stands(r)'
    <3>1. CASE kind = "alarm"
      BY <1>1, <2>3, <3>1 DEF Stands
    <3>2. CASE kind # "alarm"
      BY <1>1, <1>2, <2>2, <3>2 DEF Stands, Shared
    <3> QED BY <3>1, <3>2
  <2>5. /\ effect' \subseteq Run /\ effect' \ {r} \subseteq effect
        /\ pending' \subseteq pending \cup {r} /\ pending \subseteq pending' \cup {r}
    BY <1>2
  <2>6. Affects(r)
    BY <1>1, <1>2, <2>2, <2>3, <2>4, <2>5 DEF Affects, failureVars
  <2> QED BY <2>1, <2>6
<1>3. CASE Shared /\ Fail /\ GivenUp(r, s) /\ pending' = pending \ {r} /\ UNCHANGED effect
  <2>1. PICK t \in Stage \ {"none", "start"} :
          /\ pc' = [pc EXCEPT ![r] = t]
          /\ t # "done" => status' = status
          /\ t = "done" => status' = IF status = "running" THEN "stopped" ELSE status
          /\ kind = "override" => t \notin {"undo", "pause"}
    BY <1>3 DEF GivenUp, Behind, End, Goto
  <2>2. Moves(r, t)
    BY <2>1 DEF Moves
  <2>3. excused' = TRUE /\ failures' \in Nat /\ pc'[r] = t
    BY <1>3, <2>1 DEF Fail
  <2>4. Affects(r)
    BY <1>1, <1>3, <2>1, <2>3 DEF Affects
  <2> QED BY <2>2, <2>4
<1> QED BY <1>2, <1>3 DEF Write

LEMMA LeaveMoves ==
  ASSUME NEW r \in Run, RunTypes(r), r \in Live,
         UNCHANGED requestVars, cancelled' = cancelled \ {r}, cut' \in BOOLEAN, cut => cut',
         Leave(r), ~IsRunning \/ r \in cancelled \/ kind = "override",
         pc[r] = "cleanup" /\ r \in pending => cut',
         pc[r] = "apply" /\ kind = "override" => cut'
  PROVE  \E t \in Stage \ {"none", "start"} : Moves(r, t) /\ Affects(r)
<1>1. CASE Owes(r)
  <2>1. Write(r, "cleanup")
    BY <1>1 DEF Leave
  <2> QED BY <2>1, WriteMoves
<1>2. CASE ~Owes(r)
  <2> USE DEF RunTypes, Stage
  <2>1. /\ pc' = [pc EXCEPT ![r] = "done"] /\ pending' = pending \ {r}
        /\ status' = IF status = "running" THEN "stopped" ELSE status
        /\ UNCHANGED <<effect, stored, failures, excused, kind>>
    BY <1>2 DEF Leave, End, Goto, failureVars, requestVars
  <2>2. Moves(r, "done")
    BY <2>1 DEF Moves, IsRunning
  <2>3. ~cut' => ~Owing(r)
    BY <1>2 DEF Owes, Owing
  <2>4. kind = "offline" => pc[r] = "cleanup"
    BY <1>2 DEF Owes
  <2>5. ~cut' \/ kind = "offline" => ~Stands(r)
    BY <2>3, <2>4 DEF Stands, Owing
  <2>6. Affects(r)
    BY <2>1, <2>3, <2>5 DEF Affects
  <2> QED BY <2>2, <2>6
<1> QED BY <1>1, <1>2

LEMMA StepMoves ==
  ASSUME NEW r \in Run, RunTypes(r), Step(r)
  PROVE  \E s \in Stage \ {"none", "start"} : Moves(r, s) /\ Affects(r)
<1> USE DEF RunTypes
<1>1. ASSUME r \in Live, UNCHANGED <<requestVars, cancelled, cut>>, r \notin cancelled,
             pc[r] \in {"start", "pause"}, LoopHead(r)
      PROVE  \E s \in Stage \ {"none", "start"} : Moves(r, s) /\ Affects(r)
  <2>1. cancelled' = cancelled \ {r}
    BY <1>1
  <2>2. CASE Write(r, "apply")
    BY <1>1, <2>1, <2>2, WriteMoves
  <2>3. CASE Leave(r) /\ ~IsRunning
    BY <1>1, <2>1, <2>3, LeaveMoves
  <2> QED BY <1>1, <2>2, <2>3 DEF LoopHead
<1>2. CASE Begin(r)
  BY <1>1, <1>2 DEF Begin, Live
<1>3. CASE BadParameters(r)
  <2>1. Moves(r, "done")
    BY <1>3 DEF BadParameters, Moves, Goto, Live
  <2>2. pc'[r] = "done" /\ ~Owing(r) /\ UNCHANGED <<writeVars, failureVars, kind>>
    BY <1>3 DEF BadParameters, Goto, Owing, requestVars
  <2>3. Affects(r)
    <3>1. ~Stands(r)
      BY <2>2, <1>3 DEF BadParameters, Stands
    <3>2. r \notin pending'\/ pc'[r] \in {"apply", "undo", "cleanup"}
      BY <1>3 DEF BadParameters, writeVars
    <3> QED BY <2>2, <3>1, <3>2 DEF Affects, writeVars, failureVars
  <2> QED BY <2>1, <2>3 DEF Stage
<1>4. CASE Done(r)
  <2>1. PICK t \in {"hold", "pause", "done"} :
          /\ pc' = [pc EXCEPT ![r] = t]
          /\ t # "done" => status' = status
          /\ t = "done" => status' = IF status = "running" THEN "stopped" ELSE status
          /\ t = "hold" <=> pc[r] = "apply"
          /\ t = "pause" <=> pc[r] = "undo"
    BY <1>4 DEF Done, Behind, End, Goto
  <2>2. Moves(r, t)
    BY <1>4, <2>1 DEF Moves, Done, Live
  <2>3. /\ pc'[r] = t /\ r \notin pending /\ UNCHANGED <<writeVars, failureVars, kind>>
        /\ pc[r] \in {"apply", "undo", "cleanup"}
    BY <1>4, <2>1 DEF Done, requestVars
  <2>4. Owing(r)' <=> Owing(r)
    BY <2>1, <2>3 DEF Owing, writeVars
  <2>5. Stands(r)' <=> Stands(r)
    BY <2>1, <2>3, <2>4 DEF Stands
  <2>6. Affects(r)
    BY <2>1, <2>3, <2>4, <2>5 DEF Affects, writeVars, failureVars
  <2> QED BY <2>2, <2>6 DEF Stage
<1>5. CASE Raised(r)
  <2>1. PICK t \in Stage \ {"none", "start"} :
          /\ pc' = [pc EXCEPT ![r] = t]
          /\ t # "done" => status' = status
          /\ t = "done" => status' = IF status = "running" THEN "stopped" ELSE status
          /\ kind = "override" => t \notin {"undo", "pause"}
    <3>1. CASE Shared
      BY <1>5, <3>1 DEF Raised, GivenUp, Behind, End, Goto, Stage
    <3>2. CASE ~Shared
      <4>1. pc[r] \in Stage \ {"none", "start"} /\ pc[r] # "done"
        BY <1>5 DEF Raised, Stage
      <4> QED BY <1>5, <3>2, <4>1 DEF Raised, Shared
    <3> QED BY <3>1, <3>2
  <2>2. r \in Live /\ UNCHANGED <<requestVars, effect, stored, cut>> /\ cancelled' = cancelled \ {r}
    BY <1>5 DEF Raised, Live
  <2>3. Moves(r, t)
    BY <2>1, <2>2 DEF Moves
  <2>4. excused' = TRUE /\ failures' \in Nat /\ pc'[r] = t /\ pending' = pending \ {r} /\ UNCHANGED kind
    BY <1>5, <2>1 DEF Raised, Fail, requestVars
  <2>5. Affects(r)
    BY <2>1, <2>2, <2>4 DEF Affects
  <2> QED BY <2>3, <2>5
<1>6. CASE Held(r)
  <2>1. /\ r \in Live /\ cancelled' = cancelled \ {r} /\ UNCHANGED <<requestVars, cut>>
        /\ pc[r] = "hold"
    BY <1>6 DEF Held, Live
  <2>2. CASE kind # "override" /\ IsRunning
    <3>1. Write(r, "undo")
      BY <1>6, <2>2 DEF Held
    <3> QED BY <2>1, <2>2, <3>1, WriteMoves
  <2>3. CASE ~(kind # "override" /\ IsRunning)
    <3>1. Leave(r)
      BY <1>6, <2>3 DEF Held
    <3> QED BY <2>1, <2>3, <3>1, LeaveMoves
  <2> QED BY <2>2, <2>3
<1>7. CASE Paused(r)
  BY <1>1, <1>7 DEF Paused, Live
<1>8. CASE Cancelled(r)
  <2>1. /\ r \in Live /\ r \in cancelled /\ cancelled' = cancelled \ {r} /\ UNCHANGED requestVars
        /\ cut' \in BOOLEAN /\ (cut => cut')
        /\ pc[r] = "cleanup" /\ r \in pending => cut'
        /\ pc[r] = "apply" /\ kind = "override" => cut'
    BY <1>8 DEF Cancelled
  <2>2. CASE pc[r] = "start"
    <3>1. Moves(r, "done")
      BY <1>8, <2>1, <2>2 DEF Cancelled, Moves, Goto
    <3>2. /\ pc'[r] = "done" /\ ~Owing(r) /\ ~Stands(r)
          /\ UNCHANGED <<effect, stored, pending, failures, excused, kind>>
      BY <1>8, <2>2 DEF Cancelled, Goto, Owing, Stands, failureVars, requestVars
    <3>3. Affects(r)
      BY <1>8, <2>1, <2>2, <3>2 DEF Affects
    <3> QED BY <3>1, <3>3 DEF Stage
  <2>3. CASE pc[r] # "start"
    <3>1. Leave(r)
      BY <1>8, <2>3 DEF Cancelled
    <3> QED BY <2>1, <3>1, LeaveMoves
  <2> QED BY <2>2, <2>3
<1> QED BY <1>2, <1>3, <1>4, <1>5, <1>6, <1>7, <1>8 DEF Step

\* The runs that live after r has gone to s.
LEMMA LiveAfter ==
  ASSUME TypeOK, NEW r \in Run, NEW s \in Stage \ {"none", "start"}, Moves(r, s)
  PROVE  Live' = IF s = "done" THEN Live \ {r} ELSE Live
BY DEF TypeOK, Moves, Live

-----------------------------------------------------------------------------
(***************************************************************************)
(* Types                                                                   *)
(***************************************************************************)

LEMMA TypeStep == TypeOK /\ OwnStages /\ [Next]_vars => TypeOK' /\ OwnStages'
<1> SUFFICES ASSUME TypeOK, OwnStages, [Next]_vars PROVE TypeOK' /\ OwnStages'
  OBVIOUS
<1>1. CASE Start
  <2>1. /\ runs \in Nat /\ runs' = runs + 1 /\ runs' \in 1..MaxRuns /\ handle' = runs'
        /\ MaxRuns \in Nat
    BY <1>1, ScenarioAssumption DEF Start, TypeOK
  <2>2. /\ pc' = [pc EXCEPT ![runs'] = "start"] /\ pc' \in [Run -> Stage]
        /\ \A x \in Run : pc'[x] = "none" <=> x > runs'
    BY <1>1, <2>1 DEF Start, TypeOK, Run, Stage
  <2>3. runs' \notin Live /\ Live \subseteq Live' /\ pc[runs'] = "none"
    BY <2>1, <2>2 DEF TypeOK, Live, Run
  <2>4. awaited' \in [Request -> 0..runs']
    BY <1>1, <2>1 DEF Start, TypeOK
  <2>5. \A r \in pending : pc'[r] \in {"apply", "undo", "cleanup"}
    BY <2>2, <2>3 DEF TypeOK
  <2>6. OwnStages'
    BY <1>1, <2>2 DEF OwnStages, Start, TypeOK, writeVars
  <2> QED BY <1>1, <2>1, <2>2, <2>3, <2>4, <2>5, <2>6 DEF Start, TypeOK, failureVars, writeVars, Pending
<1>2. ASSUME NEW q \in Request, Stop(q) PROVE TypeOK' /\ OwnStages'
  <2>1. Live' = Live
    BY <1>2 DEF Stop, Live
  <2>2. \A h \in Live : h \in 0..runs
    BY DEF TypeOK, Live, Run
  <2>3. runs \in Nat
    BY ScenarioAssumption DEF TypeOK
  <2>4. OwnStages'
    BY <1>2 DEF OwnStages, Stop, writeVars
  <2> QED BY <1>2, <2>1, <2>2, <2>3, <2>4, ScenarioAssumption
          DEF Stop, TypeOK, failureVars, writeVars, Pending
<1>3. ASSUME NEW q \in Request, StopReturns(q) PROVE TypeOK' /\ OwnStages'
  <2>1. Live' = Live /\ runs \in Nat
    BY <1>3, ScenarioAssumption DEF StopReturns, Live, TypeOK
  <2>2. OwnStages'
    BY <1>3 DEF OwnStages, StopReturns, writeVars
  <2> QED BY <1>3, <2>1, <2>2 DEF StopReturns, TypeOK, failureVars, writeVars
<1>4. ASSUME NEW r \in Run, Step(r) PROVE TypeOK' /\ OwnStages'
  <2>1. PICK s \in Stage \ {"none", "start"} : Moves(r, s) /\ Affects(r)
    BY <1>4, StepMoves, TypesOfRun
  <2>2. Live' = IF s = "done" THEN Live \ {r} ELSE Live
    BY <2>1, LiveAfter
  <2>3. cancelled' \subseteq Live'
    BY <2>1, <2>2 DEF Moves, TypeOK
  <2>4. pc' \in [Run -> Stage] /\ \A x \in Run : pc'[x] = "none" <=> pc[x] = "none"
    BY <2>1 DEF Moves, TypeOK, Live
  <2>5. status' \in {"idle", "running", "stopped", "error"}
    BY <2>1 DEF Moves, TypeOK
  <2>6. pending' \subseteq Run /\ \A x \in pending' : pc'[x] \in {"apply", "undo", "cleanup"}
    BY <2>1 DEF Moves, Affects, TypeOK
  <2>7. OwnStages'
    BY <2>1 DEF OwnStages, Moves, Affects, requestVars, TypeOK
  <2> QED BY <2>1, <2>3, <2>4, <2>5, <2>6, <2>7 DEF Moves, Affects, TypeOK, requestVars
<1>5. ASSUME NEW r \in Run, Committed(r) PROVE TypeOK' /\ OwnStages'
  <2>1. Live' = Live
    BY <1>5 DEF Committed, Live
  <2>2. effect' \subseteq Run /\ stored' \in BOOLEAN
    BY <1>5 DEF Committed, TypeOK
  <2>3. OwnStages'
    BY <1>5 DEF OwnStages, Committed, Shared, requestVars
  <2> QED BY <1>5, <2>1, <2>2, <2>3 DEF Committed, TypeOK, failureVars, requestVars
<1>6. CASE UNCHANGED vars
  BY <1>6 DEF vars, TypeOK, OwnStages, Live, requestVars, writeVars, failureVars
<1> QED BY <1>1, <1>2, <1>3, <1>4, <1>5, <1>6 DEF Next

\* Runs keep to the stages their scenario has, and every variable to its type.
LEMMA TypesInvariant == Spec => [](TypeOK /\ OwnStages)
<1>1. Init => TypeOK /\ OwnStages
  <2> SUFFICES ASSUME Init PROVE TypeOK /\ OwnStages
    OBVIOUS
  <2>1. \A r \in Run : pc[r] = "none" /\ r > runs
    BY DEF Init, Run
  <2>2. pc \in [Run -> Stage] /\ awaited \in [Request -> 0..runs]
    BY DEF Init, Stage
  <2>3. \A r \in Run : pc[r] = "none" <=> r > runs
    BY <2>1
  <2>4. /\ handle \in 0..runs /\ runs \in 0..MaxRuns /\ stops \in Nat /\ failures \in Nat
        /\ cancelled \subseteq Live /\ effect \subseteq Run
    BY ScenarioAssumption DEF Init
  <2>5. /\ overlap \in BOOLEAN /\ excused \in BOOLEAN /\ stored \in BOOLEAN /\ cut \in BOOLEAN
        /\ pending = {}
    BY Zenon DEF Init
  <2>6. kind \in {"alarm", "override", "offline"} /\ status \in {"idle", "running", "stopped", "error"}
    BY DEF Init
  <2>7. TypeOK
    BY <2>2, <2>3, <2>4, <2>5, <2>6, Zenon DEF TypeOK
  <2> QED BY <2>1, <2>5, <2>7, Zenon DEF OwnStages, Init
<1> QED BY <1>1, TypeStep, PTL DEF Spec

\* Every variable keeps its type, and only runs that exist and have not ended
\* are cancelled, whatever the bounds.
THEOREM TypeCorrect == Spec => []TypeOK
BY TypesInvariant, PTL

-----------------------------------------------------------------------------
(***************************************************************************)
(* One request at a time                                                   *)
(***************************************************************************)

\* While no request overlaps a stop, only the run of the handle lives; a stop
\* that is pending awaits it, and the status is not running meanwhile.
OneAtATime ==
  ~overlap =>
    /\ Live \subseteq {handle}
    /\ \A q \in Request : awaited[q] # 0 => awaited[q] = handle
    /\ \A p, q \in Request : awaited[p] # 0 /\ awaited[q] # 0 => p = q
    /\ Pending => status # "running"
    /\ ~Pending => /\ cancelled = {}
                   /\ status = "running" => handle \in Live
                   /\ status # "running" => Live = {}

LEMMA OneAtATimeStep == TypeOK /\ OwnStages /\ OneAtATime /\ [Next]_vars => OneAtATime'
<1> SUFFICES ASSUME TypeOK, OwnStages, OneAtATime, [Next]_vars, ~overlap' PROVE OneAtATime'
  BY DEF OneAtATime
<1>1. CASE Start
  <2>1. ~overlap /\ ~Pending
    BY <1>1 DEF Start, TypeOK
  <2>2. Live = {} /\ cancelled = {} /\ ~Pending'
    BY <1>1, <2>1 DEF OneAtATime, Start, Pending
  <2>3. runs' \in Run /\ pc' = [pc EXCEPT ![runs'] = "start"] /\ handle' = runs'
    BY <1>1, ScenarioAssumption DEF Start, TypeOK, Run
  <2>4. Live' = {handle'}
    BY <2>2, <2>3 DEF Live, TypeOK
  <2>5. \A q \in Request : awaited'[q] = 0
    BY <2>2 DEF Pending
  <2> QED BY <1>1, <2>2, <2>4, <2>5 DEF OneAtATime, Start
<1>2. ASSUME NEW q \in Request, Stop(q) PROVE OneAtATime'
  <2>1. ~overlap /\ ~Pending /\ Live' = Live
    BY <1>2 DEF Stop, TypeOK, Live
  <2>2. Live \subseteq {handle} /\ cancelled = {} /\ \A p \in Request : awaited[p] = 0
    BY <2>1 DEF OneAtATime, Pending
  <2>3. CASE handle \in Live
    <3>1. /\ awaited' = [awaited EXCEPT ![q] = handle] /\ handle' = handle /\ status' = "stopped"
          /\ handle # 0
      BY <1>2, <2>3 DEF Stop, Live, Run
    <3>2. /\ awaited'[q] = handle /\ \A p \in Request \ {q} : awaited'[p] = 0
          /\ Pending'
      BY <2>2, <3>1 DEF TypeOK, Pending
    <3> QED BY <2>1, <2>2, <3>1, <3>2 DEF OneAtATime
  <2>4. CASE handle \notin Live
    <3>1. /\ awaited' = awaited /\ cancelled' = cancelled /\ status' = "stopped" /\ Live = {}
      BY <1>2, <2>2, <2>4 DEF Stop
    <3> QED BY <2>1, <2>2, <3>1 DEF OneAtATime, Pending
  <2> QED BY <2>3, <2>4
<1>3. ASSUME NEW q \in Request, StopReturns(q) PROVE OneAtATime'
  <2>1. ~overlap /\ Live' = Live /\ awaited[q] # 0 /\ awaited[q] \notin Live
    BY <1>3 DEF StopReturns, Live
  <2>2. Live = {} /\ status # "running"
    BY <2>1 DEF OneAtATime, Pending
  <2>3. cancelled' = {} /\ status' = status
    BY <1>3, <2>2 DEF StopReturns, TypeOK
  <2>4. \A p \in Request : awaited'[p] = 0
    BY <1>3, <2>1 DEF StopReturns, TypeOK, OneAtATime
  <2> QED BY <2>1, <2>2, <2>3, <2>4 DEF OneAtATime, Pending
<1>4. ASSUME NEW r \in Run, Step(r) PROVE OneAtATime'
  <2>1. PICK s \in Stage \ {"none", "start"} : Moves(r, s)
    BY <1>4, StepMoves, TypesOfRun
  <2>2. Live' = IF s = "done" THEN Live \ {r} ELSE Live
    BY <2>1, LiveAfter
  <2>3. ~overlap /\ Pending' = Pending /\ awaited' = awaited /\ handle' = handle
    BY <2>1 DEF Moves, requestVars, Pending
  <2>4. r = handle /\ r \in Live /\ Live = {r}
    BY <2>1, <2>3 DEF Moves, OneAtATime
  <2>5. CASE Pending
    <3>1. status' # "running"
      BY <2>1, <2>3, <2>5 DEF Moves, OneAtATime
    <3> QED BY <2>2, <2>3, <2>5, <3>1 DEF OneAtATime
  <2>6. CASE ~Pending
    <3>1. cancelled = {} /\ cancelled' = {} /\ status = "running"
      BY <2>1, <2>3, <2>4, <2>6 DEF Moves, OneAtATime
    <3>2. CASE s = "done"
      <4>1. status' # "running" /\ Live' = {}
        BY <2>1, <2>2, <2>4, <3>1, <3>2 DEF Moves
      <4> QED BY <2>3, <2>6, <3>1, <4>1 DEF OneAtATime
    <3>3. CASE s # "done"
      <4>1. status' = "running" /\ Live' = {handle'}
        BY <2>1, <2>2, <2>3, <2>4, <3>1, <3>3 DEF Moves
      <4> QED BY <2>3, <2>6, <3>1, <4>1 DEF OneAtATime
    <3> QED BY <3>2, <3>3
  <2> QED BY <2>5, <2>6
<1>5. ASSUME NEW r \in Run, Committed(r) PROVE OneAtATime'
  BY <1>5 DEF Committed, requestVars, OneAtATime, Live, Pending
<1>6. CASE UNCHANGED vars
  BY <1>6 DEF vars, requestVars, OneAtATime, Live, Pending
<1> QED BY <1>1, <1>2, <1>3, <1>4, <1>5, <1>6 DEF Next

LEMMA OneAtATimeInvariant == Spec => []OneAtATime
<1>1. Init => OneAtATime
  BY DEF Init, OneAtATime, Live, Pending
<1> QED BY <1>1, OneAtATimeStep, TypesInvariant, PTL DEF Spec

\* With one request at a time the status of a scenario is true, for any number
\* of runs, stops and failures: running means one run, that of the handle.
THEOREM StatusTellsTheTruth == Spec => []StatusMatchesRuns
<1>1. OneAtATime => StatusMatchesRuns
  BY DEF OneAtATime, StatusMatchesRuns
<1> QED BY <1>1, OneAtATimeInvariant, PTL

-----------------------------------------------------------------------------
(***************************************************************************)
(* What a run leaves behind                                                *)
(***************************************************************************)

\* What stands is owed by a run that will take it back, and what SQLite has by one
\* that has not stored that yet.
EffectsOwed ==
  ~excused =>
    /\ ~cut \/ kind = "offline" => \A r \in effect : Stands(r)
    /\ ~cut /\ stored => \E r \in Run : Owing(r)

LEMMA EffectsStep == TypeOK /\ OwnStages /\ EffectsOwed /\ [Next]_vars => EffectsOwed'
<1> SUFFICES ASSUME TypeOK, OwnStages, EffectsOwed, [Next]_vars PROVE EffectsOwed'
  OBVIOUS
\* A run that a step leaves alone owes what it owed.
<1>0. ASSUME NEW x \in Run, UNCHANGED kind, pc'[x] = pc[x], x \in pending' <=> x \in pending
      PROVE  (Owing(x)' <=> Owing(x)) /\ (Stands(x)' <=> Stands(x))
  <2>1. Owing(x)' <=> Owing(x)
    BY <1>0 DEF Owing
  <2> QED BY <1>0, <2>1 DEF Stands
<1>1. CASE Start
  <2>1. /\ runs' \in Run /\ pc' = [pc EXCEPT ![runs'] = "start"] /\ pc[runs'] = "none"
        /\ UNCHANGED <<kind, effect, stored, excused, pending, cut>>
    BY <1>1, ScenarioAssumption DEF Start, TypeOK, Run, failureVars, writeVars
  <2>2. ~Owing(runs') /\ ~Stands(runs')
    BY <2>1 DEF Owing, Stands
  <2>3. \A x \in Run \ {runs'} : pc'[x] = pc[x]
    BY <2>1 DEF TypeOK
  <2>4. \A x \in Run : (Owing(x) => Owing(x)') /\ (Stands(x) => Stands(x)')
    BY <1>0, <2>1, <2>2, <2>3
  <2> QED BY <2>1, <2>4 DEF EffectsOwed, TypeOK
<1>2. ASSUME NEW q \in Request, Stop(q) \/ StopReturns(q) PROVE EffectsOwed'
  <2>1. UNCHANGED <<kind, pc, effect, stored, excused, pending, cut>>
    BY <1>2 DEF Stop, StopReturns, failureVars, writeVars
  <2> QED BY <1>0, <2>1 DEF EffectsOwed, TypeOK
<1>4. ASSUME NEW r \in Run, Step(r) PROVE EffectsOwed'
  <2>1. PICK s \in Stage \ {"none", "start"} : Moves(r, s) /\ Affects(r)
    BY <1>4, StepMoves, TypesOfRun
  <2>2. /\ UNCHANGED kind /\ \A x \in Run \ {r} : pc'[x] = pc[x] /\ (x \in pending' <=> x \in pending)
    BY <2>1 DEF Moves, requestVars, Affects, TypeOK
  <2>3. \A x \in Run \ {r} : (Owing(x)' <=> Owing(x)) /\ (Stands(x)' <=> Stands(x))
    BY <1>0, <2>2
  <2>4. ASSUME ~excused', ~cut' \/ kind = "offline", NEW x \in effect' PROVE Stands(x)'
    <3>1. ~excused /\ (~cut \/ kind = "offline") /\ \A y \in effect : Stands(y)
      BY <2>1, <2>4 DEF Affects, EffectsOwed, TypeOK
    <3>2. CASE x = r
      BY <2>1, <2>4, <3>1, <3>2 DEF Affects
    <3>3. CASE x # r
      <4>1. x \in effect /\ x \in Run
        BY <2>1, <2>4, <3>3 DEF Affects
      <4> QED BY <2>3, <3>1, <3>3, <4>1
    <3> QED BY <3>2, <3>3
  <2>5. ASSUME ~excused', ~cut', stored' PROVE \E x \in Run : Owing(x)'
    <3>1. ~excused /\ ~cut /\ stored
      BY <2>1, <2>5 DEF Affects, TypeOK
    <3>2. PICK x \in Run : Owing(x)
      BY <3>1 DEF EffectsOwed
    <3>3. x = r => Owing(r)'
      BY <2>1, <2>5, <3>1, <3>2 DEF Affects
    <3> QED BY <2>3, <3>2, <3>3
  <2> QED BY <2>2, <2>4, <2>5 DEF EffectsOwed
\* A commit adds to what stands where it is owed, and takes it back where not.
<1>5. ASSUME NEW r \in Run, Committed(r) PROVE EffectsOwed'
  <2>1. /\ UNCHANGED <<pc, kind, excused, cut>> /\ r \in pending /\ pending' = pending \ {r}
        /\ pc[r] \in {"apply", "undo", "cleanup"}
    BY <1>5 DEF Committed, requestVars, failureVars, TypeOK
  <2>2. \A x \in Run \ {r} : (Owing(x)' <=> Owing(x)) /\ (Stands(x)' <=> Stands(x))
    BY <1>0, <2>1
  <2>3. pc[r] = "apply" => Owing(r)' /\ Stands(r)'
    BY <2>1 DEF Owing, Stands
  <2>4. CASE Shared
    <3>1. effect' = effect /\ stored' = (pc[r] = "apply")
      BY <1>5, <2>4 DEF Committed
    <3>2. Stands(r)' <=> Stands(r)
      BY <2>1, <2>4 DEF Stands, Shared
    <3> QED BY <2>1, <2>2, <2>3, <3>1, <3>2 DEF EffectsOwed, TypeOK
  <2>5. CASE ~Shared
    <3>1. /\ effect' = (IF pc[r] = "apply" THEN effect \cup {r} ELSE effect \ {r})
          /\ stored' = stored
      BY <1>5, <2>5 DEF Committed
    <3>2. ~excused /\ (~cut \/ kind = "offline") => \A x \in effect' : Stands(x)'
      BY <2>2, <2>3, <3>1 DEF EffectsOwed, TypeOK
    <3>3. ~stored
      BY <2>5 DEF OwnStages, Shared
    <3> QED BY <2>1, <3>1, <3>2, <3>3 DEF EffectsOwed
  <2> QED BY <2>4, <2>5
<1>6. CASE UNCHANGED vars
  <2>1. UNCHANGED <<kind, pc, effect, stored, excused, pending, cut>>
    BY <1>6 DEF vars, requestVars, writeVars, failureVars
  <2> QED BY <1>0, <2>1 DEF EffectsOwed, TypeOK
<1> QED BY <1>1, <1>2, <1>4, <1>5, <1>6 DEF Next

\* Once no task of a scenario is left, the alarm is cleared, the value released and
\* the device online, in memory and in SQLite, unless a write raised or a stop hit
\* a clean-up before its write or an override before its try; for any number of
\* runs, requests and stops, overlapping or not.
THEOREM NothingLeftBehind == Spec => []EffectUndone
<1>1. Init => EffectsOwed
  BY DEF Init, EffectsOwed
<1>2. TypeOK /\ EffectsOwed => EffectUndone
  <2> SUFFICES ASSUME TypeOK, EffectsOwed, Live = {}, ~excused
               PROVE  (effect = {} \/ (cut /\ kind # "offline")) /\ (~stored \/ cut)
    BY DEF EffectUndone
  <2>1. \A x \in Run : ~Owing(x) /\ ~Stands(x)
    BY DEF Live, Owing, Stands
  <2> QED BY <2>1 DEF EffectsOwed, TypeOK
<1> QED BY <1>1, <1>2, EffectsStep, TypesInvariant, PTL DEF Spec
===============================================================================
