------------------------------ MODULE Simulation ------------------------------
(***************************************************************************)
(* The simulation engine: a task that ticks through the points it knew     *)
(* when it was started, asks each point's generator for a value, overlays  *)
(* the fault injected on the point, and writes what changed through        *)
(* DeviceService.  Start, stop, fault and override requests, and devices   *)
(* added while it runs, come between any two awaits of the task.           *)
(*                                                                         *)
(* Sources: application/simulation_service.py, adapters/simulation/        *)
(* faults.py, application/device_service.py (write_point).                 *)
(***************************************************************************)
EXTENDS Naturals, FiniteSets

CONSTANTS
  Point,         \* points, numbered in the order of the dictionaries
  Value,
  Late,          \* points of devices that are added while the engine runs
  Request,       \* the HTTP requests that can be in stop at a time
  NoValue,       \* a fault that has not frozen a value
  MaxLoops,      \* bound on starts
  MaxStops,      \* bound on stops
  MaxFaults,     \* bound on injected faults
  MaxCommands,   \* bound on values written by others
  MaxFailures    \* bound on writes that raise

ASSUME SimulationAssumption ==
  /\ Point \subseteq Nat /\ IsFiniteSet(Point) /\ \A p \in Point \ Late, q \in Late : p < q
  /\ Late \subseteq Point /\ NoValue \notin Value
  /\ {MaxLoops, MaxStops, MaxFaults, MaxCommands, MaxFailures} \subseteq Nat

Loop == 1..MaxLoops

VARIABLES
  running,    \* _running
  handle,     \* the loop _task refers to, 0 for none
  loops,      \* how many loops were created
  pc,         \* where each loop is
  todo,       \* the points a loop has still to visit in its tick
  size,       \* the size the dictionary had when the tick began to iterate
  write,      \* the point and the value of the write a loop awaits
  cancelled,  \* loops that resume with CancelledError
  awaited,    \* the loop each stop awaits, 0 for none
  known,      \* the points of the devices in memory
  generators, \* the points that have a generator
  values,     \* _values: what the engine last wrote or read
  present,    \* the present values in memory
  fault,      \* the active fault of each point
  stops, faults, commands, failures,
  overlap,    \* history: a start or a stop came while a stop was pending
  excused     \* history: points whose last write did not end as the engine assumes

loopVars == <<pc, todo, size, write>>
requestVars == <<running, handle, loops, awaited, cancelled, stops, overlap>>
pointVars == <<known, generators, values, present, excused>>
faultVars == <<fault, faults>>
vars == <<loopVars, requestVars, pointVars, faultVars, commands, failures>>

\* A loop in "tick" or "head" runs: it has the thread until it awaits.  The
\* others await the thread, a write (before and after the memory changes) or
\* the sleep between two ticks.
Stage == {"none", "head", "tick", "writing", "storing", "sleep", "done"}
Live == {l \in Loop : pc[l] \notin {"none", "done"}}
Pending == \E q \in Request : awaited[q] # 0
Idle == \A l \in Loop : pc[l] # "tick"

\* offline and stuck hold a value, and may have no end; every other kind only
\* changes which value is written, or raises on a parameter that is no number.
Kind == {"stuck", "offline", "other"}
Fault == [kind : Kind, ends : BOOLEAN, frozen : Value \cup {NoValue}]
NoFault == [kind |-> "none", ends |-> FALSE, frozen |-> NoValue]

\* The points a loop other than l writes at the moment.
InFlight(l) == {write[k][1] : k \in {j \in Live \ {l} : pc[j] = "writing"}}

Init ==
  /\ running = FALSE /\ handle = 0 /\ loops = 0
  /\ pc = [l \in Loop |-> "none"]
  /\ todo = [l \in Loop |-> {}] /\ size = [l \in Loop |-> 0]
  /\ write = [l \in Loop |-> <<>>]
  /\ cancelled = {} /\ awaited = [q \in Request |-> 0]
  /\ known = Point \ Late /\ generators = {}
  /\ present \in [Point -> Value] /\ values = present
  /\ fault = [p \in Point |-> NoFault]
  /\ stops = 0 /\ faults = 0 /\ commands = 0 /\ failures = 0
  /\ overlap = FALSE /\ excused = {}

-----------------------------------------------------------------------------
(***************************************************************************)
(* Requests                                                                *)
(***************************************************************************)

\* Mutant: the values of the last time are kept.
BuildKeeping ==
  /\ generators' = known
  /\ excused' = InFlight(0)
  /\ UNCHANGED <<known, present, values>>

\* build: one generator per known point, and the values read afresh.
Build ==
  /\ generators' = known
  /\ values' = present
  /\ excused' = InFlight(0)
  /\ UNCHANGED <<known, present>>

Start ==
  /\ Idle /\ ~running /\ loops < MaxLoops
  /\ Build
  /\ running' = TRUE
  /\ loops' = loops + 1 /\ handle' = loops'
  /\ pc' = [pc EXCEPT ![loops'] = "head"]
  /\ overlap' = (overlap \/ Pending)
  /\ UNCHANGED <<todo, size, write, awaited, cancelled, stops, faultVars,
                 commands, failures>>

\* Mutant: the handle is forgotten at once.
StopWithoutWait(q) ==
  /\ Idle /\ awaited[q] = 0 /\ stops < MaxStops
  /\ stops' = stops + 1
  /\ running' = FALSE
  /\ overlap' = (overlap \/ Pending)
  /\ cancelled' = cancelled \cup ({handle} \cap Live)
  /\ handle' = 0
  /\ UNCHANGED <<loopVars, pointVars, faultVars, loops, awaited, commands, failures>>

\* A task that is done already is not waited for.
Stop(q) ==
  /\ Idle /\ awaited[q] = 0 /\ stops < MaxStops
  /\ stops' = stops + 1
  /\ running' = FALSE
  /\ overlap' = (overlap \/ Pending)
  /\ IF handle \in Live
     THEN /\ cancelled' = cancelled \cup {handle}
          /\ awaited' = [awaited EXCEPT ![q] = handle]
          /\ UNCHANGED handle
     ELSE handle' = 0 /\ UNCHANGED <<cancelled, awaited>>
  /\ UNCHANGED <<loopVars, pointVars, faultVars, loops, commands, failures>>

\* Whatever _task refers to by now is forgotten.
StopReturns(q) ==
  /\ Idle /\ awaited[q] # 0 /\ awaited[q] \notin Live
  /\ handle' = 0
  /\ awaited' = [awaited EXCEPT ![q] = 0]
  /\ UNCHANGED <<loopVars, pointVars, faultVars, running, loops, cancelled, stops,
                 overlap, commands, failures>>

\* A fault replaces the one the point had.
Inject(p, k, ends) ==
  /\ faults < MaxFaults
  /\ faults' = faults + 1
  /\ fault' = [fault EXCEPT ![p] = [kind |-> k, ends |-> ends, frozen |-> NoValue]]

InjectFault ==
  /\ Idle
  /\ \E p \in Point, k \in Kind, ends \in BOOLEAN : Inject(p, k, ends)
  /\ UNCHANGED <<loopVars, requestVars, pointVars, commands, failures>>

ClearFaults ==
  /\ Idle
  /\ \E P \in {{p} : p \in Point} \cup {Point} :
       /\ \E p \in P : fault[p] # NoFault
       /\ fault' = [p \in Point |-> IF p \in P THEN NoFault ELSE fault[p]]
  /\ UNCHANGED <<loopVars, requestVars, pointVars, faults, commands, failures>>

\* A value written by a request, a scenario or a protocol, not by the engine.
Command(p, v) ==
  /\ Idle /\ commands < MaxCommands
  /\ commands' = commands + 1
  /\ p \in known /\ v # present[p]
  /\ present' = [present EXCEPT ![p] = v]
  /\ excused' = excused \cup {p}
  /\ UNCHANGED <<loopVars, requestVars, faultVars, known, generators, values, failures>>

AddDevice(p) ==
  /\ Idle /\ p \notin known
  /\ known' = known \cup {p}
  /\ UNCHANGED <<loopVars, requestVars, faultVars, generators, values, present,
                 excused, commands, failures>>

-----------------------------------------------------------------------------
(***************************************************************************)
(* The loop                                                                *)
(***************************************************************************)

\* The loop wakes, ends if the engine was stopped, or begins a tick; a random
\* fault may strike a point that has none.
LoopHead(l) ==
  /\ Idle /\ pc[l] \in {"head", "sleep"} /\ l \notin cancelled
  /\ IF running
     THEN /\ pc' = [pc EXCEPT ![l] = "tick"]
          /\ todo' = [todo EXCEPT ![l] = generators]
          /\ size' = [size EXCEPT ![l] = Cardinality(generators)]
          /\ \/ \E p \in generators, k \in Kind :
                  fault[p] = NoFault /\ Inject(p, k, TRUE)
             \/ UNCHANGED faultVars
     ELSE /\ pc' = [pc EXCEPT ![l] = "done"]
          /\ UNCHANGED <<todo, size, faultVars>>
  /\ UNCHANGED <<requestVars, pointVars, write, commands, failures>>

\* Mutant: the frozen value is taken again in every tick.
OverlaidAfresh(p, v) ==
  IF fault[p].kind \in {"stuck", "offline"}
  THEN {[fault[p] EXCEPT !.frozen = v]} ELSE {fault[p]}

\* Mutant: the test for a fault is dropped.
OverlaidUnchecked(p, v) ==
  IF fault[p].kind # "other" /\ fault[p].frozen = NoValue
  THEN {[fault[p] EXCEPT !.frozen = v]} ELSE {fault[p]}

\* FaultInjector.apply: the fault of p after the visit, for a generated value v.
Overlaid(p, v) ==
  IF fault[p].kind \in {"stuck", "offline"} /\ fault[p].frozen = NoValue
  THEN {[fault[p] EXCEPT !.frozen = v]} ELSE {fault[p]}

\* A fault with an end may turn out to have reached it.
Applied(p, v) == Overlaid(p, v) \cup (IF fault[p].ends THEN {NoFault} ELSE {})

\* The write of p with w begins: _values changes before it is awaited.
BeginWrite(l, p, w) ==
  /\ values' = [values EXCEPT ![p] = w]
  /\ write' = [write EXCEPT ![l] = <<p, w>>]
  /\ pc' = [pc EXCEPT ![l] = "writing"]
  /\ excused' = excused \cup ({p} \cap InFlight(l))
  /\ UNCHANGED <<known, generators, present>>

\* The iteration has come to p, and the dictionary kept its size.
Turn(l, p) ==
  /\ p \in todo[l] /\ \A o \in todo[l] : p <= o
  /\ size[l] = Cardinality(generators)

\* The iteration is over, one way or another.
LeaveTick(l) ==
  /\ todo' = [todo EXCEPT ![l] = {}]
  /\ size' = [size EXCEPT ![l] = 0]

\* One point of the tick: its generator gives v.
Visit(l, p) ==
  /\ pc[l] = "tick" /\ Turn(l, p)
  /\ todo' = [todo EXCEPT ![l] = @ \ {p}]
  /\ \E v \in Value : \E f \in Applied(p, v) :
       /\ fault' = [fault EXCEPT ![p] = f]
       /\ LET w == IF f.kind = "stuck" THEN f.frozen ELSE v
          IN IF f.kind # "offline" /\ w # values[p]
             THEN BeginWrite(l, p, w)
             ELSE UNCHANGED <<pc, write, pointVars>>
  /\ UNCHANGED <<requestVars, size, faults, commands, failures>>

\* The generator of p raises: the point is left alone in this tick.
GeneratorFails(l, p) ==
  /\ pc[l] = "tick" /\ Turn(l, p)
  /\ todo' = [todo EXCEPT ![l] = @ \ {p}]
  /\ UNCHANGED <<pc, size, write, requestVars, pointVars, faultVars, commands, failures>>

\* What ends the loop in the middle of a tick: the dictionary was rebuilt with
\* another size, or the fault of the point has a parameter that is no number.
TickRaises(l) ==
  \/ size[l] # Cardinality(generators)
  \/ \E p \in Point : Turn(l, p) /\ fault[p].kind = "other"

\* The loop that ends so takes the engine's flag with it.
IterationFails(l) ==
  /\ pc[l] = "tick" /\ TickRaises(l)
  /\ pc' = [pc EXCEPT ![l] = "done"]
  /\ running' = FALSE
  /\ LeaveTick(l)
  /\ UNCHANGED <<write, handle, loops, awaited, cancelled, stops, overlap,
                 pointVars, faultVars, commands, failures>>

TickEnds(l) ==
  /\ pc[l] = "tick" /\ todo[l] = {} /\ size[l] = Cardinality(generators)
  /\ pc' = [pc EXCEPT ![l] = "sleep"]
  /\ LeaveTick(l)
  /\ UNCHANGED <<write, requestVars, pointVars, faultVars, commands, failures>>

\* The network took the value: write_point changes the memory and awaits
\* the table and the subscribers.
Written(l) ==
  /\ Idle /\ pc[l] = "writing" /\ l \notin cancelled
  /\ pc' = [pc EXCEPT ![l] = "storing"]
  /\ LET p == write[l][1]  w == write[l][2]
     IN /\ present' = [present EXCEPT ![p] = w]
        /\ excused' = IF values[p] = w /\ p \notin InFlight(l)
                      THEN excused \ {p} ELSE excused
  /\ UNCHANGED <<todo, size, write, requestVars, known, generators, values,
                 faultVars, commands, failures>>

\* Mutant: the engine does not notice.
WriteFailsUnseen(l) ==
  /\ Idle /\ pc[l] = "writing" /\ l \notin cancelled
  /\ failures < MaxFailures
  /\ failures' = failures + 1
  /\ pc' = [pc EXCEPT ![l] = "tick"]
  /\ write' = [write EXCEPT ![l] = <<>>]
  /\ UNCHANGED <<todo, size, requestVars, pointVars, faultVars, commands>>

\* The network raised.
WriteFails(l) ==
  /\ Idle /\ pc[l] = "writing" /\ l \notin cancelled
  /\ failures < MaxFailures
  /\ failures' = failures + 1
  /\ pc' = [pc EXCEPT ![l] = "tick"]
  /\ write' = [write EXCEPT ![l] = <<>>]
  /\ excused' = excused \cup {write[l][1]}
  /\ UNCHANGED <<todo, size, requestVars, known, generators, values, present,
                 faultVars, commands>>

\* The table and the subscribers are done, or the table raised.
Stored(l) ==
  /\ Idle /\ pc[l] = "storing" /\ l \notin cancelled
  /\ pc' = [pc EXCEPT ![l] = "tick"]
  /\ write' = [write EXCEPT ![l] = <<>>]
  /\ UNCHANGED <<todo, size, requestVars, pointVars, faultVars, commands, failures>>

\* CancelledError ends the loop wherever it waits, also before its first step.
Cancelled(l) ==
  /\ Idle /\ l \in cancelled \cap Live
  /\ pc' = [pc EXCEPT ![l] = "done"]
  /\ write' = [write EXCEPT ![l] = <<>>]
  /\ excused' = IF pc[l] = "writing" THEN excused \cup {write[l][1]} ELSE excused
  /\ LeaveTick(l)
  /\ UNCHANGED <<requestVars, known, generators, values, present,
                 faultVars, commands, failures>>

-----------------------------------------------------------------------------
LoopStep(l) ==
  \/ LoopHead(l) \/ \E p \in Point : Visit(l, p) \/ GeneratorFails(l, p)
  \/ IterationFails(l) \/ TickEnds(l)
  \/ Written(l) \/ WriteFails(l) \/ Stored(l) \/ Cancelled(l)

Next ==
  \/ Start
  \/ \E q \in Request : Stop(q) \/ StopReturns(q)
  \/ InjectFault \/ ClearFaults
  \/ \E p \in Point : AddDevice(p) \/ \E v \in Value : Command(p, v)
  \/ \E l \in Loop : LoopStep(l)

Spec == Init /\ [][Next]_vars

-----------------------------------------------------------------------------
(***************************************************************************)
(* Properties                                                              *)
(***************************************************************************)

\* Every variable keeps its type; only loops that exist run or are cancelled.
TypeOK ==
  /\ running \in BOOLEAN /\ overlap \in BOOLEAN
  /\ handle \in 0..loops /\ loops \in 0..MaxLoops
  /\ pc \in [Loop -> Stage] /\ \A l \in Loop : pc[l] = "none" <=> l > loops
  /\ todo \in [Loop -> SUBSET Point] /\ size \in [Loop -> 0..Cardinality(Point)]
  /\ write \in [Loop -> (Point \X Value) \cup {<<>>}]
  /\ \A l \in Loop : write[l] = <<>> <=> pc[l] \notin {"writing", "storing"}
  /\ cancelled \subseteq 1..loops /\ awaited \in [Request -> 0..loops]
  /\ known \subseteq Point /\ generators \subseteq known /\ excused \subseteq Point
  /\ values \in [Point -> Value] /\ present \in [Point -> Value]
  /\ fault \in [Point -> Fault \cup {NoFault}]
  /\ stops \in 0..MaxStops /\ faults \in 0..MaxFaults
  /\ commands \in 0..MaxCommands /\ failures \in 0..MaxFailures

\* While requests come one at a time, the status the API shows is true: the
\* loop of the handle lives if and only if the engine says it runs, no other
\* loop lives, and a stop that returned left none behind.
StatusMatchesLoops ==
  ~overlap =>
    /\ running => handle # 0 /\ Live = {handle}
    /\ ~running /\ ~Pending => Live = {} /\ handle \notin Live

\* What the engine believes a point to be is what the memory holds, so that
\* the test for a change decides rightly, unless a write of the engine is on
\* its way or the last write to the point was another's, failed, was
\* cancelled, or was made by two loops at a time.
LastValueAgrees ==
  \A p \in generators \ (excused \cup InFlight(0)) : values[p] = present[p]

\* A stuck point stays stuck: once the frozen value is the present value, then
\* until the fault ends, is cleared or is replaced, the frozen value is kept and
\* the only loop of an engine does not move the point.
StuckStays ==
  [][\A p \in Point :
       ~overlap /\ fault[p].kind = "stuck" /\ fault[p].frozen = present[p] =>
         \/ fault'[p] = NoFault \/ faults' # faults
         \/ fault'[p] = fault[p] /\ (present'[p] = present[p] \/ pc' = pc)]_vars
=============================================================================
