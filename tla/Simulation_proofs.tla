-------------------------- MODULE Simulation_proofs --------------------------
(***************************************************************************)
(* What holds of the simulation engine for any number of points, loops and *)
(* requests: the types, that its status is true while requests do not      *)
(* overlap, that it knows the values it wrote, and that stuck points stay  *)
(* stuck.                                                                  *)
(***************************************************************************)
EXTENDS Simulation, FiniteSetTheorems, TLAPS

-----------------------------------------------------------------------------
(***************************************************************************)
(* Types                                                                   *)
(***************************************************************************)

LEMMA SizeOfGenerators ==
  ASSUME NEW G \in SUBSET Point
  PROVE  Cardinality(G) \in 0..Cardinality(Point)
<1>1. IsFiniteSet(Point) /\ IsFiniteSet(G) /\ Cardinality(G) <= Cardinality(Point)
  BY SimulationAssumption, FS_Subset
<1>2. Cardinality(G) \in Nat /\ Cardinality(Point) \in Nat
  BY <1>1, FS_CardinalityType
<1> QED BY <1>1, <1>2

LEMMA NaturalBounds ==
  /\ MaxLoops \in Nat /\ MaxStops \in Nat /\ MaxFaults \in Nat
  /\ MaxCommands \in Nat /\ MaxFailures \in Nat
BY SimulationAssumption

LEMMA FaultTypes ==
  ASSUME TypeOK, NEW p \in Point, NEW v \in Value, NEW f \in Applied(p, v)
  PROVE  /\ f \in Fault \cup {NoFault}
         /\ f.kind \in {"stuck", "offline"} => f.frozen \in Value
<1> USE DEF Fault, NoFault, Kind
<1>1. fault[p] \in Fault \cup {NoFault}
  BY DEF TypeOK
<1>2. CASE fault[p].kind \in {"stuck", "offline"} /\ fault[p].frozen = NoValue
  <2>1. f = [fault[p] EXCEPT !.frozen = v] \/ f = NoFault
    BY <1>2 DEF Applied, Overlaid
  <2> QED BY <1>1, <1>2, <2>1
<1>3. CASE ~(fault[p].kind \in {"stuck", "offline"} /\ fault[p].frozen = NoValue)
  <2>1. f = fault[p] \/ f = NoFault
    BY <1>3 DEF Applied, Overlaid
  <2> QED BY <1>1, <1>3, <2>1
<1> QED BY <1>2, <1>3

\* A loop that visits a point leaves it alone or begins to write a value, which
\* is the frozen one if the point is stuck.
LEMMA VisitEffect ==
  ASSUME TypeOK, NEW l \in Loop, NEW p \in Point, Visit(l, p)
  PROVE  /\ pc[l] = "tick" /\ p \in todo[l]
         /\ todo' = [todo EXCEPT ![l] = @ \ {p}]
         /\ UNCHANGED <<requestVars, size, faults, commands, failures>>
         /\ \E f \in Fault \cup {NoFault} :
              /\ fault' = [fault EXCEPT ![p] = f]
              /\ \/ UNCHANGED <<pc, write, pointVars>>
                 \/ \E w \in Value : BeginWrite(l, p, w) /\ (f.kind = "stuck" => w = f.frozen)
<1>1. PICK v \in Value : \E f \in Applied(p, v) :
        /\ fault' = [fault EXCEPT ![p] = f]
        /\ LET w == IF f.kind = "stuck" THEN f.frozen ELSE v
           IN IF f.kind # "offline" /\ w # values[p]
              THEN BeginWrite(l, p, w)
              ELSE UNCHANGED <<pc, write, pointVars>>
  BY DEF Visit
<1>2. PICK f \in Applied(p, v) :
        /\ fault' = [fault EXCEPT ![p] = f]
        /\ LET w == IF f.kind = "stuck" THEN f.frozen ELSE v
           IN IF f.kind # "offline" /\ w # values[p]
              THEN BeginWrite(l, p, w)
              ELSE UNCHANGED <<pc, write, pointVars>>
  BY <1>1
<1>3. f \in Fault \cup {NoFault} /\ (f.kind = "stuck" => f.frozen \in Value)
  BY FaultTypes
<1>4. CASE f.kind = "stuck"
  BY <1>2, <1>3, <1>4, Zenon DEF Visit, Turn
<1>5. CASE f.kind # "stuck"
  BY <1>2, <1>3, <1>5, Zenon DEF Visit, Turn
<1> QED BY <1>4, <1>5

\* A loop's write, while it is being made.
LEMMA WriteType ==
  ASSUME TypeOK, NEW l \in Loop, pc[l] \in {"writing", "storing"}
  PROVE  write[l] \in Point \X Value /\ write[l][1] \in Point /\ write[l][2] \in Value
BY DEF TypeOK

\* TypeOK in three parts: the loops and the requests, the writes that are on
\* their way, and the points.
LoopTypes ==
  /\ running \in BOOLEAN /\ overlap \in BOOLEAN
  /\ handle \in 0..loops /\ loops \in 0..MaxLoops
  /\ pc \in [Loop -> Stage] /\ \A l \in Loop : pc[l] = "none" <=> l > loops
  /\ todo \in [Loop -> SUBSET Point] /\ size \in [Loop -> 0..Cardinality(Point)]
  /\ cancelled \subseteq 1..loops /\ awaited \in [Request -> 0..loops]
  /\ stops \in 0..MaxStops
WriteTypes ==
  /\ write \in [Loop -> (Point \X Value) \cup {<<>>}]
  /\ \A l \in Loop : write[l] = <<>> <=> pc[l] \notin {"writing", "storing"}
PointTypes ==
  /\ known \subseteq Point /\ generators \subseteq known /\ excused \subseteq Point
  /\ values \in [Point -> Value] /\ present \in [Point -> Value]
  /\ fault \in [Point -> Fault \cup {NoFault}]
  /\ faults \in 0..MaxFaults
  /\ commands \in 0..MaxCommands /\ failures \in 0..MaxFailures

LEMMA TypeParts ==
  /\ TypeOK => LoopTypes /\ WriteTypes /\ PointTypes
  /\ LoopTypes' /\ WriteTypes' /\ PointTypes' => TypeOK'
<1>1. TypeOK => LoopTypes /\ WriteTypes /\ PointTypes
  BY DEF TypeOK, LoopTypes, WriteTypes, PointTypes
<1>2. LoopTypes' /\ WriteTypes' /\ PointTypes' => TypeOK'
  BY DEF TypeOK, LoopTypes, WriteTypes, PointTypes
<1> QED BY <1>1, <1>2

\* The writes keep their shape when a loop moves whose new stage fits its write.
LEMMA WriteOfOne ==
  ASSUME TypeOK, NEW l \in Loop, NEW s, NEW w,
         pc' = [pc EXCEPT ![l] = s], write' = [write EXCEPT ![l] = w],
         w \in (Point \X Value) \cup {<<>>}, w = <<>> <=> s \notin {"writing", "storing"}
  PROVE  WriteTypes'
<1>1. /\ pc \in [Loop -> Stage]
      /\ write \in [Loop -> (Point \X Value) \cup {<<>>}]
      /\ \A k \in Loop : write[k] = <<>> <=> pc[k] \notin {"writing", "storing"}
  BY DEF TypeOK
<1>2. write' \in [Loop -> (Point \X Value) \cup {<<>>}]
  BY <1>1
<1>3. \A x \in Point \X Value : x # <<>>
  OBVIOUS
<1>4. pc'[l] = s /\ write'[l] = w /\ \A k \in Loop \ {l} : pc'[k] = pc[k] /\ write'[k] = write[k]
  BY <1>1
<1> QED BY <1>1, <1>2, <1>3, <1>4 DEF WriteTypes

LEMMA TypeStep == TypeOK /\ [Next]_vars => TypeOK'
<1> SUFFICES ASSUME TypeOK, [Next]_vars PROVE TypeOK'
  OBVIOUS
<1> USE NaturalBounds DEF loopVars, requestVars, pointVars, faultVars
<1>0. LoopTypes /\ WriteTypes /\ PointTypes
  BY TypeParts
<1>1. CASE Start
  <2>1. /\ loops \in Nat /\ loops' = loops + 1 /\ loops' \in Loop /\ handle' = loops'
        /\ pc' = [pc EXCEPT ![loops'] = "head"] /\ pc[loops'] = "none"
    BY <1>0, <1>1 DEF Start, LoopTypes, Loop
  <2>2. pc' \in [Loop -> Stage] /\ \A l \in Loop : pc'[l] = "none" <=> l > loops'
    BY <1>0, <2>1 DEF LoopTypes, Loop, Stage
  <2>3. LoopTypes'
    BY <1>0, <1>1, <2>1, <2>2 DEF Start, LoopTypes, Loop
  <2>4. /\ write' = write
        /\ \A l \in Loop : pc'[l] \in {"writing", "storing"} <=> pc[l] \in {"writing", "storing"}
    BY <1>0, <1>1, <2>1 DEF Start, LoopTypes
  <2>5. WriteTypes'
    BY <1>0, <2>4 DEF WriteTypes
  <2>6. \A l \in Live : pc[l] = "writing" => write[l][1] \in Point
    BY WriteType DEF Live
  <2>7. PointTypes'
    BY <1>0, <1>1, <2>6 DEF Start, Build, InFlight, PointTypes
  <2> QED BY <2>3, <2>5, <2>7, TypeParts
<1>2. ASSUME NEW q \in Request, Stop(q) PROVE TypeOK'
  <2>1. \A h \in Live : h \in 1..loops
    BY <1>0 DEF Live, LoopTypes, Loop
  <2>2. /\ handle' \in 0..loops /\ cancelled' \subseteq 1..loops
        /\ awaited' \in [Request -> 0..loops] /\ stops' \in 0..MaxStops
        /\ UNCHANGED <<loops, pc, todo, size>>
    <3>1. /\ stops < MaxStops /\ stops' = stops + 1 /\ UNCHANGED <<loops, pc, todo, size>>
          /\ \/ /\ handle \in Live /\ handle' = handle
                /\ cancelled' = cancelled \cup {handle}
                /\ awaited' = [awaited EXCEPT ![q] = handle]
             \/ handle' = 0 /\ cancelled' = cancelled /\ awaited' = awaited
      BY <1>2 DEF Stop
    <3>2. stops' \in 0..MaxStops
      BY <1>0, <3>1 DEF LoopTypes
    <3>3. loops \in Nat /\ handle \in 0..loops /\ cancelled \subseteq 1..loops
          /\ awaited \in [Request -> 0..loops]
      BY <1>0 DEF LoopTypes
    <3>4. handle \in Live => handle \in 1..loops
      BY <2>1
    <3>5. handle' \in 0..loops /\ cancelled' \subseteq 1..loops
      <4>1. CASE handle \in Live
        <5>1. handle' \in {handle, 0} /\ cancelled' \subseteq cancelled \cup {handle}
          BY <3>1
        <5>2. handle \in 0..loops /\ handle \in 1..loops /\ 0 \in 0..loops
          BY <3>3, <3>4, <4>1
        <5> QED BY <3>3, <5>1, <5>2
      <4>2. CASE handle \notin Live
        <5>1. handle' = 0 /\ cancelled' = cancelled
          BY <3>1, <4>2, Zenon
        <5>2. 0 \in 0..loops
          BY <3>3
        <5> QED BY <3>3, <5>1, <5>2
      <4> QED BY <4>1, <4>2
    <3>6. awaited' \in [Request -> 0..loops]
      BY <3>1, <3>3
    <3> QED BY <3>1, <3>2, <3>5, <3>6
  <2>4. running' \in BOOLEAN /\ overlap' \in BOOLEAN
    BY <1>0, <1>2, Zenon DEF Stop, LoopTypes
  <2>5. LoopTypes'
    BY <1>0, <2>2, <2>4 DEF LoopTypes
  <2>3. WriteTypes' /\ PointTypes'
    BY <1>0, <1>2 DEF Stop, WriteTypes, PointTypes
  <2> QED BY <2>3, <2>5, TypeParts
<1>3. ASSUME NEW q \in Request, StopReturns(q) PROVE TypeOK'
  BY <1>3 DEF StopReturns, TypeOK
<1>4. CASE InjectFault
  BY <1>4 DEF InjectFault, Inject, TypeOK, Fault
<1>5. CASE ClearFaults
  BY <1>5 DEF ClearFaults, TypeOK
<1>6. ASSUME NEW p \in Point, AddDevice(p) PROVE TypeOK'
  BY <1>6 DEF AddDevice, TypeOK
<1>7. ASSUME NEW p \in Point, NEW v \in Value, Command(p, v) PROVE TypeOK'
  <2>1. LoopTypes' /\ WriteTypes'
    BY <1>0, <1>7 DEF Command, LoopTypes, WriteTypes
  <2>2. PointTypes'
    BY <1>0, <1>7 DEF Command, PointTypes
  <2> QED BY <2>1, <2>2, TypeParts
<1>8. ASSUME NEW l \in Loop, LoopHead(l) PROVE TypeOK'
  <2>1. generators \in SUBSET Point /\ Cardinality(generators) \in 0..Cardinality(Point)
    BY <1>0, SizeOfGenerators DEF PointTypes
  <2>2. PointTypes'
    <3>1. UNCHANGED <<pointVars, commands, failures>>
      BY <1>8 DEF LoopHead
    <3>2. CASE UNCHANGED faultVars
      BY <1>0, <3>1, <3>2 DEF PointTypes
    <3>3. ASSUME NEW p \in generators, NEW k \in Kind, Inject(p, k, TRUE) PROVE PointTypes'
      <4>1. /\ [kind |-> k, ends |-> TRUE, frozen |-> NoValue] \in Fault
            /\ faults' = faults + 1 /\ faults < MaxFaults
            /\ fault' = [fault EXCEPT ![p] = [kind |-> k, ends |-> TRUE, frozen |-> NoValue]]
        BY <3>3 DEF Inject, Fault
      <4> QED BY <1>0, <3>1, <4>1 DEF PointTypes
    <3> QED BY <1>8, <3>1, <3>2, <3>3 DEF LoopHead
  <2>3. PICK s \in {"tick", "done"} : pc' = [pc EXCEPT ![l] = s]
    BY <1>8 DEF LoopHead
  <2>4. pc[l] \notin {"writing", "storing", "none"} /\ write' = write
    BY <1>8 DEF LoopHead
  <2>5. WriteTypes'
    BY <1>0, <2>3, <2>4 DEF LoopTypes, WriteTypes
  <2>6. pc' \in [Loop -> Stage] /\ \A x \in Loop : pc'[x] = "none" <=> x > loops
    BY <1>0, <2>3, <2>4 DEF LoopTypes, Stage
  <2>7. LoopTypes'
    BY <1>0, <1>8, <2>1, <2>6 DEF LoopHead, LoopTypes
  <2> QED BY <2>2, <2>5, <2>7, TypeParts
<1>9. ASSUME NEW l \in Loop, NEW p \in Point, Visit(l, p) PROVE TypeOK'
  <2>1. /\ todo' \in [Loop -> SUBSET Point] /\ pc[l] = "tick"
        /\ UNCHANGED <<requestVars, size, faults, commands, failures>>
    BY <1>0, <1>9 DEF Visit, LoopTypes
  <2>2. PICK f \in Fault \cup {NoFault} :
          /\ fault' = [fault EXCEPT ![p] = f]
          /\ \/ UNCHANGED <<pc, write, pointVars>>
             \/ \E w \in Value : BeginWrite(l, p, w)
    BY <1>9, VisitEffect
  <2>3. fault' \in [Point -> Fault \cup {NoFault}]
    BY <1>0, <2>2 DEF PointTypes
  <2>4. CASE UNCHANGED <<pc, write, pointVars>>
    <3>1. LoopTypes' /\ WriteTypes' /\ PointTypes'
      BY <1>0, <2>1, <2>3, <2>4 DEF LoopTypes, WriteTypes, PointTypes
    <3> QED BY <3>1, TypeParts
  <2>5. ASSUME NEW w \in Value, BeginWrite(l, p, w) PROVE TypeOK'
    <3>1. LoopTypes'
      BY <1>0, <2>1, <2>5 DEF BeginWrite, LoopTypes, Stage
    <3>2. WriteTypes'
      BY <2>5, WriteOfOne DEF BeginWrite
    <3>3. PointTypes'
      BY <1>0, <2>1, <2>3, <2>5 DEF BeginWrite, PointTypes
    <3> QED BY <3>1, <3>2, <3>3, TypeParts
  <2> QED BY <2>2, <2>4, <2>5
<1>10. ASSUME NEW l \in Loop, NEW p \in Point, GeneratorFails(l, p) PROVE TypeOK'
  BY <1>10 DEF GeneratorFails, TypeOK
<1>11. ASSUME NEW l \in Loop, IterationFails(l) \/ TickEnds(l) PROVE TypeOK'
  <2>1. Cardinality(Point) \in Nat /\ pc[l] = "tick" /\ write' = write
    BY <1>11, FS_CardinalityType, SimulationAssumption DEF IterationFails, TickEnds
  <2>2. PICK s \in {"sleep", "done"} : pc' = [pc EXCEPT ![l] = s]
    BY <1>11 DEF IterationFails, TickEnds
  <2>3. pc' \in [Loop -> Stage] /\ \A x \in Loop : pc'[x] = "none" <=> x > loops
    BY <1>0, <2>1, <2>2 DEF LoopTypes, Stage
  <2>4. LoopTypes'
    <3>1. /\ todo' = [todo EXCEPT ![l] = {}] /\ size' = [size EXCEPT ![l] = 0]
          /\ UNCHANGED <<handle, loops, awaited, cancelled, stops, overlap>>
          /\ running' = running \/ running' = FALSE
      BY <1>11 DEF IterationFails, TickEnds, LeaveTick
    <3>2. running' \in BOOLEAN
      BY <1>0, <3>1, Zenon DEF LoopTypes
    <3>3. todo' \in [Loop -> SUBSET Point] /\ size' \in [Loop -> 0..Cardinality(Point)]
      BY <1>0, <2>1, <3>1 DEF LoopTypes
    <3> QED BY <1>0, <2>3, <3>1, <3>2, <3>3 DEF LoopTypes
  <2>5. WriteTypes'
    BY <1>0, <2>1, <2>2 DEF LoopTypes, WriteTypes
  <2>6. PointTypes'
    BY <1>0, <1>11 DEF IterationFails, TickEnds, PointTypes
  <2> QED BY <2>4, <2>5, <2>6, TypeParts
<1>12. ASSUME NEW l \in Loop, Written(l) PROVE TypeOK'
  <2>1. write[l] \in Point \X Value /\ write[l][1] \in Point /\ write[l][2] \in Value
    BY <1>12, WriteType DEF Written
  <2>2. pc' \in [Loop -> Stage] /\ \A x \in Loop : pc'[x] = "none" <=> x > loops
    BY <1>0, <1>12 DEF Written, LoopTypes, Stage
  <2>3. LoopTypes'
    BY <1>0, <1>12, <2>2 DEF Written, LoopTypes
  <2>4. WriteTypes'
    BY <1>0, <1>12, <2>1 DEF Written, LoopTypes, WriteTypes
  <2>5. PointTypes'
    BY <1>0, <1>12, <2>1 DEF Written, PointTypes
  <2> QED BY <2>3, <2>4, <2>5, TypeParts
<1>13. ASSUME NEW l \in Loop, WriteFails(l) \/ Stored(l) PROVE TypeOK'
  <2>1. write[l][1] \in Point
    BY <1>13, WriteType DEF WriteFails, Stored
  <2>2. LoopTypes'
    BY <1>0, <1>13 DEF WriteFails, Stored, LoopTypes, Stage
  <2>3. WriteTypes'
    BY <1>13, WriteOfOne DEF WriteFails, Stored
  <2>4. PointTypes'
    BY <1>0, <1>13, <2>1 DEF WriteFails, Stored, PointTypes
  <2> QED BY <2>2, <2>3, <2>4, TypeParts
<1>14. ASSUME NEW l \in Loop, Cancelled(l) PROVE TypeOK'
  <2>1. pc[l] = "writing" => write[l][1] \in Point
    BY WriteType
  <2>2. Cardinality(Point) \in Nat /\ pc[l] # "none"
    BY <1>14, FS_CardinalityType, SimulationAssumption DEF Cancelled, Live
  <2>3. pc' \in [Loop -> Stage] /\ \A x \in Loop : pc'[x] = "none" <=> x > loops
    BY <1>0, <1>14, <2>2 DEF Cancelled, LoopTypes, Stage
  <2>4. LoopTypes'
    BY <1>0, <1>14, <2>2, <2>3 DEF Cancelled, LeaveTick, LoopTypes
  <2>5. WriteTypes'
    BY <1>14, WriteOfOne DEF Cancelled
  <2>6. PointTypes'
    BY <1>0, <1>14, <2>1 DEF Cancelled, PointTypes
  <2> QED BY <2>4, <2>5, <2>6, TypeParts
<1>15. CASE UNCHANGED vars
  BY <1>15 DEF vars, TypeOK
<1> QED BY <1>1, <1>2, <1>3, <1>4, <1>5, <1>6, <1>7, <1>8, <1>9, <1>10, <1>11, <1>12, <1>13,
           <1>14, <1>15 DEF Next, LoopStep

\* Every variable keeps its type, whatever the points and the bounds.
THEOREM TypeCorrect == Spec => []TypeOK
<1>1. Init => TypeOK
  <2> SUFFICES ASSUME Init PROVE TypeOK
    OBVIOUS
  <2>1. Cardinality(Point) \in Nat /\ Point \ Late \subseteq Point
    BY FS_CardinalityType, SimulationAssumption
  <2>2. /\ pc \in [Loop -> Stage] /\ todo \in [Loop -> SUBSET Point]
        /\ size \in [Loop -> 0..Cardinality(Point)]
        /\ awaited \in [Request -> 0..loops]
        /\ fault \in [Point -> Fault \cup {NoFault}]
        /\ write \in [Loop -> (Point \X Value) \cup {<<>>}]
        /\ \A l \in Loop : write[l] = <<>> /\ pc[l] = "none" /\ l > loops
    BY <2>1 DEF Init, Stage, Loop
  <2>3. running \in BOOLEAN /\ overlap \in BOOLEAN
    BY Zenon DEF Init
  <2>4. /\ handle \in 0..loops /\ loops \in 0..MaxLoops
        /\ cancelled \subseteq 1..loops /\ known \subseteq Point /\ generators \subseteq known
        /\ excused \subseteq Point
        /\ values \in [Point -> Value] /\ present \in [Point -> Value]
        /\ stops \in 0..MaxStops /\ faults \in 0..MaxFaults
        /\ commands \in 0..MaxCommands /\ failures \in 0..MaxFailures
    BY NaturalBounds, <2>1 DEF Init
  <2> QED BY <2>2, <2>3, <2>4 DEF TypeOK
<1> QED BY <1>1, TypeStep, PTL DEF Spec

-----------------------------------------------------------------------------
(***************************************************************************)
(* One request at a time                                                   *)
(***************************************************************************)

\* What a step of a loop does to the engine: the loop goes on, or it ends, and
\* then it was cancelled or the engine does not run any more.
LoopMoves(l) ==
  /\ l \in Live
  /\ UNCHANGED <<handle, loops, awaited, cancelled, overlap>>
  /\ \/ Live' = Live /\ running' = running
     \/ /\ Live' = Live \ {l}
        /\ running' = running \/ ~running'
        /\ l \in cancelled \/ ~running'

\* The loops that live after one of them went to stage s.
LEMMA LiveAfter ==
  ASSUME TypeOK, NEW l \in Loop, pc[l] \notin {"none", "done"},
         NEW s \in Stage \ {"none"}, pc' = [pc EXCEPT ![l] = s]
  PROVE  Live' = IF s = "done" THEN Live \ {l} ELSE Live
BY DEF TypeOK, Live

LEMMA LoopStepMoves ==
  ASSUME TypeOK, NEW l \in Loop, LoopStep(l)
  PROVE  LoopMoves(l)
<1> USE DEF requestVars
<1>1. CASE LoopHead(l)
  <2>1. CASE running
    <3>1. pc' = [pc EXCEPT ![l] = "tick"] /\ pc[l] \notin {"none", "done"} /\ UNCHANGED requestVars
      BY <1>1, <2>1 DEF LoopHead
    <3>2. Live' = Live /\ l \in Live
      BY <3>1, LiveAfter DEF Stage, Live
    <3> QED BY <3>1, <3>2 DEF LoopMoves
  <2>2. CASE ~running
    <3>1. pc' = [pc EXCEPT ![l] = "done"] /\ pc[l] \notin {"none", "done"} /\ UNCHANGED requestVars
      BY <1>1, <2>2 DEF LoopHead
    <3>2. Live' = Live \ {l} /\ l \in Live
      BY <3>1, LiveAfter DEF Stage, Live
    <3> QED BY <2>2, <3>1, <3>2 DEF LoopMoves
  <2> QED BY <2>1, <2>2
<1>2. ASSUME NEW p \in Point, Visit(l, p) PROVE LoopMoves(l)
  <2>1. pc[l] = "tick" /\ UNCHANGED requestVars
    BY <1>2 DEF Visit
  <2>2. pc' = pc \/ pc' = [pc EXCEPT ![l] = "writing"]
    BY <1>2, VisitEffect DEF BeginWrite
  <2>3. Live' = Live /\ l \in Live
    BY <2>1, <2>2, LiveAfter DEF Stage, Live
  <2> QED BY <2>1, <2>3 DEF LoopMoves
<1>3. ASSUME NEW p \in Point, GeneratorFails(l, p) PROVE LoopMoves(l)
  BY <1>3 DEF GeneratorFails, LoopMoves, Live
<1>4. CASE IterationFails(l)
  <2>1. /\ pc' = [pc EXCEPT ![l] = "done"] /\ pc[l] \notin {"none", "done"} /\ ~running'
        /\ UNCHANGED <<handle, loops, awaited, cancelled, overlap>>
    BY <1>4 DEF IterationFails
  <2>2. Live' = Live \ {l} /\ l \in Live
    BY <2>1, LiveAfter DEF Stage, Live
  <2> QED BY <2>1, <2>2 DEF LoopMoves
<1>5. CASE TickEnds(l) \/ Written(l) \/ WriteFails(l) \/ Stored(l)
  <2>1. PICK s \in {"sleep", "storing", "tick"} :
          pc' = [pc EXCEPT ![l] = s] /\ pc[l] \notin {"none", "done"} /\ UNCHANGED requestVars
    BY <1>5 DEF TickEnds, Written, WriteFails, Stored
  <2>2. Live' = Live /\ l \in Live
    BY <2>1, LiveAfter DEF Stage, Live
  <2> QED BY <2>1, <2>2 DEF LoopMoves
<1>6. CASE Cancelled(l)
  <2>1. /\ pc' = [pc EXCEPT ![l] = "done"] /\ pc[l] \notin {"none", "done"}
        /\ l \in cancelled /\ UNCHANGED requestVars
    BY <1>6 DEF Cancelled, Live
  <2>2. Live' = Live \ {l} /\ l \in Live
    BY <2>1, LiveAfter DEF Stage, Live
  <2> QED BY <2>1, <2>2 DEF LoopMoves
<1> QED BY <1>1, <1>2, <1>3, <1>4, <1>5, <1>6 DEF LoopStep

\* While no request overlaps a stop, only the loop of the handle lives; a stop
\* that is pending awaits it, and the engine is not running meanwhile.
OneAtATime ==
  ~overlap =>
    /\ Live \subseteq {handle}
    /\ \A q \in Request : awaited[q] # 0 => awaited[q] = handle
    /\ \A p, q \in Request : awaited[p] # 0 /\ awaited[q] # 0 => p = q
    /\ Pending => ~running
    /\ ~Pending => /\ cancelled \cap Live = {}
                   /\ running => handle \in Live
                   /\ ~running => Live = {}

\* Requests and other steps that leave the loops and the flag as they are.
Aside ==
  UNCHANGED <<pc, handle, awaited, cancelled, overlap, running>>

LEMMA OneAtATimeStep == TypeOK /\ OneAtATime /\ [Next]_vars => OneAtATime'
<1> SUFFICES ASSUME TypeOK, OneAtATime, [Next]_vars, ~overlap' PROVE OneAtATime'
  BY DEF OneAtATime
<1>1. CASE Start
  <2>1. ~overlap /\ ~Pending /\ ~running
    BY <1>1 DEF Start, TypeOK
  <2>2. Live = {} /\ ~Pending' /\ running' /\ UNCHANGED <<awaited, cancelled>>
    BY <1>1, <2>1 DEF OneAtATime, Start, Pending
  <2>3. /\ loops' \in Loop /\ loops' = loops + 1 /\ loops \in Nat
        /\ pc' = [pc EXCEPT ![loops'] = "head"] /\ handle' = loops'
    BY <1>1, NaturalBounds DEF Start, TypeOK, Loop
  <2>4. Live' = {handle'}
    BY <2>2, <2>3 DEF Live, TypeOK
  <2>5. handle' \notin cancelled
    BY <2>3 DEF TypeOK
  <2>6. \A q \in Request : awaited'[q] = 0
    BY <2>2 DEF Pending
  <2> QED BY <2>2, <2>4, <2>5, <2>6 DEF OneAtATime
<1>2. ASSUME NEW q \in Request, Stop(q) PROVE OneAtATime'
  <2>1. ~overlap /\ ~Pending /\ Live' = Live /\ ~running'
    BY <1>2 DEF Stop, TypeOK, Live, loopVars
  <2>2. Live \subseteq {handle} /\ \A p \in Request : awaited[p] = 0
    BY <2>1 DEF OneAtATime, Pending
  <2>3. CASE handle \in Live
    <3>1. /\ awaited' = [awaited EXCEPT ![q] = handle] /\ handle' = handle
          /\ handle # 0
      BY <1>2, <2>3 DEF Stop, Live, Loop
    <3>2. /\ awaited'[q] = handle /\ \A p \in Request \ {q} : awaited'[p] = 0
          /\ Pending'
      BY <2>2, <3>1 DEF TypeOK, Pending
    <3> QED BY <2>1, <2>2, <3>1, <3>2 DEF OneAtATime
  <2>4. CASE handle \notin Live
    <3>1. awaited' = awaited /\ cancelled' = cancelled /\ Live = {}
      BY <1>2, <2>2, <2>4 DEF Stop
    <3> QED BY <2>1, <2>2, <3>1 DEF OneAtATime, Pending
  <2> QED BY <2>3, <2>4
<1>3. ASSUME NEW q \in Request, StopReturns(q) PROVE OneAtATime'
  <2>1. /\ ~overlap /\ Live' = Live /\ awaited[q] # 0 /\ awaited[q] \notin Live
        /\ running' = running
    BY <1>3 DEF StopReturns, Live, loopVars
  <2>2. Live = {} /\ ~running
    BY <2>1 DEF OneAtATime, Pending
  <2>3. \A p \in Request : awaited'[p] = 0
    BY <1>3, <2>1 DEF StopReturns, TypeOK, OneAtATime
  <2> QED BY <2>1, <2>2, <2>3 DEF OneAtATime, Pending
<1>4. ASSUME NEW l \in Loop, LoopStep(l) PROVE OneAtATime'
  <2>1. LoopMoves(l)
    BY <1>4, LoopStepMoves
  <2>2. ~overlap /\ Pending' = Pending /\ l = handle /\ Live = {l}
        /\ UNCHANGED <<handle, awaited, cancelled>>
    BY <2>1 DEF LoopMoves, OneAtATime, Pending
  <2>3. CASE Live' = Live /\ running' = running
    BY <2>2, <2>3 DEF OneAtATime
  <2>4. CASE /\ Live' = Live \ {l}
             /\ running' = running \/ ~running'
             /\ l \in cancelled \/ ~running'
    <3>1. Live' = {}
      BY <2>2, <2>4
    <3>2. ~running'
      BY <2>1, <2>2, <2>4 DEF OneAtATime, LoopMoves
    <3> QED BY <2>2, <3>1, <3>2 DEF OneAtATime
  <2> QED BY <2>1, <2>3, <2>4 DEF LoopMoves
<1>5. CASE Aside
  BY <1>5 DEF Aside, OneAtATime, Live, Pending
<1>6. InjectFault \/ ClearFaults \/ UNCHANGED vars => Aside
  BY DEF InjectFault, ClearFaults, Aside, vars, loopVars, requestVars
<1>7. ASSUME NEW p \in Point, AddDevice(p) \/ \E v \in Value : Command(p, v) PROVE Aside
  BY <1>7 DEF AddDevice, Command, Aside, loopVars, requestVars
<1> QED BY <1>1, <1>2, <1>3, <1>4, <1>5, <1>6, <1>7 DEF Next

LEMMA OneAtATimeInvariant == Spec => []OneAtATime
<1>1. Init => OneAtATime
  BY DEF Init, OneAtATime, Live, Pending
<1> QED BY <1>1, OneAtATimeStep, TypeCorrect, PTL DEF Spec

\* With one request at a time the engine's status is true: it says it runs if
\* and only if the loop of the handle lives, and no other loop does.
THEOREM StatusTellsTheTruth == Spec => []StatusMatchesLoops
<1>1. OneAtATime => StatusMatchesLoops
  BY DEF OneAtATime, StatusMatchesLoops, Live, Loop
<1> QED BY <1>1, OneAtATimeInvariant, PTL

-----------------------------------------------------------------------------
(***************************************************************************)
(* The values the engine knows                                             *)
(***************************************************************************)

\* Loop l awaits the network's answer to a write of p.
Writing(l, p) == pc[l] = "writing" /\ write[l][1] = p

LEMMA InFlightIs ==
  ASSUME NEW k, NEW p
  PROVE  p \in InFlight(k) <=> \E l \in Loop \ {k} : Writing(l, p)
BY DEF InFlight, Writing, Live

\* Of a point that is not excused there is one write at a time, it carries the
\* value the engine knows, and without one the memory has that value.
ValuesKnown ==
  \A p \in Point \ excused :
    /\ \A k, l \in Loop : Writing(k, p) /\ Writing(l, p) => k = l
    /\ \A l \in Loop : Writing(l, p) => values[p] = write[l][2]
    /\ p \in generators /\ (\A l \in Loop : ~Writing(l, p)) => values[p] = present[p]

\* No loop begins or ends a write.
WritesStay ==
  \A l \in Loop : /\ pc'[l] = "writing" <=> pc[l] = "writing"
                  /\ pc[l] = "writing" => write'[l] = write[l]

\* Steps that touch neither the writes nor the values.
ValuesAside == WritesStay /\ UNCHANGED <<generators, values, present, excused>>

LEMMA AsideKeeps == ValuesKnown /\ ValuesAside => ValuesKnown'
<1> SUFFICES ASSUME ValuesKnown, ValuesAside, NEW p \in Point \ excused'
             PROVE  /\ \A k, l \in Loop : Writing(k, p)' /\ Writing(l, p)' => k = l
                    /\ \A l \in Loop : Writing(l, p)' => values'[p] = write'[l][2]
                    /\ p \in generators' /\ (\A l \in Loop : ~Writing(l, p)') => values'[p] = present'[p]
  BY DEF ValuesKnown
<1>1. \A l \in Loop : /\ Writing(l, p)' <=> Writing(l, p)
                      /\ Writing(l, p) => write'[l] = write[l]
  BY DEF ValuesAside, WritesStay, Writing
<1> QED BY <1>1 DEF ValuesKnown, ValuesAside

\* A loop that is not writing goes on to something else.
LEMMA OtherStage ==
  ASSUME TypeOK, NEW l \in Loop, NEW s, pc[l] # "writing", s # "writing",
         pc' = pc \/ pc' = [pc EXCEPT ![l] = s],
         write' = write \/ write' = [write EXCEPT ![l] = <<>>]
  PROVE  WritesStay
BY DEF TypeOK, WritesStay

\* Requests never change the writes that are on their way.
LEMMA RequestsKeepWrites ==
  TypeOK /\ ( \/ Start \/ InjectFault \/ ClearFaults
              \/ \E q \in Request : Stop(q) \/ StopReturns(q)
              \/ \E p \in Point : AddDevice(p) \/ \E v \in Value : Command(p, v))
    => WritesStay
<1> SUFFICES ASSUME TypeOK PROVE
      ( \/ Start \/ InjectFault \/ ClearFaults
        \/ \E q \in Request : Stop(q) \/ StopReturns(q)
        \/ \E p \in Point : AddDevice(p) \/ \E v \in Value : Command(p, v)) => WritesStay
  OBVIOUS
<1>1. CASE Start
  <2>1. /\ loops' \in Loop /\ loops' > loops /\ write' = write
        /\ pc' = [pc EXCEPT ![loops'] = "head"]
    BY <1>1, NaturalBounds DEF Start, TypeOK, Loop
  <2>2. pc[loops'] = "none"
    BY <2>1 DEF TypeOK
  <2> QED BY <2>1, <2>2 DEF WritesStay, TypeOK
<1>2. CASE pc' = pc /\ write' = write
  BY <1>2 DEF WritesStay
<1> QED BY <1>1, <1>2 DEF InjectFault, ClearFaults, Stop, StopReturns, AddDevice, Command, loopVars

\* A write that begins where another is on its way excuses the point; one that
\* ends leaves the memory with the known value, or the point excused.
LEMMA ValuesStep == TypeOK /\ ValuesKnown /\ [Next]_vars => ValuesKnown'
<1> SUFFICES ASSUME TypeOK, ValuesKnown, [Next]_vars PROVE ValuesKnown'
  OBVIOUS
<1> USE DEF pointVars, requestVars, loopVars, faultVars
<1>1. CASE Start
  <2>1. WritesStay
    BY <1>1, RequestsKeepWrites
  <2>2. values' = present /\ present' = present /\ excused' = InFlight(0)
    BY <1>1 DEF Start, Build
  <2>3. ASSUME NEW p \in Point \ excused', NEW l \in Loop PROVE ~Writing(l, p)'
    <3>1. ~Writing(l, p)
      BY <2>2, <2>3, InFlightIs DEF Loop
    <3> QED BY <2>1, <3>1 DEF WritesStay, Writing
  <2> QED BY <2>2, <2>3 DEF ValuesKnown
<1>2. CASE \/ InjectFault \/ ClearFaults \/ \E q \in Request : Stop(q) \/ StopReturns(q)
           \/ \E p \in Point : AddDevice(p)
  <2>1. WritesStay
    BY <1>2, RequestsKeepWrites
  <2>2. UNCHANGED <<generators, values, present, excused>>
    BY <1>2 DEF InjectFault, ClearFaults, Stop, StopReturns, AddDevice
  <2> QED BY <2>1, <2>2, AsideKeeps DEF ValuesAside
<1>3. ASSUME NEW p \in Point, NEW v \in Value, Command(p, v) PROVE ValuesKnown'
  <2>1. /\ WritesStay /\ excused' = excused \cup {p} /\ UNCHANGED <<generators, values>>
        /\ present' = [present EXCEPT ![p] = v]
    BY <1>3, RequestsKeepWrites DEF Command
  <2>2. SUFFICES ASSUME NEW x \in Point \ excused'
        PROVE  /\ \A k, l \in Loop : Writing(k, x)' /\ Writing(l, x)' => k = l
               /\ \A l \in Loop : Writing(l, x)' => values'[x] = write'[l][2]
               /\ x \in generators' /\ (\A l \in Loop : ~Writing(l, x)') => values'[x] = present'[x]
    BY DEF ValuesKnown
  <2>3. present'[x] = present[x] /\ x \in Point \ excused
    BY <2>1 DEF TypeOK
  <2>4. \A l \in Loop : /\ Writing(l, x)' <=> Writing(l, x)
                        /\ Writing(l, x) => write'[l] = write[l]
    BY <2>1 DEF WritesStay, Writing
  <2> QED BY <2>1, <2>3, <2>4 DEF ValuesKnown
<1>4. ASSUME NEW l \in Loop,
             LoopHead(l) \/ IterationFails(l) \/ TickEnds(l) \/ Stored(l) \/ \E p \in Point : GeneratorFails(l, p)
      PROVE  ValuesKnown'
  <2>1. UNCHANGED <<generators, values, present, excused>>
    BY <1>4 DEF LoopHead, IterationFails, TickEnds, Stored, GeneratorFails
  <2>2. \E s \in {"tick", "done", "sleep"} :
          /\ pc[l] # "writing" /\ (pc' = pc \/ pc' = [pc EXCEPT ![l] = s])
          /\ write' = write \/ write' = [write EXCEPT ![l] = <<>>]
    BY <1>4 DEF LoopHead, IterationFails, TickEnds, Stored, GeneratorFails
  <2>3. WritesStay
    BY <2>2, OtherStage
  <2> QED BY <2>1, <2>3, AsideKeeps DEF ValuesAside
<1>5. ASSUME NEW l \in Loop, NEW p \in Point, Visit(l, p) PROVE ValuesKnown'
  <2>1. CASE UNCHANGED <<pc, write, pointVars>>
    BY <2>1, AsideKeeps DEF ValuesAside, WritesStay
  <2>2. ASSUME NEW w \in Value, BeginWrite(l, p, w) PROVE ValuesKnown'
    <3>1. /\ pc[l] = "tick" /\ pc' = [pc EXCEPT ![l] = "writing"]
          /\ write' = [write EXCEPT ![l] = <<p, w>>] /\ values' = [values EXCEPT ![p] = w]
          /\ excused' = excused \cup ({p} \cap InFlight(l))
          /\ UNCHANGED <<generators, present>>
      BY <1>5, <2>2, VisitEffect DEF BeginWrite
    <3>2. pc'[l] = "writing" /\ write'[l] = <<p, w>> /\ write'[l][1] = p /\ write'[l][2] = w
      BY <3>1 DEF TypeOK
    <3>3. \A k \in Loop \ {l} : pc'[k] = pc[k] /\ write'[k] = write[k]
      BY <3>1 DEF TypeOK
    <3>4. SUFFICES ASSUME NEW x \in Point \ excused'
          PROVE  /\ \A j, k \in Loop : Writing(j, x)' /\ Writing(k, x)' => j = k
                 /\ \A k \in Loop : Writing(k, x)' => values'[x] = write'[k][2]
                 /\ x \in generators' /\ (\A k \in Loop : ~Writing(k, x)') => values'[x] = present'[x]
      BY DEF ValuesKnown
    <3>5. \A k \in Loop \ {l} : /\ Writing(k, x)' <=> Writing(k, x)
                                /\ Writing(k, x) => write'[k] = write[k]
      BY <3>3 DEF Writing
    <3>6. CASE x = p
      <4>1. x \notin {p} \cap InFlight(l)
        BY <3>1, <3>4, Zenon
      <4>2. x \notin InFlight(l)
        BY <3>6, <4>1
      <4>3. \A k \in Loop \ {l} : ~Writing(k, x)
        BY <4>2, InFlightIs
      <4>4. \A k \in Loop \ {l} : ~Writing(k, x)'
        BY <3>5, <4>3, Zenon
      <4>5. Writing(l, x)' /\ values'[x] = w
        BY <3>1, <3>2, <3>6 DEF Writing, TypeOK
      <4> QED BY <3>2, <4>4, <4>5
    <3>7. CASE x # p
      <4>1. ~Writing(l, x)' /\ ~Writing(l, x)
        BY <3>1, <3>2, <3>7 DEF Writing
      <4>2. values'[x] = values[x]
        BY <3>1, <3>7 DEF TypeOK
      <4>4. x \in Point \ excused
        BY <3>1, <3>4, Zenon
      <4>5. generators' = generators /\ present' = present
        BY <3>1
      <4>6. /\ \A j, k \in Loop : Writing(j, x) /\ Writing(k, x) => j = k
            /\ \A k \in Loop : Writing(k, x) => values[x] = write[k][2]
            /\ x \in generators /\ (\A k \in Loop : ~Writing(k, x)) => values[x] = present[x]
        BY <4>4 DEF ValuesKnown
      <4>7. \A j, k \in Loop : Writing(j, x)' /\ Writing(k, x)' => j = k
        BY <3>5, <4>1, <4>6 DEF Writing
      <4>8. \A k \in Loop : Writing(k, x)' => values'[x] = write'[k][2]
        BY <3>5, <4>1, <4>2, <4>6 DEF Writing
      <4>9. x \in generators' /\ (\A k \in Loop : ~Writing(k, x)') => values'[x] = present'[x]
        <5>1. (\A k \in Loop : ~Writing(k, x)') => \A k \in Loop : ~Writing(k, x)
          BY <3>5, <4>1 DEF Writing
        <5> QED BY <4>2, <4>5, <4>6, <5>1, Zenon
      <4> QED BY <4>7, <4>8, <4>9
    <3> QED BY <3>6, <3>7
  <2> QED BY <1>5, <2>1, <2>2, VisitEffect
<1>6. ASSUME NEW l \in Loop, Written(l) \/ WriteFails(l) \/ (Cancelled(l) /\ pc[l] = "writing")
      PROVE  ValuesKnown'
  <2> DEFINE p == write[l][1]
             w == write[l][2]
  <2>1. pc[l] = "writing" /\ p \in Point /\ UNCHANGED <<generators, values>>
    BY <1>6, WriteType DEF Written, WriteFails, Cancelled
  <2>2. pc'[l] # "writing" /\ \A k \in Loop \ {l} : pc'[k] = pc[k] /\ write'[k] = write[k]
    BY <1>6 DEF Written, WriteFails, Cancelled, TypeOK
  <2>3. SUFFICES ASSUME NEW x \in Point \ excused'
        PROVE  /\ \A j, k \in Loop : Writing(j, x)' /\ Writing(k, x)' => j = k
               /\ \A k \in Loop : Writing(k, x)' => values'[x] = write'[k][2]
               /\ x \in generators' /\ (\A k \in Loop : ~Writing(k, x)') => values'[x] = present'[x]
    BY DEF ValuesKnown
  <2>4. ~Writing(l, x)' /\ Writing(l, p)
        /\ \A k \in Loop \ {l} : /\ Writing(k, x)' <=> Writing(k, x)
                                 /\ Writing(k, x) => write'[k] = write[k]
    BY <2>1, <2>2 DEF Writing
  <2>5. CASE x # p
    <3>1. x \notin excused /\ present'[x] = present[x] /\ ~Writing(l, x)
      BY <1>6, <2>1, <2>5 DEF Written, WriteFails, Cancelled, TypeOK, Writing
    <3> QED BY <2>1, <2>4, <3>1 DEF ValuesKnown
  <2>6. CASE x = p /\ Written(l)
    <3>1. /\ present' = [present EXCEPT ![p] = w]
          /\ excused' = IF values[p] = w /\ p \notin InFlight(l) THEN excused \ {p} ELSE excused
      BY <2>6 DEF Written
    <3>2. \/ values[p] = w /\ p \notin InFlight(l)
          \/ p \notin excused
      BY <2>3, <2>6, <3>1
    <3>3. values[p] = w /\ \A k \in Loop \ {l} : ~Writing(k, p)
      <4>1. CASE values[p] = w /\ p \notin InFlight(l)
        BY <4>1, InFlightIs
      <4>2. CASE p \notin excused
        BY <2>1, <2>4, <4>2 DEF ValuesKnown
      <4> QED BY <3>2, <4>1, <4>2
    <3>4. present'[p] = w
      BY <2>1, <3>1 DEF TypeOK
    <3> QED BY <2>1, <2>4, <2>6, <3>3, <3>4
  <2>7. CASE x = p /\ ~Written(l)
    BY <1>6, <2>1, <2>3, <2>7 DEF WriteFails, Cancelled
  <2> QED BY <2>5, <2>6, <2>7
<1>7. ASSUME NEW l \in Loop, Cancelled(l), pc[l] # "writing" PROVE ValuesKnown'
  <2>1. UNCHANGED <<generators, values, present, excused>>
    BY <1>7 DEF Cancelled
  <2>2. pc' = [pc EXCEPT ![l] = "done"] /\ write' = [write EXCEPT ![l] = <<>>]
    BY <1>7 DEF Cancelled
  <2>3. WritesStay
    BY <1>7, <2>2, OtherStage
  <2> QED BY <2>1, <2>3, AsideKeeps DEF ValuesAside
<1>8. CASE UNCHANGED vars
  BY <1>8, AsideKeeps DEF vars, ValuesAside, WritesStay
<1> QED BY <1>1, <1>2, <1>3, <1>4, <1>5, <1>6, <1>7, <1>8 DEF Next, LoopStep

LEMMA ValuesInvariant == Spec => []ValuesKnown
<1>1. Init => ValuesKnown
  BY DEF Init, ValuesKnown, Writing
<1> QED BY <1>1, ValuesStep, TypeCorrect, PTL DEF Spec

\* The engine's last value of a point is the one in memory, but for a write on
\* its way and the four named causes, for any number of points and loops.
THEOREM LastValuesAgree == Spec => []LastValueAgrees
<1>1. TypeOK /\ ValuesKnown => LastValueAgrees
  <2> SUFFICES ASSUME TypeOK, ValuesKnown, NEW p \in generators \ (excused \cup InFlight(0))
               PROVE  values[p] = present[p]
    BY DEF LastValueAgrees
  <2>1. p \in Point \ excused /\ \A l \in Loop : ~Writing(l, p)
    BY InFlightIs DEF TypeOK, Loop
  <2> QED BY <2>1 DEF ValuesKnown
<1> QED BY <1>1, ValuesInvariant, TypeCorrect, PTL

-----------------------------------------------------------------------------
(***************************************************************************)
(* Stuck points                                                            *)
(***************************************************************************)

\* While requests come one at a time, a write to a stuck point carries the
\* frozen value.
FrozenWritten ==
  ~overlap =>
    \A l \in Loop, p \in Point :
      Writing(l, p) /\ fault[p].kind = "stuck" /\ fault[p].frozen # NoValue
        => write[l][2] = fault[p].frozen

\* A fault stays, ends, or is new, and then nothing is frozen yet.
FaultsStay ==
  \A p \in Point : \/ fault'[p] = fault[p]
                    \/ fault'[p].kind # "stuck" \/ fault'[p].frozen = NoValue

\* No write begins; one may end.
WritesEnd ==
  \A l \in Loop : pc'[l] = "writing" => pc[l] = "writing" /\ write'[l] = write[l]

LEMMA FrozenStep == TypeOK /\ OneAtATime /\ FrozenWritten /\ [Next]_vars => FrozenWritten'
<1> SUFFICES ASSUME TypeOK, OneAtATime, FrozenWritten, [Next]_vars PROVE FrozenWritten'
  OBVIOUS
<1> USE DEF pointVars, requestVars, loopVars, faultVars
<1>1. ASSUME WritesEnd, FaultsStay, ~overlap' => ~overlap PROVE FrozenWritten'
  <2> SUFFICES ASSUME ~overlap', NEW l \in Loop, NEW p \in Point, Writing(l, p)',
                      fault'[p].kind = "stuck", fault'[p].frozen # NoValue
               PROVE  write'[l][2] = fault'[p].frozen
    BY DEF FrozenWritten
  <2>1. Writing(l, p) /\ write'[l] = write[l] /\ fault'[p] = fault[p]
    BY <1>1 DEF WritesEnd, FaultsStay, Writing
  <2> QED BY <1>1, <2>1 DEF FrozenWritten
<1>2. WritesStay => WritesEnd
  BY DEF WritesStay, WritesEnd
<1>3. CASE \/ Start \/ \E q \in Request : Stop(q) \/ StopReturns(q)
           \/ \E p \in Point : AddDevice(p) \/ \E v \in Value : Command(p, v)
  <2>1. WritesEnd
    BY <1>2, <1>3, RequestsKeepWrites
  <2>2. fault' = fault /\ (~overlap' => ~overlap)
    BY <1>3 DEF Start, Stop, StopReturns, AddDevice, Command, TypeOK
  <2> QED BY <1>1, <2>1, <2>2 DEF FaultsStay
<1>4. ASSUME NEW p \in Point, NEW k \in Kind, NEW ends \in BOOLEAN, Inject(p, k, ends)
      PROVE  FaultsStay
  <2>1. fault'[p].frozen = NoValue /\ \A x \in Point \ {p} : fault'[x] = fault[x]
    BY <1>4 DEF Inject, TypeOK
  <2> QED BY <2>1 DEF FaultsStay
<1>5. CASE InjectFault
  <2>1. WritesEnd /\ overlap' = overlap /\ FaultsStay
    BY <1>2, <1>4, <1>5, RequestsKeepWrites DEF InjectFault
  <2> QED BY <1>1, <2>1
<1>6. CASE ClearFaults
  <2>1. \A p \in Point : fault'[p] = fault[p] \/ fault'[p] = NoFault
    BY <1>6 DEF ClearFaults
  <2>2. WritesEnd /\ overlap' = overlap
    BY <1>2, <1>6, RequestsKeepWrites DEF ClearFaults
  <2> QED BY <1>1, <2>1, <2>2 DEF FaultsStay, NoFault
<1>7. ASSUME NEW l \in Loop, LoopHead(l) PROVE FrozenWritten'
  <2>1. WritesEnd
    <3>1. \E s \in {"tick", "done"} : pc[l] # "writing" /\ pc' = [pc EXCEPT ![l] = s] /\ write' = write
      BY <1>7 DEF LoopHead
    <3> QED BY <1>2, <3>1, OtherStage
  <2>2. FaultsStay
    <3>1. CASE UNCHANGED faultVars
      BY <3>1 DEF FaultsStay
    <3>2. CASE \E p \in generators, k \in Kind : Inject(p, k, TRUE)
      <4>1. generators \subseteq Point
        BY DEF TypeOK
      <4> QED BY <1>4, <3>2, <4>1
    <3> QED BY <1>7, <3>1, <3>2 DEF LoopHead
  <2>3. overlap' = overlap
    BY <1>7 DEF LoopHead
  <2> QED BY <1>1, <2>1, <2>2, <2>3
<1>8. ASSUME NEW l \in Loop, NEW p \in Point, Visit(l, p) PROVE FrozenWritten'
  <2> SUFFICES ASSUME ~overlap', NEW k \in Loop, NEW x \in Point, Writing(k, x)',
                      fault'[x].kind = "stuck", fault'[x].frozen # NoValue
               PROVE  write'[k][2] = fault'[x].frozen
    BY DEF FrozenWritten
  <2>1. pc[l] = "tick" /\ ~overlap
    BY <1>8, VisitEffect
  <2>2. Live \subseteq {l}
    BY <2>1 DEF OneAtATime, Live
  <2>3. PICK f \in Fault \cup {NoFault} :
          /\ fault' = [fault EXCEPT ![p] = f]
          /\ \/ UNCHANGED <<pc, write, pointVars>>
             \/ \E w \in Value : BeginWrite(l, p, w) /\ (f.kind = "stuck" => w = f.frozen)
    BY <1>8, VisitEffect
  <2>4. ~UNCHANGED <<pc, write, pointVars>>
    BY <2>1, <2>2 DEF Writing, Live
  <2>5. PICK w \in Value : BeginWrite(l, p, w) /\ (f.kind = "stuck" => w = f.frozen)
    BY <2>3, <2>4
  <2>6. k = l
    BY <2>2, <2>5 DEF BeginWrite, Writing, Live, TypeOK
  <2>7. write'[l] = <<p, w>>
    BY <2>5 DEF BeginWrite, TypeOK
  <2>8. x = p /\ fault'[p] = f
    BY <2>3, <2>6, <2>7 DEF Writing, TypeOK
  <2> QED BY <2>5, <2>6, <2>7, <2>8
<1>9. ASSUME NEW l \in Loop,
             \/ IterationFails(l) \/ TickEnds(l) \/ Written(l) \/ WriteFails(l) \/ Stored(l)
             \/ Cancelled(l) \/ \E p \in Point : GeneratorFails(l, p)
      PROVE  FrozenWritten'
  <2>1. fault' = fault /\ overlap' = overlap
    BY <1>9 DEF IterationFails, TickEnds, Written, WriteFails, Stored, Cancelled, GeneratorFails
  <2>2. /\ pc' = pc \/ \E s \in {"done", "sleep", "storing", "tick"} : pc' = [pc EXCEPT ![l] = s]
        /\ pc' = pc => write' = write
        /\ write' = write \/ write' = [write EXCEPT ![l] = <<>>]
    BY <1>9 DEF IterationFails, TickEnds, Written, WriteFails, Stored, Cancelled, GeneratorFails, TypeOK
  <2>3. WritesEnd
    BY <2>2 DEF WritesEnd, TypeOK
  <2> QED BY <1>1, <2>1, <2>3 DEF FaultsStay
<1>10. CASE UNCHANGED vars
  BY <1>1, <1>10 DEF vars, WritesEnd, FaultsStay
<1> QED BY <1>3, <1>5, <1>6, <1>7, <1>8, <1>9, <1>10 DEF Next, LoopStep

LEMMA FrozenInvariant == Spec => []FrozenWritten
<1>1. Init => FrozenWritten
  BY DEF Init, FrozenWritten, Writing
<1> QED BY <1>1, FrozenStep, TypeCorrect, OneAtATimeInvariant, PTL DEF Spec

\* What a visit makes of the fault of its point once a value is frozen.
LEMMA FrozenVisit ==
  ASSUME TypeOK, NEW l \in Loop, NEW p \in Point, Visit(l, p), fault[p].frozen # NoValue
  PROVE  fault'[p] = fault[p] \/ fault'[p] = NoFault
<1>1. PICK v \in Value : \E f \in Applied(p, v) : fault' = [fault EXCEPT ![p] = f]
  BY Zenon DEF Visit
<1>2. PICK f \in Applied(p, v) : fault' = [fault EXCEPT ![p] = f]
  BY <1>1
<1>3. f = fault[p] \/ f = NoFault
  BY DEF Applied, Overlaid
<1> QED BY <1>2, <1>3 DEF TypeOK

\* What a step does to a stuck point whose frozen value is in memory.
LEMMA StuckStep ==
  ASSUME TypeOK, OneAtATime, FrozenWritten, [Next]_vars, NEW p \in Point,
         ~overlap, fault[p].kind = "stuck", fault[p].frozen = present[p]
  PROVE  \/ fault'[p] = NoFault \/ faults' # faults
         \/ fault'[p] = fault[p] /\ (present'[p] = present[p] \/ pc' = pc)
<1> USE DEF pointVars, requestVars, loopVars, faultVars
<1>1. present[p] \in Value /\ fault[p].frozen # NoValue /\ faults \in Nat
  BY SimulationAssumption, NaturalBounds DEF TypeOK
<1>2. ASSUME NEW x, NEW k, NEW ends, Inject(x, k, ends) PROVE faults' # faults
  BY <1>1, <1>2 DEF Inject
<1>3. CASE \/ Start \/ \E q \in Request : Stop(q) \/ StopReturns(q)
           \/ \E x \in Point : AddDevice(x)
  BY <1>3 DEF Start, Build, Stop, StopReturns, AddDevice
<1>4. CASE InjectFault
  BY <1>2, <1>4 DEF InjectFault
<1>5. CASE ClearFaults
  BY <1>5 DEF ClearFaults
<1>6. CASE \E x \in Point, v \in Value : Command(x, v)
  BY <1>6 DEF Command
<1>7. ASSUME NEW l \in Loop, LoopHead(l)
      PROVE faults' # faults \/ (fault' = fault /\ present' = present)
  BY <1>2, <1>7 DEF LoopHead
<1>8. ASSUME NEW l \in Loop, NEW x \in Point, Visit(l, x)
      PROVE  (fault'[p] = fault[p] \/ fault'[p] = NoFault) /\ present' = present
  <2>1. x = p => fault'[p] = fault[p] \/ fault'[p] = NoFault
    BY <1>1, <1>8, FrozenVisit
  <2>2. x # p => fault'[p] = fault[p]
    <3>1. PICK f \in Fault \cup {NoFault} : fault' = [fault EXCEPT ![x] = f]
      BY <1>8, VisitEffect
    <3> QED BY <3>1 DEF TypeOK
  <2>3. present' = present
    BY <1>8, VisitEffect DEF BeginWrite
  <2> QED BY <2>1, <2>2, <2>3
<1>9. ASSUME NEW l \in Loop,
             \/ IterationFails(l) \/ TickEnds(l) \/ WriteFails(l) \/ Stored(l)
             \/ Cancelled(l) \/ \E x \in Point : GeneratorFails(l, x)
      PROVE  fault' = fault /\ present' = present
  BY <1>9 DEF IterationFails, TickEnds, WriteFails, Stored, Cancelled, GeneratorFails
<1>10. ASSUME NEW l \in Loop, Written(l)
       PROVE  fault' = fault /\ present'[p] = present[p]
  <2>1. fault' = fault /\ present' = [present EXCEPT ![write[l][1]] = write[l][2]]
    BY <1>10 DEF Written
  <2>2. CASE write[l][1] = p
    <3>1. write[l][2] = present[p]
      BY <1>1, <1>10, <2>2 DEF FrozenWritten, Writing, Written
    <3> QED BY <2>1, <2>2, <3>1 DEF TypeOK
  <2>3. CASE write[l][1] # p
    BY <2>1, <2>3 DEF TypeOK
  <2> QED BY <2>1, <2>2, <2>3
<1>11. CASE UNCHANGED vars
  BY <1>11 DEF vars
<1> QED BY <1>3, <1>4, <1>5, <1>6, <1>7, <1>8, <1>9, <1>10, <1>11 DEF Next, LoopStep

\* A stuck point stays stuck, whatever the engine does, until its fault ends, is
\* cleared or is replaced, for any number of points, loops and faults.
THEOREM StuckPointsStay == Spec => StuckStays
<1>1. TypeOK /\ OneAtATime /\ FrozenWritten /\ [Next]_vars =>
        [\A p \in Point :
           ~overlap /\ fault[p].kind = "stuck" /\ fault[p].frozen = present[p] =>
             \/ fault'[p] = NoFault \/ faults' # faults
             \/ fault'[p] = fault[p] /\ (present'[p] = present[p] \/ pc' = pc)]_vars
  BY StuckStep
<1> QED BY <1>1, TypeCorrect, OneAtATimeInvariant, FrozenInvariant, PTL DEF Spec, StuckStays
===============================================================================
