-------------------------- MODULE PointWrites_proofs --------------------------
(***************************************************************************)
(* The values of points: how they are written, and how they are computed.  *)
(*                                                                         *)
(* Of PointWrites: the four copies of a value agree, for any tasks, points *)
(* and values.  Of Calculations: signals keep within their bounds, for     *)
(* every configuration and every state of a generator; and a value that is *)
(* sent, stored, exposed or published comes back, for every value.         *)
(***************************************************************************)
EXTENDS PointWrites, Calculations, FiniteSetTheorems, WellFoundedInduction, TLAPS

\* Every variable keeps its type.
THEOREM TypeCorrect == Spec => []TypeOK
<1>1. Init => TypeOK
  BY DEF Init, TypeOK
<1>2. TypeOK /\ [Next]_vars => TypeOK'
  <2> SUFFICES ASSUME TypeOK, [Next]_vars PROVE TypeOK'
    OBVIOUS
  <2>0. composite' \in BOOLEAN /\ cancels' \in Nat
    BY DEF TypeOK, Next, Cancel, vars
  <2> USE <2>0 DEF TypeOK, valueVars, taskVars
  <2>1. ASSUME NEW t \in Task, NEW p \in Point, NEW v \in Value, WritePoint(t, p, v)
        PROVE  TypeOK'
    BY <2>1 DEF WritePoint, EngineWrite, Change
  <2>2. ASSUME NEW t \in Task, NEW p \in Point, NEW v \in Value, Ingest(t, p, v)
        PROVE  TypeOK'
    BY <2>2 DEF Ingest, Change
  <2>3. ASSUME NEW p \in Point, NEW v \in Value, BusTelegram(p, v)
        PROVE  TypeOK'
    BY <2>3 DEF BusTelegram
  <2>4. ASSUME NEW t \in Task, WriteRefused(t)
        PROVE  TypeOK'
    BY <2>4 DEF WriteRefused
  <2>5. ASSUME NEW t \in Task, Persist(t)
        PROVE  TypeOK'
    BY <2>5 DEF Persist
  <2>6. ASSUME NEW t \in Task, PersistFails(t)
        PROVE  TypeOK'
    BY <2>6 DEF PersistFails
  <2>7. ASSUME NEW t \in Task, Tell(t)
        PROVE  TypeOK'
    BY <2>7 DEF Tell
  <2>8. ASSUME NEW t \in Task, Cancel(t)
        PROVE  TypeOK'
    BY <2>8 DEF Cancel
  <2>9. CASE UNCHANGED vars
    BY <2>9 DEF vars
  <2> QED BY <2>1, <2>2, <2>3, <2>4, <2>5, <2>6, <2>7, <2>8, <2>9 DEF Next
<1> QED BY <1>1, <1>2, PTL DEF Spec

-----------------------------------------------------------------------------
\* The strengthening: a point that is not excused has at most one task, and
\* that task carries the value of the memory and the value told before it.
OneTask ==
  \A t, u \in Task :
    /\ pc[t] # "idle" /\ pc[u] # "idle"
    /\ point[t] = point[u] /\ point[t] \notin excused
    => t = u

TaskCarries ==
  \A t \in Task : pc[t] # "idle" /\ point[t] \notin excused =>
    /\ new[t] = mem[point[t]] /\ old[t] = told[point[t]]
    /\ pc[t] = "tell" => db[point[t]] = mem[point[t]]

IInv == OneTask /\ TaskCarries /\ QuietCopiesAgree

\* Both paths change the memory and hand the value to one more task.
LEMMA ChangeKeeps ==
  ASSUME TypeOK, IInv, NEW t \in Task, NEW p \in Point, NEW v \in Value, NEW who,
         pc[t] = "idle", Change(t, p, v, who), UNCHANGED <<db, told>>
  PROVE  IInv'
<1>1. /\ mem'[p] = v /\ \A q \in Point \ {p} : mem'[q] = mem[q]
      /\ pc'[t] = "persist" /\ \A u \in Task \ {t} : pc'[u] = pc[u]
      /\ point'[t] = p /\ \A u \in Task \ {t} : point'[u] = point[u]
      /\ old'[t] = mem[p] /\ \A u \in Task \ {t} : old'[u] = old[u]
      /\ new'[t] = v /\ \A u \in Task \ {t} : new'[u] = new[u]
      /\ db' = db /\ told' = told
  BY DEF Change, TypeOK
<1>2. /\ excused \subseteq excused'
      /\ p \notin excused' => ~Busy(p)
  BY DEF Change
<1>3. p \notin excused' => \A u \in Task \ {t} : pc[u] # "idle" => point[u] # p
  BY <1>2 DEF Busy
<1>4. OneTask'
  BY <1>1, <1>2, <1>3 DEF IInv, OneTask
<1>5. TaskCarries'
  <2> SUFFICES ASSUME NEW u \in Task, pc'[u] # "idle", point'[u] \notin excused'
               PROVE  /\ new'[u] = mem'[point'[u]] /\ old'[u] = told'[point'[u]]
                      /\ pc'[u] = "tell" => db'[point'[u]] = mem'[point'[u]]
    BY DEF TaskCarries
  <2>1. CASE u = t
    <3>1. p \notin excused /\ ~Busy(p)
      BY <1>1, <1>2, <2>1
    <3>2. told[p] = mem[p]
      BY <3>1 DEF IInv, QuietCopiesAgree
    <3> QED BY <1>1, <2>1, <3>2
  <2>2. CASE u # t
    <3>1. point[u] # p /\ pc[u] # "idle" /\ point[u] \notin excused
      BY <1>1, <1>2, <1>3, <2>2
    <3>2. point[u] \in Point
      BY DEF TypeOK
    <3> QED BY <1>1, <2>2, <3>1, <3>2 DEF IInv, TaskCarries
  <2> QED BY <2>1, <2>2
<1>6. QuietCopiesAgree'
  <2> SUFFICES ASSUME NEW q \in Point, q \notin excused', ~Busy(q)'
               PROVE  db'[q] = mem'[q] /\ told'[q] = mem'[q]
    BY DEF QuietCopiesAgree, Busy
  <2>1. q # p
    BY <1>1 DEF Busy
  <2>2. ~Busy(q)
    BY <1>1 DEF Busy
  <2> QED BY <1>1, <1>2, <2>1, <2>2 DEF IInv, QuietCopiesAgree
<1> QED BY <1>4, <1>5, <1>6 DEF IInv

\* Every step of a write, an ingested value or a telegram keeps the strengthened invariant.
LEMMA InvariantStep == TypeOK /\ IInv /\ [Next]_vars => IInv'
<1> SUFFICES ASSUME TypeOK, IInv, [Next]_vars PROVE IInv'
  OBVIOUS
<1>1. ASSUME NEW t \in Task, NEW p \in Point, NEW v \in Value,
             WritePoint(t, p, v) \/ Ingest(t, p, v)
      PROVE  IInv'
  <2>1. /\ pc[t] = "idle" /\ UNCHANGED <<db, told>>
        /\ \E who : Change(t, p, v, who)
    BY <1>1 DEF WritePoint, Ingest
  <2> QED BY <2>1, ChangeKeeps
<1>2. ASSUME NEW p \in Point, NEW v \in Value, BusTelegram(p, v)
      PROVE  IInv'
  <2>1. /\ \A q \in Point \ excused' : q \notin excused /\ mem'[q] = mem[q]
        /\ UNCHANGED <<pc, point, old, new, db, told>>
    BY <1>2 DEF BusTelegram, taskVars, TypeOK
  <2> QED BY <2>1 DEF IInv, OneTask, TaskCarries, QuietCopiesAgree, Busy, TypeOK
<1>3. ASSUME NEW t \in Task, Persist(t)
      PROVE  IInv'
  <2>1. /\ pc[t] = "persist" /\ pc'[t] = "tell"
        /\ \A u \in Task \ {t} : pc'[u] = pc[u]
        /\ db'[point[t]] = new[t]
        /\ \A q \in Point \ {point[t]} : db'[q] = db[q]
        /\ UNCHANGED <<point, old, new, mem, told, excused>>
    BY <1>3 DEF Persist, TypeOK
  <2>2. OneTask'
    BY <2>1 DEF IInv, OneTask
  <2>3. TaskCarries'
    BY <2>1 DEF IInv, OneTask, TaskCarries, TypeOK
  <2>4. QuietCopiesAgree'
    BY <2>1 DEF IInv, QuietCopiesAgree, Busy
  <2> QED BY <2>2, <2>3, <2>4 DEF IInv
<1>4. ASSUME NEW t \in Task, PersistFails(t) \/ Cancel(t)
      PROVE  IInv'
  <2>1. /\ pc[t] # "idle" /\ pc'[t] = "idle"
        /\ \A u \in Task \ {t} : pc'[u] = pc[u]
        /\ excused' = excused \cup {point[t]}
        /\ \A q \in Point \ {point[t]} : db'[q] = db[q] /\ told'[q] = told[q]
        /\ UNCHANGED <<point, old, new, mem>>
    BY <1>4 DEF PersistFails, Cancel, valueVars, TypeOK
  <2>2. OneTask'
    BY <2>1 DEF IInv, OneTask
  <2>3. TaskCarries'
    BY <2>1 DEF IInv, TaskCarries, TypeOK
  <2>4. QuietCopiesAgree'
    BY <2>1 DEF IInv, QuietCopiesAgree, Busy
  <2> QED BY <2>2, <2>3, <2>4 DEF IInv
<1>5. ASSUME NEW t \in Task, Tell(t)
      PROVE  IInv'
  <2>1. /\ pc[t] = "tell" /\ pc'[t] = "idle"
        /\ \A u \in Task \ {t} : pc'[u] = pc[u]
        /\ told'[point[t]] = new[t]
        /\ \A q \in Point \ {point[t]} : told'[q] = told[q]
        /\ UNCHANGED <<point, old, new, mem, db, excused>>
    BY <1>5 DEF Tell, TypeOK
  <2>2. OneTask'
    BY <2>1 DEF IInv, OneTask
  <2>3. TaskCarries'
    BY <2>1 DEF IInv, OneTask, TaskCarries, TypeOK
  <2>4. QuietCopiesAgree'
    BY <2>1 DEF IInv, TaskCarries, QuietCopiesAgree, Busy
  <2> QED BY <2>2, <2>3, <2>4 DEF IInv
<1>6. CASE UNCHANGED vars \/ \E t \in Task : WriteRefused(t)
  <2>1. UNCHANGED <<taskVars, valueVars, excused>>
    BY <1>6 DEF vars, WriteRefused
  <2> QED BY <2>1 DEF taskVars, valueVars, IInv, OneTask, TaskCarries,
                      QuietCopiesAgree, Busy
<1> QED BY <1>1, <1>2, <1>3, <1>4, <1>5, <1>6 DEF Next

\* The strengthened invariant of the copies of a value holds in every state.
THEOREM StrongInvariant == Spec => []IInv
<1>1. Init => IInv
  BY DEF Init, IInv, OneTask, TaskCarries, QuietCopiesAgree
<1> QED BY <1>1, InvariantStep, TypeCorrect, PTL DEF Spec

\* A point at rest that is not excused has the same value in all its copies.
THEOREM CopiesAgree == Spec => []QuietCopiesAgree
BY StrongInvariant, PTL DEF IInv

\* The events of such a point start each from the value told before.
THEOREM EventsFormChain == Spec => []EventsChain
<1>1. IInv => EventsChain
  BY DEF IInv, TaskCarries, EventsChain
<1> QED BY <1>1, StrongInvariant, PTL

\* With BACnet alone, a command in memory is a command the device received.
THEOREM CommandsReachDevice == Spec => []CommandReachedDevice
<1>1. Init => CommandReachedDevice
  BY DEF Init, CommandReachedDevice
<1>2. TypeOK /\ CommandReachedDevice /\ [Next]_vars => CommandReachedDevice'
  <2> SUFFICES ASSUME TypeOK, CommandReachedDevice, [Next]_vars
               PROVE  CommandReachedDevice'
    OBVIOUS
  <2>0. composite' = composite
    BY DEF Next, vars
  <2>1. ASSUME NEW t \in Task, NEW p \in Point, NEW v \in Value, WritePoint(t, p, v),
               ~composite
        PROVE  CommandReachedDevice'
    <3>1. exposed' = [exposed EXCEPT ![p] = v] /\ mem' = [mem EXCEPT ![p] = v]
          /\ by' = [by EXCEPT ![p] = "command"]
      BY <2>1 DEF WritePoint, EngineWrite, Change
    <3> QED BY <2>0, <2>1, <3>1 DEF CommandReachedDevice, TypeOK
  <2>2. ASSUME NEW t \in Task, NEW p \in Point, NEW v \in Value, Ingest(t, p, v)
        PROVE  CommandReachedDevice'
    BY <2>0, <2>2 DEF Ingest, Change, CommandReachedDevice, TypeOK
  <2>3. ASSUME NEW p \in Point, NEW v \in Value, BusTelegram(p, v)
        PROVE  CommandReachedDevice'
    BY <2>0, <2>3 DEF BusTelegram, CommandReachedDevice, TypeOK
  <2>4. CASE UNCHANGED <<mem, exposed, by>>
    BY <2>0, <2>4 DEF CommandReachedDevice
  <2>5. ASSUME NEW t \in Task,
               \/ WriteRefused(t) \/ Persist(t) \/ PersistFails(t)
               \/ Tell(t) \/ Cancel(t)
        PROVE  UNCHANGED <<mem, exposed, by>>
    BY <2>5 DEF WriteRefused, Persist, PersistFails, Tell, Cancel, valueVars
  <2>6. CASE UNCHANGED vars
    BY <2>4, <2>6 DEF vars, valueVars
  <2>7. CASE composite
    BY <2>0, <2>7 DEF CommandReachedDevice
  <2> QED BY <2>7, <2>1, <2>2, <2>3, <2>4, <2>5, <2>6 DEF Next
<1> QED BY <1>1, <1>2, TypeCorrect, PTL DEF Spec
-----------------------------------------------------------------------------
(***************************************************************************)
(* DeviceService implements Register                                       *)
(***************************************************************************)
\* What a step of one task on one point leaves as it was for another point.
LEMMA OthersKept ==
  ASSUME NEW p \in Point, NEW q \in Point, q # p,
         \A t \in Task : \/ pc'[t] = pc[t] /\ point'[t] = point[t] /\ old'[t] = old[t]
                         \/ /\ pc[t] = "idle" \/ point[t] = p
                            /\ pc'[t] = "idle" \/ point'[t] = p,
         q \in excused' <=> q \in excused, mem'[q] = mem[q]
  PROVE  Stage(q)' = Stage(q) /\ From(q)' = From(q)
<1>1. \A t \in Task : /\ pc'[t] # "idle" /\ point'[t] = q <=> pc[t] # "idle" /\ point[t] = q
                      /\ pc[t] # "idle" /\ point[t] = q => pc'[t] = pc[t] /\ old'[t] = old[t]
  OBVIOUS
<1>2. Busy(q)' <=> Busy(q)
  BY <1>1 DEF Busy
<1>3. Worker(q)' = Worker(q)
  BY <1>1 DEF Worker
<1>4. Busy(q) => Worker(q) \in Task /\ pc[Worker(q)] # "idle" /\ point[Worker(q)] = q
  BY DEF Busy, Worker
<1>5. Stage(q)' = Stage(q)
  BY <1>1, <1>2, <1>3, <1>4 DEF Stage
<1> QED BY <1>1, <1>2, <1>3, <1>4, <1>5 DEF From

\* The task at work on a point that is not excused is the one Worker names.
LEMMA WorkerIsAlone ==
  ASSUME OneTask, NEW t \in Task, NEW p \in Point \ excused, pc[t] # "idle", point[t] = p
  PROVE  Worker(p) = t /\ Busy(p)
<1>1. Worker(p) \in Task /\ pc[Worker(p)] # "idle" /\ point[Worker(p)] = p
  BY DEF Worker
<1>2. Busy(p)
  BY DEF Busy
<1> QED BY <1>1, <1>2 DEF OneTask

\* A step after which its point is excused gives the point up.
LEMMA GivesUp ==
  ASSUME NEW p \in Point, excused' = excused \cup {p},
         \A q \in Point \ {p} : /\ mem'[q] = mem[q] /\ db'[q] = db[q] /\ told'[q] = told[q]
                                /\ Stage(q)' = Stage(q) /\ From(q)' = From(q)
  PROVE  Reg!GiveUp(p)
BY DEF Reg!GiveUp

\* A change is taken, or its point is excused.
LEMMA ChangeTakes ==
  ASSUME TypeOK, NEW t \in Task, NEW p \in Point, NEW v \in Value, NEW who,
         pc[t] = "idle", Change(t, p, v, who), UNCHANGED <<db, told>>
  PROVE  Reg!Take(p, v) \/ Reg!GiveUp(p)
<1>1. /\ mem' = [mem EXCEPT ![p] = v]
      /\ pc'[t] = "persist" /\ \A u \in Task \ {t} : pc'[u] = pc[u]
      /\ point'[t] = p /\ \A u \in Task \ {t} : point'[u] = point[u]
      /\ old'[t] = mem[p] /\ \A u \in Task \ {t} : old'[u] = old[u]
      /\ excused' = IF Busy(p) THEN excused \cup {p} ELSE excused
      /\ db' = db /\ told' = told
  BY DEF Change, TypeOK
<1>2. \A q \in Point \ {p} : mem'[q] = mem[q] /\ (q \in excused' <=> q \in excused)
  BY <1>1 DEF TypeOK
<1>3. \A q \in Point \ {p} : Stage(q)' = Stage(q) /\ From(q)' = From(q)
  <2> SUFFICES ASSUME NEW q \in Point, q # p
               PROVE  Stage(q)' = Stage(q) /\ From(q)' = From(q)
    OBVIOUS
  <2>1. \A u \in Task : \/ pc'[u] = pc[u] /\ point'[u] = point[u] /\ old'[u] = old[u]
                        \/ /\ pc[u] = "idle" \/ point[u] = p
                           /\ pc'[u] = "idle" \/ point'[u] = p
    BY <1>1
  <2> QED BY <1>2, <2>1, OthersKept
<1>4. CASE Busy(p) \/ p \in excused
  <2>1. excused' = excused \cup {p}
    BY <1>1, <1>4
  <2> QED BY <1>1, <1>2, <1>3, <2>1, GivesUp
<1>5. CASE ~Busy(p) /\ p \notin excused
  <2>1. Stage(p) = "rest" /\ From(p) = mem[p] /\ excused' = excused
    BY <1>1, <1>5 DEF Stage, From
  <2>2. \A u \in Task : pc'[u] # "idle" /\ point'[u] = p <=> u = t
    BY <1>1, <1>5 DEF Busy
  <2>3. Worker(p)' = t /\ Busy(p)'
    BY <2>2 DEF Worker, Busy
  <2>4. Stage(p)' = "store" /\ From(p)' = mem[p]
    BY <1>1, <1>5, <2>1, <2>3 DEF Stage, From
  <2>5. [q \in Point |-> Stage(q)]' = [[q \in Point |-> Stage(q)] EXCEPT ![p] = "store"]
    BY <1>3, <2>4
  <2>6. [q \in Point |-> From(q)]' = [[q \in Point |-> From(q)] EXCEPT ![p] = mem[p]]
    BY <1>3, <2>4
  <2> QED BY <1>1, <1>5, <2>1, <2>5, <2>6 DEF Reg!Take
<1> QED BY <1>4, <1>5

\* An update that commits stores the change, one that fails gives the point up.
LEMMA PersistStores ==
  ASSUME TypeOK, IInv, NEW t \in Task, Persist(t) \/ PersistFails(t)
  PROVE  Reg!Store(point[t]) \/ Reg!GiveUp(point[t])
<1>0. PICK p \in Point : p = point[t] /\ pc[t] = "persist"
  BY DEF TypeOK, Persist, PersistFails
<1>1. /\ \A u \in Task \ {t} : pc'[u] = pc[u]
      /\ UNCHANGED <<point, old, new, mem, told>>
      /\ \A q \in Point \ {p} : db'[q] = db[q] /\ (q \in excused' <=> q \in excused)
  BY <1>0 DEF Persist, PersistFails, valueVars, TypeOK
<1>2. \A q \in Point \ {p} : Stage(q)' = Stage(q) /\ From(q)' = From(q)
  <2> SUFFICES ASSUME NEW q \in Point, q # p
               PROVE  Stage(q)' = Stage(q) /\ From(q)' = From(q)
    OBVIOUS
  <2>1. \A u \in Task : \/ pc'[u] = pc[u] /\ point'[u] = point[u] /\ old'[u] = old[u]
                        \/ /\ pc[u] = "idle" \/ point[u] = p
                           /\ pc'[u] = "idle" \/ point'[u] = p
    BY <1>0, <1>1
  <2> QED BY <1>0, <1>1, <2>1, OthersKept
<1>3. CASE excused' = excused \cup {p}
  BY <1>0, <1>1, <1>2, <1>3, GivesUp
<1>4. CASE Persist(t) /\ p \notin excused
  <2>1. /\ db' = [db EXCEPT ![p] = new[t]] /\ pc'[t] = "tell" /\ excused' = excused
        /\ new[t] = mem[p]
    BY <1>0, <1>4 DEF Persist, TypeOK, IInv, TaskCarries
  <2>2. Worker(p) = t /\ Busy(p)
    <3>1. OneTask /\ pc[t] # "idle" /\ p \in Point \ excused
      BY <1>0, <1>4 DEF IInv
    <3> QED BY <1>0, <3>1, WorkerIsAlone
  <2>3. \A u \in Task : pc'[u] # "idle" /\ point'[u] = p <=> pc[u] # "idle" /\ point[u] = p
    BY <1>0, <1>1, <2>1
  <2>4. Worker(p)' = t /\ Busy(p)'
    BY <2>2, <2>3 DEF Worker, Busy
  <2>5. Stage(p) = "store" /\ Stage(p)' = "tell" /\ From(p)' = From(p)
    BY <1>0, <1>1, <1>4, <2>1, <2>2, <2>4 DEF Stage, From
  <2>6. [q \in Point |-> Stage(q)]' = [[q \in Point |-> Stage(q)] EXCEPT ![p] = "tell"]
    BY <1>2, <2>5
  <2>7. [q \in Point |-> From(q)]' = [q \in Point |-> From(q)]
    BY <1>2, <2>5
  <2> QED BY <1>0, <1>1, <1>4, <2>1, <2>5, <2>6, <2>7 DEF Reg!Store
<1>5. CASE Persist(t) /\ p \in excused
  BY <1>0, <1>3, <1>5 DEF Persist
<1>6. CASE PersistFails(t)
  BY <1>0, <1>3, <1>6 DEF PersistFails
<1> QED BY <1>0, <1>4, <1>5, <1>6

\* An event that is handled tells the change with the value told before it.
LEMMA TellTells ==
  ASSUME TypeOK, IInv, NEW t \in Task, Tell(t)
  PROVE  Reg!Tell(point[t]) \/ Reg!GiveUp(point[t])
<1>0. PICK p \in Point : p = point[t] /\ pc[t] = "tell"
  BY DEF TypeOK, Tell
<1>1. /\ pc'[t] = "idle" /\ \A u \in Task \ {t} : pc'[u] = pc[u]
      /\ UNCHANGED <<point, old, new, mem, db, excused>>
      /\ told' = [told EXCEPT ![p] = new[t]]
      /\ \A q \in Point \ {p} : told'[q] = told[q]
  BY <1>0 DEF Tell, TypeOK
<1>2. \A q \in Point \ {p} : Stage(q)' = Stage(q) /\ From(q)' = From(q)
  <2> SUFFICES ASSUME NEW q \in Point, q # p
               PROVE  Stage(q)' = Stage(q) /\ From(q)' = From(q)
    OBVIOUS
  <2>1. \A u \in Task : \/ pc'[u] = pc[u] /\ point'[u] = point[u] /\ old'[u] = old[u]
                        \/ /\ pc[u] = "idle" \/ point[u] = p
                           /\ pc'[u] = "idle" \/ point'[u] = p
    BY <1>0, <1>1
  <2> QED BY <1>0, <1>1, <2>1, OthersKept
<1>3. CASE p \in excused
  <2>1. excused' = excused \cup {p}
    BY <1>1, <1>3
  <2> QED BY <1>0, <1>1, <1>2, <2>1, GivesUp
<1>4. CASE p \notin excused
  <2>1. new[t] = mem[p] /\ old[t] = told[p] /\ db[p] = mem[p]
    BY <1>0, <1>4 DEF IInv, TaskCarries
  <2>2. Worker(p) = t /\ Busy(p)
    <3>1. OneTask /\ pc[t] # "idle" /\ p \in Point \ excused
      BY <1>0, <1>4 DEF IInv
    <3> QED BY <1>0, <3>1, WorkerIsAlone
  <2>3. ~Busy(p)'
    BY <1>0, <1>1, <1>4 DEF Busy, IInv, OneTask
  <2>4. /\ Stage(p) = "tell" /\ Stage(p)' = "rest"
        /\ From(p) = told[p] /\ From(p)' = mem[p]
    BY <1>0, <1>1, <1>4, <2>1, <2>2, <2>3 DEF Stage, From
  <2>5. [q \in Point |-> Stage(q)]' = [[q \in Point |-> Stage(q)] EXCEPT ![p] = "rest"]
    BY <1>2, <2>4
  <2>6. [q \in Point |-> From(q)]' = [[q \in Point |-> From(q)] EXCEPT ![p] = mem[p]]
    BY <1>2, <2>4
  <2> QED BY <1>0, <1>1, <1>4, <2>1, <2>4, <2>5, <2>6 DEF Reg!Tell
<1> QED BY <1>0, <1>3, <1>4

\* A writer that is cancelled gives its point up.
LEMMA CancelGivesUp ==
  ASSUME TypeOK, NEW t \in Task, Cancel(t)
  PROVE  Reg!GiveUp(point[t])
<1>0. PICK p \in Point : p = point[t] /\ pc[t] # "idle"
  BY DEF TypeOK, Cancel
<1>1. /\ pc'[t] = "idle" /\ \A u \in Task \ {t} : pc'[u] = pc[u]
      /\ UNCHANGED <<point, old, mem>> /\ excused' = excused \cup {p}
      /\ \A q \in Point \ {p} : db'[q] = db[q] /\ told'[q] = told[q]
  BY <1>0 DEF Cancel, TypeOK
<1>2. \A q \in Point \ {p} : Stage(q)' = Stage(q) /\ From(q)' = From(q)
  <2> SUFFICES ASSUME NEW q \in Point, q # p
               PROVE  Stage(q)' = Stage(q) /\ From(q)' = From(q)
    OBVIOUS
  <2>1. \A u \in Task : \/ pc'[u] = pc[u] /\ point'[u] = point[u] /\ old'[u] = old[u]
                        \/ /\ pc[u] = "idle" \/ point[u] = p
                           /\ pc'[u] = "idle" \/ point'[u] = p
    BY <1>0, <1>1
  <2> QED BY <1>1, <2>1, OthersKept
<1> QED BY <1>0, <1>1, <1>2, GivesUp

\* A telegram gives its point up, for DeviceService does not hear of it.
LEMMA TelegramGivesUp ==
  ASSUME TypeOK, NEW p \in Point, NEW v \in Value, BusTelegram(p, v)
  PROVE  Reg!GiveUp(p)
<1>1. /\ excused' = excused \cup {p} /\ UNCHANGED <<pc, point, old, db, told>>
      /\ \A q \in Point \ {p} : mem'[q] = mem[q] /\ (q \in excused' <=> q \in excused)
  BY DEF BusTelegram, taskVars, TypeOK
<1>2. \A q \in Point \ {p} : Stage(q)' = Stage(q) /\ From(q)' = From(q)
  BY <1>1, OthersKept
<1> QED BY <1>1, <1>2, GivesUp

\* DeviceService implements Register: a point that is not excused takes a
\* change when the one before it is done, stores it and tells it.
THEOREM Refinement == Spec => ImplementsRegister
<1>1. Init => Reg!Init
  BY DEF Init, Reg!Init, Stage, From, Busy
<1>2. TypeOK /\ IInv /\ [Next]_vars => [Reg!Next]_(Reg!registerVars)
  <2> SUFFICES ASSUME TypeOK, IInv, [Next]_vars
               PROVE  Reg!Next \/ UNCHANGED Reg!registerVars
    OBVIOUS
  <2>1. ASSUME NEW t \in Task, NEW p \in Point, NEW v \in Value,
               WritePoint(t, p, v) \/ Ingest(t, p, v)
        PROVE  Reg!Next
    <3>1. pc[t] = "idle" /\ UNCHANGED <<db, told>> /\ \E who : Change(t, p, v, who)
      BY <2>1 DEF WritePoint, Ingest
    <3> QED BY <3>1, ChangeTakes DEF Reg!Next
  <2>2. ASSUME NEW p \in Point, NEW v \in Value, BusTelegram(p, v)
        PROVE  Reg!Next
    BY <2>2, TelegramGivesUp DEF Reg!Next
  <2>3. ASSUME NEW t \in Task, Persist(t) \/ PersistFails(t) \/ Tell(t) \/ Cancel(t)
        PROVE  Reg!Next
    <3>1. point[t] \in Point
      BY DEF TypeOK
    <3> QED BY <2>3, <3>1, PersistStores, TellTells, CancelGivesUp DEF Reg!Next
  <2>4. CASE UNCHANGED vars \/ \E t \in Task : WriteRefused(t)
    <3>1. UNCHANGED <<pc, point, old, mem, db, told, excused>>
      BY <2>4 DEF vars, taskVars, valueVars, WriteRefused
    <3>2. \A p \in Point : Stage(p)' = Stage(p) /\ From(p)' = From(p)
      BY <3>1 DEF Stage, From, Busy, Worker
    <3> QED BY <3>1, <3>2 DEF Reg!registerVars
  <2> QED BY <2>1, <2>2, <2>3, <2>4 DEF Next
<1> QED BY <1>1, <1>2, TypeCorrect, StrongInvariant, PTL DEF Spec, ImplementsRegister, Reg!Spec

-----------------------------------------------------------------------------
(***************************************************************************)
(* Signals                                                                 *)
(***************************************************************************)

\* What is taken of a way by a percentage is between nothing and all of it.
LEMMA ShareOf ==
  ASSUME NEW x \in Int, NEW n \in Int, NEW d \in Int, NEW q \in Int, 0 <= n, n <= d,
         d * q <= x * n, x * n < d * q + d
  PROVE  (x >= 0 => 0 <= q /\ q <= x) /\ (x <= 0 => x <= q /\ q <= 0)
<1> DEFINE m == x * n
<1>1. m \in Int
  OBVIOUS
<1>2. x >= 0 => 0 <= m /\ m <= d * x
  OBVIOUS
<1>3. x <= 0 => d * x <= m /\ m <= 0
  OBVIOUS
<1>4. d * q <= m /\ m < d * q + d
  OBVIOUS
<1> HIDE DEF m
<1>5. d > 0
  BY <1>4
<1>6. ASSUME NEW a \in Int, NEW b \in Int, d * a < d * b + d PROVE a <= b
  <2>1. SUFFICES ASSUME a >= b + 1 PROVE FALSE
    BY <1>6
  <2>2. d * a >= d * (b + 1)
    BY <1>5, <2>1
  <2> QED BY <1>6, <2>2
<1>7. CASE x >= 0
  <2>1. d * 0 < d * q + d /\ d * q < d * x + d
    BY <1>2, <1>4, <1>5, <1>7
  <2> QED BY <1>6, <1>7, <2>1, <1>5
<1>8. CASE x <= 0
  <2>1. d * x < d * q + d /\ d * q < d * 0 + d
    BY <1>3, <1>4, <1>5, <1>8
  <2> QED BY <1>6, <1>8, <2>1, <1>5
<1> QED BY <1>7, <1>8

\* The same of a percentage, as it is computed.
LEMMA PercentOf ==
  ASSUME NEW x \in Int, NEW n \in 0..100
  PROVE  LET q == (x * n) \div 100 IN
         q \in Int /\ (x >= 0 => 0 <= q /\ q <= x) /\ (x <= 0 => x <= q /\ q <= 0)
<1> DEFINE m == x * n
           q == m \div 100
<1>1. m \in Int
  OBVIOUS
<1> HIDE DEF m
<1>2. q \in Int /\ 100 * q <= m /\ m < 100 * q + 100
  BY <1>1
<1> HIDE DEF q
<1>3. 0 <= n /\ n <= 100 /\ n \in Int
  OBVIOUS
<1>4. (x >= 0 => 0 <= q /\ q <= x) /\ (x <= 0 => x <= q /\ q <= 0)
  BY <1>2, <1>3, ShareOf DEF m
<1> QED BY <1>2, <1>4 DEF q, m

Bounds == {<<>>} \cup {b \in Int \X Int : b[1] <= b[2]}

\* A clamped number is within the bounds, if these are in order.
LEMMA BoundWithin ==
  ASSUME NEW b \in Bounds, NEW v \in Int
  PROVE  Signal!Within(b, Signal!Bound(b, v)) /\ Signal!Bound(b, v) \in Int
<1>1. CASE b = <<>>
  BY <1>1 DEF Signal!Within, Signal!Bound
<1>2. CASE b # <<>>
  <2>1. b[1] \in Int /\ b[2] \in Int /\ b[1] <= b[2]
    BY <1>2 DEF Bounds
  <2> QED BY <1>2, <2>1 DEF Signal!Within, Signal!Bound, Signal!Clamp
<1> QED BY <1>1, <1>2

Numbers == Int \cup {Missing}

SignalModels ==
  {"constant", "sine", "random_walk", "gaussian_noise", "multistate_cycle", "square",
   "first_order_lag", "ramp", "pid_actuator", "derived", "world_var"}

SignalGenerators ==
  [model : SignalModels, bounds : Bounds, level : Int, amplitude : Int, percent : Int,
   states : Seq(Int), period : Nat \ {0}, rate : Nat, hold : BOOLEAN,
   kp : Int, ki : Int, kd : Int, reverse : BOOLEAN]

SignalStates == [value : Int, out : Int, integral : Int, error : Numbers]

SignalSteps ==
  [dt : Nat, seconds : Nat, noise : Int, sine : Int, target : Numbers, process : Numbers,
   result : Numbers, percent : 0..100]

\* What is given out, with or without noise, is within the bounds.
LEMMA FinishWithin ==
  ASSUME NEW g \in SignalGenerators, NEW t \in SignalSteps, NEW v \in Int
  PROVE  /\ Signal!Within(g.bounds, Signal!Finish(g, t, v))
         /\ Signal!Finish(g, t, v) \in Int
<1>1. g.bounds \in Bounds /\ v + t.noise \in Int
  BY DEF SignalGenerators, SignalSteps
<1> QED BY <1>1, BoundWithin DEF Signal!Finish

\* What is given out without being kept.
LEMMA Emitted ==
  ASSUME NEW s \in SignalStates, NEW out
  PROVE  Signal!Emit(s, out).out = out /\ Signal!Emit(s, out).value = s.value
BY DEF SignalStates, Signal!Emit

\* What is given out and kept.
LEMMA Kept ==
  ASSUME NEW s \in SignalStates, NEW v, NEW out
  PROVE  Signal!Keep(s, v, out).out = out /\ Signal!Keep(s, v, out).value = v
BY DEF SignalStates, Signal!Keep

\* Generators that hold no value of their own.
LEMMA FreeWithin ==
  ASSUME NEW g \in SignalGenerators, NEW s \in SignalStates, NEW t \in SignalSteps
  PROVE  /\ Signal!Within(g.bounds, Signal!Constant(g, s, t).out)
         /\ Signal!Within(g.bounds, Signal!Sine(g, s, t).out)
         /\ Signal!Within(g.bounds, Signal!GaussianNoise(g, s, t).out)
         /\ Signal!Within(g.bounds, Signal!Square(g, s, t).out)
<1>0. /\ g.level \in Int /\ g.amplitude \in Int /\ t.sine \in Int /\ t.noise \in Int
      /\ g.bounds \in Bounds
  BY DEF SignalGenerators, SignalSteps
<1>1. Signal!Within(g.bounds, Signal!Constant(g, s, t).out)
  BY <1>0, FinishWithin, Emitted DEF Signal!Constant
<1>2. Signal!Within(g.bounds, Signal!Sine(g, s, t).out)
  <2>1. g.level + (g.amplitude * t.sine) \div 1000 \in Int
    <3> DEFINE m == g.amplitude * t.sine
    <3>1. m \in Int
      BY <1>0
    <3> HIDE DEF m
    <3>2. g.level + m \div 1000 \in Int
      BY <1>0, <3>1
    <3> QED BY <3>2 DEF m
  <2> QED BY <2>1, FinishWithin, Emitted DEF Signal!Sine
<1>3. Signal!Within(g.bounds, Signal!GaussianNoise(g, s, t).out)
  <2>1. g.level + t.noise \in Int
    BY <1>0
  <2> QED BY <1>0, <2>1, BoundWithin, Emitted DEF Signal!GaussianNoise
<1>4. Signal!Within(g.bounds, Signal!Square(g, s, t).out)
  <2> DEFINE high == 100 * (t.seconds % g.period) < Signal!Clamp(0, 100, g.percent) * g.period
             v == IF high THEN g.level + g.amplitude ELSE g.level
  <2> HIDE DEF high
  <2>1. v \in Int
    BY <1>0
  <2> QED BY <2>1, FinishWithin, Emitted DEF Signal!Square, high
<1> QED BY <1>1, <1>2, <1>3, <1>4

\* A walk and what is derived keep what they give out.
LEMMA KeptWithin ==
  ASSUME NEW g \in SignalGenerators, NEW s \in SignalStates, NEW t \in SignalSteps
  PROVE  /\ Signal!Within(g.bounds, Signal!RandomWalk(g, s, t).out)
         /\ Signal!Within(g.bounds, Signal!Derived(g, s, t).out)
         /\ Signal!Within(g.bounds, Signal!WorldVar(g, s, t).out)
              \/ (t.target = Missing /\ Signal!WorldVar(g, s, t).out = s.value)
<1>0. /\ g.level \in Int /\ g.percent \in Int /\ t.noise \in Int /\ s.value \in Int
      /\ g.bounds \in Bounds /\ t.result \in Int \cup {Missing} /\ t.target \in Int \cup {Missing}
  BY DEF SignalGenerators, SignalSteps, SignalStates, Numbers
<1>1. Signal!Within(g.bounds, Signal!RandomWalk(g, s, t).out)
  <2> DEFINE drawn == s.value + t.noise
             m == (g.level - drawn) * g.percent
             v == Signal!Bound(g.bounds, drawn + m \div 100)
  <2>1. drawn \in Int
    BY <1>0
  <2>2. m \in Int
    BY <1>0, <2>1
  <2> HIDE DEF m
  <2>3. drawn + m \div 100 \in Int
    BY <2>1, <2>2
  <2>4. Signal!Within(g.bounds, v) /\ v \in Int
    BY <1>0, <2>3, BoundWithin
  <2>5. Signal!RandomWalk(g, s, t).out = v
    <3>1. Signal!RandomWalk(g, s, t) = Signal!Keep(s, v, v)
      BY DEF Signal!RandomWalk, m
    <3> QED BY <2>4, <3>1, Kept
  <2> QED BY <2>4, <2>5
<1>2. Signal!Within(g.bounds, Signal!Derived(g, s, t).out)
  <2>1. CASE t.result = Missing
    BY <1>0, <2>1, BoundWithin, Emitted, Kept DEF Signal!Derived
  <2>2. CASE t.result \in Int
    <3>1. t.result # Missing
      BY <2>2, MissingAssumption
    <3> QED BY <1>0, <2>2, <3>1, BoundWithin, Emitted, Kept DEF Signal!Derived
  <2> QED BY <1>0, <2>1, <2>2
<1>3. Signal!Within(g.bounds, Signal!WorldVar(g, s, t).out)
        \/ (t.target = Missing /\ Signal!WorldVar(g, s, t).out = s.value)
  <2>1. CASE t.target = Missing
    BY <1>0, <2>1, Emitted, Kept DEF Signal!WorldVar
  <2>2. CASE t.target # Missing
    <3> DEFINE m == g.percent * t.target
               v == Signal!Finish(g, t, m \div 100 + g.level)
    <3>1. m \in Int
      BY <1>0, <2>2
    <3> HIDE DEF m
    <3>2. m \div 100 + g.level \in Int
      BY <1>0, <3>1
    <3>3. Signal!Within(g.bounds, v) /\ v \in Int
      BY <3>2, FinishWithin
    <3>4. Signal!WorldVar(g, s, t) = Signal!Keep(s, v, v)
      BY <2>2 DEF Signal!WorldVar, m
    <3> QED BY <3>3, <3>4, Kept
  <2> QED BY <2>1, <2>2
<1> QED BY <1>1, <1>2, <1>3

\* What lies between two numbers, in either order.
Between(a, v, b) == (a <= v /\ v <= b) \/ (b <= v /\ v <= a)

\* A lag gives out a bounded value, and keeps one between the last and the target.
LEMMA LagFollows ==
  ASSUME NEW g \in SignalGenerators, NEW s \in SignalStates, NEW t \in SignalSteps
  PROVE  LET u == Signal!FirstOrderLag(g, s, t) IN
         /\ Signal!Within(g.bounds, u.out)
         /\ t.target # Missing => Between(s.value, u.value, t.target)
<1>0. s.value \in Int /\ t.target \in Int \cup {Missing} /\ t.percent \in 0..100
  BY DEF SignalSteps, SignalStates, Numbers
<1>1. CASE t.target = Missing
  BY <1>0, <1>1, FinishWithin, Emitted, Kept DEF Signal!FirstOrderLag
<1>2. CASE t.target # Missing
  <2> DEFINE x == t.target - s.value
             q == (x * t.percent) \div 100
             v == s.value + q
  <2>1. x \in Int /\ t.target \in Int
    BY <1>0, <1>2
  <2> HIDE DEF x
  <2>2. q \in Int /\ (x >= 0 => 0 <= q /\ q <= x) /\ (x <= 0 => x <= q /\ q <= 0)
    BY <1>0, <2>1, PercentOf
  <2> HIDE DEF q
  <2>3. v \in Int
    BY <1>0, <2>2
  <2>4. Between(s.value, v, t.target)
    BY <1>0, <2>1, <2>2 DEF Between, x
  <2> HIDE DEF v
  <2>5. Signal!FirstOrderLag(g, s, t) = Signal!Keep(s, v, Signal!Finish(g, t, v))
    BY <1>2 DEF Signal!FirstOrderLag, v, q, x
  <2> QED BY <2>3, <2>4, <2>5, FinishWithin, Kept
<1> QED BY <1>1, <1>2

\* A ramp gives out a bounded value, and one that holds does not pass its target.
LEMMA RampFollows ==
  ASSUME NEW g \in SignalGenerators, NEW s \in SignalStates, NEW t \in SignalSteps
  PROVE  LET u == Signal!Ramp(g, s, t) IN
         /\ Signal!Within(g.bounds, u.out)
         /\ g.hold => Between(s.value, u.value, g.level)
<1>0. s.value \in Int /\ g.level \in Int /\ g.rate \in Nat /\ t.dt \in Nat /\ g.hold \in BOOLEAN
  BY DEF SignalSteps, SignalStates, SignalGenerators
<1> DEFINE delta == g.level - s.value
           step == g.rate * t.dt
           v == IF delta \in (-step)..step /\ g.hold THEN g.level
                ELSE IF delta >= 0 THEN s.value + step ELSE s.value - step
<1>1. step \in Int /\ 0 <= step
  BY <1>0
<1> HIDE DEF step
<1>2. v \in Int
  BY <1>0, <1>1
<1>3. g.hold => Between(s.value, v, g.level)
  BY <1>0, <1>1 DEF Between
<1> HIDE DEF v
<1>4. Signal!Ramp(g, s, t) = Signal!Keep(s, v, Signal!Finish(g, t, v))
  BY DEF Signal!Ramp, v, step
<1> QED BY <1>2, <1>3, <1>4, FinishWithin, Kept

\* A controller gives out a bounded value, and does not wind up its integral.
LEMMA PidBounded ==
  ASSUME NEW g \in SignalGenerators, NEW s \in SignalStates, NEW t \in SignalSteps
  PROVE  LET u == Signal!PidActuator(g, s, t) IN
         /\ \/ Signal!Within(g.bounds, u.out)
            \/ u.out = s.value /\ (t.target = Missing \/ t.process = Missing)
         /\ Signal!Within(g.bounds, s.integral) => Signal!Within(g.bounds, u.integral)
<1>0. /\ t.process \in Int \cup {Missing} /\ t.target \in Int \cup {Missing}
      /\ s.error \in Int \cup {Missing} /\ t.dt \in Nat
      /\ s.integral \in Int /\ s.value \in Int /\ g.reverse \in BOOLEAN
      /\ g.kp \in Int /\ g.ki \in Int /\ g.kd \in Int /\ g.bounds \in Bounds
  BY DEF SignalSteps, SignalStates, Numbers, SignalGenerators
<1>1. CASE t.process = Missing \/ t.target = Missing
  <2>1. Signal!PidActuator(g, s, t) = Signal!Emit(s, s.value)
    BY <1>1 DEF Signal!PidActuator
  <2>2. /\ Signal!Emit(s, s.value).out = s.value
        /\ Signal!Emit(s, s.value).integral = s.integral
    BY DEF Signal!Emit, SignalStates
  <2> QED BY <1>1, <2>1, <2>2
<1>2. CASE t.process # Missing /\ t.target # Missing
  <2> DEFINE error == IF g.reverse THEN t.process - t.target ELSE t.target - t.process
             wound == s.integral + error * t.dt
             integral == Signal!Bound(g.bounds, wound)
             slope == IF s.error = Missing \/ t.dt <= 0 THEN 0 ELSE (error - s.error) \div t.dt
             sum == g.kp * error + g.ki * integral + g.kd * slope
             out == Signal!Bound(g.bounds, sum \div 1000)
  <2>1. error \in Int
    BY <1>0, <1>2
  <2> HIDE DEF error
  <2>2. wound \in Int
    BY <1>0, <2>1
  <2> HIDE DEF wound
  <2>3. integral \in Int /\ Signal!Within(g.bounds, integral)
    BY <1>0, <2>2, BoundWithin
  <2> HIDE DEF integral
  <2>4. slope \in Int
    <3>1. CASE s.error = Missing \/ t.dt <= 0
      BY <3>1
    <3>2. CASE s.error # Missing /\ ~(t.dt <= 0)
      <4>1. error - s.error \in Int /\ t.dt \in Nat /\ t.dt > 0
        BY <1>0, <2>1, <3>2
      <4> QED BY <3>2, <4>1
    <3> QED BY <3>1, <3>2
  <2> HIDE DEF slope
  <2>5. sum \in Int
    BY <1>0, <2>1, <2>3, <2>4
  <2> HIDE DEF sum
  <2>6. sum \div 1000 \in Int
    BY <2>5
  <2>7. Signal!Within(g.bounds, out)
    BY <1>0, <2>6, BoundWithin
  <2> HIDE DEF out
  <2>8. Signal!PidActuator(g, s, t) =
          [value |-> out, out |-> out, integral |-> integral, error |-> error]
    BY <1>2 DEF Signal!PidActuator, out, sum, slope, integral, wound, error
  <2> QED BY <2>3, <2>7, <2>8
<1> QED BY <1>1, <1>2

\* A step is the one of the model.
LEMMA StepOf ==
  ASSUME NEW g \in SignalGenerators, NEW s, NEW t
  PROVE  LET u == Signal!Step(g, s, t) IN
         /\ g.model = "constant" => u = Signal!Constant(g, s, t)
         /\ g.model = "sine" => u = Signal!Sine(g, s, t)
         /\ g.model = "random_walk" => u = Signal!RandomWalk(g, s, t)
         /\ g.model = "gaussian_noise" => u = Signal!GaussianNoise(g, s, t)
         /\ g.model = "square" => u = Signal!Square(g, s, t)
         /\ g.model = "first_order_lag" => u = Signal!FirstOrderLag(g, s, t)
         /\ g.model = "ramp" => u = Signal!Ramp(g, s, t)
         /\ g.model = "pid_actuator" => u = Signal!PidActuator(g, s, t)
         /\ g.model = "derived" => u = Signal!Derived(g, s, t)
         /\ g.model = "world_var" => u = Signal!WorldVar(g, s, t)
BY Zenon DEF Signal!Step

\* Whatever a generator is configured with, and whatever its references resolve
\* to, what it gives out is within its bounds, what follows a target does not
\* pass it, and a controller does not wind up its integral.
THEOREM SignalsStay ==
  ASSUME NEW g \in SignalGenerators, NEW s \in SignalStates, NEW t \in SignalSteps
  PROVE  Signal!InBounds(g, s, t) /\ Signal!Follows(g, s, t)
<1> DEFINE u == Signal!Step(g, s, t)
<1>0. g.model \in SignalModels
  BY DEF SignalGenerators
<1>1. CASE g.model \in {"constant", "sine", "gaussian_noise", "square"}
  <2>1. Signal!Within(g.bounds, u.out)
    BY <1>1, FreeWithin, StepOf
  <2> QED BY <1>1, <2>1 DEF Signal!InBounds, Signal!Follows
<1>2. CASE g.model \in {"random_walk", "derived"}
  <2>1. Signal!Within(g.bounds, u.out)
    BY <1>2, KeptWithin, StepOf
  <2> QED BY <1>2, <2>1 DEF Signal!InBounds, Signal!Follows
<1>3. CASE g.model = "world_var"
  <2>1. u = Signal!WorldVar(g, s, t)
    BY <1>3, StepOf
  <2> QED BY <1>3, <2>1, KeptWithin DEF Signal!InBounds, Signal!Follows
<1>4. CASE g.model = "multistate_cycle"
  BY <1>4 DEF Signal!InBounds, Signal!Follows
<1>5. CASE g.model = "first_order_lag"
  <2>1. u = Signal!FirstOrderLag(g, s, t)
    BY <1>5, StepOf
  <2>2. /\ Signal!Within(g.bounds, u.out)
        /\ t.target # Missing => Between(s.value, u.value, t.target)
    BY <2>1, LagFollows
  <2> QED BY <1>5, <2>2 DEF Signal!InBounds, Signal!Follows, Between
<1>6. CASE g.model = "ramp"
  <2>1. u = Signal!Ramp(g, s, t)
    BY <1>6, StepOf
  <2>2. Signal!Within(g.bounds, u.out) /\ (g.hold => Between(s.value, u.value, g.level))
    BY <2>1, RampFollows
  <2> QED BY <1>6, <2>2 DEF Signal!InBounds, Signal!Follows, Between
<1>7. CASE g.model = "pid_actuator"
  <2>1. u = Signal!PidActuator(g, s, t)
    BY <1>7, StepOf
  <2> QED BY <1>7, <2>1, PidBounded DEF Signal!InBounds, Signal!Follows
<1> QED BY <1>0, <1>1, <1>2, <1>3, <1>4, <1>5, <1>6, <1>7 DEF SignalModels

\* What relaxes comes nearer to its target and does not pass it.
LEMMA RelaxBetween ==
  ASSUME NEW v \in Int, NEW target \in Int, NEW share \in 0..100
  PROVE  /\ Signal!Relax(v, target, share) \in Int
         /\ Between(v, Signal!Relax(v, target, share), target)
<1> DEFINE x == target - v
           q == (x * share) \div 100
<1>1. x \in Int
  OBVIOUS
<1> HIDE DEF x
<1>2. q \in Int /\ (x >= 0 => 0 <= q /\ q <= x) /\ (x <= 0 => x <= q /\ q <= 0)
  BY <1>1, PercentOf
<1> HIDE DEF q
<1>3. Signal!Relax(v, target, share) = v + q
  BY DEF Signal!Relax, q, x
<1> QED BY <1>1, <1>2, <1>3 DEF Between, x

Worlds == [outdoor : Int, co2 : Int, humidity : Int, zone : Int]

\* The air stays between its levels, and an empty zone without heating or cooling
\* does not pass the outdoor temperature in steps of at most two hours.
THEOREM WorldSettles ==
  ASSUME NEW w \in Worlds, NEW mode, NEW hour, NEW outdoor \in Int, NEW dt \in Nat,
         NEW share \in 0..100, NEW cooling \in Int, NEW heating \in Int, NEW fan \in Numbers
  PROVE  Signal!WorldStays(w, mode, hour, outdoor, dt, share, cooling, heating, fan)
<1> DEFINE u == Signal!WorldStep(w, mode, hour, outdoor, dt, share, cooling, heating, fan)
           occupied == Signal!Occupied(mode, hour)
           people == IF occupied THEN 3000 ELSE 0
           flow == IF fan = Missing THEN 100 ELSE 20 + (80 * fan) \div 100
           authority == (12 * (heating - cooling) * flow) \div 10
           way == outdoor - w.zone + people + authority
           q == (way * dt) \div 7200
<1>0. w.co2 \in Int /\ w.humidity \in Int /\ w.zone \in Int
  BY DEF Worlds
<1>1. /\ u.co2 = Signal!Relax(w.co2, IF occupied
                                           THEN Signal!CO2Occupied
                                           ELSE Signal!CO2Empty, share)
      /\ u.humidity = Signal!Relax(w.humidity, IF occupied
                                                     THEN Signal!HumidityOccupied
                                                     ELSE Signal!HumidityEmpty, share)
      /\ u.zone = w.zone + q
  <2> DEFINE co2 == Signal!Relax(w.co2, IF occupied
                                          THEN Signal!CO2Occupied
                                          ELSE Signal!CO2Empty, share)
             humidity == Signal!Relax(w.humidity, IF occupied
                                                    THEN Signal!HumidityOccupied
                                                    ELSE Signal!HumidityEmpty, share)
             zone == w.zone + q
  <2>1. u = [outdoor |-> outdoor, co2 |-> co2, humidity |-> humidity, zone |-> zone]
    BY DEF Signal!WorldStep
  <2> HIDE DEF u, co2, humidity, zone
  <2>2. u.co2 = co2 /\ u.humidity = humidity /\ u.zone = zone
    BY <2>1
  <2> QED BY <2>2 DEF co2, humidity, zone
<1>2. flow \in Int
  BY DEF Numbers
<1> HIDE DEF u, flow, occupied, q
<1>3. ASSUME w.co2 \in Signal!CO2Empty..Signal!CO2Occupied
      PROVE  u.co2 \in Signal!CO2Empty..Signal!CO2Occupied
  <2> DEFINE low == Signal!CO2Empty
             high == Signal!CO2Occupied
  <2>1. low \in Int /\ high \in Int /\ low <= high
    BY DEF Signal!CO2Empty, Signal!CO2Occupied
  <2> DEFINE level == IF occupied THEN high ELSE low
  <2>2. u.co2 = Signal!Relax(w.co2, level, share) /\ (level = low \/ level = high)
    BY <1>1
  <2>3. w.co2 \in low..high
    BY <1>3
  <2> HIDE DEF low, high, level
  <2>4. level \in Int
    BY <2>1, <2>2
  <2>5. u.co2 \in Int /\ Between(w.co2, u.co2, level)
    <3> DEFINE r == Signal!Relax(w.co2, level, share)
    <3>1. r \in Int /\ Between(w.co2, r, level)
      BY <1>0, <2>4, RelaxBetween, Zenon
    <3> QED BY <2>2, <3>1, Zenon
  <2>6. u.co2 \in low..high
    BY <1>0, <2>1, <2>2, <2>3, <2>5 DEF Between
  <2> QED BY <2>6 DEF low, high
<1>4. ASSUME w.humidity \in Signal!HumidityEmpty..Signal!HumidityOccupied
      PROVE  u.humidity \in Signal!HumidityEmpty..Signal!HumidityOccupied
  <2> DEFINE low == Signal!HumidityEmpty
             high == Signal!HumidityOccupied
  <2>1. low \in Int /\ high \in Int /\ low <= high
    BY DEF Signal!HumidityEmpty, Signal!HumidityOccupied
  <2> DEFINE level == IF occupied THEN high ELSE low
  <2>2. u.humidity = Signal!Relax(w.humidity, level, share) /\ (level = low \/ level = high)
    BY <1>1
  <2>3. w.humidity \in low..high
    BY <1>4
  <2> HIDE DEF low, high, level
  <2>4. level \in Int
    BY <2>1, <2>2
  <2>5. u.humidity \in Int /\ Between(w.humidity, u.humidity, level)
    <3> DEFINE r == Signal!Relax(w.humidity, level, share)
    <3>1. r \in Int /\ Between(w.humidity, r, level)
      BY <1>0, <2>4, RelaxBetween, Zenon
    <3> QED BY <2>2, <3>1, Zenon
  <2>6. u.humidity \in low..high
    BY <1>0, <2>1, <2>2, <2>3, <2>5 DEF Between
  <2> QED BY <2>6 DEF low, high
<1>5. ASSUME dt <= 7200, heating = cooling, ~occupied
      PROVE  Between(w.zone, u.zone, outdoor)
  <2>1. authority = 0
    BY <1>2, <1>5
  <2> HIDE DEF authority
  <2>2. people = 0
    BY <1>5
  <2> HIDE DEF people
  <2>3. way \in Int /\ way = outdoor - w.zone
    BY <1>0, <2>1, <2>2
  <2> HIDE DEF way
  <2>4. q \in Int /\ (way >= 0 => 0 <= q /\ q <= way) /\ (way <= 0 => way <= q /\ q <= 0)
    <3> DEFINE m == way * dt
    <3>1. m \in Int
      BY <2>3
    <3> HIDE DEF m
    <3>2. q \in Int /\ 7200 * q <= m /\ m < 7200 * q + 7200
      BY <3>1, SMT DEF q, m
    <3>3. dt \in Int /\ 0 <= dt /\ dt <= 7200
      BY <1>5, SMT
    <3> QED BY <2>3, <3>2, <3>3, ShareOf, SMT DEF m
  <2>5. u.zone = w.zone + q
    BY <1>1, SMT
  <2>6. Between(w.zone, w.zone + q, outdoor)
    BY <1>0, <2>3, <2>4, SMT DEF Between
  <2> QED BY <2>5, <2>6, SMT
<1> QED BY <1>3, <1>4, <1>5 DEF Signal!WorldStays, Between, u, occupied

\* A set of numbers has a least one.
LEMMA HasLeast ==
  ASSUME NEW S \in SUBSET Nat, S # {}
  PROVE  \E m \in S : \A y \in S : m <= y
<1>1. PICK k \in S : \A y \in S : <<y, k>> \notin OpToRel(<, Nat)
  BY NatLessThanWellFounded, WFMin
<1>2. \A y \in Nat : y < k => <<y, k>> \in OpToRel(<, Nat)
  BY DEF OpToRel
<1>3. \A y \in S : k <= y
  <2>1. \A y \in S : y \in Nat /\ k \in Nat
    OBVIOUS
  <2>2. \A y \in S : ~(y < k)
    BY <1>1, <1>2, <2>1
  <2> QED BY <2>1, <2>2
<1> QED BY <1>3

\* The least of some indices is one of them.
LEMMA MinIsLeast ==
  ASSUME NEW S \in SUBSET Nat, S # {}
  PROVE  Signal!Min(S) \in S /\ \A i \in S : Signal!Min(S) <= i
BY HasLeast DEF Signal!Min

\* A reference is to the most exact fit, whatever comes first.
THEOREM ReferencesExact ==
  ASSUME NEW K, NEW keys \in Seq(K), NEW ref
  PROVE  Signal!ResolvesExactly(keys, ref)
<1> DEFINE I == 1..Len(keys)
           A == {i \in I : keys[i] = ref}
           B == {i \in I : Tail(keys[i]) = ref}
           C == {i \in I : <<Signal!Last(keys[i])>> = ref}
           least(S) == IF S # {} THEN Signal!Min(S) ELSE 0
           found == IF least(A) # 0 THEN least(A)
                    ELSE IF least(B) # 0 THEN least(B) ELSE least(C)
           Fit(k) == IF k = ref THEN 3 ELSE IF Tail(k) = ref THEN 2
                     ELSE IF <<Signal!Last(k)>> = ref THEN 1 ELSE 0
<1>1. Signal!Resolve(keys, ref) = found
  BY DEF Signal!Resolve, Signal!SelectInSeq
<1>2. I = DOMAIN keys /\ \A i \in I : i \in Nat /\ i > 0
  OBVIOUS
<1>3. \A i \in I : /\ i \in A => Fit(keys[i]) = 3
                   /\ i \in B \ A => Fit(keys[i]) = 2
                   /\ i \in C \ (A \cup B) => Fit(keys[i]) = 1
                   /\ i \notin A \cup B \cup C => Fit(keys[i]) = 0
  OBVIOUS
<1>4. A \subseteq I /\ B \subseteq I /\ C \subseteq I
  OBVIOUS
<1> HIDE DEF A, B, C, I, Fit
<1>5. \A S \in SUBSET I : /\ S = {} => least(S) = 0
                          /\ S # {} => least(S) \in S /\ least(S) # 0 /\ \A i \in S : least(S) <= i
  <2> SUFFICES ASSUME NEW S \in SUBSET I, S # {}
               PROVE  /\ Signal!Min(S) \in S /\ Signal!Min(S) # 0
                      /\ \A i \in S : Signal!Min(S) <= i
    OBVIOUS
  <2>1. S \in SUBSET Nat
    BY <1>2
  <2>2. Signal!Min(S) \in S /\ \A i \in S : Signal!Min(S) <= i
    BY <2>1, MinIsLeast
  <2> QED BY <1>2, <2>2
<1>6. \/ A # {} /\ found = least(A)
      \/ A = {} /\ B # {} /\ found = least(B)
      \/ A = {} /\ B = {} /\ found = least(C)
  BY <1>4, <1>5
<1> HIDE DEF least, found
<1>7. IF found = 0 THEN \A i \in I : Fit(keys[i]) = 0
      ELSE Fit(keys[found]) > 0 /\ \A i \in I :
             Fit(keys[i]) <= Fit(keys[found]) /\ (Fit(keys[i]) = Fit(keys[found]) => found <= i)
  <2>1. CASE A # {} /\ found = least(A)
    <3>1. found \in A /\ found # 0 /\ \A i \in A : found <= i
      BY <1>4, <1>5, <2>1
    <3>2. \A i \in I : Fit(keys[i]) \in 0..3 /\ (Fit(keys[i]) = 3 => i \in A)
      BY <1>3
    <3> QED BY <1>3, <1>4, <3>1, <3>2
  <2>2. CASE A = {} /\ B # {} /\ found = least(B)
    <3>1. found \in B /\ found # 0 /\ \A i \in B : found <= i
      BY <1>4, <1>5, <2>2
    <3>2. \A i \in I : Fit(keys[i]) \in 0..2 /\ (Fit(keys[i]) = 2 => i \in B)
      BY <1>3, <2>2
    <3> QED BY <1>3, <1>4, <2>2, <3>1, <3>2
  <2>3. CASE A = {} /\ B = {} /\ found = least(C) /\ C # {}
    <3>1. found \in C /\ found # 0 /\ \A i \in C : found <= i
      BY <1>4, <1>5, <2>3
    <3>2. \A i \in I : Fit(keys[i]) \in 0..1 /\ (Fit(keys[i]) = 1 => i \in C)
      BY <1>3, <2>3
    <3> QED BY <1>3, <1>4, <2>3, <3>1, <3>2
  <2>4. CASE A = {} /\ B = {} /\ found = least(C) /\ C = {}
    BY <1>3, <1>4, <1>5, <2>4
  <2> QED BY <1>6, <2>1, <2>2, <2>3, <2>4
<1> QED BY <1>1, <1>2, <1>7 DEF Signal!ResolvesExactly, Fit

\* What is asked of the signals: generators, their states and what a step brings.
LEMMA AskedOfSignals ==
  /\ Generators \subseteq SignalGenerators
  /\ States \subseteq SignalStates
  /\ Steps \subseteq SignalSteps
<1>1. ASSUME NEW g \in Generators PROVE g \in SignalGenerators
  <2>1. PICK model \in SignalModels, bounds \in {<<>>, <<-2, 5>>}, level \in {-3, 4},
             flag \in BOOLEAN :
          g = [model |-> model, bounds |-> bounds, level |-> level, amplitude |-> 3,
               percent |-> 50, states |-> <<9, 1>>, period |-> 3, rate |-> 2, hold |-> flag,
               kp |-> 1000, ki |-> 100, kd |-> 500, reverse |-> flag]
    BY DEF Generators, Models, SignalModels
  <2>2. bounds \in Bounds /\ <<9, 1>> \in Seq(Int)
    BY DEF Bounds
  <2> QED BY <2>1, <2>2 DEF SignalGenerators
<1>2. ASSUME NEW s \in States PROVE s \in SignalStates
  BY DEF States, SignalStates, Numbers
<1>3. ASSUME NEW t \in Steps PROVE t \in SignalSteps
  BY DEF Steps, SignalSteps, Numbers
<1> QED BY <1>1, <1>2, <1>3, Zenon

\* What is asked of the references: lists of keys.
LEMMA AskedOfReferences == KeyLists \subseteq Seq(Keys)
<1> DEFINE K == Keys
<1> HIDE DEF K
<1>1. \A a, b, c \in K : <<a, b>> \in Seq(K) /\ <<a, b, c>> \in Seq(K)
  OBVIOUS
<1>2. <<>> \in Seq(K)
  OBVIOUS
<1>3. ASSUME NEW l \in K \X K PROVE l \in Seq(K)
  <2>1. PICK a \in K, b \in K : l = <<a, b>>
    OBVIOUS
  <2> QED BY <1>1, <2>1
<1>4. ASSUME NEW l \in K \X K \X K PROVE l \in Seq(K)
  <2>1. PICK a \in K, b \in K, c \in K : l = <<a, b, c>>
    OBVIOUS
  <2> QED BY <1>1, <2>1
<1> QED BY <1>2, <1>3, <1>4, Zenon DEF KeyLists, K

\* What is asked of the world: the air, and what acts on it.
LEMMA AskedOfWorld ==
  /\ Airs \subseteq Worlds
  /\ Outdoors \subseteq Int /\ Durations \subseteq Nat
  /\ Shares \subseteq 0..100 /\ Openings \subseteq Int
  /\ {Missing, 0, 60} \subseteq Numbers
<1>1. Airs \subseteq Worlds
  BY DEF Airs, Worlds
<1>2. /\ Outdoors \subseteq Int /\ Durations \subseteq Nat
      /\ Shares \subseteq 0..100 /\ Openings \subseteq Int
  BY DEF Outdoors, Durations, Shares, Openings
<1>3. {Missing, 0, 60} \subseteq Numbers
  BY DEF Numbers
<1> QED BY <1>1, <1>2, <1>3

\* Every question about the signals is answered as it should be.
LEMMA AnsweredRight ==
  ASSUME CallNext
  PROVE  SignalsInBounds'
<1> USE DEF Asked
<1>1. CASE Simulate
  <2>1. PICK g \in Generators, s \in States, t \in Steps : call' = <<g, s, t>>
    BY <1>1, ZenonT(60) DEF Simulate
  <2>2. g \in SignalGenerators /\ s \in SignalStates /\ t \in SignalSteps
    BY AskedOfSignals, Zenon
  <2>3. Signal!InBounds(g, s, t) /\ Signal!Follows(g, s, t)
    BY <2>2, SignalsStay, Zenon
  <2>4. topic' = "signal"
    BY <1>1, Zenon DEF Simulate
  <2>5. call'[1] = g /\ call'[2] = s /\ call'[3] = t
    BY <2>1
  <2> QED BY <2>3, <2>4, <2>5 DEF SignalsInBounds
<1>2. CASE Refer
  <2>1. PICK keys \in KeyLists, ref \in Keys \cup {<<"a">>, <<"b">>, <<"c">>, <<"z">>} :
          call' = <<keys, ref>>
    BY <1>2, Zenon DEF Refer
  <2>2. keys \in Seq(Keys)
    BY AskedOfReferences, Zenon
  <2>3. Signal!ResolvesExactly(keys, ref)
    BY <2>2, ReferencesExact, Zenon
  <2>4. topic' = "reference"
    BY <1>2, Zenon DEF Refer
  <2>5. call'[1] = keys /\ call'[2] = ref
    BY <2>1
  <2> QED BY <2>3, <2>4, <2>5 DEF SignalsInBounds
<1>3. CASE Weather
  <2>1. PICK w \in Airs, mode \in {"24x7", "office", "none"}, hour \in {6, 7, 18, 19},
             outdoor \in Outdoors, dt \in Durations, share \in Shares,
             cooling \in Openings, heating \in Openings, fan \in {Missing, 0, 60} :
          call' = <<w, mode, hour, outdoor, dt, share, cooling, heating, fan>>
    BY <1>3, Zenon DEF Weather
  <2>2. /\ w \in Worlds /\ outdoor \in Int /\ dt \in Nat /\ share \in 0..100
        /\ cooling \in Int /\ heating \in Int /\ fan \in Numbers
    BY AskedOfWorld, Zenon
  <2>3. Signal!WorldStays(w, mode, hour, outdoor, dt, share, cooling, heating, fan)
    BY <2>2, WorldSettles, ZenonT(60)
  <2>4. topic' = "world"
    BY <1>3, Zenon DEF Weather
  <2>5. /\ call'[1] = w /\ call'[2] = mode /\ call'[3] = hour /\ call'[4] = outdoor
        /\ call'[5] = dt /\ call'[6] = share /\ call'[7] = cooling /\ call'[8] = heating
        /\ call'[9] = fan
    BY <2>1
  <2> QED BY <2>3, <2>4, <2>5 DEF SignalsInBounds
<1>4. CASE Send \/ Address \/ Exchange \/ Publish \/ ImportProject
           \/ ImportTable \/ Sweep \/ Probe \/ Multiply \/ Foretell
           \/ Assess
  <2>1. Send => topic' = "bus"
    BY Zenon DEF Send
  <2>2. Address => topic' = "address"
    BY Zenon DEF Address
  <2>3. Exchange => topic' = "forms"
    BY Zenon DEF Exchange
  <2>4. Publish => topic' = "topics"
    BY Zenon DEF Publish
  <2>5. ImportProject => topic' = "project"
    BY Zenon DEF ImportProject
  <2>6. ImportTable => topic' = "table"
    BY Zenon DEF ImportTable
  <2>7. Sweep => topic' = "sweep"
    BY Zenon DEF Sweep
  <2>8. Probe => topic' = "units"
    BY Zenon DEF Probe
  <2>9. Multiply => topic' = "fleet"
    BY Zenon DEF Multiply
  <2>10. Foretell => topic' = "prediction"
    BY Zenon DEF Foretell
  <2>11. Assess => topic' = "health"
    BY Zenon DEF Assess
  <2>12. topic' \notin {"signal", "reference", "world"}
    BY <1>4, <2>1, <2>2, <2>3, <2>4, <2>5, <2>6, <2>7, <2>8, <2>9, <2>10, <2>11
  <2> QED BY <2>12 DEF SignalsInBounds
<1> QED BY <1>1, <1>2, <1>3, <1>4 DEF CallNext

\* The signals keep within their bounds and follow what they are told to, a
\* reference is to the point that is meant, and the air stays between its levels.
THEOREM SignalsAreRight == CallSpec => []SignalsInBounds
<1>1. CallInit => SignalsInBounds
  BY DEF CallInit, SignalsInBounds
<1>2. SignalsInBounds /\ [CallNext]_calculations => SignalsInBounds'
  <2>1. CASE CallNext
    BY <2>1, AnsweredRight
  <2>2. CASE UNCHANGED calculations
    BY <2>2 DEF calculations, SignalsInBounds
  <2> QED BY <2>1, <2>2
<1> QED BY <1>1, <1>2, PTL DEF CallSpec

(***************************************************************************)
(* Conversions: what goes out comes back                                   *)
(***************************************************************************)
\* What is put on the bus and taken off it, by the type.
LEMMA EncodeBit ==
  ASSUME NEW v, NEW dpt, Codec!DptMain(dpt) = 1
  PROVE  Codec!Encode(v, dpt) = [binary |-> TRUE, bytes |-> <<IF v = 0 THEN 0 ELSE 1>>]
<1>1. 1 # 5 /\ 1 # 9
  OBVIOUS
<1> QED BY <1>1, Zenon DEF Codec!Encode

\* A text has no float.
LEMMA EncodeText ==
  ASSUME NEW dpt, Codec!DptMain(dpt) \in {5, 9}
  PROVE  Codec!Encode(Text, dpt) = Codec!NotSent
<1>1. 1 # 5 /\ 1 # 9 /\ 5 # 1 /\ 9 # 1
  OBVIOUS
<1> QED BY <1>1, Zenon DEF Codec!Encode

\* A percentage is scaled, another value of DPT 5 is cut.
LEMMA EncodeByte ==
  ASSUME NEW v, v # Text, NEW dpt, Codec!DptMain(dpt) = 5,
         NEW octet, octet = IF dpt = <<5, 1>> THEN Codec!Scaled(v) ELSE Codec!Whole(v)
  PROVE  Codec!Encode(v, dpt) = Codec!Telegram(<<Codec!Clamp(0, 255, octet)>>)
<1>1. 1 # 5 /\ 5 # 1 /\ 5 # 9
  OBVIOUS
<1> QED BY <1>1, ZenonT(60) DEF Codec!Encode

\* DPT 9 is sent as a float of two bytes.
LEMMA EncodeFloat ==
  ASSUME NEW v, v # Text, NEW dpt, Codec!DptMain(dpt) = 9
  PROVE  Codec!Encode(v, dpt) = Codec!Telegram(Codec!Float16(v))
<1>1. 1 # 9 /\ 9 # 1 /\ 5 # 9 /\ 9 # 5
  OBVIOUS
<1> QED BY <1>1, Zenon DEF Codec!Encode

\* A value of another type is sent as one byte.
LEMMA EncodeOther ==
  ASSUME NEW v, NEW dpt, Codec!DptMain(dpt) \notin {1, 5, 9}
  PROVE  Codec!Encode(v, dpt) = Codec!Telegram(<<IF v = Text THEN 0 ELSE Codec!Whole(v) % 256>>)
BY Zenon DEF Codec!Encode

\* What arrives as a bit, or for DPT 1, is read as a switch.
LEMMA DecodeBit ==
  ASSUME NEW sent, NEW dpt, sent.bytes # <<>>, sent.binary \in BOOLEAN,
         sent.binary \/ Codec!DptMain(dpt) = 1
  PROVE  Codec!Decode(sent, dpt) = IF sent.bytes[1] = 0 THEN 0 ELSE 100
<1>1. 1 # 9 /\ (dpt = <<5, 1>> => Codec!DptMain(dpt) # 1)
  BY DEF Codec!DptMain
<1> QED BY <1>1, Zenon DEF Codec!Decode

\* DPT 9 is read as a float of two bytes.
LEMMA DecodeFloat ==
  ASSUME NEW sent, NEW dpt, sent.bytes # <<>>, sent.binary = FALSE, Codec!DptMain(dpt) = 9
  PROVE  Codec!Decode(sent, dpt) = Codec!Float16Decode(sent.bytes)
<1>1. 9 # 1 /\ (dpt = <<5, 1>> => Codec!DptMain(dpt) # 9)
  BY DEF Codec!DptMain
<1> QED BY <1>1, Zenon DEF Codec!Decode

\* DPT 5.001 is read as a percentage.
LEMMA DecodePercent ==
  ASSUME NEW sent, NEW dpt, sent.bytes # <<>>, sent.binary = FALSE, dpt = <<5, 1>>
  PROVE  Codec!Decode(sent, dpt) = Codec!Percentage(sent.bytes[1])
<1>1. Codec!DptMain(dpt) # 1 /\ Codec!DptMain(dpt) # 9
  BY DEF Codec!DptMain
<1> QED BY <1>1, Zenon DEF Codec!Decode

\* What arrives for another type is read as one byte.
LEMMA DecodeByte ==
  ASSUME NEW sent, NEW dpt, sent.bytes # <<>>, sent.binary = FALSE,
         Codec!DptMain(dpt) \notin {1, 9}, dpt # <<5, 1>>
  PROVE  Codec!Decode(sent, dpt) = 100 * sent.bytes[1]
BY Zenon DEF Codec!Decode

\* A division with rounding is within half a step.
LEMMA RoundNear ==
  ASSUME NEW n \in Int, NEW d \in Nat \ {0}
  PROVE  /\ Codec!Round(n, d) \in Int
         /\ 2 * (d * Codec!Round(n, d) - n) <= d
         /\ 2 * (n - d * Codec!Round(n, d)) <= d
<1> DEFINE q == n \div d
           r == n % d
<1>1. q \in Int /\ r \in Int /\ n = d * q + r /\ 0 <= r /\ r < d
  OBVIOUS
<1>2. Codec!Round(n, d) = q \/ (Codec!Round(n, d) = q + 1 /\ ~(2 * r < d))
  BY Zenon DEF Codec!Round
<1>3. Codec!Round(n, d) = q => 2 * r <= d
  <2>1. Codec!Round(n, d) = IF 2 * r < d \/ (2 * r = d /\ q % 2 = 0) THEN q ELSE q + 1
    BY Zenon DEF Codec!Round
  <2> QED BY <1>1, <2>1
<1> HIDE DEF q, r
<1>4. d * (q + 1) = d * q + d
  BY <1>1
<1> QED BY <1>1, <1>2, <1>3, <1>4

\* The whole part of a number is a number.
LEMMA WholeIsNumber ==
  ASSUME NEW v \in Int
  PROVE  Codec!Whole(v) \in Int
<1>1. v \div 100 \in Int /\ (-v) \div 100 \in Int
  OBVIOUS
<1> QED BY <1>1 DEF Codec!Whole

\* A percentage is read back to a quarter of one, if it is one, and as the nearest if not.
LEMMA PercentBack ==
  ASSUME NEW v \in Int
  PROVE  LET byte == Codec!Clamp(0, 255, Codec!Scaled(v)) IN
         Codec!Clamp(0, 10000, v) - Codec!Percentage(byte) \in -25..25
<1> DEFINE m == Codec!Round(v * 255, 10000)
           byte == Codec!Clamp(0, 255, m)
           b == Codec!Round(byte * 1000, 255)
           c == Codec!Clamp(0, 10000, v)
<1>1. m \in Int /\ 2 * (10000 * m - v * 255) <= 10000 /\ 2 * (v * 255 - 10000 * m) <= 10000
  <2> DEFINE n == v * 255
  <2>1. n \in Int /\ 10000 \in Nat \ {0}
    OBVIOUS
  <2> HIDE DEF n
  <2>2. /\ Codec!Round(n, 10000) \in Int
        /\ 2 * (10000 * Codec!Round(n, 10000) - n) <= 10000
        /\ 2 * (n - 10000 * Codec!Round(n, 10000)) <= 10000
    BY <2>1, RoundNear, SMT
  <2> QED BY <2>2, SMT DEF n
<1> HIDE DEF m
<1>2. byte = IF m < 0 THEN 0 ELSE IF m > 255 THEN 255 ELSE m
  BY DEF Codec!Clamp
<1>3. byte \in 0..255
  BY <1>1, <1>2
<1> HIDE DEF byte
<1>4. b \in Int /\ 2 * (255 * b - byte * 1000) <= 255 /\ 2 * (byte * 1000 - 255 * b) <= 255
  <2> DEFINE n == byte * 1000
  <2>1. n \in Int /\ 255 \in Nat \ {0}
    BY <1>3
  <2> HIDE DEF n
  <2>2. /\ Codec!Round(n, 255) \in Int
        /\ 2 * (255 * Codec!Round(n, 255) - n) <= 255
        /\ 2 * (n - 255 * Codec!Round(n, 255)) <= 255
    BY <2>1, RoundNear, SMT
  <2> QED BY <2>2, SMT DEF n
<1> HIDE DEF b
<1>5. c = IF v < 0 THEN 0 ELSE IF v > 10000 THEN 10000 ELSE v
  BY SMT DEF Codec!Clamp
<1> HIDE DEF c
<1>6. c - 10 * b \in -25..25
  BY <1>1, <1>2, <1>3, <1>4, <1>5, SMT
<1> QED BY <1>6, SMT DEF c, b, byte, m, Codec!Scaled, Codec!Percentage

\* The powers of two that the exponents of DPT 9 stand for.
LEMMA PowersOfTwo == \A e \in 0..15 : 2^e \in Nat \ {0}
<1>1. /\ 2^0 = 1 /\ 2^1 = 2 /\ 2^2 = 4 /\ 2^3 = 8 /\ 2^4 = 16 /\ 2^5 = 32 /\ 2^6 = 64 /\ 2^7 = 128
      /\ 2^8 = 256 /\ 2^9 = 512 /\ 2^10 = 1024 /\ 2^11 = 2048 /\ 2^12 = 4096 /\ 2^13 = 8192
      /\ 2^14 = 16384 /\ 2^15 = 32768
  OBVIOUS
<1>2. /\ 2^0 \in Nat \ {0} /\ 2^1 \in Nat \ {0} /\ 2^2 \in Nat \ {0} /\ 2^3 \in Nat \ {0}
      /\ 2^4 \in Nat \ {0} /\ 2^5 \in Nat \ {0} /\ 2^6 \in Nat \ {0} /\ 2^7 \in Nat \ {0}
      /\ 2^8 \in Nat \ {0} /\ 2^9 \in Nat \ {0} /\ 2^10 \in Nat \ {0} /\ 2^11 \in Nat \ {0}
      /\ 2^12 \in Nat \ {0} /\ 2^13 \in Nat \ {0} /\ 2^14 \in Nat \ {0} /\ 2^15 \in Nat \ {0}
  BY <1>1, SMT
<1>3. \A e \in 0..15 : \/ e = 0 \/ e = 1 \/ e = 2 \/ e = 3 \/ e = 4 \/ e = 5 \/ e = 6 \/ e = 7
                       \/ e = 8 \/ e = 9 \/ e = 10 \/ e = 11 \/ e = 12 \/ e = 13 \/ e = 14 \/ e = 15
  OBVIOUS
<1> QED BY <1>2, <1>3, Zenon

\* The greatest of them.
LEMMA TopPower == 2^15 = 32768
OBVIOUS

\* What DPT 9 can carry is halved at most fifteen times.
LEMMA HalvingsOf ==
  ASSUME NEW v \in Codec!Float16Range
  PROVE  /\ v \in Int /\ Codec!Halvings(v) \in 0..15
         /\ v \div 2^Codec!Halvings(v) \in Codec!Mantissas
<1> DEFINE Fits(e) == v \div 2^e \in Codec!Mantissas
           least(e) == Fits(e) /\ \A i \in 0..(e - 1) : ~Fits(i)
           S == {e \in 0..15 : Fits(e)}
<1>1. v \in Int /\ -2048 * 32768 <= v /\ v <= 2048 * 32768 - 1
  <2>1. 2^15 = 32768
    OBVIOUS
  <2> QED BY <2>1, SMT DEF Codec!Float16Range, Codec!MantissaSize
<1>2. Fits(15)
  <2>1. 2^15 = 32768
    OBVIOUS
  <2>2. v \div 32768 \in Codec!Mantissas
    BY <1>1, SMT DEF Codec!Mantissas, Codec!MantissaSize
  <2> QED BY <2>1, <2>2
<1>3. Codec!Halvings(v) = CHOOSE e \in 0..31 : least(e)
  BY DEF Codec!Halvings
<1> HIDE DEF Fits
<1>4. S \in SUBSET Nat /\ S # {}
  BY <1>2, SMT
<1>5. PICK m \in S : \A y \in S : m <= y
  BY <1>4, HasLeast, Zenon
<1>6. m \in 0..15 /\ least(m)
  BY <1>5, SMT
<1>7. Codec!Halvings(v) \in 0..31 /\ least(Codec!Halvings(v))
  <2>1. m \in 0..31
    BY <1>6, SMT
  <2> QED BY <1>3, <1>6, <2>1, Zenon
<1>8. Codec!Halvings(v) <= m
  BY <1>6, <1>7, SMT
<1>9. Codec!Halvings(v) \in 0..15
  BY <1>6, <1>7, <1>8, SMT
<1>10. Fits(Codec!Halvings(v))
  BY <1>7, Zenon
<1>11. v \in Int
  BY <1>1
<1> QED BY <1>9, <1>10, <1>11, Zenon DEF Fits

\* A word of sign, exponent and mantissa is taken apart as it was put together.
LEMMA WordBack ==
  ASSUME NEW e \in Int, NEW q \in Codec!Mantissas, NEW v \in Int, 0 <= e, e <= 15,
         q < 0 <=> v < 0
  PROVE  LET word == (IF v < 0 THEN Codec!SignBit ELSE 0) + e * Codec!MantissaSize
                       + (q % Codec!MantissaSize) IN
         /\ word \in Int /\ (word \div 256) * 256 + (word % 256) = word
         /\ (word % Codec!MantissaSize)
              - (IF word >= Codec!SignBit THEN Codec!MantissaSize ELSE 0) = q
         /\ (word \div Codec!MantissaSize) % 16 = e
<1> DEFINE m == q % Codec!MantissaSize
           k == (IF v < 0 THEN 16 ELSE 0) + e
           word == (IF v < 0 THEN Codec!SignBit ELSE 0) + e * Codec!MantissaSize + m
<1> USE DEF Codec!MantissaSize
<1>0. q \in Int /\ -Codec!MantissaSize <= q /\ q <= 2047
  BY DEF Codec!Mantissas, Codec!MantissaSize
<1>1. m = IF v < 0 THEN q + Codec!MantissaSize ELSE q
  <2>1. CASE v < 0
    <3>1. /\ q = Codec!MantissaSize * (-1) + (q + Codec!MantissaSize)
          /\ 0 <= q + Codec!MantissaSize /\ q + Codec!MantissaSize < Codec!MantissaSize
      BY <1>0, <2>1
    <3> QED BY <1>0, <2>1, <3>1
  <2>2. CASE ~(v < 0)
    BY <1>0, <2>2
  <2> QED BY <2>1, <2>2
<1>2. m \in Int /\ 0 <= m /\ m < Codec!MantissaSize
  BY <1>0, <1>1
<1> HIDE DEF m
<1>3. word = Codec!MantissaSize * k + m /\ (word >= Codec!SignBit <=> v < 0)
  BY <1>2 DEF Codec!SignBit, Codec!MantissaSize
<1>4. k \in Int /\ k % 16 = e
  OBVIOUS
<1> HIDE DEF k, word
<1>5. word \in Int /\ word % Codec!MantissaSize = m /\ word \div Codec!MantissaSize = k
  BY <1>2, <1>3, <1>4
<1>6. (word \div 256) * 256 + (word % 256) = word
  BY <1>5
<1>7. (word % Codec!MantissaSize) - (IF word >= Codec!SignBit THEN Codec!MantissaSize ELSE 0) = q
  BY <1>0, <1>1, <1>3, <1>5
<1> HIDE DEF Codec!MantissaSize
<1> QED BY <1>4, <1>5, <1>6, <1>7, Zenon DEF word, m

\* A division rounds down by less than the divisor, and keeps the sign.
LEMMA RoundedDown ==
  ASSUME NEW v \in Int, NEW p \in Nat \ {0}
  PROVE  v \div p \in Int /\ v - (v \div p) * p \in 0..(p - 1) /\ (v \div p < 0 <=> v < 0)
<1> DEFINE q == v \div p
<1>1. q \in Int /\ p * q <= v /\ v < p * q + p
  OBVIOUS
<1> HIDE DEF q
<1>2. CASE q < 0
  BY <1>1, <1>2
<1>3. CASE q >= 0
  BY <1>1, <1>3
<1> QED BY <1>1, <1>2, <1>3 DEF q

\* DPT 9 rounds down to a multiple of its step.
LEMMA Float16Back ==
  ASSUME NEW v \in Codec!Float16Range
  PROVE  v - Codec!Float16Decode(Codec!Float16(v)) \in 0..(2^Codec!Halvings(v) - 1)
<1> DEFINE e == Codec!Halvings(v)
           Power(i) == 2^i
           p == Power(e)
           q == v \div p
           m == q % Codec!MantissaSize
           word == (IF v < 0 THEN Codec!SignBit ELSE 0) + e * Codec!MantissaSize + m
<1>1. v \in Int /\ e \in 0..15 /\ q \in Codec!Mantissas
  BY HalvingsOf, Zenon
<1>2. p \in Nat \ {0}
  BY <1>1, PowersOfTwo, Zenon
<1>3. Codec!Float16(v) = <<word \div 256, word % 256>>
  <2>1. ~(e >= 16) /\ e % 16 = e
    <3> HIDE DEF e
    <3> QED BY <1>1, SMT
  <2> QED BY <2>1, ZenonT(60) DEF Codec!Float16
<1> HIDE DEF e, Power
<1>4. q \in Int /\ v - q * p \in 0..(p - 1) /\ (q < 0 <=> v < 0)
  BY <1>1, <1>2, RoundedDown, Zenon
<1> HIDE DEF p, q
<1>5. e \in Int /\ 0 <= e /\ e <= 15
  BY <1>1, SMT
<1>6. /\ word \in Int /\ (word \div 256) * 256 + (word % 256) = word
      /\ (word % Codec!MantissaSize) - (IF word >= Codec!SignBit THEN Codec!MantissaSize ELSE 0) = q
      /\ (word \div Codec!MantissaSize) % 16 = e
  BY <1>1, <1>4, <1>5, WordBack, ZenonT(60)
<1> HIDE DEF m, word
<1>7. Codec!Float16Decode(<<word \div 256, word % 256>>) = q * Power(e)
  <2> DEFINE bytes == <<word \div 256, word % 256>>
  <2>1. ~(Len(bytes) < 2) /\ bytes[1] * 256 + bytes[2] = word
    BY <1>6
  <2> HIDE DEF bytes
  <2>2. Codec!Float16Decode(bytes) =
          ((word % Codec!MantissaSize) - (IF word >= Codec!SignBit THEN Codec!MantissaSize ELSE 0))
            * 2^((word \div Codec!MantissaSize) % 16)
    BY <2>1, ZenonT(60) DEF Codec!Float16Decode
  <2> QED BY <1>6, <2>2, ZenonT(60) DEF Power, bytes
<1>8. v - q * p \in 0..(p - 1)
  BY <1>4
<1> QED BY <1>3, <1>7, <1>8, Zenon DEF p, e, Power

\* The powers of two that an exponent of five bits stands for.
LEMMA HighPowers == \A e \in 16..30 : 2^e = 2^16 * 2^(e - 16) /\ 2^(e - 16) \in Nat \ {0}
<1> DEFINE P(i) == 2^i
<1>1. /\ P(16) = P(16) * P(0) /\ P(17) = P(16) * P(1) /\ P(18) = P(16) * P(2) /\ P(19) = P(16) * P(3)
      /\ P(20) = P(16) * P(4) /\ P(21) = P(16) * P(5) /\ P(22) = P(16) * P(6) /\ P(23) = P(16) * P(7)
      /\ P(24) = P(16) * P(8) /\ P(25) = P(16) * P(9) /\ P(26) = P(16) * P(10) /\ P(27) = P(16) * P(11)
      /\ P(28) = P(16) * P(12) /\ P(29) = P(16) * P(13) /\ P(30) = P(16) * P(14)
  OBVIOUS
<1>2. /\ P(0) \in Nat \ {0} /\ P(1) \in Nat \ {0} /\ P(2) \in Nat \ {0} /\ P(3) \in Nat \ {0} /\ P(4) \in Nat \ {0}
      /\ P(5) \in Nat \ {0} /\ P(6) \in Nat \ {0} /\ P(7) \in Nat \ {0} /\ P(8) \in Nat \ {0} /\ P(9) \in Nat \ {0}
      /\ P(10) \in Nat \ {0} /\ P(11) \in Nat \ {0} /\ P(12) \in Nat \ {0} /\ P(13) \in Nat \ {0} /\ P(14) \in Nat \ {0}
  OBVIOUS
<1> HIDE DEF P
<1>3. \A e \in 16..30 : P(e) = P(16) * P(e - 16) /\ P(e - 16) \in Nat \ {0}
  BY <1>1, <1>2, SMTT(60)
<1> QED BY <1>3, Zenon DEF P

\* The greatest of the first sixteen.
LEMMA PowersBelow == \A e \in 0..15 : 2^e <= 2^15
<1> DEFINE P(i) == 2^i
<1>1. /\ P(0) <= P(15) /\ P(1) <= P(15) /\ P(2) <= P(15) /\ P(3) <= P(15) /\ P(4) <= P(15) /\ P(5) <= P(15)
      /\ P(6) <= P(15) /\ P(7) <= P(15) /\ P(8) <= P(15) /\ P(9) <= P(15) /\ P(10) <= P(15) /\ P(11) <= P(15)
      /\ P(12) <= P(15) /\ P(13) <= P(15) /\ P(14) <= P(15) /\ P(15) <= P(15)
  OBVIOUS
<1> HIDE DEF P
<1>2. \A e \in 0..15 : P(e) <= P(15)
  BY <1>1, SMTT(60)
<1> QED BY <1>2, Zenon DEF P

\* What the mantissa holds after fifteen halvings, DPT 9 can carry.
LEMMA CarriedRange ==
  ASSUME NEW v \in Int, NEW top \in Int, top = 2^15, -2048 * top <= v, v <= 2048 * top - 1
  PROVE  v \in Codec!Float16Range
<1> DEFINE low == -2048 * top
           high == 2048 * top - 1
<1>1. Codec!Float16Range = low..high
  BY DEF Codec!Float16Range, Codec!MantissaSize
<1>2. low \in Int /\ high \in Int /\ low <= v /\ v <= high
  OBVIOUS
<1> HIDE DEF low, high
<1>3. v \in low..high
  BY <1>2
<1> QED BY <1>1, <1>3

\* What DPT 9 cannot carry is halved sixteen times or more.
LEMMA HalvingsBeyond ==
  ASSUME NEW v \in Int, v \notin Codec!Float16Range, v \div 2^30 \in Codec!Mantissas
  PROVE  /\ Codec!Halvings(v) \in 16..30
         /\ v \div 2^Codec!Halvings(v) \in Codec!Mantissas
<1> DEFINE Fits(e) == v \div 2^e \in Codec!Mantissas
           least(e) == Fits(e) /\ \A i \in 0..(e - 1) : ~Fits(i)
           S == {e \in 0..30 : Fits(e)}
           h == Codec!Halvings(v)
<1>1. Fits(30)
  OBVIOUS
<1>2. h = CHOOSE e \in 0..31 : least(e)
  BY DEF Codec!Halvings
<1>3. ASSUME NEW e \in 0..15 PROVE ~Fits(e)
  <2> SUFFICES ASSUME Fits(e) PROVE FALSE
    OBVIOUS
  <2> DEFINE p == 2^e
             q == v \div p
             top == 2^15
  <2>1. p \in Nat \ {0} /\ p <= top
    BY PowersOfTwo, PowersBelow, Zenon
  <2>2. top = 32768
    OBVIOUS
  <2>3. q \in Codec!Mantissas
    BY Zenon
  <2> HIDE DEF p, top
  <2>4. q \in Int /\ v - q * p \in 0..(p - 1)
    BY <2>1, RoundedDown, Zenon
  <2> HIDE DEF q
  <2>5. -2048 <= q /\ q <= 2047
    BY <2>3, <2>4 DEF Codec!Mantissas, Codec!MantissaSize
  <2> DEFINE w == q * p
  <2>6. w \in Int /\ -2048 * p <= w /\ w <= 2047 * p
    BY <2>1, <2>4, <2>5
  <2>7. v - w \in 0..(p - 1)
    BY <2>4
  <2> HIDE DEF w
  <2>8. -2048 * top <= v /\ v <= 2048 * top - 1
    BY <2>1, <2>2, <2>6, <2>7
  <2>9. top \in Int /\ top = 2^15
    BY <2>2 DEF top
  <2>10. v \in Codec!Float16Range
    BY <2>8, <2>9, CarriedRange
  <2> QED BY <2>10
<1> HIDE DEF Fits, h
<1>4. S \in SUBSET Nat /\ S # {}
  BY <1>1, SMT
<1>5. PICK m \in S : \A y \in S : m <= y
  BY <1>4, HasLeast, Zenon
<1>6. m \in 0..30 /\ least(m)
  BY <1>5, SMT
<1>7. h \in 0..31 /\ least(h)
  <2>1. m \in 0..31
    BY <1>6, SMT
  <2> QED BY <1>2, <1>6, <2>1, Zenon
<1>8. h <= m
  BY <1>6, <1>7, SMT
<1>9. h \in 16..30
  BY <1>3, <1>6, <1>7, <1>8, SMT
<1> QED BY <1>7, <1>9, Zenon DEF Fits, h

\* Its fifth bit of exponent is read as the sign.
LEMMA Float16Beyond ==
  ASSUME NEW v \in Int, v \notin Codec!Float16Range, v \div 2^30 \in Codec!Mantissas
  PROVE  Codec!TurnsNegative(v, Codec!Float16Decode(Codec!Float16(v)))
<1> DEFINE e == Codec!Halvings(v)
           Power(i) == 2^i
           p == Power(e)
           q == v \div p
           m == q % Codec!MantissaSize
           n == m - Codec!MantissaSize
           k == e - 16
           word == Codec!SignBit + k * Codec!MantissaSize + m
           back == Codec!Float16Decode(<<word \div 256, word % 256>>)
<1>1. e \in 16..30 /\ q \in Codec!Mantissas
  BY HalvingsBeyond, Zenon
<1>2. p = Power(16) * Power(k) /\ Power(k) \in Nat \ {0}
  BY <1>1, HighPowers, Zenon
<1>3. Power(16) = 65536
  OBVIOUS
<1>4. Codec!Float16(v) = <<word \div 256, word % 256>>
  <2>1. e >= 16 /\ e % 16 = k
    <3> HIDE DEF e
    <3> QED BY <1>1, SMT
  <2> QED BY <2>1, ZenonT(60) DEF Codec!Float16
<1> HIDE DEF e, Power
<1>5. p \in Nat \ {0}
  BY <1>2, <1>3
<1>6. q \in Int /\ v - q * p \in 0..(p - 1) /\ (q < 0 <=> v < 0)
  BY <1>5, RoundedDown, Zenon
<1> HIDE DEF p, q
<1>7. m \in 0..2047 /\ (q < 0 => m = q + 2048)
  <2>1. -2048 <= q /\ q <= 2047
    BY <1>1 DEF Codec!Mantissas, Codec!MantissaSize
  <2> QED BY <1>6, <2>1 DEF Codec!MantissaSize
<1> HIDE DEF m
<1>8. /\ k \in Int /\ 0 <= k /\ k <= 15 /\ n \in Codec!Mantissas
      /\ n < 0 /\ n % Codec!MantissaSize = m
  BY <1>1, <1>7 DEF Codec!Mantissas, Codec!MantissaSize
<1> DEFINE below == -1
<1>15. below \in Int /\ below < 0 /\ (n < 0 <=> below < 0)
  BY <1>8
<1> HIDE DEF n, k, below
<1> DEFINE same == (IF below < 0 THEN Codec!SignBit ELSE 0) + k * Codec!MantissaSize
                     + (n % Codec!MantissaSize)
<1>9. word = same
  BY <1>8, <1>15, Zenon
<1>16. /\ same \in Int /\ (same \div 256) * 256 + (same % 256) = same
       /\ (same % Codec!MantissaSize)
            - (IF same >= Codec!SignBit THEN Codec!MantissaSize ELSE 0) = n
       /\ (same \div Codec!MantissaSize) % 16 = k
  BY <1>8, <1>15, WordBack, ZenonT(60)
<1> HIDE DEF same
<1>10. /\ word \in Int /\ (word \div 256) * 256 + (word % 256) = word
       /\ (word % Codec!MantissaSize)
            - (IF word >= Codec!SignBit THEN Codec!MantissaSize ELSE 0) = n
       /\ (word \div Codec!MantissaSize) % 16 = k
  <2> HIDE DEF word
  <2> QED BY <1>9, <1>16, Zenon
<1> HIDE DEF word
<1>11. back = n * Power(k)
  <2> DEFINE bytes == <<word \div 256, word % 256>>
  <2>1. ~(Len(bytes) < 2) /\ bytes[1] * 256 + bytes[2] = word
    BY <1>10
  <2> HIDE DEF bytes
  <2>2. Codec!Float16Decode(bytes) =
          ((word % Codec!MantissaSize) - (IF word >= Codec!SignBit THEN Codec!MantissaSize ELSE 0))
            * 2^((word \div Codec!MantissaSize) % 16)
    BY <2>1, ZenonT(60) DEF Codec!Float16Decode
  <2> QED BY <1>10, <2>2, ZenonT(60) DEF Power, bytes
<1> HIDE DEF back
<1>12. n \in Int /\ n < 0
  BY <1>7 DEF n, Codec!MantissaSize
<1>13. back \in Int /\ back < 0
  BY <1>2, <1>11, <1>12
<1>14. v < 0 => v - Power(16) * back \in 0..(p - 1)
  <2> HAVE v < 0
  <2>1. n = q
    BY <1>6, <1>7 DEF n, Codec!MantissaSize
  <2>2. Power(16) * back = q * p
    BY <1>2, <1>3, <1>6, <1>11, <2>1
  <2> QED BY <1>6, <2>2, Zenon
<1> QED BY <1>4, <1>13, <1>14, Zenon DEF Codec!TurnsNegative, p, e, Power, back

\* A group address is written by its parts and read back.
LEMMA AddressBack ==
  ASSUME NEW n \in Nat, n < 65536
  PROVE  Codec!GaToRaw(Codec!RawToGa(n)) = n
<1> DEFINE a == (n \div 2048) % 32
           b == (n \div 256) % 8
           c == n % 256
           ga == Codec!RawToGa(n)
<1>1. ga[1] = a /\ ga[2] = b /\ ga[3] = c
  BY DEF Codec!RawToGa
<1> HIDE DEF ga
<1>2. a * 2048 + b * 256 + c = n
  BY SMT
<1> HIDE DEF a, b, c
<1>3. Codec!GaToRaw(ga) = ga[1] * 2048 + ga[2] * 256 + ga[3]
  BY DEF Codec!GaToRaw
<1> QED BY <1>1, <1>2, <1>3 DEF ga

\* Whatever the type of a point, a value that it can carry is read back as it was,
\* to the resolution of the type.
THEOREM KnxBack ==
  ASSUME NEW v \in Int \cup {Text}, NEW dpt \in Seq(Int)
  PROVE  Codec!KnxReadsBack(v, dpt)
<1> DEFINE main == Codec!DptMain(dpt)
           sent == Codec!Encode(v, dpt)
           back == Codec!Decode(sent, dpt)
<1>1. dpt = <<5, 1>> => main = 5
  BY DEF Codec!DptMain
<1>2. \A bytes : /\ Codec!Telegram(bytes).binary = FALSE
                 /\ Codec!Telegram(bytes).bytes = bytes
  BY DEF Codec!Telegram
<1>3. \A b : <<b>> # <<>> /\ <<b>>[1] = b
  OBVIOUS
<1>4. main = 1 => back = IF v = 0 THEN 0 ELSE 100
  <2> HAVE main = 1
  <2>1. sent = [binary |-> TRUE, bytes |-> <<IF v = 0 THEN 0 ELSE 1>>]
    BY EncodeBit
  <2>2. sent.bytes # <<>> /\ sent.binary = TRUE /\ (sent.bytes[1] = 0 <=> v = 0)
    <3> HIDE DEF sent
    <3> QED BY <2>1
  <2> HIDE DEF sent
  <2>3. back = IF sent.bytes[1] = 0 THEN 0 ELSE 100
    BY <2>2, DecodeBit
  <2> QED BY <2>2, <2>3, Zenon
<1>5. ASSUME main \notin {1, 9}, dpt # <<5, 1>>, NEW b, sent = Codec!Telegram(<<b>>)
      PROVE  back = 100 * b
  <2> HIDE DEF sent, main
  <2>0. sent.binary = FALSE /\ sent.bytes = <<b>>
    BY <1>2, <1>5, Zenon
  <2>1. sent.binary = FALSE /\ sent.bytes # <<>> /\ sent.bytes[1] = b
    BY <1>3, <2>0, Zenon
  <2>2. back = 100 * sent.bytes[1]
    BY <1>5, <2>1, DecodeByte, Zenon DEF main
  <2> QED BY <2>1, <2>2, Zenon
<1>6. v = Text => sent = Codec!NotSent \/ back \in {0, 100}
  <2> HAVE v = Text
  <2>1. CASE main = 1
    BY <1>4, <2>1, Zenon
  <2>2. CASE main \in {5, 9}
    BY <2>2, EncodeText
  <2>3. CASE main \notin {1, 5, 9}
    <3>1. sent = Codec!Telegram(<<0>>)
      BY <2>3, EncodeOther, Zenon
    <3>2. main \notin {1, 9} /\ dpt # <<5, 1>>
      BY <1>1, <2>3
    <3>3. back = 100 * 0
      <4> HIDE DEF sent, back, main
      <4> QED BY <1>5, <3>1, <3>2, Zenon
    <3> QED BY <3>3
  <2> QED BY <2>1, <2>2, <2>3
<1>7. v # Text /\ dpt = <<5, 1>> => Codec!PercentageKept(v, back)
  <2> HAVE v # Text /\ dpt = <<5, 1>>
  <2> DEFINE byte == Codec!Clamp(0, 255, Codec!Scaled(v))
  <2>1. sent = Codec!Telegram(<<byte>>)
    BY <1>1, EncodeByte
  <2> HIDE DEF sent, byte
  <2>2. sent.binary = FALSE /\ sent.bytes # <<>> /\ sent.bytes[1] = byte
    BY <1>2, <1>3, <2>1, ZenonT(60)
  <2>3. back = Codec!Percentage(sent.bytes[1])
    BY <2>2, DecodePercent, Zenon
  <2>4. v \in Int
    OBVIOUS
  <2>5. Codec!Clamp(0, 10000, v) - Codec!Percentage(byte) \in -25..25
    BY <2>4, PercentBack DEF byte
  <2> HIDE DEF back
  <2> QED BY <2>2, <2>3, <2>5 DEF Codec!PercentageKept
<1>8. v # Text /\ main = 5 /\ dpt # <<5, 1>> => back = 100 * Codec!Clamp(0, 255, Codec!Whole(v))
  <2> HAVE v # Text /\ main = 5 /\ dpt # <<5, 1>>
  <2> DEFINE byte == Codec!Clamp(0, 255, Codec!Whole(v))
  <2>1. sent = Codec!Telegram(<<byte>>)
    BY EncodeByte
  <2>2. main \notin {1, 9}
    OBVIOUS
  <2> HIDE DEF sent, back, byte
  <2>3. back = 100 * byte
    BY <1>5, <2>1, <2>2, Zenon
  <2> QED BY <2>3 DEF byte
<1>9. v # Text /\ main = 9 /\ v \in Codec!Float16Range =>
        v - back \in 0..(2^Codec!Halvings(v) - 1)
  <2> HAVE v # Text /\ main = 9 /\ v \in Codec!Float16Range
  <2>1. sent = Codec!Telegram(Codec!Float16(v))
    BY EncodeFloat, Zenon
  <2>2. Codec!Float16(v) # <<>>
    BY SMT DEF Codec!Float16
  <2> HIDE DEF sent
  <2>3. sent.binary = FALSE /\ sent.bytes = Codec!Float16(v) /\ sent.bytes # <<>>
    BY <1>2, <2>1, <2>2, Zenon
  <2>4. back = Codec!Float16Decode(Codec!Float16(v))
    BY <2>3, DecodeFloat, Zenon
  <2> QED BY <2>4, Float16Back, Zenon
<1>11. /\ v # Text /\ main = 9 /\ v \notin Codec!Float16Range
       /\ v \div 2^30 \in Codec!Mantissas
       => Codec!TurnsNegative(v, back)
  <2> HAVE /\ v # Text /\ main = 9 /\ v \notin Codec!Float16Range
           /\ v \div 2^30 \in Codec!Mantissas
  <2>1. sent = Codec!Telegram(Codec!Float16(v))
    BY EncodeFloat, Zenon
  <2>2. Codec!Float16(v) # <<>>
    BY SMT DEF Codec!Float16
  <2> HIDE DEF sent
  <2>3. sent.binary = FALSE /\ sent.bytes = Codec!Float16(v) /\ sent.bytes # <<>>
    BY <1>2, <2>1, <2>2, Zenon
  <2>4. back = Codec!Float16Decode(Codec!Float16(v))
    BY <2>3, DecodeFloat, Zenon
  <2>5. v \in Int
    BY Zenon
  <2> QED BY <2>4, <2>5, Float16Beyond, Zenon
<1>10. v # Text /\ main \notin {1, 5, 9} /\ Codec!Whole(v) \in 0..255 => back = 100 * Codec!Whole(v)
  <2> HAVE v # Text /\ main \notin {1, 5, 9} /\ Codec!Whole(v) \in 0..255
  <2>1. Codec!Whole(v) % 256 = Codec!Whole(v)
    <3> DEFINE w == Codec!Whole(v)
    <3> HIDE DEF w
    <3>1. w \in 0..255
      BY DEF w
    <3>2. w % 256 = w
      BY <3>1
    <3> QED BY <3>2 DEF w
  <2>2. sent = Codec!Telegram(<<Codec!Whole(v)>>)
    BY <2>1, EncodeOther
  <2>3. main \notin {1, 9} /\ dpt # <<5, 1>>
    BY <1>1
  <2> HIDE DEF sent, back
  <2> QED BY <1>5, <2>2, <2>3, Zenon
<1> HIDE DEF sent, back, main
<1> QED BY <1>4, <1>6, <1>7, <1>8, <1>9, <1>10, <1>11, Zenon DEF Codec!KnxReadsBack, main, sent, back

FormTypes == {"bool", "int", "float", "text"}
FormOf == [bool |-> {"none"}, int |-> {"none"}, float |-> {"point", "exponent"},
           text |-> Forms!Words \cup Forms!Numeric \cup {"true", "false"}]

\* A value of one of the four types; booleans are 0 or 1, integers and digits are whole.
FormValues ==
  {value \in [type : FormTypes, v : Int, form : UNION {FormOf[t] : t \in FormTypes}] :
     /\ value.form \in FormOf[value.type]
     /\ value.type = "bool" => value.v \in {0, 100}
     /\ value.type = "int" \/ value.form = "digits" => value.v % 100 = 0
     /\ value.type = "text" /\ value.form \notin Forms!Numeric => value.v = 0}

\* What a value of each type looks like.
LEMMA FormFacts ==
  ASSUME NEW value \in FormValues
  PROVE  /\ value = [type |-> value.type, v |-> value.v, form |-> value.form]
         /\ value.v \in Int
         /\ \/ value.type = "bool" /\ value.form = "none" /\ value.v \in {0, 100}
            \/ value.type = "int" /\ value.form = "none" /\ value.v % 100 = 0
            \/ value.type = "float" /\ value.form \in {"point", "exponent"}
            \/ /\ value.type = "text"
               /\ value.form \in Forms!Words \cup Forms!Numeric \cup {"true", "false"}
               /\ value.form \notin Forms!Numeric => value.v = 0
               /\ value.form = "digits" => value.v % 100 = 0
<1> DEFINE All == UNION {FormOf[t] : t \in FormTypes}
<1>1. value \in [type : FormTypes, v : Int, form : All]
  BY Zenon DEF FormValues
<1>2. value = [type |-> value.type, v |-> value.v, form |-> value.form] /\ value.v \in Int
  <2> HIDE DEF All
  <2> QED BY <1>1
<1>3. value.type \in FormTypes
  BY <1>1
<1>4. /\ value.form \in FormOf[value.type]
      /\ value.type = "bool" => value.v \in {0, 100}
      /\ value.type = "int" \/ value.form = "digits" => value.v % 100 = 0
      /\ value.type = "text" /\ value.form \notin Forms!Numeric => value.v = 0
  BY Zenon DEF FormValues
<1>5. /\ FormOf["bool"] = {"none"} /\ FormOf["int"] = {"none"}
      /\ FormOf["float"] = {"point", "exponent"}
      /\ FormOf["text"] = Forms!Words \cup Forms!Numeric \cup {"true", "false"}
  BY DEF FormOf
<1> QED BY <1>2, <1>3, <1>4, <1>5 DEF FormTypes

\* What SQLite gets, by the type of the value.
LEMMA PrintedOf ==
  ASSUME NEW value
  PROVE  /\ value.type = "bool" =>
              Forms!Printed(value) = Forms!TextOf(IF value.v = 0 THEN "false" ELSE "true", 0)
         /\ value.type = "int" => Forms!Printed(value) = Forms!TextOf("digits", value.v)
         /\ value.type = "float" => Forms!Printed(value) = Forms!TextOf(value.form, value.v)
         /\ value.type = "text" => Forms!Printed(value) = value
BY Zenon DEF Forms!Printed

\* What is read from SQLite, by the form of the text.
LEMMA ParsedOf ==
  ASSUME NEW raw
  PROVE  /\ raw.form = "true" => Forms!ParseValue(raw) = Forms!BoolOf(TRUE)
         /\ raw.form = "false" => Forms!ParseValue(raw) = Forms!BoolOf(FALSE)
         /\ raw.form = "point" => Forms!ParseValue(raw) = Forms!FloatOf(raw.v)
         /\ raw.form = "digits" =>
              Forms!ParseValue(raw) = [type |-> "int", v |-> raw.v, form |-> "none"]
         /\ raw.form \notin {"true", "false", "point", "digits"} => Forms!ParseValue(raw) = raw
<1>1. "true" = "true" /\ "false" # "true"
  OBVIOUS
<1>2. raw.form = "true" => Forms!ParseValue(raw) = Forms!BoolOf("true" = "true")
  BY Zenon DEF Forms!ParseValue
<1>3. raw.form = "false" => Forms!ParseValue(raw) = Forms!BoolOf("false" = "true")
  BY Zenon DEF Forms!ParseValue
<1>4. raw.form = "point" => Forms!ParseValue(raw) = Forms!FloatOf(raw.v)
  BY Zenon DEF Forms!ParseValue
<1>5. raw.form = "digits" =>
        Forms!ParseValue(raw) = [type |-> "int", v |-> raw.v, form |-> "none"]
  BY Zenon DEF Forms!ParseValue
<1>6. raw.form \notin {"true", "false", "point", "digits"} => Forms!ParseValue(raw) = raw
  BY Zenon DEF Forms!ParseValue
<1>7. Forms!BoolOf("true" = "true") = Forms!BoolOf(TRUE)
  BY DEF Forms!BoolOf
<1>8. Forms!BoolOf("false" = "true") = Forms!BoolOf(FALSE)
  BY DEF Forms!BoolOf
<1> QED BY <1>2, <1>3, <1>4, <1>5, <1>6, <1>7, <1>8, Zenon

\* A value comes out of SQLite as it went in, with the exceptions that are named.
THEOREM StoredBack ==
  ASSUME NEW value \in FormValues
  PROVE  Forms!StoredReadsBack(value)
<1> DEFINE raw == Forms!Printed(value)
           back == Forms!ParseValue(raw)
<1>0. \A f, n : /\ Forms!TextOf(f, n).form = f /\ Forms!TextOf(f, n).v = n
                /\ Forms!TextOf(f, n).type = "text"
  BY DEF Forms!TextOf
<1>1. CASE value.type = "bool"
  <2>1. value.v = 0 \/ value.v = 100
    BY <1>1, FormFacts
  <2>2. back = Forms!BoolOf(value.v # 0)
    <3>0. raw.form = IF value.v = 0 THEN "false" ELSE "true"
      <4>1. raw = Forms!TextOf(IF value.v = 0 THEN "false" ELSE "true", 0)
        BY <1>1, PrintedOf
      <4> HIDE DEF raw
      <4> QED BY <1>0, <4>1
    <3> HIDE DEF raw
    <3>1. CASE value.v = 0
      BY <3>0, <3>1, ParsedOf
    <3>2. CASE value.v # 0
      BY <3>0, <3>2, ParsedOf
    <3> QED BY <3>1, <3>2
  <2> HIDE DEF back
  <2>3. back = value
    BY <1>1, <2>1, <2>2, FormFacts DEF Forms!BoolOf
  <2> QED BY <1>1, <2>3 DEF Forms!StoredReadsBack, back
<1>2. CASE value.type = "int"
  <2>1. back = [type |-> "int", v |-> value.v, form |-> "none"]
    <3>1. raw.form = "digits" /\ raw.v = value.v
      <4>1. raw = Forms!TextOf("digits", value.v)
        BY <1>2, PrintedOf
      <4> HIDE DEF raw
      <4> QED BY <1>0, <4>1
    <3> HIDE DEF raw
    <3> QED BY <3>1, ParsedOf
  <2> HIDE DEF back
  <2>2. back = value
    BY <1>2, <2>1, FormFacts
  <2> QED BY <1>2, <2>2 DEF Forms!StoredReadsBack, back
<1>3. CASE value.type = "float"
  <2>1. raw.type = "text" /\ raw.form = value.form /\ raw.v = value.v
    BY <1>0, <1>3, PrintedOf
  <2>2. value.form = "point" \/ value.form = "exponent"
    BY <1>3, FormFacts
  <2> HIDE DEF raw
  <2>3. back = IF value.form = "point" THEN Forms!FloatOf(value.v) ELSE raw
    BY <2>1, <2>2, ParsedOf
  <2> HIDE DEF back
  <2>4. back = value <=> value.form = "point"
    BY <1>3, <2>1, <2>2, <2>3, FormFacts DEF Forms!FloatOf
  <2> QED BY <1>3, <2>4 DEF Forms!StoredReadsBack, back, raw
<1>4. CASE value.type = "text"
  <2>1. raw = value
    BY <1>4, PrintedOf
  <2>2. back = value <=> value.form \notin {"true", "false", "point", "digits"}
    <3>1. value.form \in {"true", "false", "point", "digits"} => back.type # "text"
      BY <2>1, ParsedOf DEF Forms!BoolOf, Forms!FloatOf
    <3>2. value.form \notin {"true", "false", "point", "digits"} => back = value
      BY <2>1, ParsedOf
    <3> QED BY <1>4, <3>1, <3>2
  <2>3. value.form \in Forms!Words \cup {"exponent"} <=>
          value.form \notin {"true", "false", "point", "digits"}
    BY <1>4, FormFacts DEF Forms!Words, Forms!Numeric
  <2> HIDE DEF back
  <2> QED BY <1>4, <2>2, <2>3 DEF Forms!StoredReadsBack, back, raw
<1> QED BY <1>1, <1>2, <1>3, <1>4, FormFacts

\* The object that is built, by the kind of the point.
LEMMA LocalObjectOf ==
  ASSUME NEW value, NEW kind
  PROVE  /\ kind = "binary" =>
              Forms!LocalObject(value, kind)
                = Forms!TextOf(IF Forms!Truthy(value) THEN "active" ELSE "inactive", 0)
         /\ kind = "analog" /\ value.type = "bool" =>
              Forms!LocalObject(value, kind) = Forms!FloatOf(0)
         /\ kind = "multi" /\ value.type = "bool" =>
              Forms!LocalObject(value, kind) = Forms!IntOf(1)
         /\ kind = "analog" /\ value.type # "bool" =>
              Forms!LocalObject(value, kind)
                = IF Forms!HasFloat(value) THEN Forms!FloatOf(value.v) ELSE Forms!Refused
         /\ kind = "multi" /\ value.type # "bool" =>
              Forms!LocalObject(value, kind)
                = IF Forms!HasInt(value) THEN Forms!IntOf(Forms!Whole(value.v)) ELSE Forms!Refused
<1>1. "binary" # "analog" /\ "binary" # "multi" /\ "analog" # "multi"
  OBVIOUS
<1>2. kind = "binary" =>
        Forms!LocalObject(value, kind)
          = Forms!TextOf(IF Forms!Truthy(value) THEN "active" ELSE "inactive", 0)
  BY <1>1, Zenon DEF Forms!LocalObject
<1>3. kind = "analog" /\ value.type = "bool" =>
        Forms!LocalObject(value, kind) = Forms!FloatOf(0)
  BY <1>1, Zenon DEF Forms!LocalObject
<1>4. kind = "multi" /\ value.type = "bool" =>
        Forms!LocalObject(value, kind) = Forms!IntOf(1)
  BY <1>1, Zenon DEF Forms!LocalObject
<1>5. kind = "analog" /\ value.type # "bool" =>
        Forms!LocalObject(value, kind)
          = IF Forms!HasFloat(value) THEN Forms!FloatOf(value.v) ELSE Forms!Refused
  BY <1>1, Zenon DEF Forms!LocalObject
<1>6. kind = "multi" /\ value.type # "bool" =>
        Forms!LocalObject(value, kind)
          = IF Forms!HasInt(value) THEN Forms!IntOf(Forms!Whole(value.v)) ELSE Forms!Refused
  BY <1>1, Zenon DEF Forms!LocalObject
<1> QED BY <1>2, <1>3, <1>4, <1>5, <1>6, Zenon

\* The word of a binary object is read as 1 or 0.
LEMMA CoercedBinary ==
  ASSUME NEW value, value.type = "text", value.form \in {"active", "inactive"}
  PROVE  Forms!Coerce(value, "binary") = Forms!IntOf(IF value.form = "active" THEN 1 ELSE 0)
<1>1. "text" # "bool" /\ "text" # "int" /\ "text" # "float" /\ "active" # "inactive"
  OBVIOUS
<1>2. Forms!Printed(value) = value
  BY PrintedOf
<1>3. /\ "active" \notin {"inactive", "off", "false"} /\ "active" \notin Forms!Numeric
      /\ "inactive" \notin {"active", "on", "true"} /\ "inactive" \notin Forms!Numeric
  BY DEF Forms!Numeric
<1>4. CASE value.form = "active"
  BY <1>1, <1>2, <1>3, <1>4, Zenon DEF Forms!Coerce
<1>5. CASE value.form = "inactive"
  BY <1>1, <1>2, <1>3, <1>5, Zenon DEF Forms!Coerce
<1> QED BY <1>4, <1>5

\* A number is read as a float by a point that is not binary.
LEMMA CoercedNumber ==
  ASSUME NEW value, value.type \in {"int", "float"}, NEW kind, kind # "binary"
  PROVE  Forms!Coerce(value, kind) = Forms!FloatOf(value.v)
<1>1. value.type # "bool" /\ Forms!HasFloat(value)
  BY DEF Forms!HasFloat
<1> QED BY <1>1, Zenon DEF Forms!Coerce

\* What one program exposes as a BACnet object another reads back.
THEOREM ExposedBack ==
  ASSUME NEW value, value.v \in Int, NEW kind \in Forms!Kinds
  PROVE  Forms!ExposedReadsBack(value, kind)
<1> DEFINE object == Forms!LocalObject(value, kind)
           read == Forms!Coerce(object, kind)
<1>0. /\ \A f, n : Forms!TextOf(f, n).form = f /\ Forms!TextOf(f, n).type = "text"
      /\ \A n : Forms!FloatOf(n).type = "float" /\ Forms!FloatOf(n).v = n
      /\ \A n : Forms!IntOf(n).type = "int" /\ Forms!IntOf(n).v = 100 * n
  BY DEF Forms!TextOf, Forms!FloatOf, Forms!IntOf
<1>1. CASE kind = "binary"
  <2>1. object = Forms!TextOf(IF Forms!Truthy(value) THEN "active" ELSE "inactive", 0)
    BY <1>1, LocalObjectOf, Zenon
  <2> HIDE DEF object
  <2>2. object.type = "text" /\ object.form = IF Forms!Truthy(value) THEN "active" ELSE "inactive"
    BY <1>0, <2>1, ZenonT(60)
  <2>3. object.form \in {"active", "inactive"} /\ (object.form = "active" <=> Forms!Truthy(value))
    BY <2>2
  <2>4. read = Forms!IntOf(IF object.form = "active" THEN 1 ELSE 0)
    BY <1>1, <2>2, <2>3, CoercedBinary, Zenon
  <2> HIDE DEF read
  <2>5. read = Forms!IntOf(IF Forms!Truthy(value) THEN 1 ELSE 0)
    BY <2>3, <2>4, Zenon
  <2>6. read.type = "int"
    BY <1>0, <2>5, Zenon
  <2> QED BY <1>1, <2>5, <2>6 DEF Forms!ExposedReadsBack, object, read
<1>2. CASE kind # "binary"
  <2>1. \/ kind = "analog" /\ value.type = "bool" /\ object = Forms!FloatOf(0)
        \/ kind = "multi" /\ value.type = "bool" /\ object = Forms!IntOf(1)
        \/ kind = "analog" /\ value.type # "bool" /\ object = Forms!FloatOf(value.v)
        \/ kind = "multi" /\ value.type # "bool" /\ object = Forms!IntOf(Forms!Whole(value.v))
        \/ object = Forms!Refused
    <3>1. kind = "analog" \/ kind = "multi"
      BY <1>2 DEF Forms!Kinds
    <3> QED BY <3>1, LocalObjectOf, Zenon
  <2> HIDE DEF object
  <2>2. CASE object = Forms!Refused
    BY <2>2, Zenon DEF Forms!ExposedReadsBack, object
  <2>3. CASE object # Forms!Refused
    <3>1. object.type \in {"int", "float"}
      BY <1>0, <2>1, <2>3
    <3>2. read = Forms!FloatOf(object.v)
      BY <1>2, <3>1, CoercedNumber
    <3> HIDE DEF read
    <3>3. read.type = "float" /\ read.v = object.v
      BY <1>0, <3>2, Zenon
    <3>4. kind = "analog" /\ value.type # "bool" => object.v = value.v
      BY <1>0, <2>1, <2>3
    <3>5. kind = "multi" /\ value.type # "bool" => object.v = 100 * Forms!Whole(value.v)
      BY <1>0, <2>1, <2>3
    <3> QED BY <1>2, <3>3, <3>4, <3>5 DEF Forms!ExposedReadsBack, object, read
  <2> QED BY <2>2, <2>3
<1> QED BY <1>1, <1>2

\* A register reads back the whole part of what was written, a coil its truth.
THEOREM ModbusBack ==
  ASSUME NEW value, value.v \in Int, NEW kind
  PROVE  Forms!ModbusReadsBack(value, kind)
<1> DEFINE w == Forms!Whole(value.v)
           wire == IF kind = "coil" THEN (IF Forms!Truthy(value) THEN 1 ELSE 0) ELSE w
           written == Forms!ModbusWrite(value, kind)
<1>1. written = Forms!Refused \/ written = [type |-> "wire", wire |-> wire, kept |-> value]
  BY Zenon DEF Forms!ModbusWrite
<1>2. kind = "coil" => wire = IF Forms!Truthy(value) THEN 1 ELSE 0
  OBVIOUS
<1>3. kind = "register" => wire = w
  OBVIOUS
<1>4. 100 * w = value.v <=> value.v % 100 = 0
  BY DEF Forms!Whole
<1> HIDE DEF wire, written, w
<1>5. CASE written = Forms!Refused
  BY <1>5 DEF Forms!ModbusReadsBack, written
<1>6. CASE written = [type |-> "wire", wire |-> wire, kept |-> value]
  <2>1. written.wire = wire /\ written.kept = value
    BY <1>6
  <2>2. kind = "coil" => Forms!ModbusRead(written, kind).v = IF Forms!Truthy(value) THEN 100 ELSE 0
    BY <1>2, <2>1 DEF Forms!ModbusRead, Forms!BoolOf
  <2>3. kind = "register" => Forms!ModbusRead(written, kind).v = 100 * w
    BY <1>3, <2>1 DEF Forms!ModbusRead, Forms!IntOf
  <2> QED BY <1>4, <2>1, <2>2, <2>3 DEF Forms!ModbusReadsBack, written
<1> QED BY <1>1, <1>5, <1>6

\* A sequence after another.
LEMMA Joined ==
  ASSUME NEW S, NEW a \in Seq(S), NEW b \in Seq(S)
  PROVE  /\ a \o b \in Seq(S) /\ Len(a \o b) = Len(a) + Len(b)
         /\ \A i \in 1..Len(a) : (a \o b)[i] = a[i]
         /\ \A i \in 1..Len(b) : (a \o b)[Len(a) + i] = b[i]
OBVIOUS

\* The levels of a topic are those of its prefix, the device and those of the name.
LevelsOf(path, Level, prefix, device, name) ==
  /\ path \in Seq(Level) /\ Len(path) = Len(prefix) + 1 + Len(name) /\ Len(name) > 0
  /\ path[Len(prefix) + 1] = device
  /\ \A i \in 1..Len(name) : path[Len(prefix) + 1 + i] = name[i]
  /\ SubSeq(path, 1, Len(prefix)) = prefix
  /\ Forms!Last(path) = name[Len(name)]

\* A topic is made of these levels.
LEMMA TopicLevels ==
  ASSUME NEW Level, NEW prefix \in Seq(Level), NEW device \in Level, NEW name \in Seq(Level),
         name # <<>>, NEW path, path = Forms!Topic(prefix, device, name)
  PROVE  LevelsOf(path, Level, prefix, device, name)
<1> DEFINE n == Len(prefix)
           head == prefix \o <<device>>
<1>0. n \in Nat /\ <<device>> \in Seq(Level) /\ Len(<<device>>) = 1 /\ <<device>>[1] = device
  OBVIOUS
<1>1. head \in Seq(Level) /\ Len(head) = n + 1 /\ \A i \in 1..n : head[i] = prefix[i]
  BY <1>0, Joined
<1>2. head[n + 1] = device
  BY <1>0, Joined
<1>3. path = head \o name
  BY DEF Forms!Topic
<1> HIDE DEF head
<1>4. /\ path \in Seq(Level) /\ Len(path) = Len(head) + Len(name)
      /\ \A i \in 1..Len(head) : path[i] = head[i]
      /\ \A i \in 1..Len(name) : path[Len(head) + i] = name[i]
  <2> HIDE DEF n
  <2>1. path \in Seq(Level) /\ Len(path) = Len(head) + Len(name)
    <3>1. head \in Seq(Level) /\ name \in Seq(Level)
      BY <1>1
    <3> QED BY <1>3, <3>1
  <2>2. \A i \in 1..Len(head) : path[i] = head[i]
    BY <1>1, <1>3, Joined
  <2>3. \A i \in 1..Len(name) : path[Len(head) + i] = name[i]
    BY <1>1, <1>3, Joined
  <2> QED BY <2>1, <2>2, <2>3
<1>5. Len(name) > 0 /\ Len(name) \in Nat
  OBVIOUS
<1> HIDE DEF n
<1>6. Len(path) = n + 1 + Len(name) /\ n + 1 \in 1..Len(head)
  BY <1>0, <1>1, <1>4, <1>5
<1>7. path[n + 1] = device /\ \A i \in 1..Len(name) : path[n + 1 + i] = name[i]
  BY <1>1, <1>2, <1>4, <1>6, Zenon
<1>8. SubSeq(path, 1, n) = prefix
  <2>1. \A i \in 1..n : path[i] = prefix[i]
    <3>1. \A i \in 1..n : i \in 1..Len(head)
      BY <1>0, <1>1
    <3> QED BY <1>1, <1>4, <3>1, Zenon
  <2>2. SubSeq(path, 1, n) \in Seq(Level) /\ Len(SubSeq(path, 1, n)) = n
        /\ \A i \in 1..n : SubSeq(path, 1, n)[i] = path[i]
    BY <1>0, <1>4, <1>5, <1>6
  <2> QED BY <2>1, <2>2 DEF n
<1>9. Forms!Last(path) = name[Len(name)]
  <2>1. Forms!Last(path) = path[n + 1 + Len(name)]
    BY <1>6 DEF Forms!Last
  <2>2. Len(name) \in 1..Len(name)
    BY <1>5
  <2> QED BY <1>7, <2>1, <2>2, Zenon
<1> QED BY <1>4, <1>5, <1>6, <1>7, <1>8, <1>9, Zenon DEF LevelsOf, n

\* Commands and states reach the points whose names have one level, and no other of that name.
THEOREM MqttBack ==
  ASSUME NEW Level, NEW prefix \in Seq(Level), NEW device \in Level, NEW name \in Seq(Level),
         name # <<>>, NEW names, device \in DOMAIN names, name \in names[device],
         "set" \in Level, \A i \in DOMAIN name : name[i] # "set"
  PROVE  Forms!MqttReadsBack(prefix, names, device, name)
<1> DEFINE n == Len(prefix)
<1>0. PICK path, command : /\ path = Forms!Topic(prefix, device, name)
                           /\ command = Forms!CommandTopic(prefix, device, name)
  OBVIOUS
<1>1. /\ path \in Seq(Level) /\ Len(path) = n + 1 + Len(name) /\ Len(name) > 0
      /\ path[n + 1] = device
      /\ \A i \in 1..Len(name) : path[n + 1 + i] = name[i]
      /\ SubSeq(path, 1, n) = prefix
      /\ Forms!Last(path) = name[Len(name)]
  <2>1. LevelsOf(path, Level, prefix, device, name)
    BY <1>0, TopicLevels, Zenon
  <2> QED BY <2>1, Zenon DEF LevelsOf
<1>2. command = Append(path, "set")
  BY <1>0, Zenon DEF Forms!CommandTopic
<1>3. Forms!Last(command) = "set" /\ Forms!Front(command) = path
  <2>0. path \in Seq(Level)
    BY <1>1
  <2>1. Len(command) = Len(path) + 1 /\ command[Len(path) + 1] = "set"
    BY <1>2, <2>0
  <2>2. SubSeq(command, 1, Len(path)) = path
    BY <1>2, <2>0
  <2> QED BY <2>0, <2>1, <2>2 DEF Forms!Last, Forms!Front
<1>4. Len(name) = 1 => name = <<name[1]>> /\ Forms!Last(path) = name[1]
                       /\ Forms!Last(Forms!Front(path)) = device
  <2> HAVE Len(name) = 1
  <2>1. Len(path) = n + 2
    BY <1>1
  <2>2. Len(Forms!Front(path)) = n + 1 /\ Forms!Front(path)[n + 1] = device
    BY <1>1, <2>1 DEF Forms!Front
  <2> QED BY <1>1, <2>2 DEF Forms!Last
<1>5. \A x : Len(<<x>>) = 1
  OBVIOUS
<1>6. Forms!MqttTarget(names, command) = <<device, name>>  <=>  Len(name) = 1
  <2> DEFINE d == Forms!Last(Forms!Front(path))
             nm == <<Forms!Last(path)>>
  <2>1. Forms!MqttTarget(names, command)
          = IF d \in DOMAIN names /\ nm \in names[d] THEN <<d, nm>> ELSE <<>>
    <3>1. Len(path) >= 2
      BY <1>1
    <3> QED BY <1>3, <3>1, Zenon DEF Forms!MqttTarget, Forms!NoPoint
  <2>2. CASE Len(name) = 1
    <3>1. d = device /\ nm = name
      BY <1>4, <2>2, Zenon
    <3> HIDE DEF d, nm
    <3> QED BY <2>1, <2>2, <3>1
  <2>3. CASE Len(name) # 1
    <3>1. nm # name
      BY <1>5, <2>3
    <3> HIDE DEF d, nm
    <3>2. <<d, nm>> # <<device, name>> /\ <<>> # <<device, name>>
      BY <3>1
    <3> QED BY <2>1, <2>3, <3>2
  <2> QED BY <2>2, <2>3
<1>7. Forms!MqttListed(prefix, path) = <<device, name>>  <=>  Len(name) = 1
  <2> DEFINE rest == SubSeq(path, n + 1, Len(path))
  <2>1. Forms!IsStrictPrefix(prefix, path)
    <3>1. Forms!IsPrefix(prefix, path)
      BY <1>1 DEF Forms!IsPrefix
    <3> QED BY <1>1, <3>1 DEF Forms!IsStrictPrefix
  <2>2. Len(rest) >= 2 /\ rest[1] = device /\ rest[2] = name[1]
    BY <1>1
  <2>3. Forms!MqttListed(prefix, path)
          = IF rest[2] = "set" THEN <<>> ELSE <<rest[1], <<rest[2]>>>>
    <3>1. ~(Len(rest) < 2)
      BY <2>2
    <3> QED BY <2>1, <3>1, Zenon DEF Forms!MqttListed, Forms!NoPoint
  <2>4. name[1] # "set"
    BY <1>1
  <2>5. Forms!MqttListed(prefix, path) = <<device, <<name[1]>>>>
    <3> HIDE DEF rest
    <3> QED BY <2>2, <2>3, <2>4
  <2>6. <<device, <<name[1]>>>> = <<device, name>> <=> <<name[1]>> = name
    OBVIOUS
  <2>7. <<name[1]>> = name <=> Len(name) = 1
    BY <1>4, <1>5
  <2> QED BY <2>5, <2>6, <2>7
<1>8. Forms!MqttTarget(names, path) = Forms!NoPoint
  <2>1. Forms!Last(path) # "set"
    BY <1>1
  <2> QED BY <2>1, Zenon DEF Forms!MqttTarget
<1> QED BY <1>0, <1>6, <1>7, <1>8, Zenon DEF Forms!MqttReadsBack

\* What is put on the bus, and the types it is put there as.
LEMMA AskedOfBus ==
  /\ Hundredths \subseteq Int \cup {Text} /\ Percentages \subseteq Int \cup {Text}
  /\ BusTypes \subseteq Seq(Int) /\ <<5, 1>> \in Seq(Int)
<1>1. Doublings \subseteq Int
  <2> DEFINE Power(e) == 2^e
  <2>1. \A e \in 0..16 : Power(e) \in Int
    <3>1. \A e \in 0..15 : 2^e \in Nat \ {0}
      BY PowersOfTwo
    <3>2. 2^16 \in Int
      OBVIOUS
    <3>3. \A e \in 0..16 : e \in 0..15 \/ e = 16
      OBVIOUS
    <3>4. \A x \in Nat \ {0} : x \in Int
      OBVIOUS
    <3> QED BY <3>1, <3>2, <3>3, <3>4, Zenon
  <2>2. ASSUME NEW x \in Int
        PROVE  {2047 * x, 2047 * x + 1, 2048 * x, -2048 * x, -2048 * x - 1} \subseteq Int
    OBVIOUS
  <2>3. Doublings = UNION {{2047 * Power(e), 2047 * Power(e) + 1, 2048 * Power(e),
                            -2048 * Power(e), -2048 * Power(e) - 1} : e \in 0..16}
    BY DEF Doublings
  <2> HIDE DEF Power
  <2>4. ASSUME NEW v \in Doublings PROVE v \in Int
    <3>1. PICK e \in 0..16 : v \in {2047 * Power(e), 2047 * Power(e) + 1, 2048 * Power(e),
                                    -2048 * Power(e), -2048 * Power(e) - 1}
      BY <2>3
    <3> QED BY <2>1, <2>2, <3>1
  <2> QED BY <2>4
<1>2. Hundredths \subseteq Int \cup {Text} /\ Percentages \subseteq Int \cup {Text}
  <2>5. ASSUME NEW v \in Hundredths PROVE v \in Int \cup {Text}
    <3> DEFINE Small == -300..300
               Others == {25500, 25600, 123456, -99999}
    <3>1. v \in Doublings \/ v \in Small \/ v \in Others \/ v = Text
      BY SMT DEF Hundredths
    <3>2. Small \subseteq Int /\ Others \subseteq Int
      OBVIOUS
    <3> HIDE DEF Small, Others
    <3> QED BY <1>1, <3>1, <3>2
  <2>6. Percentages \subseteq Int \cup {Text}
    BY DEF Percentages
  <2> QED BY <2>5, <2>6
<1>3. BusTypes \subseteq Seq(Int) /\ <<5, 1>> \in Seq(Int)
  BY DEF BusTypes
<1> QED BY <1>2, <1>3

\* Every address has sixteen bits.
LEMMA AskedOfAddresses == Addresses \subseteq Nat /\ \A n \in Addresses : n < 65536
BY SMT DEF Addresses

\* What is stored, exposed and written to Modbus.
LEMMA AskedOfForms == Values \subseteq FormValues
<1> USE DEF FormValues, FormTypes, FormOf, Forms!Words, Forms!Numeric
<1>1. ASSUME NEW b \in BOOLEAN PROVE Forms!BoolOf(b) \in FormValues
  BY DEF Forms!BoolOf
<1>2. ASSUME NEW n \in Int PROVE Forms!IntOf(n) \in FormValues
  BY DEF Forms!IntOf
<1>3. ASSUME NEW v \in Int PROVE Forms!FloatOf(v) \in FormValues
  BY DEF Forms!FloatOf
<1>4. ASSUME NEW v \in Int PROVE Forms!BareFloatOf(v) \in FormValues
  BY DEF Forms!BareFloatOf
<1>5. ASSUME NEW v \in {100, 500} PROVE Forms!TextOf("digits", v) \in FormValues
  BY DEF Forms!TextOf
<1>6. Forms!TextOf("point", 250) \in FormValues /\ Forms!TextOf("exponent", 7) \in FormValues
  BY DEF Forms!TextOf
<1>7. ASSUME NEW w \in Forms!Words \cup {"true", "false"} PROVE Forms!TextOf(w, 0) \in FormValues
  BY DEF Forms!TextOf
<1>8. /\ {-3, 0, 1, 300, 65535, 65536} \subseteq Int
      /\ {-250, 0, 100, 250} \subseteq Int /\ {0, 7} \subseteq Int
  OBVIOUS
<1> HIDE DEF FormValues
<1> QED BY <1>1, <1>2, <1>3, <1>4, <1>5, <1>6, <1>7, <1>8 DEF Values

\* Every question about the conversions is answered as it should be.
LEMMA ConvertedRight ==
  ASSUME CallNext
  PROVE  ReadsBack'
<1> USE DEF Asked
<1>0. /\ "bus" # "address" /\ "bus" # "forms" /\ "bus" # "topics"
      /\ "address" # "forms" /\ "address" # "topics" /\ "forms" # "topics"
  OBVIOUS
<1>1. CASE Send
  <2>1. PICK v \in Int \cup {Text}, dpt \in Seq(Int) : call' = <<v, dpt>>
    <3>1. CASE \E v \in Hundredths, dpt \in BusTypes : call' = <<v, dpt>>
      BY <3>1, AskedOfBus, Zenon
    <3>2. CASE \E v \in Percentages : call' = <<v, <<5, 1>>>>
      BY <3>2, AskedOfBus, Zenon
    <3> QED BY <1>1, <3>1, <3>2, Zenon DEF Send
  <2>2. Codec!KnxReadsBack(v, dpt)
    BY KnxBack, Zenon
  <2>3. call'[1] = v /\ call'[2] = dpt
    BY <2>1
  <2>4. topic' = "bus"
    BY <1>1, Zenon DEF Send
  <2>5. Codec!KnxReadsBack(call'[1], call'[2])
    BY <2>2, <2>3, Zenon
  <2> QED BY <1>0, <2>4, <2>5, Zenon DEF ReadsBack
<1>2. CASE Address
  <2>1. PICK n \in Addresses : call' = <<n>>
    BY <1>2, Zenon DEF Address
  <2>2. n \in Nat /\ n < 65536
    BY AskedOfAddresses
  <2>3. Codec!GaToRaw(Codec!RawToGa(n)) = n
    BY <2>2, AddressBack
  <2>4. call'[1] = n
    BY <2>1
  <2>5. topic' = "address"
    BY <1>2, Zenon DEF Address
  <2>6. Codec!GaToRaw(Codec!RawToGa(call'[1])) = call'[1]
    BY <2>3, <2>4, Zenon
  <2> QED BY <1>0, <2>5, <2>6, Zenon DEF ReadsBack
<1>3. CASE Exchange
  <2>1. PICK value \in Values, kind \in Forms!Kinds \cup {"coil", "register", "input"} :
          call' = <<value, kind>>
    BY <1>3, Zenon DEF Exchange
  <2>2. value \in FormValues
    BY AskedOfForms, Zenon
  <2>3. value.v \in Int
    BY <2>2, FormFacts, Zenon
  <2>4. Forms!StoredReadsBack(value)
    BY <2>2, StoredBack, Zenon
  <2>5. kind \in Forms!Kinds => Forms!ExposedReadsBack(value, kind)
    BY <2>3, ExposedBack, Zenon
  <2>6. Forms!ModbusReadsBack(value, kind)
    BY <2>3, ModbusBack, Zenon
  <2>7. call'[1] = value /\ call'[2] = kind
    BY <2>1
  <2>8. topic' = "forms"
    BY <1>3, Zenon DEF Exchange
  <2>9. /\ Forms!StoredReadsBack(call'[1])
        /\ call'[2] \in Forms!Kinds => Forms!ExposedReadsBack(call'[1], call'[2])
        /\ call'[2] \notin Forms!Kinds => Forms!ModbusReadsBack(call'[1], call'[2])
    BY <2>4, <2>5, <2>6, <2>7, Zenon
  <2> QED BY <1>0, <2>8, <2>9, Zenon DEF ReadsBack
<1>4. CASE Publish
  <2> DEFINE Level == {"p", "q", "1", "2", "a", "b", "set"}
  <2>0. PICK prefix \in {<<"p">>, <<"p", "q">>}, d \in DOMAIN PointNames :
          \E name \in PointNames[d] : call' = <<prefix, d, name>>
    BY <1>4, Zenon DEF Publish
  <2>1. PICK name \in PointNames[d] : call' = <<prefix, d, name>>
    BY <2>0
  <2>2. prefix \in Seq(Level)
    <3>1. <<"p">> \in Seq(Level) /\ <<"p", "q">> \in Seq(Level)
      OBVIOUS
    <3> QED BY <2>0, <3>1
  <2>3. d \in Level /\ name \in {<<"a">>, <<"b">>, <<"b", "a">>, <<"1", "2", "a">>}
    BY <2>0, <2>1 DEF PointNames
  <2>4. name \in Seq(Level) /\ name # <<>> /\ \A i \in DOMAIN name : name[i] # "set"
    <3> DEFINE IsName(s) == s \in Seq(Level) /\ s # <<>> /\ \A i \in DOMAIN s : s[i] # "set"
    <3>1. IsName(<<"a">>) /\ IsName(<<"b">>)
      OBVIOUS
    <3>2. IsName(<<"b", "a">>)
      OBVIOUS
    <3>3. IsName(<<"1", "2", "a">>)
      OBVIOUS
    <3>4. IsName(name)
      <4> HIDE DEF IsName
      <4> QED BY <2>3, <3>1, <3>2, <3>3
    <3> QED BY <3>4
  <2>5. "set" \in Level
    OBVIOUS
  <2>6. Forms!MqttReadsBack(prefix, PointNames, d, name)
    <3> HIDE DEF Level
    <3> QED BY <2>0, <2>1, <2>2, <2>3, <2>4, <2>5, MqttBack, Zenon
  <2>7. call'[1] = prefix /\ call'[2] = d /\ call'[3] = name
    BY <2>1
  <2>8. topic' = "topics"
    BY <1>4, Zenon DEF Publish
  <2>9. Forms!MqttReadsBack(call'[1], PointNames, call'[2], call'[3])
    BY <2>6, <2>7, Zenon
  <2> QED BY <1>0, <2>8, <2>9, Zenon DEF ReadsBack
<1>5. CASE ImportProject \/ ImportTable \/ Sweep \/ Probe \/ Multiply \/ Foretell \/ Assess
           \/ Simulate \/ Refer \/ Weather
  <2>1. ImportProject => topic' = "project"
    BY Zenon DEF ImportProject
  <2>2. ImportTable => topic' = "table"
    BY Zenon DEF ImportTable
  <2>3. Sweep => topic' = "sweep"
    BY Zenon DEF Sweep
  <2>4. Probe => topic' = "units"
    BY Zenon DEF Probe
  <2>5. Multiply => topic' = "fleet"
    BY Zenon DEF Multiply
  <2>6. Foretell => topic' = "prediction"
    BY Zenon DEF Foretell
  <2>7. Assess => topic' = "health"
    BY Zenon DEF Assess
  <2>8. Simulate => topic' = "signal"
    BY Zenon DEF Simulate
  <2>9. Refer => topic' = "reference"
    BY Zenon DEF Refer
  <2>10. Weather => topic' = "world"
    BY Zenon DEF Weather
  <2>11. topic' \notin {"bus", "address", "forms", "topics"}
    BY <1>5, <2>1, <2>2, <2>3, <2>4, <2>5, <2>6, <2>7, <2>8, <2>9, <2>10
  <2> QED BY <2>11, Zenon DEF ReadsBack
<1> QED BY <1>1, <1>2, <1>3, <1>4, <1>5 DEF CallNext

\* What is sent, stored, exposed or published comes back the same, or as the nearest
\* its form can hold, with the exceptions that are named at each conversion.
THEOREM ConversionsReadBack == CallSpec => []ReadsBack
<1>1. CallInit => ReadsBack
  BY Zenon DEF CallInit, ReadsBack
<1>2. ReadsBack /\ [CallNext]_calculations => ReadsBack'
  <2>1. CASE CallNext
    BY <2>1, ConvertedRight
  <2>2. CASE UNCHANGED calculations
    <3>1. topic' = topic /\ call' = call
      BY <2>2 DEF calculations
    <3> QED BY <3>1, Zenon DEF ReadsBack
  <2> QED BY <2>1, <2>2
<1> QED BY <1>1, <1>2, PTL DEF CallSpec
===============================================================================
