--------------------------- MODULE AlarmFlow_proofs ---------------------------
(***************************************************************************)
(* Safety of AlarmFlow for any tasks, points, names and bounds.            *)
(*                                                                         *)
(* The steps of Next fall into a few kinds by what they do to the open     *)
(* excursions, the alarms being published and the table (StepKinds); each  *)
(* part of the inductive invariant is then proved kind by kind.            *)
(***************************************************************************)
EXTENDS AlarmFlow, TLAPS

\* Tasks that hold no alarm: outside a nested publication.
Before == {"idle", "event", "forecast"}

PcStep(t, stage) == pc' = [pc EXCEPT ![t] = stage]

\* The step moves a task that publishes no alarm.
Walks(t) ==
  /\ pc[t] \in Before
  /\ \E s \in Before : PcStep(t, s)
  /\ \A u \in Task \ {t} : point'[u] = point[u]
  /\ UNCHANGED <<alarm, active, tableVars, uid, epoch>>

\* It opens an excursion with a new alarm and starts to publish it.
Opens(t) ==
  /\ pc[t] \in Before /\ active[NameOf[point[t]]] = NoAlarm
  /\ RaiseAnomalyAlarm(t)
  /\ UNCHANGED <<point, tableVars, epoch>>

\* It closes an excursion and starts to publish that.
Closes(t) ==
  /\ pc[t] \in Before /\ active[NameOf[point[t]]] # NoAlarm
  /\ active' = [active EXCEPT ![NameOf[point[t]]] = NoAlarm]
  /\ alarm' = [alarm EXCEPT ![t] = active[NameOf[point[t]]]]
  /\ PcStep(t, "clear")
  /\ UNCHANGED <<point, tableVars, uid, epoch>>

\* The nested publication reaches AlarmService.
Reaches(t) ==
  /\ \/ pc[t] = "raise" /\ PcStep(t, "save")
     \/ pc[t] = "clear" /\ PcStep(t, "update")
  /\ UNCHANGED <<point, alarm, active, tableVars, uid, epoch>>

Saves(t) ==
  /\ pc[t] = "save" /\ InsertRow(alarm[t]) /\ PcStep(t, "idle")
  /\ UNCHANGED <<point, alarm, active, lost, uid, epoch>>

Updates(t) ==
  /\ pc[t] = "update" /\ UpdateRow(alarm[t]) /\ PcStep(t, "idle")
  /\ UNCHANGED <<point, alarm, active, lost, uid, epoch>>

Loses(t) ==
  /\ pc[t] \in {"raise", "save", "clear", "update"} /\ lost' = lost \cup {alarm[t]}
  /\ PcStep(t, "idle")
  /\ UNCHANGED <<point, alarm, active, rows, cleared, overtaken, uid, epoch>>

TaskStep(t) ==
  \/ Walks(t) \/ Opens(t) \/ Closes(t) \/ Reaches(t)
  \/ Saves(t) \/ Updates(t) \/ Loses(t)

\* Every step is of one of these kinds, a restart, or changes nothing here.
LEMMA StepKinds ==
  ASSUME TypeOK, [Next]_vars
  PROVE  \/ \E t \in Task : TaskStep(t)
         \/ Restart
         \/ UNCHANGED <<pc, point, alarm, active, tableVars, uid, epoch>>
<1>1. ASSUME NEW t \in Task, NEW p \in Point, Publish(t, p)
      PROVE  Walks(t)
  BY <1>1 DEF Publish, Walks, Before, PcStep, Goto, envVars, TypeOK
<1>2. ASSUME NEW t \in Task, Continue(t)
      PROVE  TaskStep(t)
  <2>1. CASE SkipValue(t) \/ AwaitForecast(t) \/ NoForecast(t) \/ WithinMargin(t)
    <3>1. Walks(t)
      BY <2>1 DEF SkipValue, AwaitForecast, NoForecast, WithinMargin, Walks,
                  Before, PcStep, Goto, envVars
    <3> QED BY <3>1 DEF TaskStep
  <2>2. CASE HardLimit(t) \/ Outside(t)
    <3>1. pc[t] \in Before /\ UNCHANGED <<point, tableVars, epoch>> /\ Breach(t)
      BY <2>2 DEF HardLimit, Outside, Before, envVars
    <3>2. CASE active[NameOf[point[t]]] # NoAlarm
      <4>1. Walks(t)
        BY <3>1, <3>2 DEF Breach, Walks, Goto, PcStep, Before
      <4> QED BY <4>1 DEF TaskStep
    <3>3. CASE active[NameOf[point[t]]] = NoAlarm
      <4>1. Opens(t)
        BY <3>1, <3>3 DEF Breach, Opens
      <4> QED BY <4>1 DEF TaskStep
    <3> QED BY <3>2, <3>3
  <2>3. CASE Inside(t)
    <3>1. pc[t] \in Before /\ UNCHANGED <<point, tableVars, epoch>> /\ MaybeClear(t)
      BY <2>3 DEF Inside, Before, envVars
    <3>2. CASE active[NameOf[point[t]]] # NoAlarm
      <4>1. Closes(t)
        BY <3>1, <3>2 DEF MaybeClear, Closes, Goto, PcStep
      <4> QED BY <4>1 DEF TaskStep
    <3>3. CASE active[NameOf[point[t]]] = NoAlarm
      <4>1. active' = active
        BY <3>1, <3>3, AlarmFlowAssumption DEF MaybeClear, TypeOK
      <4>2. Walks(t)
        BY <3>1, <3>3, <4>1 DEF MaybeClear, Walks, Goto, PcStep, Before
      <4> QED BY <4>2 DEF TaskStep
    <3> QED BY <3>2, <3>3
  <2>4. CASE EventServiceDone(t)
    <3>1. Reaches(t)
      BY <2>4 DEF EventServiceDone, NextHandler, Reaches, Goto, PcStep, envVars
    <3> QED BY <3>1 DEF TaskStep
  <2>5. CASE AlarmServiceWrites(t)
    <3>1. Saves(t) \/ Updates(t)
      BY <2>5 DEF AlarmServiceWrites, TableWrite, Saves, Updates, Goto, PcStep, envVars
    <3> QED BY <3>1 DEF TaskStep
  <2>6. CASE AlarmServiceFails(t)
    <3>1. Loses(t)
      BY <2>6 DEF AlarmServiceFails, Loses, Goto, PcStep, envVars
    <3> QED BY <3>1 DEF TaskStep
  <2> QED BY <1>2, <2>1, <2>2, <2>3, <2>4, <2>5, <2>6 DEF Continue
<1>3. ASSUME NEW t \in Task, Cancel(t)
      PROVE  TaskStep(t)
  <2>1. CASE CancelledOutside(t)
    <3>1. lost' = lost /\ Walks(t)
      BY <1>3, <2>1 DEF Cancel, CancelledOutside, Walks, Goto, PcStep, Before, envVars, tableVars
    <3> QED BY <3>1 DEF TaskStep
  <2>2. CASE CancelledUnwritten(t)
    <3>1. Loses(t)
      BY <1>3, <2>2 DEF Cancel, CancelledUnwritten, Loses, Goto, PcStep, envVars
    <3> QED BY <3>1 DEF TaskStep
  <2>3. CASE TableWrite(t) /\ UNCHANGED lost
    <3>1. Saves(t) \/ Updates(t)
      BY <1>3, <2>3 DEF Cancel, TableWrite, Saves, Updates, Goto, PcStep, envVars
    <3> QED BY <3>1 DEF TaskStep
  <2> QED BY <1>3, <2>1, <2>2, <2>3 DEF Cancel
<1>4. CASE UNCHANGED vars
  BY <1>4 DEF vars, taskVars, envVars
<1> QED BY <1>1, <1>2, <1>3, <1>4 DEF Next, TaskStep

-----------------------------------------------------------------------------
\* Judging a reading keeps the history well typed.
LEMMA JudgeType ==
  ASSUME TypeOK, NEW t \in Task, NEW v \in Judgement, Judge(t, v)
  PROVE  newest' \in [Name -> [seq : Nat, verdict : Judgement]]
<1>1. point[t] \in Point /\ seq[t] \in Nat
  BY DEF TypeOK
<1>2. [seq |-> seq[t], verdict |-> v] \in [seq : Nat, verdict : Judgement]
  BY <1>1
<1> QED BY <1>1, <1>2 DEF Judge, TypeOK

\* Breaching keeps the tasks, the alarms and the open excursions well typed.
LEMMA BreachType ==
  ASSUME TypeOK, NEW t \in Task, pc[t] \in Before, Breach(t)
  PROVE  /\ pc' \in [Task -> Stage]
         /\ alarm' \in [Task -> Alarm \cup {NoAlarm}]
         /\ active' \in [Name -> Alarm \cup {NoAlarm}]
         /\ uid' \in Nat
         /\ \A u \in Task :
              pc'[u] \in {"raise", "save", "clear", "update"} => alarm'[u] # NoAlarm
<1>1. point[t] \in Point /\ uid \in Nat
  BY DEF TypeOK
<1>2. [uid |-> uid + 1, point |-> point[t]] \in Alarm
  BY <1>1 DEF Alarm
<1>3. CASE active[NameOf[point[t]]] # NoAlarm
  BY <1>3 DEF Breach, Goto, TypeOK, Stage
<1>4. CASE active[NameOf[point[t]]] = NoAlarm
  <2>1. RaiseAnomalyAlarm(t)
    BY <1>4 DEF Breach
  <2> HIDE DEF Alarm
  <2> QED BY <1>1, <1>2, <2>1, AlarmFlowAssumption
          DEF RaiseAnomalyAlarm, Goto, TypeOK, Stage
<1> QED BY <1>3, <1>4

\* Every variable keeps its type, a cleared alarm always has a row, and a task
\* that publishes an alarm event has the alarm to publish.
THEOREM TypeCorrect == Spec => []TypeOK
<1>1. Init => TypeOK
  BY AlarmFlowAssumption DEF Init, TypeOK, Stage, Unjudged, Judgement
<1>2. TypeOK /\ [Next]_vars => TypeOK'
  <2> SUFFICES ASSUME TypeOK, [Next]_vars PROVE TypeOK'
    OBVIOUS
  <2>1. ASSUME NEW t \in Task, NEW p \in Point, Publish(t, p)
        PROVE  TypeOK'
    BY <2>1, AlarmFlowAssumption DEF Publish, Goto, TypeOK, Stage, tableVars, envVars
  <2>2. ASSUME NEW t \in Task, Continue(t)
        PROVE  TypeOK'
    <3>1. CASE SkipValue(t) \/ AwaitForecast(t) \/ NoForecast(t)
      BY <3>1 DEF SkipValue, AwaitForecast, NoForecast, Goto, TypeOK, Stage,
                  tableVars, envVars
    <3>2. CASE HardLimit(t) \/ Outside(t)
      <4>1. Judge(t, "out") /\ Breach(t) /\ pc[t] \in Before
        BY <3>2 DEF HardLimit, Outside, Before
      <4>2. newest' \in [Name -> [seq : Nat, verdict : Judgement]]
        BY <4>1, JudgeType DEF Judgement
      <4>3. UNCHANGED <<point, seq, tableVars, readings, contended, envVars>>
        BY <3>2 DEF HardLimit, Outside
      <4> QED BY <4>1, <4>2, <4>3, BreachType DEF TypeOK, tableVars, envVars
    <3>3. CASE WithinMargin(t)
      <4>1. newest' \in [Name -> [seq : Nat, verdict : Judgement]]
        BY <3>3, JudgeType DEF WithinMargin, Judgement
      <4> QED BY <3>3, <4>1 DEF WithinMargin, Goto, TypeOK, Stage, tableVars, envVars
    <3>4. CASE Inside(t)
      <4>1. newest' \in [Name -> [seq : Nat, verdict : Judgement]]
        BY <3>4, JudgeType DEF Inside, Judgement
      <4>2. NameOf[point[t]] \in Name
        BY AlarmFlowAssumption DEF TypeOK
      <4> QED BY <3>4, <4>1, <4>2
              DEF Inside, MaybeClear, Goto, TypeOK, Stage, tableVars, envVars
    <3>5. CASE EventServiceDone(t)
      BY <3>5 DEF EventServiceDone, NextHandler, Goto, TypeOK, Stage, tableVars, envVars
    <3>6. CASE AlarmServiceWrites(t)
      <4>1. alarm[t] \in Alarm
        BY <3>6 DEF AlarmServiceWrites, TableWrite, TypeOK
      <4> QED BY <3>6, <4>1
              DEF AlarmServiceWrites, TableWrite, InsertRow, UpdateRow, Goto, TypeOK, Stage,
                  envVars
    <3>7. CASE AlarmServiceFails(t)
      <4>1. alarm[t] \in Alarm
        BY <3>7 DEF AlarmServiceFails, TypeOK
      <4> QED BY <3>7, <4>1 DEF AlarmServiceFails, Goto, TypeOK, Stage, envVars
    <3> QED BY <2>2, <3>1, <3>2, <3>3, <3>4, <3>5, <3>6, <3>7 DEF Continue
  <2>3. CASE Restart
    BY <2>3 DEF Restart, TypeOK, Stage, Unjudged, Judgement, tableVars
  <2>4. CASE UNCHANGED vars
    BY <2>4 DEF vars, taskVars, tableVars, envVars, TypeOK
  <2>5. ASSUME NEW t \in Task, Cancel(t)
        PROVE  TypeOK'
    <3>1. pc[t] \in {"raise", "save", "clear", "update"} => alarm[t] \in Alarm
      BY DEF TypeOK
    <3>2. /\ pc' \in [Task -> Stage]
          /\ \A u \in Task : pc'[u] \in {pc[u], "idle"}
          /\ UNCHANGED <<point, seq, alarm, active, failures, uid, readings, newest,
                         contended, restarts, epoch>>
          /\ cancels' \in Nat
      BY <2>5 DEF Cancel, Goto, TypeOK, Stage
    <3>3. /\ rows' \subseteq Alarm /\ cleared' \subseteq rows'
          /\ overtaken' \subseteq Alarm /\ lost' \subseteq Alarm
      BY <2>5, <3>1 DEF Cancel, CancelledOutside, CancelledUnwritten, TableWrite, InsertRow,
                        UpdateRow, TypeOK
    <3> QED BY <3>2, <3>3 DEF TypeOK, envVars
  <2> QED BY <2>1, <2>2, <2>3, <2>4, <2>5 DEF Next
<1> QED BY <1>1, <1>2, PTL DEF Spec

-----------------------------------------------------------------------------
\* The strengthening.  Uuids are fresh; an excursion is kept under the name of
\* its alarm's point, so closing it leaves no other copy; each alarm has one
\* publisher of AlarmRaised, before its row exists; and that publisher's
\* alarm is open, being cleared, or already given up on.
Used(a) == a.uid <= uid

FreshUids ==
  /\ \A t \in Task : alarm[t] # NoAlarm => Used(alarm[t])
  /\ \A n \in Name : active[n] # NoAlarm => Used(active[n])
  /\ \A a \in rows : Used(a)

OpenUnderOwnName ==
  \A n \in Name : active[n] # NoAlarm => NameOf[active[n].point] = n

ClearingIsClosed ==
  \A t \in Task, n \in Name :
    pc[t] \in {"clear", "update"} => active[n] # alarm[t]

RaisingIsFresh ==
  \A t \in Task : pc[t] \in {"raise", "save"} =>
    /\ alarm[t] \notin rows
    /\ \A u \in Task :
         pc[u] \in {"raise", "save"} /\ alarm[u] = alarm[t] => u = t

Accounted(a) ==
  \/ active[NameOf[a.point]] = a
  \/ \E t \in Task : Clearing(t, a)
  \/ a \in overtaken \cup lost

RaisingAccounted ==
  \A t \in Task : pc[t] \in {"raise", "save"} => Accounted(alarm[t])

IInv ==
  /\ FreshUids /\ OpenUnderOwnName /\ ClearingIsClosed /\ RaisingIsFresh
  /\ RaisingAccounted
  /\ OpenNeverCleared /\ OpenIsStored /\ StoredOpenAccounted

\* The strengthened invariant holds at boot, when nothing is open, stored or on its way.
LEMMA InitIInv == Init => IInv
BY DEF Init, IInv, FreshUids, OpenUnderOwnName, ClearingIsClosed, RaisingIsFresh,
       RaisingAccounted, OpenNeverCleared, OpenIsStored, StoredOpenAccounted

\* A task that judges a reading or hands its event to the next subscriber keeps it.
LEMMA WalkKeeps ==
  ASSUME TypeOK, IInv, NEW t \in Task, Walks(t)
  PROVE  IInv'
<1> USE DEF Walks, PcStep, tableVars, Before
<1>1. /\ pc' \in [Task -> Stage]
      /\ \A u \in Task \ {t} : pc'[u] = pc[u]
      /\ pc[t] \in Before /\ pc'[t] \in Before
  BY DEF TypeOK, Stage
<1>2. UNCHANGED <<alarm, active, rows, cleared, overtaken, lost, uid, epoch>>
  OBVIOUS
<1>3. \A a : (\E u \in Task : Clearing(u, a)) => (\E u \in Task : Clearing(u, a))'
  BY <1>1, <1>2 DEF Clearing
<1>4. \A a : (\E u \in Task : Raising(u, a)) => (\E u \in Task : Raising(u, a))'
  BY <1>1, <1>2 DEF Raising
<1>5. FreshUids' /\ OpenUnderOwnName' /\ OpenNeverCleared'
  BY <1>2 DEF IInv, FreshUids, Used, OpenUnderOwnName, OpenNeverCleared
<1>6. ClearingIsClosed' /\ RaisingIsFresh'
  BY <1>1, <1>2 DEF IInv, ClearingIsClosed, RaisingIsFresh
<1>7. RaisingAccounted'
  BY <1>1, <1>2, <1>3 DEF IInv, RaisingAccounted, Accounted
<1>8. OpenIsStored'
  BY <1>2, <1>4 DEF IInv, OpenIsStored
<1>9. StoredOpenAccounted'
  BY <1>2, <1>3 DEF IInv, StoredOpenAccounted
<1> QED BY <1>5, <1>6, <1>7, <1>8, <1>9 DEF IInv

\* What any step of t with a pc and an alarm update leaves of other tasks.
LEMMA OthersKeep ==
  ASSUME TypeOK, NEW t \in Task, NEW stage \in Stage, PcStep(t, stage)
  PROVE  pc'[t] = stage /\ \A u \in Task \ {t} : pc'[u] = pc[u]
BY DEF TypeOK, PcStep

\* It survives check_anomaly opening an excursion: the new alarm is on its way.
LEMMA OpenKeeps ==
  ASSUME TypeOK, IInv, NEW t \in Task, Opens(t)
  PROVE  IInv'
<1> DEFINE n0 == NameOf[point[t]]
           new == [uid |-> uid + 1, point |-> point[t]]
<1>1. /\ new \in Alarm /\ new.uid = uid + 1 /\ new.point = point[t]
      /\ n0 \in Name /\ uid \in Nat /\ new # NoAlarm
  BY AlarmFlowAssumption DEF TypeOK, Alarm
<1>2. /\ pc'[t] = "raise" /\ \A u \in Task \ {t} : pc'[u] = pc[u]
      /\ alarm'[t] = new /\ \A u \in Task \ {t} : alarm'[u] = alarm[u]
      /\ active'[n0] = new /\ \A n \in Name \ {n0} : active'[n] = active[n]
      /\ uid' = uid + 1
  <2>1. /\ PcStep(t, "raise") /\ alarm' = [alarm EXCEPT ![t] = new]
        /\ active' = [active EXCEPT ![n0] = new] /\ uid' = uid + 1
    BY DEF Opens, RaiseAnomalyAlarm, Goto, PcStep
  <2>2. pc'[t] = "raise" /\ \A u \in Task \ {t} : pc'[u] = pc[u]
    BY <2>1, OthersKeep DEF Stage
  <2> HIDE DEF new, n0
  <2> QED BY <1>1, <2>1, <2>2 DEF TypeOK
<1>3. /\ UNCHANGED <<rows, cleared, overtaken, lost, epoch>>
      /\ pc[t] \in Before /\ active[n0] = NoAlarm
  BY DEF Opens, tableVars
<1> HIDE DEF new, n0
<1>4. \A a \in Alarm : Used(a) => a # new /\ Used(a)'
  BY <1>1, <1>2 DEF Used, Alarm
<1>5. FreshUids'
  <2>1. \A u \in Task : alarm'[u] # NoAlarm => Used(alarm[u])'
    BY <1>1, <1>2, <1>4 DEF IInv, FreshUids, TypeOK, Used
  <2>2. \A n \in Name : active'[n] # NoAlarm => Used(active[n])'
    BY <1>1, <1>2, <1>4 DEF IInv, FreshUids, TypeOK, Used
  <2>3. \A a \in rows' : Used(a)'
    BY <1>3, <1>4 DEF IInv, FreshUids, TypeOK
  <2> QED BY <2>1, <2>2, <2>3 DEF FreshUids, Used
<1>6. OpenUnderOwnName'
  BY <1>1, <1>2 DEF IInv, OpenUnderOwnName, n0
<1>7. ClearingIsClosed'
  <2> SUFFICES ASSUME NEW u \in Task, NEW n \in Name,
                      pc'[u] \in {"clear", "update"}
               PROVE  active'[n] # alarm'[u]
    BY DEF ClearingIsClosed
  <2>1. u # t /\ pc[u] \in {"clear", "update"} /\ alarm'[u] = alarm[u]
    BY <1>2
  <2>2. alarm[u] \in Alarm /\ Used(alarm[u])
    BY <2>1 DEF TypeOK, IInv, FreshUids
  <2> QED BY <1>2, <1>4, <2>1, <2>2 DEF IInv, ClearingIsClosed
<1>8. RaisingIsFresh'
  <2>1. \A u \in Task \ {t} : alarm[u] # new
    BY <1>1, <1>4 DEF TypeOK, IInv, FreshUids
  <2>2. new \notin rows
    BY <1>4 DEF TypeOK, IInv, FreshUids
  <2> QED BY <1>2, <1>3, <2>1, <2>2 DEF IInv, RaisingIsFresh
<1>9. \A a \in Alarm : Used(a) /\ Accounted(a) => Accounted(a)'
  <2> SUFFICES ASSUME NEW a \in Alarm, Used(a), Accounted(a) PROVE Accounted(a)'
    OBVIOUS
  <2>1. NameOf[a.point] \in Name
    BY AlarmFlowAssumption DEF Alarm
  <2>2. a # NoAlarm
    BY AlarmFlowAssumption
  <2>3. (\E u \in Task : Clearing(u, a)) => (\E u \in Task : Clearing(u, a))'
    BY <1>2, <1>3 DEF Clearing, Before
  <2> QED BY <1>2, <1>3, <2>1, <2>2, <2>3 DEF Accounted
<1>10. RaisingAccounted'
  <2> SUFFICES ASSUME NEW u \in Task, pc'[u] \in {"raise", "save"},
                      NEW a, a = alarm'[u]
               PROVE  Accounted(a)'
    BY DEF RaisingAccounted, Accounted, Clearing
  <2>1. CASE u = t
    <3>1. NameOf[a.point] = n0 /\ a = new
      BY <1>1, <1>2, <2>1 DEF n0
    <3> QED BY <1>2, <3>1 DEF Accounted
  <2>2. CASE u # t
    <3>1. a = alarm[u] /\ pc[u] \in {"raise", "save"}
      BY <1>2, <2>2
    <3>2. a \in Alarm /\ Used(a) /\ Accounted(a)
      BY <3>1 DEF TypeOK, IInv, FreshUids, RaisingAccounted
    <3> QED BY <1>9, <3>2
  <2> QED BY <2>1, <2>2
<1>11. OpenNeverCleared'
  <2>1. new \notin cleared
    BY <1>4 DEF TypeOK, IInv, FreshUids
  <2> QED BY <1>2, <1>3, <2>1 DEF IInv, OpenNeverCleared
<1>12. OpenIsStored'
  <2> SUFFICES ASSUME NEW n \in Name, active'[n] # NoAlarm
               PROVE  \/ active'[n] \in rows' \cup lost'
                      \/ \E u \in Task : Raising(u, active[n])'
    BY DEF OpenIsStored, Raising
  <2>1. CASE n = n0
    <3>1. Raising(t, active[n])'
      BY <1>2, <2>1 DEF Raising
    <3> QED BY <3>1
  <2>2. CASE n # n0
    <3>1. active'[n] = active[n]
      BY <1>2, <2>2
    <3>2. (\E u \in Task : Raising(u, active[n])) =>
            (\E u \in Task : Raising(u, active[n])')
      BY <1>2, <1>3, <3>1 DEF Raising, Before
    <3> QED BY <1>3, <3>1, <3>2 DEF IInv, OpenIsStored
  <2> QED BY <2>1, <2>2
<1>13. StoredOpenAccounted'
  <2> SUFFICES ASSUME NEW a \in rows \ cleared
               PROVE  Accounted(a)' \/ a.uid <= epoch
    BY <1>3 DEF StoredOpenAccounted, Accounted
  <2>1. a \in Alarm /\ Used(a)
    BY DEF TypeOK, IInv, FreshUids
  <2>2. Accounted(a) \/ a.uid <= epoch
    BY DEF IInv, StoredOpenAccounted, Accounted
  <2> QED BY <1>9, <2>1, <2>2
<1> QED BY <1>5, <1>6, <1>7, <1>8, <1>10, <1>11, <1>12, <1>13 DEF IInv

\* It survives an excursion being closed, by a reading back inside the band.
LEMMA CloseKeeps ==
  ASSUME TypeOK, IInv, NEW t \in Task, Closes(t)
  PROVE  IInv'
<1> DEFINE n0 == NameOf[point[t]]
           old == active[n0]
<1>1. /\ n0 \in Name /\ old \in Alarm /\ old # NoAlarm
  BY AlarmFlowAssumption DEF TypeOK, Closes
<1>2. /\ pc'[t] = "clear" /\ \A u \in Task \ {t} : pc'[u] = pc[u]
      /\ alarm'[t] = old /\ \A u \in Task \ {t} : alarm'[u] = alarm[u]
      /\ active'[n0] = NoAlarm /\ \A n \in Name \ {n0} : active'[n] = active[n]
  BY <1>1, OthersKeep DEF Closes, Stage, TypeOK
<1>3. /\ UNCHANGED <<rows, cleared, overtaken, lost, uid, epoch>>
      /\ pc[t] \in Before /\ active[n0] = old
  BY DEF Closes, tableVars
<1>4. \A n \in Name \ {n0} : active[n] # old
  BY <1>1 DEF IInv, OpenUnderOwnName
<1> HIDE DEF old, n0
<1>5. FreshUids' /\ OpenUnderOwnName' /\ OpenNeverCleared'
  BY <1>1, <1>2, <1>3 DEF IInv, FreshUids, Used, OpenUnderOwnName, OpenNeverCleared
<1>6. ClearingIsClosed'
  <2> SUFFICES ASSUME NEW u \in Task, NEW n \in Name,
                      pc'[u] \in {"clear", "update"}
               PROVE  active'[n] # alarm'[u]
    BY DEF ClearingIsClosed
  <2>1. alarm'[u] # NoAlarm
    BY <1>1, <1>2 DEF TypeOK
  <2> QED BY <1>1, <1>2, <1>4, <2>1 DEF IInv, ClearingIsClosed
<1>7. RaisingIsFresh'
  BY <1>2, <1>3 DEF IInv, RaisingIsFresh
<1>8. \A a : Accounted(a) => Accounted(a)'
  <2> SUFFICES ASSUME NEW a, Accounted(a) PROVE Accounted(a)'
    OBVIOUS
  <2>1. CASE a = old
    <3>1. Clearing(t, a)'
      BY <1>2, <2>1 DEF Clearing
    <3> QED BY <3>1 DEF Accounted
  <2>2. CASE a # old /\ active[NameOf[a.point]] = a
    <3>1. NameOf[a.point] # n0
      BY <1>3, <2>2
    <3>2. active'[NameOf[a.point]] = a
      BY <1>1, <2>2, <3>1 DEF Closes, TypeOK, n0
    <3> QED BY <3>2 DEF Accounted
  <2>3. CASE \E u \in Task : Clearing(u, a)
    <3>1. (\E u \in Task : Clearing(u, a))'
      BY <1>2, <1>3, <2>3 DEF Clearing, Before
    <3> QED BY <3>1 DEF Accounted
  <2> QED BY <1>3, <2>1, <2>2, <2>3 DEF Accounted
<1>9. RaisingAccounted'
  <2> SUFFICES ASSUME NEW u \in Task, pc'[u] \in {"raise", "save"},
                      NEW a, a = alarm'[u]
               PROVE  Accounted(a)'
    BY DEF RaisingAccounted, Accounted, Clearing
  <2>1. a = alarm[u] /\ pc[u] \in {"raise", "save"}
    BY <1>2
  <2>2. Accounted(a)
    BY <2>1 DEF IInv, RaisingAccounted
  <2> QED BY <1>8, <2>2
<1>10. OpenIsStored'
  <2> SUFFICES ASSUME NEW n \in Name, active'[n] # NoAlarm
               PROVE  \/ active'[n] \in rows' \cup lost'
                      \/ \E u \in Task : Raising(u, active[n])'
    BY DEF OpenIsStored, Raising
  <2>1. active'[n] = active[n]
    BY <1>2
  <2>2. (\E u \in Task : Raising(u, active[n])) =>
          (\E u \in Task : Raising(u, active[n])')
    BY <1>2, <1>3, <2>1 DEF Raising, Before
  <2> QED BY <1>3, <2>1, <2>2 DEF IInv, OpenIsStored
<1>11. StoredOpenAccounted'
  <2> SUFFICES ASSUME NEW a \in rows \ cleared
               PROVE  Accounted(a)' \/ a.uid <= epoch
    BY <1>3 DEF StoredOpenAccounted, Accounted
  <2>1. Accounted(a) \/ a.uid <= epoch
    BY DEF IInv, StoredOpenAccounted, Accounted
  <2> QED BY <1>8, <2>1
<1> QED BY <1>5, <1>6, <1>7, <1>9, <1>10, <1>11 DEF IInv

\* It survives the nested publication reaching AlarmService.
LEMMA ReachKeeps ==
  ASSUME TypeOK, IInv, NEW t \in Task, Reaches(t)
  PROVE  IInv'
<1>1. /\ \A u \in Task \ {t} : pc'[u] = pc[u]
      /\ \/ pc[t] = "raise" /\ pc'[t] = "save"
         \/ pc[t] = "clear" /\ pc'[t] = "update"
  BY OthersKeep DEF Reaches, Stage
<1>2. UNCHANGED <<alarm, active, rows, cleared, overtaken, lost, uid, epoch>>
  BY DEF Reaches, tableVars
<1>3. \A a : (\E u \in Task : Clearing(u, a)) => (\E u \in Task : Clearing(u, a))'
  BY <1>1, <1>2 DEF Clearing
<1>4. \A a : (\E u \in Task : Raising(u, a)) => (\E u \in Task : Raising(u, a))'
  BY <1>1, <1>2 DEF Raising
<1>5. FreshUids' /\ OpenUnderOwnName' /\ OpenNeverCleared'
  BY <1>2 DEF IInv, FreshUids, Used, OpenUnderOwnName, OpenNeverCleared
<1>6. ClearingIsClosed' /\ RaisingIsFresh'
  BY <1>1, <1>2 DEF IInv, ClearingIsClosed, RaisingIsFresh
<1>7. RaisingAccounted'
  BY <1>1, <1>2, <1>3 DEF IInv, RaisingAccounted, Accounted
<1>8. OpenIsStored'
  BY <1>2, <1>4 DEF IInv, OpenIsStored
<1>9. StoredOpenAccounted'
  BY <1>2, <1>3 DEF IInv, StoredOpenAccounted
<1> QED BY <1>5, <1>6, <1>7, <1>8, <1>9 DEF IInv

\* A task leaves its nested publication: what it published is then stored,
\* cleared, overtaken or lost, which is all the other parts need to know.
LEMMA TableStepKeeps ==
  ASSUME TypeOK, IInv, NEW t \in Task,
         Saves(t) \/ Updates(t) \/ Loses(t)
  PROVE  IInv'
<1> DEFINE b == alarm[t]
<1>1. /\ pc'[t] = "idle" /\ \A u \in Task \ {t} : pc'[u] = pc[u]
      /\ UNCHANGED <<alarm, active, uid, epoch>>
  BY OthersKeep DEF Saves, Updates, Loses, Stage
<1>2. b \in Alarm /\ b # NoAlarm /\ Used(b)
  BY AlarmFlowAssumption DEF Saves, Updates, Loses, TypeOK, IInv, FreshUids
<1>3. /\ pc[t] = "save" => b \notin rows /\ b \notin cleared
      /\ pc[t] = "update" => \A n \in Name : active[n] # b
  BY DEF TypeOK, IInv, RaisingIsFresh, ClearingIsClosed
<1>4. /\ Saves(t) => /\ pc[t] = "save" /\ rows' = rows \cup {b}
                     /\ cleared' = cleared
                     /\ UNCHANGED <<overtaken, lost>>
      /\ Updates(t) => /\ pc[t] = "update" /\ UNCHANGED <<rows, lost>>
                       /\ \/ /\ cleared' = cleared \cup {b}
                             /\ overtaken' = overtaken
                          \/ /\ overtaken' = overtaken \cup {b}
                             /\ cleared' = cleared
      /\ Loses(t) => /\ pc[t] \in {"raise", "save", "clear", "update"}
                     /\ lost' = lost \cup {b}
                     /\ UNCHANGED <<rows, cleared, overtaken>>
  BY <1>3 DEF Saves, Updates, Loses, InsertRow, UpdateRow
<1> HIDE DEF b
<1>5. /\ \A a \in rows' : a \in rows \/ a = b
      /\ \A a \in cleared' : a \in cleared \/ (a = b /\ pc[t] = "update")
      /\ overtaken \subseteq overtaken' /\ lost \subseteq lost'
      /\ rows \subseteq rows' /\ cleared \subseteq cleared'
  BY <1>4
<1>6. FreshUids' /\ OpenUnderOwnName' /\ ClearingIsClosed'
  BY <1>1, <1>2, <1>5
  DEF IInv, FreshUids, Used, OpenUnderOwnName, ClearingIsClosed
<1>7. RaisingIsFresh'
  <2>1. \A u \in Task \ {t} : pc[u] \in {"raise", "save"} /\ pc[t] = "save" =>
          alarm[u] # b
    BY DEF IInv, RaisingIsFresh, b
  <2>2. pc[t] # "save" => rows' = rows
    BY <1>4
  <2> QED BY <1>1, <1>5, <2>1, <2>2 DEF IInv, RaisingIsFresh
<1>8. \A a : Accounted(a) => Accounted(a)' \/ a \in cleared'
  <2> SUFFICES ASSUME NEW a, Accounted(a) PROVE Accounted(a)' \/ a \in cleared'
    OBVIOUS
  <2>1. CASE active[NameOf[a.point]] = a \/ a \in overtaken \cup lost
    BY <1>1, <1>5, <2>1 DEF Accounted
  <2>2. CASE \E u \in Task : Clearing(u, a)
    <3>1. PICK u \in Task : Clearing(u, a)
      BY <2>2
    <3>2. CASE u # t
      <4>1. Clearing(u, a)'
        BY <1>1, <3>1, <3>2 DEF Clearing
      <4> QED BY <4>1 DEF Accounted
    <3>3. CASE u = t
      <4>1. a = b /\ pc[t] \in {"clear", "update"}
        BY <3>1, <3>3 DEF Clearing, b
      <4>2. a \in cleared' \cup overtaken' \cup lost'
        BY <1>4, <4>1
      <4> QED BY <4>2 DEF Accounted
    <3> QED BY <3>2, <3>3
  <2> QED BY <2>1, <2>2 DEF Accounted
<1>9. RaisingAccounted'
  <2> SUFFICES ASSUME NEW u \in Task, pc'[u] \in {"raise", "save"},
                      NEW a, a = alarm'[u]
               PROVE  Accounted(a)'
    BY DEF RaisingAccounted, Accounted, Clearing
  <2>1. u # t /\ a = alarm[u] /\ pc[u] \in {"raise", "save"}
    BY <1>1
  <2>2. Accounted(a) /\ a \notin rows
    BY <2>1 DEF IInv, RaisingAccounted, RaisingIsFresh
  <2>3. CASE a \notin cleared'
    BY <1>8, <2>2, <2>3
  <2>4. CASE a \in cleared'
    <3>1. a \in rows'
      BY <1>4, <2>2, <2>4 DEF TypeOK, Updates, UpdateRow, b
    <3> QED BY <1>7, <1>1, <2>1, <3>1 DEF RaisingIsFresh
  <2> QED BY <2>3, <2>4
<1>10. OpenNeverCleared'
  BY <1>1, <1>3, <1>5 DEF IInv, OpenNeverCleared
<1>11. OpenIsStored'
  <2> SUFFICES ASSUME NEW n \in Name, active'[n] # NoAlarm
               PROVE  \/ active'[n] \in rows' \cup lost'
                      \/ \E u \in Task : Raising(u, active[n])'
    BY DEF OpenIsStored, Raising
  <2>1. CASE active[n] = b
    <3>1. ~Updates(t)
      BY <1>3, <1>4, <2>1
    <3>2. b \in rows' \cup lost'
      BY <1>4, <3>1
    <3> QED BY <1>1, <2>1, <3>2
  <2>2. CASE active[n] # b
    <3>1. (\E u \in Task : Raising(u, active[n])) =>
            (\E u \in Task : Raising(u, active[n])')
      BY <1>1, <2>2 DEF Raising, b
    <3> QED BY <1>1, <1>5, <3>1 DEF IInv, OpenIsStored
  <2> QED BY <2>1, <2>2
<1>12. StoredOpenAccounted'
  <2> SUFFICES ASSUME NEW a \in rows' \ cleared'
               PROVE  Accounted(a)' \/ a.uid <= epoch'
    BY DEF StoredOpenAccounted, Accounted
  <2>1. CASE a \in rows
    <3>1. Accounted(a) \/ a.uid <= epoch
      BY <1>5, <2>1 DEF IInv, StoredOpenAccounted, Accounted
    <3> QED BY <1>1, <1>8, <3>1
  <2>2. CASE a \notin rows
    <3>1. a = b /\ pc[t] = "save"
      BY <1>4, <1>5, <2>2
    <3>2. Accounted(a)
      BY <3>1 DEF IInv, RaisingAccounted, b
    <3> QED BY <1>8, <3>2
  <2> QED BY <2>1, <2>2
<1> QED BY <1>6, <1>7, <1>9, <1>10, <1>11, <1>12 DEF IInv

\* It survives a restart, which forgets the excursions and the events on their way.
LEMMA RestartKeeps ==
  ASSUME TypeOK, IInv, Restart
  PROVE  IInv'
<1>1. /\ \A t \in Task : pc'[t] = "idle" /\ alarm'[t] = NoAlarm
      /\ \A n \in Name : active'[n] = NoAlarm
      /\ epoch' = uid /\ UNCHANGED <<rows, cleared, uid>>
  BY DEF Restart, tableVars
<1>2. StoredOpenAccounted'
  BY <1>1 DEF IInv, FreshUids, Used, StoredOpenAccounted
<1> QED BY <1>1, <1>2
    DEF IInv, FreshUids, Used, OpenUnderOwnName, ClearingIsClosed, RaisingIsFresh,
        RaisingAccounted, OpenNeverCleared, OpenIsStored

\* The strengthened invariant holds in every state of the detector and the alarms table.
THEOREM StrongInvariant == Spec => []IInv
<1>1. TypeOK /\ IInv /\ [Next]_vars => IInv'
  <2> SUFFICES ASSUME TypeOK, IInv, [Next]_vars PROVE IInv'
    OBVIOUS
  <2>1. ASSUME NEW t \in Task, TaskStep(t)
        PROVE  IInv'
    BY <2>1, WalkKeeps, OpenKeeps, CloseKeeps, ReachKeeps, TableStepKeeps
    DEF TaskStep
  <2>2. CASE Restart
    BY <2>2, RestartKeeps
  <2>3. CASE UNCHANGED <<pc, point, alarm, active, tableVars, uid, epoch>>
    BY <2>3 DEF tableVars, IInv, FreshUids, Used, OpenUnderOwnName,
        ClearingIsClosed, RaisingIsFresh, RaisingAccounted, Accounted, Clearing,
        Raising, OpenNeverCleared, OpenIsStored, StoredOpenAccounted
  <2> QED BY <2>1, <2>2, <2>3, StepKinds
<1> QED BY <1>1, InitIInv, TypeCorrect, PTL DEF Spec

\* An excursion held open is never shown as cleared in the alarms table.
THEOREM OpenAlarmsStayOpen == Spec => []OpenNeverCleared
BY StrongInvariant, PTL DEF IInv

\* An excursion held open has its row, or a task about to insert it, unless a
\* write of the table failed or the task was cancelled.
THEOREM OpenAlarmsAreStored == Spec => []OpenIsStored
BY StrongInvariant, PTL DEF IInv

\* A row shown as active is an open excursion or about to be cleared, save for
\* overtaken clears, failed writes, cancelled tasks and restarts.
THEOREM ActiveRowsAccounted == Spec => []StoredOpenAccounted
BY StrongInvariant, PTL DEF IInv

-----------------------------------------------------------------------------
\* What the list of active alarms rests on when nothing overlaps.  First, of the
\* alarms: a task raises the alarm of the point it reads and clears one of its
\* point's name, excursions held open are of this run of the process, and an alarm
\* that is being cleared is stored, lost, or still being raised by another task.
OwnAlarms ==
  /\ \A t \in Task : pc[t] \in {"raise", "save"} => alarm[t].point = point[t]
  /\ \A t \in Task : pc[t] \in {"clear", "update"} =>
       NameOf[alarm[t].point] = NameOf[point[t]]
  /\ epoch <= uid /\ \A n \in Name : active[n] # NoAlarm => active[n].uid > epoch
  /\ \A t \in Task : pc[t] \in {"clear", "update"} =>
       alarm[t] \in rows \cup lost \/ \E u \in Task : Raising(u, alarm[t])

\* Of the readings: two in work under one name make it contended; a reading that
\* is not judged yet is newer than the last verdict under its name; and that
\* verdict says whether the excursion of the name is open.
Numbered ==
  /\ \A t \in Task : seq[t] <= readings
  /\ \A n \in Name : newest[n].seq <= readings

Alone ==
  \A t, u \in Task :
    pc[t] # "idle" /\ pc[u] # "idle" /\ t # u /\ NameOf[point[t]] = NameOf[point[u]] =>
      NameOf[point[t]] \in contended

UnjudgedIsNewest ==
  \A t \in Task :
    pc[t] \in {"event", "forecast"} /\ NameOf[point[t]] \notin contended =>
      seq[t] > newest[NameOf[point[t]]].seq

VerdictKept ==
  \A n \in Name \ contended :
    /\ newest[n].verdict = "out" => active[n] # NoAlarm
    /\ newest[n].verdict = "in" => active[n] = NoAlarm

\* Of the table: a clear found no row only where readings overlapped, where the
\* insert failed or was cancelled, or before the last restart.
GapsExplained ==
  \A a \in overtaken :
    /\ Used(a)
    /\ a.uid <= epoch \/ a \in lost \/ NameOf[a.point] \in contended

OrderInv == Numbered /\ Alone /\ UnjudgedIsNewest /\ VerdictKept

\* Every step keeps the facts on alarms: only Closes clears, and what it closes is stored,
\* lost or being raised (OpenIsStored).
LEMMA OwnAlarmsStep ==
  ASSUME TypeOK, IInv, OwnAlarms, [Next]_vars
  PROVE  OwnAlarms'
<1>1. ASSUME NEW t \in Task, Walks(t) PROVE OwnAlarms'
  <2>1. /\ \A u \in Task \ {t} : pc'[u] = pc[u] /\ point'[u] = point[u]
        /\ pc[t] \in Before /\ pc'[t] \in Before
        /\ UNCHANGED <<alarm, active, rows, lost, uid, epoch>>
    BY <1>1 DEF Walks, PcStep, Before, TypeOK, Stage, tableVars
  <2> QED BY <2>1 DEF OwnAlarms, Raising, Before
<1>2. ASSUME NEW t \in Task, Opens(t) PROVE OwnAlarms'
  <2>1. /\ \A u \in Task \ {t} : pc'[u] = pc[u] /\ alarm'[u] = alarm[u]
        /\ pc[t] \in Before /\ pc'[t] = "raise"
        /\ alarm'[t] = [uid |-> uid + 1, point |-> point[t]]
        /\ active' = [active EXCEPT ![NameOf[point[t]]] = alarm'[t]]
        /\ uid' = uid + 1 /\ UNCHANGED <<point, rows, lost, epoch>>
    BY <1>2 DEF Opens, RaiseAnomalyAlarm, Goto, TypeOK, tableVars
  <2>2. \A u \in Task : pc'[u] \in {"clear", "update"} =>
          u # t /\ alarm'[u] = alarm[u] /\ pc[u] = pc'[u]
    BY <2>1
  <2>3. \A a : (\E u \in Task : Raising(u, a)) => (\E u \in Task : Raising(u, a)')
    BY <2>1 DEF Raising, Before
  <2>4. \A u \in Task : pc'[u] \in {"clear", "update"} =>
          alarm'[u] \in rows' \cup lost' \/ \E v \in Task : Raising(v, alarm[u])'
    <3> SUFFICES ASSUME NEW u \in Task, pc'[u] \in {"clear", "update"}, NEW a, a = alarm'[u]
                 PROVE  a \in rows' \cup lost' \/ \E v \in Task : Raising(v, a)'
      BY DEF Raising
    <3>1. pc[u] \in {"clear", "update"} /\ a = alarm[u] /\ rows' = rows /\ lost' = lost
      BY <2>1, <2>2
    <3>2. a \in rows \cup lost \/ \E v \in Task : Raising(v, a)
      BY <3>1 DEF OwnAlarms
    <3> QED BY <2>3, <3>1, <3>2
  <2>5. uid \in Nat /\ epoch \in Nat /\ alarm'[t].uid = uid + 1 /\ alarm'[t].point = point[t]
    BY <2>1 DEF TypeOK
  <2>6. \A n \in Name : active'[n] # NoAlarm => active'[n].uid > epoch
    BY <2>1, <2>5 DEF OwnAlarms, TypeOK
  <2> QED BY <2>1, <2>4, <2>5, <2>6 DEF OwnAlarms
<1>3. ASSUME NEW t \in Task, Closes(t) PROVE OwnAlarms'
  <2>1. /\ \A u \in Task \ {t} : pc'[u] = pc[u] /\ alarm'[u] = alarm[u]
        /\ pc[t] \in Before /\ pc'[t] = "clear"
        /\ alarm'[t] = active[NameOf[point[t]]] /\ NameOf[point[t]] \in Name
        /\ active[NameOf[point[t]]] # NoAlarm
        /\ \A n \in Name : active'[n] \in {active[n], NoAlarm}
        /\ UNCHANGED <<point, rows, lost, uid, epoch>>
    BY <1>3, AlarmFlowAssumption DEF Closes, PcStep, TypeOK, tableVars
  <2>2. \A a : (\E u \in Task : Raising(u, a)) => (\E u \in Task : Raising(u, a)')
    BY <2>1 DEF Raising, Before
  <2>3. /\ alarm'[t] \in rows' \cup lost' \/ \E v \in Task : Raising(v, alarm'[t])
        /\ NameOf[alarm'[t].point] = NameOf[point[t]]
    BY <2>1 DEF IInv, OpenIsStored, OpenUnderOwnName
  <2>4. \A u \in Task : pc'[u] \in {"clear", "update"} =>
          alarm'[u] \in rows' \cup lost' \/ \E v \in Task : Raising(v, alarm[u])'
    BY <2>1, <2>2, <2>3 DEF OwnAlarms, Raising
  <2> QED BY <2>1, <2>3, <2>4 DEF OwnAlarms, Before
<1>4. ASSUME NEW t \in Task, Reaches(t) PROVE OwnAlarms'
  <2>1. /\ \A u \in Task \ {t} : pc'[u] = pc[u]
        /\ \/ pc[t] = "raise" /\ pc'[t] = "save"
           \/ pc[t] = "clear" /\ pc'[t] = "update"
        /\ UNCHANGED <<point, alarm, active, rows, lost, uid, epoch>>
    BY <1>4 DEF Reaches, PcStep, TypeOK, tableVars
  <2> QED BY <2>1 DEF OwnAlarms, Raising
<1>5. ASSUME NEW t \in Task, Saves(t) \/ Updates(t) \/ Loses(t) PROVE OwnAlarms'
  <2>1. /\ pc'[t] = "idle" /\ \A u \in Task \ {t} : pc'[u] = pc[u]
        /\ UNCHANGED <<point, alarm, active, uid, epoch>>
        /\ rows \subseteq rows' /\ lost \subseteq lost'
    BY <1>5 DEF Saves, Updates, Loses, InsertRow, UpdateRow, PcStep, TypeOK
  <2>2. pc[t] \in {"raise", "save"} => alarm[t] \in rows' \cup lost'
    BY <1>5 DEF Saves, Updates, Loses, InsertRow
  <2>3. \A a : (\E u \in Task : Raising(u, a)) =>
          a \in rows' \cup lost' \/ \E u \in Task : Raising(u, a)'
    BY <2>1, <2>2 DEF Raising
  <2>4. \A u \in Task : pc'[u] \in {"clear", "update"} =>
          alarm'[u] \in rows' \cup lost' \/ \E v \in Task : Raising(v, alarm[u])'
    BY <2>1, <2>3 DEF OwnAlarms, Raising
  <2> QED BY <2>1, <2>4 DEF OwnAlarms
<1>6. CASE Restart
  BY <1>6 DEF Restart, OwnAlarms, TypeOK
<1>7. CASE UNCHANGED <<pc, point, alarm, active, tableVars, uid, epoch>>
  BY <1>7 DEF OwnAlarms, Raising, tableVars
<1> QED BY <1>1, <1>2, <1>3, <1>4, <1>5, <1>6, <1>7, StepKinds DEF TaskStep

\* The name of a task's point is one.
LEMMA NameType ==
  ASSUME TypeOK, NEW t \in Task
  PROVE  NameOf[point[t]] \in Name
BY AlarmFlowAssumption DEF TypeOK

\* A judged reading under a name that is not contended sets its verdict, and no
\* other task is at work under it.
LEMMA JudgeOrder ==
  ASSUME TypeOK, OrderInv, NEW t \in Task, pc[t] \in {"event", "forecast"},
         NEW v \in Judgement, Judge(t, v)
  PROVE  /\ NameOf[point[t]] \notin contended =>
              newest'[NameOf[point[t]]] = [seq |-> seq[t], verdict |-> v]
         /\ \A n \in Name \ {NameOf[point[t]]} : newest'[n] = newest[n]
         /\ \A n \in Name : newest'[n].seq <= readings
<1>1. NameOf[point[t]] \in Name /\ seq[t] <= readings
  BY NameType DEF OrderInv, Numbered
<1>2. NameOf[point[t]] \notin contended => seq[t] > newest[NameOf[point[t]]].seq
  BY DEF OrderInv, UnjudgedIsNewest
<1>3. \A n \in Name : newest[n].seq <= readings
  BY DEF OrderInv, Numbered
<1> QED BY <1>1, <1>2, <1>3 DEF Judge, TypeOK

\* A step of one task that leaves the numbers, the points and the contended as they are,
\* and after a judgement is not at it any more.
LEMMA StepOrder ==
  ASSUME TypeOK, OrderInv, NEW t \in Task, pc[t] # "idle", NEW stage \in Stage, PcStep(t, stage),
         UNCHANGED <<point, seq, readings, contended>>,
         \/ newest' = newest /\ (stage \in {"event", "forecast"} => pc[t] \in {"event", "forecast"})
         \/ /\ stage \notin {"event", "forecast"} /\ pc[t] \in {"event", "forecast"}
            /\ \E v \in Judgement : Judge(t, v)
  PROVE  Numbered' /\ Alone' /\ UnjudgedIsNewest'
<1>1. pc'[t] = stage /\ \A u \in Task \ {t} : pc'[u] = pc[u]
  BY OthersKeep
<1>2. Alone'
  BY <1>1 DEF OrderInv, Alone
<1>3. CASE newest' = newest /\ (stage \in {"event", "forecast"} => pc[t] \in {"event", "forecast"})
  BY <1>1, <1>2, <1>3 DEF OrderInv, Numbered, UnjudgedIsNewest
<1>4. CASE /\ stage \notin {"event", "forecast"} /\ pc[t] \in {"event", "forecast"}
           /\ \E v \in Judgement : Judge(t, v)
  <2>1. Numbered'
    BY <1>4, JudgeOrder DEF OrderInv, Numbered
  <2>2. ASSUME NEW u \in Task, pc'[u] \in {"event", "forecast"},
               NameOf[point[u]] \notin contended
        PROVE  seq[u] > newest'[NameOf[point[u]]].seq
    <3>1. u # t /\ pc[u] = pc'[u] /\ NameOf[point[u]] # NameOf[point[t]]
      BY <1>1, <1>4, <2>2 DEF OrderInv, Alone
    <3>2. newest'[NameOf[point[u]]] = newest[NameOf[point[u]]]
      BY <1>4, <3>1, NameType, JudgeOrder
    <3> QED BY <2>2, <3>1, <3>2 DEF OrderInv, UnjudgedIsNewest
  <2> QED BY <1>2, <2>1, <2>2 DEF UnjudgedIsNewest
<1> QED BY <1>3, <1>4

\* A name keeps its excursion while readings under others are judged.
LEMMA VerdictStep ==
  ASSUME TypeOK, OrderInv, NEW t \in Task, pc[t] \in {"event", "forecast"},
         NEW v \in Judgement, Judge(t, v), contended' = contended,
         \A n \in Name \ {NameOf[point[t]]} : active'[n] = active[n],
         v = "out" => active'[NameOf[point[t]]] # NoAlarm,
         v = "in" => active'[NameOf[point[t]]] = NoAlarm
  PROVE  VerdictKept'
<1> SUFFICES ASSUME NEW n \in Name \ contended
             PROVE  /\ newest'[n].verdict = "out" => active'[n] # NoAlarm
                    /\ newest'[n].verdict = "in" => active'[n] = NoAlarm
  BY DEF VerdictKept
<1>1. CASE n = NameOf[point[t]]
  <2>1. newest'[n] = [seq |-> seq[t], verdict |-> v]
    BY <1>1, JudgeOrder
  <2> QED BY <1>1, <2>1
<1>2. CASE n # NameOf[point[t]]
  <2>1. newest'[n] = newest[n]
    BY <1>2, JudgeOrder
  <2> QED BY <1>2, <2>1 DEF OrderInv, VerdictKept
<1> QED BY <1>1, <1>2

\* Every step keeps the order of the readings and the verdicts.
LEMMA OrderStep ==
  ASSUME TypeOK, OrderInv, [Next]_vars
  PROVE  OrderInv'
<1>1. ASSUME NEW t \in Task, NEW p \in Point, Publish(t, p) PROVE OrderInv'
  <2>1. /\ pc[t] = "idle" /\ readings' = readings + 1 /\ readings \in Nat
        /\ point'[t] = p /\ seq'[t] = readings + 1 /\ pc'[t] = "event"
        /\ \A u \in Task \ {t} : point'[u] = point[u] /\ seq'[u] = seq[u] /\ pc'[u] = pc[u]
        /\ UNCHANGED <<newest, active>>
    BY <1>1 DEF Publish, Goto, TypeOK
  <2>2. (\E u \in Task : pc[u] # "idle" /\ NameOf[point[u]] = NameOf[p]) =>
          NameOf[p] \in contended'
    BY <1>1 DEF Publish, Quiet
  <2>3. contended \subseteq contended'
    BY <1>1 DEF Publish
  <2>4. \A u \in Task : seq[u] \in Nat
    BY DEF TypeOK
  <2>5. NameOf[p] \in Name /\ \A n \in Name : newest[n].seq \in Nat
    BY AlarmFlowAssumption DEF TypeOK
  <2>6. Numbered'
    BY <2>1, <2>4, <2>5 DEF OrderInv, Numbered
  <2>7. Alone'
    BY <2>1, <2>2, <2>3 DEF OrderInv, Alone
  <2>8. UnjudgedIsNewest'
    BY <2>1, <2>3, <2>5 DEF OrderInv, UnjudgedIsNewest, Numbered
  <2>9. VerdictKept'
    BY <2>1, <2>3 DEF OrderInv, VerdictKept
  <2> QED BY <2>6, <2>7, <2>8, <2>9 DEF OrderInv
<1>2. ASSUME NEW t \in Task, Continue(t) PROVE OrderInv'
  <2>1. CASE \/ SkipValue(t) \/ AwaitForecast(t) \/ NoForecast(t)
             \/ EventServiceDone(t) \/ AlarmServiceWrites(t) \/ AlarmServiceFails(t)
    <3>1. /\ UNCHANGED <<point, seq, readings, contended, newest, active>>
          /\ pc[t] # "idle"
          /\ \E stage \in Stage :
               /\ PcStep(t, stage)
               /\ stage \in {"event", "forecast"} => pc[t] \in {"event", "forecast"}
      BY <2>1 DEF SkipValue, AwaitForecast, NoForecast, EventServiceDone, NextHandler,
                  AlarmServiceWrites, TableWrite, AlarmServiceFails, Goto, PcStep, Stage
    <3>2. Numbered' /\ Alone' /\ UnjudgedIsNewest'
      BY <3>1, StepOrder
    <3> QED BY <3>1, <3>2 DEF OrderInv, VerdictKept
  <2>2. CASE WithinMargin(t)
    <3>1. /\ UNCHANGED <<point, seq, readings, contended, active>>
          /\ pc[t] = "forecast" /\ PcStep(t, "idle") /\ Judge(t, "margin")
      BY <2>2 DEF WithinMargin, Goto, PcStep
    <3>2. Numbered' /\ Alone' /\ UnjudgedIsNewest'
      BY <3>1, StepOrder DEF Stage, Judgement
    <3>3. VerdictKept'
      BY <3>1, VerdictStep DEF Judgement
    <3> QED BY <3>2, <3>3 DEF OrderInv
  <2>3. CASE HardLimit(t) \/ Outside(t)
    <3>1. /\ UNCHANGED <<point, seq, readings, contended>>
          /\ pc[t] \in {"event", "forecast"} /\ Judge(t, "out") /\ Breach(t)
          /\ PcStep(t, "idle") \/ PcStep(t, "raise")
      BY <2>3 DEF HardLimit, Outside, Breach, RaiseAnomalyAlarm, Goto, PcStep
    <3>2. Numbered' /\ Alone' /\ UnjudgedIsNewest'
      BY <3>1, StepOrder DEF Stage, Judgement
    <3>3. /\ \A n \in Name \ {NameOf[point[t]]} : active'[n] = active[n]
          /\ active'[NameOf[point[t]]] # NoAlarm
      <4>1. point[t] \in Point /\ NameOf[point[t]] \in Name /\ uid \in Nat
        BY AlarmFlowAssumption DEF TypeOK
      <4>2. CASE active[NameOf[point[t]]] # NoAlarm
        BY <3>1, <4>2 DEF Breach
      <4>3. CASE active[NameOf[point[t]]] = NoAlarm
        <5>1. [uid |-> uid + 1, point |-> point[t]] # NoAlarm
          BY <4>1, AlarmFlowAssumption DEF Alarm
        <5>2. active' = [active EXCEPT ![NameOf[point[t]]] = [uid |-> uid + 1, point |-> point[t]]]
          BY <3>1, <4>3 DEF Breach, RaiseAnomalyAlarm
        <5> QED BY <4>1, <5>1, <5>2 DEF TypeOK
      <4> QED BY <4>2, <4>3
    <3>4. VerdictKept'
      BY <3>1, <3>3, VerdictStep DEF Judgement
    <3> QED BY <3>2, <3>4 DEF OrderInv
  <2>4. CASE Inside(t)
    <3>1. /\ UNCHANGED <<point, seq, readings, contended>>
          /\ pc[t] = "forecast" /\ Judge(t, "in")
          /\ PcStep(t, "idle") \/ PcStep(t, "clear")
          /\ active' = [active EXCEPT ![NameOf[point[t]]] = NoAlarm]
      BY <2>4 DEF Inside, MaybeClear, Goto, PcStep
    <3>2. Numbered' /\ Alone' /\ UnjudgedIsNewest'
      BY <3>1, StepOrder DEF Stage, Judgement
    <3>3. /\ \A n \in Name \ {NameOf[point[t]]} : active'[n] = active[n]
          /\ active'[NameOf[point[t]]] = NoAlarm
      BY <3>1, AlarmFlowAssumption DEF TypeOK
    <3>4. VerdictKept'
      BY <3>1, <3>3, VerdictStep DEF Judgement
    <3> QED BY <3>2, <3>4 DEF OrderInv
  <2> QED BY <1>2, <2>1, <2>2, <2>3, <2>4 DEF Continue
<1>3. CASE Restart
  BY <1>3 DEF Restart, OrderInv, Numbered, Alone, UnjudgedIsNewest, VerdictKept, Unjudged,
              TypeOK, tableVars
<1>4. CASE UNCHANGED vars
  BY <1>4 DEF vars, taskVars, OrderInv, Numbered, Alone, UnjudgedIsNewest, VerdictKept
<1>5. ASSUME NEW t \in Task, Cancel(t) PROVE OrderInv'
  <2>1. /\ UNCHANGED <<point, seq, readings, contended, newest, active>>
        /\ pc[t] # "idle" /\ PcStep(t, "idle")
    BY <1>5 DEF Cancel, CancelledOutside, CancelledUnwritten, TableWrite, Goto, PcStep
  <2>2. Numbered' /\ Alone' /\ UnjudgedIsNewest'
    BY <2>1, StepOrder DEF Stage
  <2> QED BY <2>1, <2>2 DEF OrderInv, VerdictKept
<1> QED BY <1>1, <1>2, <1>3, <1>4, <1>5 DEF Next

\* A clear that finds no row has its alarm raised by another reading of its point.
LEMMA GapsStep ==
  ASSUME TypeOK, IInv, OwnAlarms, OrderInv, GapsExplained, [Next]_vars
  PROVE  GapsExplained'
<1>1. ASSUME contended \subseteq contended', lost \subseteq lost', UNCHANGED <<overtaken, epoch>>,
             uid' \in {uid, uid + 1}
      PROVE  GapsExplained'
  BY <1>1 DEF GapsExplained, Used, TypeOK, Alarm
<1>2. ASSUME NEW t \in Task, NEW p \in Point, Publish(t, p) PROVE GapsExplained'
  BY <1>1, <1>2 DEF Publish, tableVars, envVars
<1>3. ASSUME NEW t \in Task,
             \/ SkipValue(t) \/ AwaitForecast(t) \/ HardLimit(t) \/ NoForecast(t)
             \/ Inside(t) \/ WithinMargin(t) \/ Outside(t) \/ EventServiceDone(t)
      PROVE  GapsExplained'
  BY <1>1, <1>3 DEF SkipValue, AwaitForecast, HardLimit, NoForecast, Inside, WithinMargin, Outside,
     EventServiceDone, Breach, RaiseAnomalyAlarm, MaybeClear, tableVars, envVars
<1>4. ASSUME NEW t \in Task, TableWrite(t), UNCHANGED <<lost, uid, contended, epoch>>
      PROVE  GapsExplained'
  <2>1. CASE pc[t] = "save"
    BY <1>1, <1>4, <2>1 DEF TableWrite, InsertRow
  <2>2. CASE pc[t] = "update" /\ alarm[t] \in rows
    BY <1>1, <1>4, <2>2 DEF TableWrite, UpdateRow
  <2>3. CASE pc[t] = "update" /\ alarm[t] \notin rows
    <3>1. overtaken' = overtaken \cup {alarm[t]}
      BY <1>4, <2>3 DEF TableWrite, UpdateRow
    <3>2. Used(alarm[t])
      BY <2>3 DEF IInv, FreshUids, TypeOK
    <3>3. ASSUME alarm[t] \notin lost
          PROVE  NameOf[alarm[t].point] \in contended
      <4>1. PICK u \in Task : Raising(u, alarm[t])
        BY <2>3, <3>3 DEF OwnAlarms
      <4>2. pc[u] \in {"raise", "save"} /\ point[u] = alarm[t].point
        BY <4>1 DEF OwnAlarms, Raising
      <4>3. NameOf[point[t]] = NameOf[alarm[t].point]
        BY <2>3 DEF OwnAlarms
      <4> QED BY <2>3, <4>2, <4>3 DEF OrderInv, Alone
    <3> QED BY <1>4, <3>1, <3>2, <3>3 DEF GapsExplained, Used
  <2> QED BY <1>4, <2>1, <2>2, <2>3 DEF TableWrite
<1>5. ASSUME NEW t \in Task, AlarmServiceWrites(t) PROVE GapsExplained'
  BY <1>4, <1>5 DEF AlarmServiceWrites, envVars
<1>6. ASSUME NEW t \in Task, AlarmServiceFails(t) PROVE GapsExplained'
  BY <1>1, <1>6 DEF AlarmServiceFails, envVars
<1>7. ASSUME NEW t \in Task, Cancel(t) PROVE GapsExplained'
  <2>1. CASE CancelledOutside(t) \/ CancelledUnwritten(t)
    BY <1>1, <1>7, <2>1 DEF Cancel, CancelledOutside, CancelledUnwritten, envVars
  <2>2. CASE TableWrite(t) /\ UNCHANGED lost
    BY <1>4, <1>7, <2>2 DEF Cancel, envVars
  <2> QED BY <1>7, <2>1, <2>2 DEF Cancel
<1>8. CASE Restart
  BY <1>8 DEF Restart, GapsExplained, Used, tableVars, IInv
<1>9. CASE UNCHANGED vars
  BY <1>1, <1>9 DEF vars, tableVars, envVars
<1> QED BY <1>2, <1>3, <1>5, <1>6, <1>7, <1>8, <1>9 DEF Next, Continue

\* Where the readings under a name never overlapped, the list of active alarms says
\* what the last judged one was as soon as its handlers are done, however the tasks
\* of other names interleave: only an alarm whose own write failed or was cancelled is
\* missing or left over.
THEOREM QuietListRight == Spec => []QuietListMatches
<1>1. Init => OwnAlarms /\ OrderInv /\ GapsExplained
  BY DEF Init, OwnAlarms, OrderInv, Numbered, Alone, UnjudgedIsNewest, VerdictKept, Unjudged,
         GapsExplained
<1>2. /\ OwnAlarms /\ OrderInv /\ GapsExplained
      /\ TypeOK /\ IInv /\ [Next]_vars
      => (OwnAlarms /\ OrderInv /\ GapsExplained)'
  BY OwnAlarmsStep, OrderStep, GapsStep
<1>3. TypeOK /\ IInv /\ OwnAlarms /\ OrderInv /\ GapsExplained => QuietListMatches
  <2> SUFFICES ASSUME TypeOK, IInv, OwnAlarms, OrderInv, GapsExplained,
                      NEW n \in Name \ contended, Quiet(n)
               PROVE  /\ newest[n].verdict = "out" => OpenRow(n) \/ active[n] \in lost
                      /\ newest[n].verdict = "in" =>
                           \A a \in rows \ cleared :
                             NameOf[a.point] = n /\ a.uid > epoch => a \in lost
    BY DEF QuietListMatches
  <2>1. ASSUME newest[n].verdict = "out", active[n] \notin lost PROVE OpenRow(n)
    <3> DEFINE a == active[n]
    <3>1. a # NoAlarm
      BY <2>1 DEF OrderInv, VerdictKept
    <3>2. NameOf[a.point] = n
      BY <3>1 DEF IInv, OpenUnderOwnName
    <3>3. ASSUME NEW t \in Task, Raising(t, a) PROVE FALSE
      <4>1. pc[t] \in {"raise", "save"} /\ alarm[t] = a
        BY <3>3 DEF Raising
      <4>2. NameOf[point[t]] = n
        BY <3>2, <4>1 DEF OwnAlarms
      <4> QED BY <4>1, <4>2 DEF Quiet
    <3>4. a \in rows \ cleared
      BY <2>1, <3>1, <3>3 DEF IInv, OpenIsStored, OpenNeverCleared
    <3> QED BY <3>1, <3>2, <3>4 DEF OpenRow, OwnAlarms
  <2>2. ASSUME newest[n].verdict = "in", NEW a \in rows \ cleared, NameOf[a.point] = n,
               a.uid > epoch
        PROVE  a \in lost
    <3>1. a \in Alarm /\ a.uid \in Nat /\ epoch \in Nat
      BY DEF TypeOK, Alarm
    <3>2. active[NameOf[a.point]] = NoAlarm /\ a # NoAlarm
      BY <2>2, <3>1, AlarmFlowAssumption DEF OrderInv, VerdictKept
    <3>3. ASSUME NEW t \in Task, Clearing(t, a) PROVE FALSE
      <4>1. pc[t] \in {"clear", "update"} /\ alarm[t] = a
        BY <3>3 DEF Clearing
      <4>2. NameOf[point[t]] = n
        BY <2>2, <4>1 DEF OwnAlarms
      <4> QED BY <4>1, <4>2 DEF Quiet
    <3>4. a \in overtaken => a \in lost
      BY <2>2, <3>1 DEF GapsExplained
    <3> QED BY <2>2, <3>1, <3>2, <3>3, <3>4 DEF IInv, StoredOpenAccounted
  <2> QED BY <2>1, <2>2
<1> QED BY <1>1, <1>2, <1>3, StrongInvariant, TypeCorrect, PTL DEF Spec
=============================================================================
