------------------------ MODULE EventDelivery_proofs ------------------------
(***************************************************************************)
(* What holds of the event log and the endpoints for any number of tasks,  *)
(* endpoints, events, requests and failures: the types, that the mark of   *)
(* an event is right, and that reports on endpoints are kept.              *)
(***************************************************************************)
EXTENDS EventDelivery, TLAPS

Stages == Posting \cup {"none", "ok", "failed"}
Places == {"idle", "log", "list", "deliver", "mark"}

\* TypeOK in four parts.
EndpointTypes ==
  /\ live \subseteq Endpoint /\ deleted \subseteq Endpoint
  /\ enabled \in [Endpoint -> BOOLEAN]
  /\ fails \in [Endpoint -> Nat] /\ streak \in [Endpoint -> Nat]
RequestTypes ==
  /\ stale \subseteq Endpoint
  /\ request \in {"idle", "toggle", "test", "tell"} /\ subject \in Endpoint
  /\ copy \in [enabled : BOOLEAN, fails : Nat] /\ answer \in BOOLEAN
  /\ requests \in Nat
EventTypes ==
  /\ logged \subseteq Event /\ delivered \subseteq logged
  /\ targets \subseteq Pair /\ accepted \subseteq Pair
  /\ missed \subseteq Event /\ published \in 0..MaxEvents /\ failures \in Nat
TaskTypes ==
  /\ pc \in [Task -> Places]
  /\ event \in [Task -> 0..published] /\ wanting \in [Task -> SUBSET Endpoint]
  /\ stage \in [Task -> [Endpoint -> Stages]]

LEMMA TypeParts ==
  /\ TypeOK => EndpointTypes /\ RequestTypes /\ EventTypes /\ TaskTypes
  /\ EndpointTypes' /\ RequestTypes' /\ EventTypes' /\ TaskTypes' => TypeOK'
<1> USE DEF TypeOK, EndpointTypes, RequestTypes, EventTypes, TaskTypes, Stages, Places
<1>1. TypeOK => EndpointTypes /\ RequestTypes /\ EventTypes /\ TaskTypes
  OBVIOUS
<1>2. EndpointTypes' /\ RequestTypes' /\ EventTypes' /\ TaskTypes' => TypeOK'
  OBVIOUS
<1> QED BY <1>1, <1>2

-----------------------------------------------------------------------------
(***************************************************************************)
(* Each task has an event of its own, which is where its stage says        *)
(***************************************************************************)

\* A busy task has a published event that no other task has; it is logged
\* unless the task is still about to log it.
OwnEvent ==
  /\ \A t \in Task : pc[t] # "idle" => event[t] \in 1..published
  /\ \A t, u \in Task : pc[t] # "idle" /\ pc[u] # "idle" /\ event[t] = event[u] => t = u
  /\ \A t \in Task : pc[t] \notin {"idle", "log"} => event[t] \in logged

\* Before the endpoints are listed the event has no targets; afterwards the
\* stages tell which the targets are, and what they answered.
Staged(t) ==
  /\ event[t] \notin delivered
  /\ pc[t] \in {"log", "list"} => \A e \in Endpoint : <<event[t], e>> \notin targets
  /\ pc[t] \in {"deliver", "mark"} =>
       /\ \E e \in Endpoint : stage[t][e] # "none"
       /\ \A e \in Endpoint :
            /\ <<event[t], e>> \in targets <=> stage[t][e] # "none"
            /\ stage[t][e] \in {"ok?", "ok"} => <<event[t], e>> \in accepted
            /\ stage[t][e] = "failed" => <<event[t], e>> \notin accepted \/ event[t] \in missed
            /\ stage[t][e] \in {"post", "failed?"} => <<event[t], e>> \notin accepted
  /\ pc[t] = "mark" => \A e \in Endpoint : stage[t][e] \in {"none", "ok"}

\* Only published events are logged or have targets, only targets accept.
OnlyPublished ==
  /\ logged \subseteq 1..published
  /\ \A n \in Event, e \in Endpoint : <<n, e>> \in targets => n \in 1..published
  /\ \A n \in Event, e \in Endpoint : <<n, e>> \in accepted => <<n, e>> \in targets

StagesTell == OnlyPublished /\ \A t \in Task : pc[t] # "idle" => Staged(t)

-----------------------------------------------------------------------------
(***************************************************************************)
(* Types                                                                   *)
(***************************************************************************)

LEMMA CountTypes ==
  ASSUME TypeOK, NEW e \in Endpoint, NEW success, Count(e, success)
  PROVE  EndpointTypes' /\ stale' \subseteq Endpoint
<1>1. EndpointTypes /\ RequestTypes
  BY TypeParts
<1>2. UNCHANGED <<live, enabled, deleted>>
  BY DEF Count
<1>3. fails' \in [Endpoint -> Nat]
  BY <1>1 DEF Count, EndpointTypes
<1>4. streak' \in [Endpoint -> Nat]
  BY <1>1 DEF Count, EndpointTypes
<1>5. stale' \subseteq Endpoint
  BY <1>1 DEF Count, Disturb, RequestTypes
<1> QED BY <1>1, <1>2, <1>3, <1>4, <1>5 DEF EndpointTypes

LEMMA TypeStep == TypeOK /\ OwnEvent /\ [Next]_vars => TypeOK'
<1> SUFFICES ASSUME TypeOK, OwnEvent, [Next]_vars PROVE TypeOK'
  OBVIOUS
<1> USE DEF endpointVars, requestVars, eventVars, taskVars
<1>0. EndpointTypes /\ RequestTypes /\ EventTypes /\ TaskTypes /\ MaxEvents \in Nat
  BY TypeParts, DeliveryAssumption
<1>a. ASSUME UNCHANGED <<eventVars, taskVars, missed, failures>> PROVE EventTypes' /\ TaskTypes'
  BY <1>0, <1>a DEF EventTypes, TaskTypes
<1>b. ASSUME UNCHANGED <<endpointVars, requestVars>> PROVE EndpointTypes' /\ RequestTypes'
  BY <1>0, <1>b DEF EndpointTypes, RequestTypes
<1>1. ASSUME NEW e \in Endpoint, CreateEndpoint(e) PROVE TypeOK'
  <2>1. EndpointTypes' /\ RequestTypes'
    BY <1>0, <1>1 DEF CreateEndpoint, EndpointTypes, RequestTypes
  <2> QED BY <1>a, <1>1, <2>1, TypeParts DEF CreateEndpoint
<1>2. ASSUME NEW e \in Endpoint, DeleteEndpoint(e) PROVE TypeOK'
  <2>1. EndpointTypes' /\ RequestTypes'
    BY <1>0, <1>2 DEF DeleteEndpoint, Disturb, EndpointTypes, RequestTypes
  <2> QED BY <1>a, <1>2, <2>1, TypeParts DEF DeleteEndpoint
<1>3. ASSUME NEW e \in Endpoint, NEW on \in BOOLEAN, ReadToToggle(e, on) PROVE TypeOK'
  <2>1. EndpointTypes' /\ RequestTypes'
    BY <1>0, <1>3 DEF ReadToToggle, EndpointTypes, RequestTypes
  <2> QED BY <1>a, <1>3, <2>1, TypeParts DEF ReadToToggle
<1>4. CASE SaveToggled
  <2>1. EndpointTypes' /\ RequestTypes'
    BY <1>0, <1>4 DEF SaveToggled, EndpointTypes, RequestTypes
  <2> QED BY <1>a, <1>4, <2>1, TypeParts DEF SaveToggled
<1>5. ASSUME NEW e \in Endpoint, ReadToTest(e) PROVE TypeOK'
  <2>1. EndpointTypes' /\ RequestTypes'
    BY <1>0, <1>5 DEF ReadToTest, EndpointTypes, RequestTypes
  <2> QED BY <1>a, <1>5, <2>1, TypeParts DEF ReadToTest
<1>6. CASE TestAnswered
  <2>1. EndpointTypes' /\ RequestTypes'
    BY <1>0, <1>6 DEF TestAnswered, EndpointTypes, RequestTypes
  <2> QED BY <1>a, <1>6, <2>1, TypeParts DEF TestAnswered
<1>7. CASE TestCounted
  <2>1. subject \in Endpoint /\ Count(subject, answer)
    BY <1>0, <1>7 DEF RequestTypes, TestCounted
  <2>2. EndpointTypes' /\ stale' \subseteq Endpoint
    BY <2>1, CountTypes
  <2>3. RequestTypes'
    BY <1>0, <1>7, <2>2 DEF TestCounted, RequestTypes
  <2> QED BY <1>a, <1>7, <2>2, <2>3, TypeParts DEF TestCounted
<1>8. ASSUME NEW t \in Task, NEW k \in Kind, Publish(t, k) PROVE TypeOK'
  <2>1. published' = published + 1 /\ published' \in 0..MaxEvents /\ published \in Nat
    BY <1>0, <1>8 DEF Publish, EventTypes
  <2>2. Wants[k] \subseteq Endpoint
    BY DeliveryAssumption
  <2>3. TaskTypes'
    BY <1>0, <1>8, <2>1, <2>2 DEF Publish, Goto, TaskTypes, Places
  <2>4. EventTypes'
    BY <1>0, <1>8, <2>1 DEF Publish, EventTypes
  <2> QED BY <1>b, <1>8, <2>3, <2>4, TypeParts DEF Publish
<1>9. ASSUME NEW t \in Task, Log(t) PROVE TypeOK'
  <2>1. event[t] \in Event
    BY <1>0, <1>9 DEF Log, OwnEvent, EventTypes, Event
  <2>2. TaskTypes'
    BY <1>0, <1>9 DEF Log, Goto, TaskTypes, Places
  <2>3. EventTypes'
    BY <1>0, <1>9, <2>1 DEF Log, EventTypes
  <2> QED BY <1>b, <1>9, <2>2, <2>3, TypeParts DEF Log
<1>10. ASSUME NEW t \in Task, NEW s \in Places, Leave(t, s), UNCHANGED published,
              wanting' \in [Task -> SUBSET Endpoint]
       PROVE TaskTypes'
  <2>1. Fresh \in [Endpoint -> Stages] /\ published \in Nat
    BY <1>0 DEF Fresh, Stages, EventTypes
  <2>2. pc' \in [Task -> Places] /\ published' = published
    BY <1>0, <1>10 DEF Leave, Goto, TaskTypes
  <2>3. CASE s = "idle"
    <3>1. event' \in [Task -> 0..published]
      BY <1>0, <1>10, <2>1, <2>3 DEF Leave, TaskTypes
    <3>2. stage' \in [Task -> [Endpoint -> Stages]]
      BY <1>0, <1>10, <2>1, <2>3 DEF Leave, TaskTypes
    <3> QED BY <1>10, <2>2, <3>1, <3>2 DEF TaskTypes
  <2>4. CASE s # "idle"
    BY <1>0, <1>10, <2>2, <2>4 DEF Leave, TaskTypes
  <2> QED BY <2>3, <2>4
<1>11. ASSUME NEW t \in Task, List(t) PROVE TypeOK'
  <2> DEFINE chosen == {e \in live : enabled[e] /\ e \in wanting[t]}
             posted == [e \in Endpoint |-> IF e \in chosen THEN "post" ELSE "none"]
  <2>1. event[t] \in Event /\ chosen \subseteq Endpoint
    BY <1>0, <1>11 DEF List, OwnEvent, EventTypes, Event, EndpointTypes
  <2>2. targets' \subseteq Pair
    <3>1. targets' = targets \cup {<<event[t], e>> : e \in chosen} /\ targets \subseteq Pair
      BY <1>0, <1>11 DEF List, EventTypes
    <3>2. {<<event[t], e>> : e \in chosen} \subseteq Pair
      <4> HIDE DEF chosen
      <4> QED BY <2>1 DEF Pair
    <3> QED BY <3>1, <3>2
  <2>3. wanting' \in [Task -> SUBSET Endpoint]
    BY <1>0, <1>11 DEF List, TaskTypes
  <2>4. EventTypes'
    BY <1>0, <1>11, <2>2 DEF List, EventTypes
  <2>5. CASE chosen = {}
    <3>1. Leave(t, "idle")
      BY <1>11, <2>5 DEF List
    <3>2. TaskTypes'
      BY <1>10, <1>11, <2>3, <3>1 DEF Places, List
    <3> QED BY <1>b, <1>11, <2>4, <3>2, TypeParts DEF List
  <2>6. CASE chosen # {}
    <3>1. posted \in [Endpoint -> Stages]
      BY DEF Stages, Posting
    <3>2. stage' = [stage EXCEPT ![t] = posted] /\ event' = event /\ Goto(t, "deliver")
          /\ published' = published
      BY <1>11, <2>6 DEF List
    <3>3. TaskTypes'
      BY <1>0, <2>3, <3>1, <3>2 DEF TaskTypes, Goto, Places
    <3> QED BY <1>b, <1>11, <2>4, <3>3, TypeParts DEF List
  <2> QED BY <2>5, <2>6
<1>12. ASSUME NEW t \in Task, NEW e \in Endpoint, NEW x \in Stages,
              stage' = [stage EXCEPT ![t][e] = x], UNCHANGED <<pc, event, wanting, published>>
       PROVE TaskTypes'
  BY <1>0, <1>12 DEF TaskTypes
<1>13. ASSUME NEW t \in Task, NEW e \in Endpoint, Answered(t, e) PROVE TypeOK'
  <2>1. PICK success \in BOOLEAN :
          /\ accepted' = IF success THEN accepted \cup {<<event[t], e>>} ELSE accepted
          /\ stage' = [stage EXCEPT ![t][e] = IF success THEN "ok?" ELSE "failed?"]
    BY <1>13 DEF Answered
  <2>2. event[t] \in Event
    BY <1>0, <1>13 DEF Answered, OwnEvent, EventTypes, Event
  <2>3. accepted' \subseteq Pair
    BY <1>0, <2>1, <2>2 DEF EventTypes, Pair
  <2>4. EventTypes'
    BY <1>0, <1>13, <2>3 DEF Answered, EventTypes
  <2>5. TaskTypes'
    BY <1>12, <1>13, <2>1 DEF Answered, Stages, Posting
  <2> QED BY <1>b, <1>13, <2>4, <2>5, TypeParts DEF Answered
<1>14. ASSUME NEW t \in Task, NEW e \in Endpoint, Counted(t, e) PROVE TypeOK'
  <2>1. EndpointTypes' /\ stale' \subseteq Endpoint
    BY <1>14, CountTypes DEF Counted
  <2>2. RequestTypes'
    BY <1>0, <1>14, <2>1 DEF Counted, RequestTypes
  <2>3. stage[t][e] \in {"ok?", "failed?"}
    BY <1>14 DEF Counted
  <2>4. TaskTypes'
    BY <1>0, <1>14, <2>3 DEF Counted, Stages, TaskTypes
  <2>5. EventTypes'
    BY <1>0, <1>14 DEF Counted, EventTypes
  <2> QED BY <2>1, <2>2, <2>4, <2>5, TypeParts
<1>15. ASSUME NEW t \in Task, NEW e \in Endpoint, CountingFails(t, e) PROVE TypeOK'
  <2>1. event[t] \in Event
    BY <1>0, <1>15 DEF CountingFails, OwnEvent, EventTypes, Event
  <2>2. TaskTypes'
    BY <1>12, <1>15 DEF CountingFails, Stages
  <2>3. EventTypes'
    BY <1>0, <1>15, <2>1 DEF CountingFails, EventTypes
  <2> QED BY <1>b, <1>15, <2>2, <2>3, TypeParts DEF CountingFails
<1>16. ASSUME NEW t \in Task, Gathered(t) PROVE TypeOK'
  <2>1. PICK s \in {"mark", "idle"} : Leave(t, s)
    BY <1>16 DEF Gathered
  <2>2. TaskTypes'
    BY <1>0, <1>10, <1>16, <2>1 DEF Gathered, Places, TaskTypes
  <2>3. EventTypes'
    BY <1>0, <1>16 DEF Gathered, EventTypes
  <2> QED BY <1>b, <1>16, <2>2, <2>3, TypeParts DEF Gathered
<1>17. ASSUME NEW t \in Task, MarkDelivered(t) PROVE TypeOK'
  <2>1. event[t] \in logged
    BY <1>17 DEF MarkDelivered, OwnEvent
  <2>2. TaskTypes'
    BY <1>0, <1>10, <1>17 DEF MarkDelivered, Places, TaskTypes
  <2>3. EventTypes'
    BY <1>0, <1>17, <2>1 DEF MarkDelivered, EventTypes
  <2> QED BY <1>b, <1>17, <2>2, <2>3, TypeParts DEF MarkDelivered
<1>18. ASSUME NEW t \in Task, HandlerFails(t) \/ Cancelled(t) PROVE TypeOK'
  <2>1. event[t] \in Event
    BY <1>0, <1>18 DEF HandlerFails, Cancelled, OwnEvent, EventTypes, Event
  <2>2. wanting' \in [Task -> SUBSET Endpoint]
    BY <1>0, <1>18 DEF HandlerFails, Cancelled, TaskTypes
  <2>3. TaskTypes'
    BY <1>10, <1>18, <2>2 DEF HandlerFails, Cancelled, Places
  <2>4. EventTypes'
    BY <1>0, <1>18, <2>1 DEF HandlerFails, Cancelled, EventTypes
  <2> QED BY <1>b, <1>18, <2>3, <2>4, TypeParts DEF HandlerFails, Cancelled
<1>19. CASE Crash
  <2>1. \A t \in Task : pc[t] # "idle" => event[t] \in Event
    BY <1>0 DEF OwnEvent, EventTypes, Event
  <2>2. EventTypes'
    BY <1>0, <1>19, <2>1 DEF Crash, EventTypes
  <2>3. TaskTypes'
    BY <1>0, <1>19 DEF Crash, TaskTypes, EventTypes, Fresh, Stages, Places
  <2>4. EndpointTypes' /\ RequestTypes'
    BY <1>0, <1>19 DEF Crash, EndpointTypes, RequestTypes
  <2> QED BY <2>2, <2>3, <2>4, TypeParts
<1>20. CASE UNCHANGED vars
  BY <1>a, <1>b, <1>20, TypeParts DEF vars
<1> QED BY <1>1, <1>2, <1>3, <1>4, <1>5, <1>6, <1>7, <1>8, <1>9, <1>11, <1>13, <1>14, <1>15,
           <1>16, <1>17, <1>18, <1>19, <1>20 DEF Next, Handle, Administer

-----------------------------------------------------------------------------
(***************************************************************************)
(* What a step of one task leaves alone                                    *)
(***************************************************************************)

\* Requests about endpoints and a stutter touch neither the events nor the tasks.
LEMMA AdministerFrame ==
  ASSUME Administer \/ UNCHANGED vars
  PROVE  UNCHANGED <<eventVars, taskVars, missed>>
<1> USE DEF endpointVars, requestVars, eventVars, taskVars
<1>1. ASSUME NEW e \in Endpoint, CreateEndpoint(e) \/ DeleteEndpoint(e) \/ ReadToTest(e)
      PROVE  UNCHANGED <<eventVars, taskVars, missed>>
  BY <1>1 DEF CreateEndpoint, DeleteEndpoint, ReadToTest
<1>2. ASSUME NEW e \in Endpoint, NEW on \in BOOLEAN, ReadToToggle(e, on)
      PROVE  UNCHANGED <<eventVars, taskVars, missed>>
  BY <1>2 DEF ReadToToggle
<1>3. CASE SaveToggled \/ TestAnswered \/ TestCounted
  BY <1>3 DEF SaveToggled, TestAnswered, TestCounted
<1>4. CASE UNCHANGED vars
  BY <1>4 DEF vars
<1> QED BY <1>1, <1>2, <1>3, <1>4 DEF Administer

\* To leave concerns one task.
LEMMA LeaveOne ==
  ASSUME TaskTypes, NEW t \in Task, NEW s, Leave(t, s)
  PROVE  /\ \A u \in Task : u # t => pc'[u] = pc[u] /\ event'[u] = event[u] /\ stage'[u] = stage[u]
         /\ pc'[t] = s
         /\ s # "idle" => event'[t] = event[t] /\ stage'[t] = stage[t]
BY DEF Leave, Goto, TaskTypes

\* A task that keeps its event, or gives it up, keeps the events apart.
LEMMA OwnKept ==
  ASSUME OwnEvent, NEW t \in Task, pc[t] # "idle",
         \A u \in Task : u # t => pc'[u] = pc[u] /\ event'[u] = event[u],
         pc'[t] # "idle" => event'[t] = event[t],
         pc'[t] \notin {"idle", "log"} => event[t] \in logged',
         logged \subseteq logged', published' = published
  PROVE  OwnEvent'
BY DEF OwnEvent

\* Stages of other tasks are about other events.
LEMMA OthersStaged ==
  ASSUME OwnEvent, NEW t \in Task, NEW u \in Task, u # t, pc[t] # "idle", pc[u] # "idle",
         Staged(u), pc'[u] = pc[u], event'[u] = event[u], stage'[u] = stage[u],
         delivered' \subseteq delivered \cup {event[t]},
         \A n, e : n # event[t] => (<<n, e>> \in targets' <=> <<n, e>> \in targets),
         \A n, e : n # event[t] => (<<n, e>> \in accepted' <=> <<n, e>> \in accepted),
         missed \subseteq missed'
  PROVE  Staged(u)'
<1>1. event[u] # event[t]
  BY DEF OwnEvent
<1>2. event'[u] \notin delivered'
  BY <1>1 DEF Staged
<1>3. \A e \in Endpoint : /\ <<event'[u], e>> \in targets' <=> <<event[u], e>> \in targets
                          /\ <<event'[u], e>> \in accepted' <=> <<event[u], e>> \in accepted
  BY <1>1
<1> QED BY <1>2, <1>3 DEF Staged

-----------------------------------------------------------------------------
LEMMA OwnStep == TypeOK /\ OwnEvent /\ [Next]_vars => OwnEvent'
<1> SUFFICES ASSUME TypeOK, OwnEvent, [Next]_vars PROVE OwnEvent'
  OBVIOUS
<1> USE DEF endpointVars, requestVars, eventVars, taskVars
<1>0. EventTypes /\ TaskTypes /\ MaxEvents \in Nat /\ published \in Nat
  BY TypeParts, DeliveryAssumption DEF EventTypes
<1>1. ASSUME NEW t \in Task, NEW k \in Kind, Publish(t, k) PROVE OwnEvent'
  <2>1. pc' = [pc EXCEPT ![t] = "log"] /\ event' = [event EXCEPT ![t] = published + 1]
        /\ published' = published + 1 /\ logged' = logged
    BY <1>1 DEF Publish, Goto
  <2>2. \A u \in Task : u # t => pc'[u] = pc[u] /\ event'[u] = event[u]
    BY <1>0, <2>1 DEF TaskTypes
  <2>3. pc'[t] = "log" /\ event'[t] = published + 1
    BY <1>0, <2>1 DEF TaskTypes
  <2>4. \A u \in Task : pc'[u] # "idle" => event'[u] \in 1..published'
    BY <1>0, <2>1, <2>2, <2>3 DEF OwnEvent
  <2>5. \A u \in Task : u # t /\ pc'[u] # "idle" => event'[u] # event'[t]
    BY <1>0, <2>1, <2>2, <2>3 DEF OwnEvent
  <2> QED BY <2>1, <2>2, <2>3, <2>4, <2>5 DEF OwnEvent
<1>2. ASSUME NEW t \in Task, Log(t) PROVE OwnEvent'
  BY <1>0, <1>2, OwnKept DEF Log, Goto, TaskTypes
<1>4. ASSUME NEW t \in Task, List(t) PROVE OwnEvent'
  <2>1. pc[t] = "list" /\ published' = published /\ logged' = logged /\ event[t] \in logged
    BY <1>4 DEF List, OwnEvent
  <2>2. Leave(t, "idle") \/ (Goto(t, "deliver") /\ UNCHANGED event)
    BY <1>4 DEF List
  <2>3. CASE Leave(t, "idle")
    BY <1>0, <2>1, <2>3, LeaveOne, OwnKept
  <2>4. CASE Goto(t, "deliver") /\ UNCHANGED event
    BY <1>0, <2>1, <2>4, OwnKept DEF Goto, TaskTypes
  <2> QED BY <2>2, <2>3, <2>4
<1>5. ASSUME NEW t \in Task, NEW e \in Endpoint,
             Answered(t, e) \/ Counted(t, e) \/ CountingFails(t, e)
      PROVE  OwnEvent'
  BY <1>5 DEF Answered, Counted, CountingFails, OwnEvent
<1>6. ASSUME NEW t \in Task, Gathered(t) PROVE OwnEvent'
  <2>1. pc[t] = "deliver" /\ published' = published /\ logged' = logged /\ event[t] \in logged
    BY <1>6 DEF Gathered, OwnEvent
  <2>2. PICK s \in {"mark", "idle"} : Leave(t, s)
    BY <1>6 DEF Gathered
  <2> QED BY <1>0, <2>1, <2>2, LeaveOne, OwnKept
<1>7. ASSUME NEW t \in Task, MarkDelivered(t) PROVE OwnEvent'
  <2>1. pc[t] = "mark" /\ published' = published /\ logged' = logged /\ Leave(t, "idle")
    BY <1>7 DEF MarkDelivered
  <2> QED BY <1>0, <2>1, LeaveOne, OwnKept
<1>8. ASSUME NEW t \in Task, HandlerFails(t) \/ Cancelled(t) PROVE OwnEvent'
  <2>1. pc[t] # "idle" /\ published' = published /\ logged' = logged /\ Leave(t, "idle")
    BY <1>8 DEF HandlerFails, Cancelled
  <2> QED BY <1>0, <2>1, LeaveOne, OwnKept
<1>9. CASE Crash
  BY <1>9 DEF Crash, OwnEvent
<1>10. CASE Administer \/ UNCHANGED vars
  BY <1>10, AdministerFrame DEF OwnEvent
<1> QED BY <1>1, <1>2, <1>4, <1>5, <1>6, <1>7, <1>8, <1>9, <1>10 DEF Next, Handle

-----------------------------------------------------------------------------
LEMMA StagesStep == TypeOK /\ OwnEvent /\ StagesTell /\ [Next]_vars => StagesTell'
<1> SUFFICES ASSUME TypeOK, OwnEvent, StagesTell, [Next]_vars PROVE StagesTell'
  OBVIOUS
<1> USE DEF endpointVars, requestVars, eventVars, taskVars
<1>0. EventTypes /\ TaskTypes /\ MaxEvents \in Nat /\ published \in Nat /\ OnlyPublished
  BY TypeParts, DeliveryAssumption DEF EventTypes, StagesTell
<1>a. \A t \in Task : pc[t] # "idle" => Staged(t) /\ event[t] \in 1..published /\ event[t] \in Event
  BY <1>0 DEF StagesTell, OwnEvent, EventTypes, Event
<1>1. ASSUME NEW t \in Task, NEW k \in Kind, Publish(t, k) PROVE StagesTell'
  <2>1. /\ \A u \in Task : u # t => pc'[u] = pc[u] /\ event'[u] = event[u]
        /\ pc'[t] = "log" /\ event'[t] = published + 1
        /\ published' = published + 1 /\ published' \in Event
        /\ UNCHANGED <<logged, delivered, targets, accepted, stage, missed>>
    BY <1>0, <1>1 DEF Publish, Goto, TaskTypes, Event
  <2>2. OnlyPublished'
    <3>1. \A n \in 1..published : n \in 1..published'
      BY <1>0, <2>1
    <3> QED BY <1>0, <2>1, <3>1 DEF OnlyPublished
  <2>3. ASSUME NEW u \in Task, u # t, pc'[u] # "idle" PROVE Staged(u)'
    BY <1>a, <2>1, <2>3 DEF Staged
  <2>4. event'[t] \notin 1..published
    BY <1>0, <2>1
  <2>5. event'[t] \notin delivered' /\ \A e \in Endpoint : <<event'[t], e>> \notin targets'
    BY <1>0, <2>1, <2>4 DEF OnlyPublished, EventTypes
  <2>6. Staged(t)'
    BY <2>1, <2>5 DEF Staged
  <2> QED BY <2>2, <2>3, <2>6 DEF StagesTell
<1>2. ASSUME NEW t \in Task, Log(t) PROVE StagesTell'
  <2>1. /\ \A u \in Task : u # t => pc'[u] = pc[u]
        /\ pc[t] = "log" /\ pc'[t] = "list" /\ logged' = logged \cup {event[t]}
        /\ UNCHANGED <<published, delivered, targets, accepted, event, stage, missed>>
    BY <1>0, <1>2 DEF Log, Goto, TaskTypes
  <2>2. OnlyPublished'
    BY <1>0, <1>a, <2>1 DEF OnlyPublished
  <2>3. ASSUME NEW u \in Task, u # t, pc'[u] # "idle" PROVE Staged(u)'
    BY <1>a, <2>1, <2>3 DEF Staged
  <2>4. Staged(t)'
    BY <1>a, <2>1 DEF Staged
  <2> QED BY <2>2, <2>3, <2>4 DEF StagesTell
<1>3. ASSUME NEW t \in Task, List(t) PROVE StagesTell'
  <2> DEFINE chosen == {e \in live : enabled[e] /\ e \in wanting[t]}
             posted == [e \in Endpoint |-> IF e \in chosen THEN "post" ELSE "none"]
  <2>1. /\ pc[t] = "list" /\ targets' = targets \cup {<<event[t], e>> : e \in chosen}
        /\ UNCHANGED <<logged, delivered, accepted, published, missed>>
        /\ IF chosen = {} THEN Leave(t, "idle")
           ELSE Goto(t, "deliver") /\ stage' = [stage EXCEPT ![t] = posted] /\ UNCHANGED event
    BY <1>3 DEF List
  <2>a. chosen \subseteq Endpoint
    BY TypeParts DEF EndpointTypes
  <2> HIDE DEF chosen
  <2>2. \A n, e : n # event[t] => (<<n, e>> \in targets' <=> <<n, e>> \in targets)
    BY <2>1
  <2>3. OnlyPublished'
    BY <1>0, <1>a, <2>1 DEF OnlyPublished
  <2>4. /\ \A u \in Task : u # t => pc'[u] = pc[u] /\ event'[u] = event[u] /\ stage'[u] = stage[u]
        /\ pc'[t] # "idle" => /\ chosen # {} /\ pc'[t] = "deliver"
                             /\ event'[t] = event[t] /\ stage'[t] = posted
    <3>1. CASE chosen = {}
      BY <1>0, <2>1, <3>1, LeaveOne
    <3>2. CASE chosen # {}
      BY <1>0, <2>1, <3>2 DEF Goto, TaskTypes
    <3> QED BY <3>1, <3>2
  <2>5. ASSUME NEW u \in Task, u # t, pc'[u] # "idle" PROVE Staged(u)'
    BY <1>a, <2>1, <2>2, <2>4, <2>5, OthersStaged
  <2>6. ASSUME pc'[t] # "idle" PROVE Staged(t)'
    <3>1. \A e \in Endpoint : <<event[t], e>> \notin targets /\ <<event[t], e>> \notin accepted
      BY <1>0, <1>a, <2>1 DEF Staged, OnlyPublished
    <3>2. \A e \in Endpoint : <<event[t], e>> \in targets' <=> e \in chosen
      BY <2>1, <3>1
    <3>3. PICK e \in Endpoint : e \in chosen
      BY <2>a, <2>4, <2>6
    <3>4. event[t] \notin delivered'
      BY <1>a, <2>1 DEF Staged
    <3> QED BY <2>1, <2>4, <2>6, <3>1, <3>2, <3>3, <3>4 DEF Staged
  <2> QED BY <2>3, <2>5, <2>6 DEF StagesTell
<1>4. ASSUME NEW t \in Task, NEW e \in Endpoint, NEW x \in Stages,
             pc[t] = "deliver", UNCHANGED <<pc, event, logged, delivered, targets, published>>,
             stage' = [stage EXCEPT ![t][e] = x], x # "none", stage[t][e] # "none",
             accepted \subseteq accepted', accepted' \subseteq accepted \cup {<<event[t], e>>},
             missed \subseteq missed',
             x \in {"ok?", "ok"} => <<event[t], e>> \in accepted',
             x = "failed" => <<event[t], e>> \notin accepted' \/ event[t] \in missed',
             x \in {"post", "failed?"} => <<event[t], e>> \notin accepted'
      PROVE  StagesTell'
  <2>1. Staged(t) /\ event[t] \in Event
    BY <1>4, <1>a
  <2>2. OnlyPublished'
    <3>1. <<event[t], e>> \in targets
      BY <1>4, <2>1 DEF Staged
    <3> QED BY <1>0, <1>4, <3>1 DEF OnlyPublished
  <2>3. /\ \A u \in Task : u # t => stage'[u] = stage[u]
        /\ \A f \in Endpoint : stage'[t][f] = IF f = e THEN x ELSE stage[t][f]
    BY <1>0, <1>4 DEF TaskTypes
  <2>4. ASSUME NEW u \in Task, u # t, pc'[u] # "idle" PROVE Staged(u)'
    <3>1. \A n, f : n # event[t] => (<<n, f>> \in accepted' <=> <<n, f>> \in accepted)
      BY <1>4
    <3> QED BY <1>4, <1>a, <2>3, <2>4, <3>1, OthersStaged
  <2>5. \A f \in Endpoint : f # e => (<<event[t], f>> \in accepted' <=> <<event[t], f>> \in accepted)
    BY <1>4
  <2>6. Staged(t)'
    BY <1>4, <2>1, <2>3, <2>5 DEF Staged
  <2> QED BY <1>4, <2>2, <2>4, <2>6 DEF StagesTell
<1>5. ASSUME NEW t \in Task, NEW e \in Endpoint, Answered(t, e) PROVE StagesTell'
  <2>1. PICK success \in BOOLEAN :
          /\ accepted' = IF success THEN accepted \cup {<<event[t], e>>} ELSE accepted
          /\ stage' = [stage EXCEPT ![t][e] = IF success THEN "ok?" ELSE "failed?"]
    BY <1>5 DEF Answered
  <2>2. /\ pc[t] = "deliver" /\ stage[t][e] = "post"
        /\ UNCHANGED <<pc, event, logged, delivered, targets, published, missed>>
    BY <1>5 DEF Answered
  <2>3. <<event[t], e>> \notin accepted
    BY <1>a, <2>2 DEF Staged
  <2>4. CASE success
    BY <1>4, <2>1, <2>2, <2>4 DEF Stages, Posting
  <2>5. CASE ~success
    BY <1>4, <2>1, <2>2, <2>3, <2>5 DEF Stages, Posting
  <2> QED BY <2>4, <2>5
<1>6. ASSUME NEW t \in Task, NEW e \in Endpoint, Counted(t, e) PROVE StagesTell'
  <2>1. /\ pc[t] = "deliver" /\ stage[t][e] \in {"ok?", "failed?"}
        /\ UNCHANGED <<pc, event, logged, delivered, targets, accepted, published, missed>>
        /\ stage' = [stage EXCEPT ![t][e] = IF stage[t][e] = "ok?" THEN "ok" ELSE "failed"]
    BY <1>6, <1>0 DEF Counted, TaskTypes
  <2>2. stage[t][e] = "ok?" => <<event[t], e>> \in accepted
    BY <1>a, <2>1 DEF Staged
  <2>3. stage[t][e] = "failed?" => <<event[t], e>> \notin accepted
    BY <1>a, <2>1 DEF Staged
  <2>4. CASE stage[t][e] = "ok?"
    BY <1>4, <2>1, <2>2, <2>4 DEF Stages
  <2>5. CASE stage[t][e] = "failed?"
    BY <1>4, <2>1, <2>3, <2>5 DEF Stages
  <2> QED BY <2>1, <2>4, <2>5
<1>7. ASSUME NEW t \in Task, NEW e \in Endpoint, CountingFails(t, e) PROVE StagesTell'
  <2>1. /\ pc[t] = "deliver" /\ stage[t][e] \in {"ok?", "failed?"}
        /\ UNCHANGED <<pc, event, logged, delivered, targets, accepted, published>>
        /\ stage' = [stage EXCEPT ![t][e] = "failed"] /\ missed' = missed \cup {event[t]}
    BY <1>7 DEF CountingFails
  <2> QED BY <1>4, <2>1 DEF Stages
<1>8. ASSUME NEW t \in Task, NEW s \in {"mark", "idle"}, Leave(t, s), pc[t] # "idle",
             UNCHANGED <<logged, targets, accepted, published>>,
             delivered' \subseteq delivered \cup {event[t]}, missed \subseteq missed',
             s = "mark" => /\ pc[t] = "deliver" /\ UNCHANGED <<delivered, missed>>
                           /\ \A e \in Endpoint : stage[t][e] \in {"none", "ok"}
      PROVE  StagesTell'
  <2>1. OnlyPublished'
    BY <1>0, <1>8 DEF OnlyPublished
  <2>2. /\ \A u \in Task : u # t => pc'[u] = pc[u] /\ event'[u] = event[u] /\ stage'[u] = stage[u]
        /\ pc'[t] = s
        /\ s # "idle" => event'[t] = event[t] /\ stage'[t] = stage[t]
    BY <1>0, <1>8, LeaveOne
  <2>3. ASSUME NEW u \in Task, u # t, pc'[u] # "idle" PROVE Staged(u)'
    BY <1>8, <1>a, <2>2, <2>3, OthersStaged
  <2>4. ASSUME pc'[t] # "idle" PROVE Staged(t)'
    BY <1>8, <1>a, <2>2, <2>4 DEF Staged
  <2> QED BY <2>1, <2>3, <2>4 DEF StagesTell
<1>9. ASSUME NEW t \in Task, Gathered(t) PROVE StagesTell'
  <2>1. /\ pc[t] = "deliver" /\ \A e \in Endpoint : stage[t][e] \notin Posting
        /\ UNCHANGED <<logged, targets, accepted, published, delivered, missed>>
    BY <1>9 DEF Gathered
  <2>2. CASE \A e \in Endpoint : stage[t][e] # "failed"
    <3>1. Leave(t, "mark")
      BY <1>9, <2>2 DEF Gathered
    <3>2. \A e \in Endpoint : stage[t][e] \in {"none", "ok"}
      BY <1>0, <2>1, <2>2 DEF TaskTypes, Stages, Posting
    <3> QED BY <1>8, <2>1, <3>1, <3>2
  <2>3. CASE ~(\A e \in Endpoint : stage[t][e] # "failed")
    <3>1. Leave(t, "idle")
      BY <1>9, <2>3 DEF Gathered
    <3> QED BY <1>8, <2>1, <3>1
  <2> QED BY <2>2, <2>3
<1>10. ASSUME NEW t \in Task, MarkDelivered(t) PROVE StagesTell'
  BY <1>8, <1>10 DEF MarkDelivered
<1>11. ASSUME NEW t \in Task, HandlerFails(t) \/ Cancelled(t) PROVE StagesTell'
  BY <1>8, <1>11 DEF HandlerFails, Cancelled
<1>12. CASE Crash
  <2>1. \A t \in Task : pc'[t] = "idle"
    BY <1>12 DEF Crash
  <2>2. OnlyPublished'
    BY <1>0, <1>12 DEF Crash, OnlyPublished
  <2> QED BY <2>1, <2>2 DEF StagesTell
<1>13. CASE Administer \/ UNCHANGED vars
  BY <1>0, <1>a, <1>13, AdministerFrame DEF StagesTell, OnlyPublished, Staged
<1> QED BY <1>1, <1>2, <1>3, <1>5, <1>6, <1>7, <1>9, <1>10, <1>11, <1>12, <1>13 DEF Next, Handle

-----------------------------------------------------------------------------
(***************************************************************************)
(* The theorems                                                            *)
(***************************************************************************)

DeliveryInv == TypeOK /\ OwnEvent /\ StagesTell

LEMMA DeliveryInit == Init => DeliveryInv
<1> SUFFICES ASSUME Init PROVE DeliveryInv
  OBVIOUS
<1> USE DEF Init, Fresh
<1>0. (CHOOSE e \in Endpoint : TRUE) \in Endpoint
  BY DeliveryAssumption
<1>1. live \subseteq Endpoint /\ subject \in Endpoint
  BY <1>0
<1>2. /\ enabled \in [Endpoint -> BOOLEAN]
      /\ fails \in [Endpoint -> Nat] /\ streak \in [Endpoint -> Nat]
  OBVIOUS
<1>3. copy \in [enabled : BOOLEAN, fails : Nat] /\ answer \in BOOLEAN
  OBVIOUS
<1>4. published \in 0..MaxEvents /\ event \in [Task -> 0..published]
  BY DeliveryAssumption
<1>5. /\ pc \in [Task -> {"idle", "log", "list", "deliver", "mark"}]
      /\ wanting \in [Task -> SUBSET Endpoint]
      /\ stage \in [Task -> [Endpoint -> Posting \cup {"none", "ok", "failed"}]]
  OBVIOUS
<1>6. TypeOK
  BY <1>1, <1>2, <1>3, <1>4, <1>5 DEF TypeOK
<1>7. \A t \in Task : pc[t] = "idle"
  OBVIOUS
<1>8. OwnEvent
  BY <1>7 DEF OwnEvent
<1>9. StagesTell
  BY <1>7 DEF StagesTell, OnlyPublished
<1> QED BY <1>6, <1>8, <1>9 DEF DeliveryInv

LEMMA DeliveryInvariant == Spec => []DeliveryInv
<1>1. Init => DeliveryInv
  BY DeliveryInit
<1>2. DeliveryInv /\ [Next]_vars => DeliveryInv'
  BY TypeStep, OwnStep, StagesStep DEF DeliveryInv
<1> QED BY <1>1, <1>2, PTL DEF Spec

\* Every variable keeps its type, and only logged events are marked, for any
\* number of tasks, endpoints, events, requests and failures.
THEOREM TypeCorrect == Spec => []TypeOK
<1>1. DeliveryInv => TypeOK
  BY DEF DeliveryInv
<1> QED BY <1>1, DeliveryInvariant, PTL

\* New marks, targets and acceptances are of the event of the acting task; an
\* event is out of work with all its targets' acceptances only if it is marked
\* or missed.
LEMMA MarkStep == DeliveryInv /\ MarkIsRight /\ [Next]_vars => MarkIsRight'
<1> SUFFICES ASSUME DeliveryInv, MarkIsRight, [Next]_vars PROVE MarkIsRight'
  OBVIOUS
<1> USE DEF endpointVars, requestVars, eventVars, taskVars
<1>0. /\ EventTypes /\ TaskTypes /\ OnlyPublished /\ OwnEvent
      /\ DeliveredIsAccepted /\ AcceptedIsDelivered
  BY TypeParts DEF DeliveryInv, StagesTell, MarkIsRight
<1>a. \A t \in Task : pc[t] # "idle" => Staged(t)
  BY DEF DeliveryInv, StagesTell
\* Right(n): the two directions, for one event.
<1> DEFINE Right(n) ==
      /\ n \in delivered => Targets(n) # {} /\ \A e \in Targets(n) : <<n, e>> \in accepted
      /\ /\ n \in logged \ missed /\ Targets(n) # {}
         /\ \A e \in Targets(n) : <<n, e>> \in accepted
         /\ \A t \in Task : pc[t] # "idle" => event[t] # n
         => n \in delivered
<1>b. \A n \in Event : Right(n)
  BY <1>0 DEF DeliveredIsAccepted, AcceptedIsDelivered
<1>c. ASSUME EventTypes', \A n \in Event : Right(n)' PROVE MarkIsRight'
  <2>1. delivered' \subseteq Event /\ logged' \subseteq Event
    BY <1>c DEF EventTypes
  <2> QED BY <1>c, <2>1 DEF MarkIsRight, DeliveredIsAccepted, AcceptedIsDelivered
<1>d. EventTypes'
  BY TypeStep DEF DeliveryInv, TypeOK, EventTypes
\* An event nobody handles, or whose handler only waits, is left as it is.
<1>e. ASSUME NEW n \in Event, logged' \cap {n} = logged \cap {n},
             delivered' \cap {n} = delivered \cap {n},
             \A e : <<n, e>> \in targets' <=> <<n, e>> \in targets,
             \A e : <<n, e>> \in accepted' <=> <<n, e>> \in accepted,
             missed \subseteq missed',
             \A t \in Task : pc[t] # "idle" /\ event[t] = n => pc'[t] # "idle" /\ event'[t] = n
      PROVE  Right(n)'
  BY <1>b, <1>e DEF Targets
\* A handled event is not marked, and need not be while it is handled.
<1>f. ASSUME NEW t \in Task, NEW n \in Event, pc'[t] # "idle", event'[t] = n, n \notin delivered'
      PROVE  Right(n)'
  BY <1>f
<1> HIDE DEF Right
\* A step of a task concerns its event only.
<1>g. ASSUME NEW t \in Task, \A n \in Event : n = event[t] => Right(n)',
             logged \subseteq logged', logged' \subseteq logged \cup {event[t]},
             delivered \subseteq delivered', delivered' \subseteq delivered \cup {event[t]},
             \A n, e : n # event[t] => (<<n, e>> \in targets' <=> <<n, e>> \in targets),
             \A n, e : n # event[t] => (<<n, e>> \in accepted' <=> <<n, e>> \in accepted),
             missed \subseteq missed',
             \A u \in Task : u # t => pc'[u] = pc[u] /\ event'[u] = event[u]
      PROVE  MarkIsRight'
  <2>1. ASSUME NEW n \in Event, n # event[t] PROVE Right(n)'
    <3>1. logged' \cap {n} = logged \cap {n} /\ delivered' \cap {n} = delivered \cap {n}
      BY <1>g, <2>1
    <3>2. \A u \in Task : pc[u] # "idle" /\ event[u] = n => pc'[u] # "idle" /\ event'[u] = n
      BY <1>g, <2>1
    <3> QED BY <1>e, <1>g, <2>1, <3>1, <3>2
  <2> QED BY <1>c, <1>d, <1>g, <2>1
<1>h. \A t \in Task : pc[t] # "idle" => event[t] \in Event /\ event[t] \notin delivered
  <2>1. ASSUME NEW t \in Task, pc[t] # "idle" PROVE event[t] \in Event
    <3>1. event[t] \in 1..published
      BY <1>0, <2>1 DEF OwnEvent
    <3> QED BY <1>0, <3>1, DeliveryAssumption DEF EventTypes, Event
  <2>2. ASSUME NEW t \in Task, pc[t] # "idle" PROVE event[t] \notin delivered
    BY <1>a, <2>2 DEF Staged
  <2> QED BY <2>1, <2>2
<1>1. ASSUME NEW t \in Task, NEW k \in Kind, Publish(t, k) PROVE MarkIsRight'
  <2>1. /\ \A u \in Task : u # t => pc'[u] = pc[u] /\ event'[u] = event[u]
        /\ pc[t] = "idle" /\ pc'[t] # "idle" /\ event'[t] = published + 1
        /\ UNCHANGED <<logged, delivered, targets, accepted, missed>>
    BY <1>0, <1>1 DEF Publish, Goto, TaskTypes
  <2>2. ASSUME NEW n \in Event PROVE Right(n)'
    <3>1. \A u \in Task : pc[u] # "idle" /\ event[u] = n => pc'[u] # "idle" /\ event'[u] = n
      BY <2>1
    <3> QED BY <1>e, <2>1, <3>1
  <2> QED BY <1>c, <1>d, <2>2
<1>2. ASSUME NEW t \in Task, Log(t) PROVE MarkIsRight'
  <2>1. /\ \A u \in Task : u # t => pc'[u] = pc[u]
        /\ pc[t] = "log" /\ pc'[t] = "list" /\ logged' = logged \cup {event[t]}
        /\ UNCHANGED <<delivered, targets, accepted, event, missed>>
    BY <1>0, <1>2 DEF Log, Goto, TaskTypes
  <2>2. \A n \in Event : n = event[t] => Right(n)'
    BY <1>f, <1>h, <2>1
  <2> QED BY <1>g, <2>1, <2>2
<1>3. ASSUME NEW t \in Task, List(t) PROVE MarkIsRight'
  <2> DEFINE chosen == {e \in live : enabled[e] /\ e \in wanting[t]}
             pairs == {<<event[t], e>> : e \in chosen}
  <2>1. /\ pc[t] = "list" /\ targets' = targets \cup pairs
        /\ UNCHANGED <<logged, delivered, accepted, missed>>
        /\ IF chosen = {} THEN Leave(t, "idle") ELSE Goto(t, "deliver") /\ UNCHANGED event
    BY <1>3 DEF List
  <2>2. \A n, e : n # event[t] => (<<n, e>> \in targets' <=> <<n, e>> \in targets)
    BY <2>1
  <2>3. CASE chosen = {}
    <3>1. /\ \A u \in Task : u # t => pc'[u] = pc[u] /\ event'[u] = event[u]
      BY <1>0, <2>1, <2>3, LeaveOne
    <3>2. \A e \in Endpoint : <<event[t], e>> \notin targets'
      <4>1. \A e \in Endpoint : <<event[t], e>> \notin targets
        BY <1>a, <2>1 DEF Staged
      <4>2. pairs = {}
        BY <2>3
      <4> HIDE DEF pairs
      <4> QED BY <2>1, <4>1, <4>2
    <3>3. \A n \in Event : n = event[t] => Right(n)'
      BY <1>h, <2>1, <3>2 DEF Right, Targets
    <3> HIDE DEF chosen, pairs
    <3> QED BY <1>g, <2>1, <2>2, <3>1, <3>3
  <2>4. CASE chosen # {}
    <3> HIDE DEF chosen, pairs
    <3>1. /\ \A u \in Task : u # t => pc'[u] = pc[u] /\ event'[u] = event[u]
          /\ pc'[t] # "idle" /\ event'[t] = event[t]
      BY <1>0, <2>1, <2>4 DEF Goto, TaskTypes
    <3>2. \A n \in Event : n = event[t] => Right(n)'
      BY <1>f, <1>h, <2>1, <3>1
    <3> QED BY <1>g, <2>1, <2>2, <3>1, <3>2
  <2> QED BY <2>3, <2>4
<1>4. ASSUME NEW t \in Task, NEW e \in Endpoint, Answered(t, e) PROVE MarkIsRight'
  <2>1. /\ pc[t] = "deliver" /\ UNCHANGED <<pc, event, logged, delivered, targets, missed>>
        /\ accepted' = accepted \cup {<<event[t], e>>} \/ accepted' = accepted
    BY <1>4 DEF Answered
  <2>2. \A n, f : n # event[t] => (<<n, f>> \in accepted' <=> <<n, f>> \in accepted)
    BY <2>1
  <2>3. \A n \in Event : n = event[t] => Right(n)'
    BY <1>f, <1>h, <2>1
  <2> QED BY <1>g, <2>1, <2>2, <2>3
<1>5. ASSUME NEW t \in Task, NEW e \in Endpoint, Counted(t, e) \/ CountingFails(t, e)
      PROVE  MarkIsRight'
  <2>1. /\ pc[t] = "deliver"
        /\ UNCHANGED <<pc, event, logged, delivered, targets, accepted>>
        /\ missed \subseteq missed'
    BY <1>5 DEF Counted, CountingFails
  <2>2. \A n \in Event : n = event[t] => Right(n)'
    BY <1>f, <1>h, <2>1
  <2> QED BY <1>g, <2>1, <2>2
<1>6. ASSUME NEW t \in Task, Gathered(t) PROVE MarkIsRight'
  <2>1. pc[t] = "deliver" /\ UNCHANGED <<logged, delivered, targets, accepted, missed>>
    BY <1>6 DEF Gathered
  <2>2. CASE \A e \in Endpoint : stage[t][e] # "failed"
    <3>1. Leave(t, "mark")
      BY <1>6, <2>2 DEF Gathered
    <3>2. /\ \A u \in Task : u # t => pc'[u] = pc[u] /\ event'[u] = event[u]
          /\ pc'[t] # "idle" /\ event'[t] = event[t]
      BY <1>0, <3>1, LeaveOne
    <3>3. \A n \in Event : n = event[t] => Right(n)'
      BY <1>f, <1>h, <2>1, <3>2
    <3> QED BY <1>g, <2>1, <3>2, <3>3
  <2>3. ASSUME NEW e \in Endpoint, stage[t][e] = "failed" PROVE MarkIsRight'
    <3>1. Leave(t, "idle")
      BY <1>6, <2>3 DEF Gathered
    <3>2. \A u \in Task : u # t => pc'[u] = pc[u] /\ event'[u] = event[u]
      BY <1>0, <3>1, LeaveOne
    <3>3. <<event[t], e>> \in targets /\ (<<event[t], e>> \notin accepted \/ event[t] \in missed)
      BY <1>a, <2>1, <2>3 DEF Staged
    <3>4. \A n \in Event : n = event[t] => Right(n)'
      BY <1>h, <2>1, <3>3 DEF Right, Targets
    <3> QED BY <1>g, <2>1, <3>2, <3>4
  <2> QED BY <2>2, <2>3
<1>7. ASSUME NEW t \in Task, MarkDelivered(t) PROVE MarkIsRight'
  <2>1. /\ pc[t] = "mark" /\ UNCHANGED <<logged, targets, accepted, missed>>
        /\ delivered' = delivered \cup {event[t]} /\ Leave(t, "idle")
    BY <1>7 DEF MarkDelivered
  <2>2. \A u \in Task : u # t => pc'[u] = pc[u] /\ event'[u] = event[u]
    BY <1>0, <2>1, LeaveOne
  <2>3. PICK e \in Endpoint : stage[t][e] # "none"
    BY <1>a, <2>1 DEF Staged
  <2>4. \A f \in Endpoint : <<event[t], f>> \in targets => <<event[t], f>> \in accepted
    BY <1>a, <2>1 DEF Staged
  <2>5. <<event[t], e>> \in targets
    BY <1>a, <2>1, <2>3 DEF Staged
  <2>6. \A n \in Event : n = event[t] => Right(n)'
    BY <2>1, <2>4, <2>5 DEF Right, Targets
  <2> QED BY <1>g, <2>1, <2>2, <2>6
<1>8. ASSUME NEW t \in Task, HandlerFails(t) \/ Cancelled(t) PROVE MarkIsRight'
  <2>1. /\ pc[t] # "idle" /\ UNCHANGED <<logged, delivered, targets, accepted>>
        /\ missed' = missed \cup {event[t]} /\ Leave(t, "idle")
    BY <1>8 DEF HandlerFails, Cancelled
  <2>2. \A u \in Task : u # t => pc'[u] = pc[u] /\ event'[u] = event[u]
    BY <1>0, <2>1, LeaveOne
  <2>3. \A n \in Event : n = event[t] => Right(n)'
    BY <1>h, <2>1 DEF Right
  <2> QED BY <1>g, <2>1, <2>2, <2>3
<1>9. CASE Crash
  <2>1. /\ UNCHANGED <<logged, delivered, targets, accepted>>
        /\ missed' = missed \cup {event[t] : t \in {u \in Task : pc[u] # "idle"}}
    BY <1>9 DEF Crash
  <2>2. ASSUME NEW n \in Event, NEW t \in Task, pc[t] # "idle", event[t] = n PROVE Right(n)'
    <3>1. n \in missed' /\ n \notin delivered'
      BY <1>h, <2>1, <2>2
    <3> QED BY <3>1 DEF Right
  <2>3. ASSUME NEW n \in Event, \A t \in Task : pc[t] # "idle" => event[t] # n PROVE Right(n)'
    BY <1>e, <2>1, <2>3
  <2> QED BY <1>c, <1>d, <2>2, <2>3
<1>10. CASE Administer \/ UNCHANGED vars
  <2>1. UNCHANGED <<eventVars, taskVars, missed>>
    BY <1>10, AdministerFrame
  <2>2. ASSUME NEW n \in Event PROVE Right(n)'
    BY <1>e, <2>1
  <2> QED BY <1>c, <1>d, <2>2
<1> QED BY <1>1, <1>2, <1>3, <1>4, <1>5, <1>6, <1>7, <1>8, <1>9, <1>10 DEF Next, Handle

\* What the log says of an event is right: it is marked as delivered only if
\* there were targets and all accepted it, and it is marked once its handler is
\* done if they did, nothing failed meanwhile and its task was not cancelled, with
\* any number of events, endpoints and failures.
THEOREM MarkRight == Spec => []MarkIsRight
<1>1. Init => MarkIsRight
  BY DEF Init, MarkIsRight, DeliveredIsAccepted, AcceptedIsDelivered
<1>2. DeliveryInv /\ MarkIsRight /\ [Next]_vars => MarkIsRight'
  BY MarkStep
<1> QED BY <1>1, <1>2, DeliveryInvariant, PTL DEF Spec

-----------------------------------------------------------------------------
\* A toggle that nothing has disturbed writes the count that is there already,
\* and the row it writes is still there.
CountsAgree ==
  /\ \A e \in Endpoint \ stale : fails[e] = streak[e]
  /\ request = "toggle" /\ subject \notin stale => subject \in live /\ copy.fails = fails[subject]
  /\ DeletedStaysDeleted

LEMMA CountKeeps ==
  ASSUME TypeOK, CountsAgree, NEW e \in Endpoint, NEW success, Count(e, success),
         UNCHANGED <<subject, copy>>, request' \in {request, "idle"}
  PROVE  CountsAgree'
<1>0. EndpointTypes
  BY TypeParts
<1>1. /\ live' = live /\ deleted' = deleted /\ stale \subseteq stale'
      /\ request = "toggle" /\ subject = e => e \in stale'
  BY DEF Count, Disturb
<1>2. \A f \in Endpoint : f # e => fails'[f] = fails[f] /\ streak'[f] = streak[f]
  BY <1>0 DEF Count, EndpointTypes
<1>3. fails[e] = streak[e] => fails'[e] = streak'[e]
  BY <1>0 DEF Count, EndpointTypes
<1>4. \A f \in Endpoint \ stale' : fails'[f] = streak'[f]
  BY <1>1, <1>2, <1>3 DEF CountsAgree
<1>5. ASSUME request' = "toggle", subject \notin stale'
      PROVE  subject \in live /\ copy.fails = fails'[subject]
  <2>1. subject # e /\ subject \in Endpoint
    BY <1>1, <1>5 DEF TypeOK
  <2> QED BY <1>1, <1>2, <1>5, <2>1 DEF CountsAgree
<1>6. DeletedStaysDeleted'
  BY <1>1 DEF CountsAgree, DeletedStaysDeleted
<1> QED BY <1>1, <1>4, <1>5, <1>6 DEF CountsAgree

LEMMA CountsStep == TypeOK /\ CountsAgree /\ [Next]_vars => CountsAgree'
<1> SUFFICES ASSUME TypeOK, CountsAgree, [Next]_vars PROVE CountsAgree'
  OBVIOUS
<1> USE DEF endpointVars, requestVars, eventVars, taskVars
<1>0. EndpointTypes /\ RequestTypes
  BY TypeParts
<1>1. ASSUME NEW e \in Endpoint, CreateEndpoint(e) PROVE CountsAgree'
  BY <1>1 DEF CreateEndpoint, CountsAgree, DeletedStaysDeleted
<1>2. ASSUME NEW e \in Endpoint, DeleteEndpoint(e) PROVE CountsAgree'
  <2>1. /\ live' = live \ {e} /\ deleted' = deleted \cup {e} /\ stale \subseteq stale'
        /\ request = "toggle" /\ subject = e => e \in stale'
        /\ UNCHANGED <<fails, streak, request, subject, copy>>
    BY <1>2 DEF DeleteEndpoint, Disturb
  <2>2. DeletedStaysDeleted'
    BY <2>1 DEF CountsAgree, DeletedStaysDeleted
  <2> QED BY <2>1, <2>2 DEF CountsAgree
<1>3. ASSUME NEW e \in Endpoint, NEW on \in BOOLEAN, ReadToToggle(e, on) PROVE CountsAgree'
  BY <1>3 DEF ReadToToggle, CountsAgree, DeletedStaysDeleted
<1>4. CASE SaveToggled
  <2>1. /\ request = "toggle" /\ request' = "idle" /\ live' = live \cup {subject}
        /\ fails' = [fails EXCEPT ![subject] = copy.fails]
        /\ UNCHANGED <<deleted, streak, stale>>
    BY <1>4 DEF SaveToggled
  <2>2. \A e \in Endpoint \ stale : fails'[e] = streak[e]
    BY <1>0, <2>1 DEF CountsAgree, EndpointTypes
  <2>3. DeletedStaysDeleted'
    BY <2>1 DEF CountsAgree, DeletedStaysDeleted
  <2> QED BY <2>1, <2>2, <2>3 DEF CountsAgree
<1>5. ASSUME NEW e \in Endpoint, ReadToTest(e) PROVE CountsAgree'
  BY <1>5 DEF ReadToTest, CountsAgree, DeletedStaysDeleted
<1>6. CASE TestAnswered
  BY <1>6 DEF TestAnswered, CountsAgree, DeletedStaysDeleted
<1>7. CASE TestCounted
  BY <1>0, <1>7, CountKeeps DEF TestCounted, RequestTypes
<1>8. ASSUME NEW t \in Task, NEW e \in Endpoint, Counted(t, e) PROVE CountsAgree'
  BY <1>8, CountKeeps DEF Counted
<1>9. ASSUME UNCHANGED <<endpointVars, requestVars>> PROVE CountsAgree'
  BY <1>9 DEF CountsAgree, DeletedStaysDeleted
<1>10. ASSUME NEW t \in Task, NEW k \in Kind, Publish(t, k) PROVE CountsAgree'
  BY <1>9, <1>10 DEF Publish
<1>11. ASSUME NEW t \in Task, NEW e \in Endpoint, Answered(t, e) \/ CountingFails(t, e)
       PROVE  CountsAgree'
  BY <1>9, <1>11 DEF Answered, CountingFails
<1>12. ASSUME NEW t \in Task, Log(t) \/ List(t) PROVE CountsAgree'
  BY <1>9, <1>12 DEF Log, List
<1>13. ASSUME NEW t \in Task, Gathered(t) \/ MarkDelivered(t) \/ HandlerFails(t) \/ Cancelled(t)
       PROVE  CountsAgree'
  BY <1>9, <1>13 DEF Gathered, MarkDelivered, HandlerFails, Cancelled
<1>14. CASE Crash
  BY <1>14 DEF Crash, CountsAgree, DeletedStaysDeleted
<1>15. CASE UNCHANGED vars
  BY <1>9, <1>15 DEF vars
<1> QED BY <1>1, <1>2, <1>3, <1>4, <1>5, <1>6, <1>7, <1>8, <1>10, <1>11, <1>12, <1>13, <1>14, <1>15
        DEF Next, Handle, Administer

\* No report on an endpoint is lost and no deleted endpoint comes back, except by
\* a toggle that overlaps, for any number of tasks, endpoints and requests.
THEOREM ReportsStay == Spec => []ReportsKept
<1>1. Init => CountsAgree
  BY DEF Init, CountsAgree, DeletedStaysDeleted
<1>2. TypeOK /\ CountsAgree /\ [Next]_vars => CountsAgree'
  BY CountsStep
<1>3. TypeOK /\ CountsAgree => ReportsKept
  BY DEF TypeOK, CountsAgree, ReportsKept, FailuresCounted
<1> QED BY <1>1, <1>2, <1>3, TypeCorrect, PTL DEF Spec

=============================================================================
