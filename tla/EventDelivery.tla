---------------------------- MODULE EventDelivery ----------------------------
(***************************************************************************)
(* EventService logs each domain event and posts it to the endpoints that  *)
(* want it, all at a time, while other events are delivered and while the  *)
(* endpoints are created, tested, switched and deleted.  Every update of   *)
(* the tables has a connection and a transaction of its own.  The handler  *)
(* runs in the task that publishes, which a scenario's or the simulation's *)
(* stop may cancel wherever it waits.                                      *)
(*                                                                         *)
(* Sources: application/event_service.py, application/endpoint_service.py, *)
(* adapters/webhook/delivery.py, the endpoint and the event log            *)
(* repositories of adapters/persistence/sqlite_repos.py.                   *)
(***************************************************************************)
EXTENDS Naturals

CONSTANTS
  Task,         \* tasks that publish events
  Endpoint,     \* endpoints, by their uuid
  Initial,      \* endpoints that are there at the start
  Kind,         \* event types
  Wants,        \* the endpoints that want events of each type
  MaxEvents,    \* bound on events
  MaxRequests,  \* bound on requests that concern endpoints
  MaxFailures   \* bound on failing uses of the database and crashes

ASSUME DeliveryAssumption ==
  /\ Endpoint # {} /\ Initial \subseteq Endpoint
  /\ Wants \in [Kind -> SUBSET Endpoint]
  /\ MaxEvents \in Nat /\ MaxRequests \in Nat /\ MaxFailures \in Nat

VARIABLES
  \* endpoints, and the one request in toggle_endpoint or test_endpoint
  live,      \* endpoints with a row
  enabled,   \* their enabled
  fails,     \* their failure_count
  request,   \* "idle", "toggle" (row read), "test" (posting), "tell" (answered)
  subject,   \* the endpoint it concerns
  copy,      \* the row a toggle has read and changed
  answer,    \* the answer to a test
  \* events
  logged,    \* events with a row
  delivered, \* events marked as delivered
  pc,        \* each task
  event,     \* the event it handles, 0 for none
  wanting,   \* the endpoints that want its type
  stage,     \* where its delivery to each endpoint is
  \* history
  published, \* events published so far
  deleted,   \* endpoints that were deleted
  streak,    \* failed updates since the last successful one
  stale,     \* endpoints whose row changed between a toggle's read and write
  targets,   \* <<event, endpoint>>: the event was to be posted there
  accepted,  \* <<event, endpoint>>: it answered in time that it has it
  missed,    \* events in work at a crash, a cancellation or a failing use of
             \* the database
  requests, failures

endpointVars == <<live, enabled, fails, deleted, streak>>
requestVars == <<request, subject, copy, answer, stale, requests>>
eventVars == <<logged, delivered, targets, accepted, published>>
taskVars == <<pc, event, wanting, stage>>
vars == <<endpointVars, requestVars, eventVars, taskVars, missed, failures>>

Event == 1..MaxEvents
Posting == {"post", "ok?", "failed?"}   \* posted; answered, and not yet counted

Fresh == [e \in Endpoint |-> "none"]

Init ==
  /\ live \in SUBSET Endpoint /\ Initial \subseteq live
  /\ enabled = [e \in Endpoint |-> TRUE]
  /\ fails = [e \in Endpoint |-> 0]
  /\ request = "idle" /\ answer = FALSE
  /\ subject = (CHOOSE e \in Endpoint : TRUE)
  /\ copy = [enabled |-> TRUE, fails |-> 0]
  /\ logged = {} /\ delivered = {}
  /\ pc = [t \in Task |-> "idle"] /\ event = [t \in Task |-> 0]
  /\ wanting = [t \in Task |-> {}]
  /\ stage = [t \in Task |-> Fresh]
  /\ published = 0 /\ deleted = {} /\ streak = fails /\ stale = {}
  /\ targets = {} /\ accepted = {} /\ missed = {}
  /\ requests = 0 /\ failures = 0

-----------------------------------------------------------------------------
(***************************************************************************)
(* The endpoints table                                                     *)
(***************************************************************************)

\* A toggle between its read and its write does not see this change.
Disturb(e) ==
  stale' = IF request = "toggle" /\ subject = e THEN stale \cup {e} ELSE stale

\* Mutant: the count is taken from the endpoint that list_all returned.
CountFromCopy(e, success) ==
  /\ fails' = IF e \notin live THEN fails
              ELSE [fails EXCEPT ![e] = IF success THEN 0 ELSE 1]
  /\ streak' = IF e \notin live THEN streak
               ELSE [streak EXCEPT ![e] = IF success THEN 0 ELSE @ + 1]
  /\ Disturb(e)
  /\ UNCHANGED <<live, enabled, deleted>>

\* Mutant: the endpoint is saved as a whole (INSERT OR REPLACE).
CountBySaving(e, success) ==
  /\ fails' = [fails EXCEPT ![e] = IF success THEN 0 ELSE @ + 1]
  /\ streak' = [streak EXCEPT ![e] = IF success THEN 0 ELSE @ + 1]
  /\ live' = live \cup {e}
  /\ Disturb(e)
  /\ UNCHANGED <<enabled, deleted>>

\* update_delivery_status: an UPDATE, which finds no row after a deletion.
Count(e, success) ==
  /\ fails' = IF e \notin live THEN fails
              ELSE [fails EXCEPT ![e] = IF success THEN 0 ELSE @ + 1]
  /\ streak' = IF e \notin live THEN streak
               ELSE [streak EXCEPT ![e] = IF success THEN 0 ELSE @ + 1]
  /\ Disturb(e)
  /\ UNCHANGED <<live, enabled, deleted>>

CreateEndpoint(e) ==
  /\ requests < MaxRequests /\ e \notin live \cup deleted
  /\ requests' = requests + 1
  /\ live' = live \cup {e}
  /\ UNCHANGED <<enabled, fails, deleted, streak, request, subject, copy, answer,
                 stale, eventVars, taskVars, missed, failures>>

DeleteEndpoint(e) ==
  /\ requests < MaxRequests /\ e \in live
  /\ requests' = requests + 1
  /\ live' = live \ {e}
  /\ deleted' = deleted \cup {e}
  /\ Disturb(e)
  /\ UNCHANGED <<enabled, fails, streak, request, subject, copy, answer, eventVars,
                 taskVars, missed, failures>>

\* toggle_endpoint reads the row, and saves it back as a whole.
ReadToToggle(e, on) ==
  /\ request = "idle" /\ requests < MaxRequests /\ e \in live
  /\ requests' = requests + 1
  /\ request' = "toggle" /\ subject' = e
  /\ copy' = [enabled |-> on, fails |-> fails[e]]
  /\ UNCHANGED <<endpointVars, answer, stale, eventVars, taskVars, missed,
                 failures>>

SaveToggled ==
  /\ request = "toggle"
  /\ live' = live \cup {subject}
  /\ enabled' = [enabled EXCEPT ![subject] = copy.enabled]
  /\ fails' = [fails EXCEPT ![subject] = copy.fails]
  /\ request' = "idle"
  /\ UNCHANGED <<deleted, streak, subject, copy, answer, stale, requests,
                 eventVars, taskVars, missed, failures>>

ReadToTest(e) ==
  /\ request = "idle" /\ requests < MaxRequests /\ e \in live
  /\ requests' = requests + 1
  /\ request' = "test" /\ subject' = e
  /\ UNCHANGED <<endpointVars, copy, answer, stale, eventVars, taskVars, missed,
                 failures>>

TestAnswered ==
  /\ request = "test"
  /\ request' = "tell" /\ answer' \in BOOLEAN
  /\ UNCHANGED <<endpointVars, subject, copy, stale, requests, eventVars,
                 taskVars, missed, failures>>

TestCounted ==
  /\ request = "tell"
  /\ Count(subject, answer)
  /\ request' = "idle"
  /\ UNCHANGED <<subject, copy, answer, requests, eventVars, taskVars, missed,
                 failures>>

-----------------------------------------------------------------------------
(***************************************************************************)
(* EventService._handle_domain_event                                       *)
(***************************************************************************)

Goto(t, s) == pc' = [pc EXCEPT ![t] = s]

\* The handler goes on, or returns and keeps nothing.
Leave(t, s) ==
  /\ Goto(t, s)
  /\ IF s = "idle"
     THEN event' = [event EXCEPT ![t] = 0] /\ stage' = [stage EXCEPT ![t] = Fresh]
     ELSE UNCHANGED <<event, stage>>

Publish(t, k) ==
  /\ pc[t] = "idle" /\ published < MaxEvents
  /\ published' = published + 1
  /\ event' = [event EXCEPT ![t] = published']
  /\ wanting' = [wanting EXCEPT ![t] = Wants[k]]
  /\ Goto(t, "log")
  /\ UNCHANGED <<endpointVars, requestVars, logged, delivered, targets,
                 accepted, stage, missed, failures>>

Log(t) ==
  /\ pc[t] = "log"
  /\ logged' = logged \cup {event[t]}
  /\ Goto(t, "list")
  /\ UNCHANGED <<endpointVars, requestVars, delivered, targets, accepted,
                 published, event, wanting, stage, missed, failures>>

\* list_all, and the posts to the enabled endpoints that want the type.
List(t) ==
  LET chosen == {e \in live : enabled[e] /\ e \in wanting[t]}
  IN /\ pc[t] = "list"
     /\ targets' = targets \cup {<<event[t], e>> : e \in chosen}
     /\ IF chosen = {}
        THEN Leave(t, "idle")
        ELSE /\ Goto(t, "deliver")
             /\ stage' = [stage EXCEPT ![t] =
                            [e \in Endpoint |-> IF e \in chosen THEN "post" ELSE "none"]]
             /\ UNCHANGED event
     /\ wanting' = [wanting EXCEPT ![t] = {}]
     /\ UNCHANGED <<endpointVars, requestVars, logged, delivered, accepted,
                    published, missed, failures>>

\* The endpoint answers 2xx, or it answers something else or not in time.
Answered(t, e) ==
  /\ pc[t] = "deliver" /\ stage[t][e] = "post"
  /\ \E success \in BOOLEAN :
       /\ accepted' = IF success THEN accepted \cup {<<event[t], e>>} ELSE accepted
       /\ stage' = [stage EXCEPT ![t][e] = IF success THEN "ok?" ELSE "failed?"]
  /\ UNCHANGED <<endpointVars, requestVars, logged, delivered, targets, published,
                 pc, event, wanting, missed, failures>>

Counted(t, e) ==
  /\ pc[t] = "deliver" /\ stage[t][e] \in {"ok?", "failed?"}
  /\ Count(e, stage[t][e] = "ok?")
  /\ stage' = [stage EXCEPT ![t][e] = IF @ = "ok?" THEN "ok" ELSE "failed"]
  /\ UNCHANGED <<request, subject, copy, answer, requests, eventVars, pc, event,
                 wanting, missed, failures>>

\* An exception of one delivery makes it a failed one.
CountingFails(t, e) ==
  /\ pc[t] = "deliver" /\ stage[t][e] \in {"ok?", "failed?"}
  /\ failures < MaxFailures
  /\ failures' = failures + 1
  /\ missed' = missed \cup {event[t]}
  /\ stage' = [stage EXCEPT ![t][e] = "failed"]
  /\ UNCHANGED <<endpointVars, requestVars, eventVars, pc, event, wanting>>

\* Mutant: one success is enough.
GatheredAny(t) ==
  /\ pc[t] = "deliver"
  /\ \A e \in Endpoint : stage[t][e] \notin Posting
  /\ Leave(t, IF \E e \in Endpoint : stage[t][e] = "ok" THEN "mark" ELSE "idle")
  /\ UNCHANGED <<endpointVars, requestVars, eventVars, wanting, missed, failures>>

\* Mutant: an endpoint that does not want the event counts as a failure.
GatheredOfAll(t) ==
  /\ pc[t] = "deliver"
  /\ \A e \in Endpoint : stage[t][e] \notin Posting
  /\ Leave(t, IF \A e \in Endpoint : stage[t][e] = "ok" THEN "mark" ELSE "idle")
  /\ UNCHANGED <<endpointVars, requestVars, eventVars, wanting, missed, failures>>

\* gather has all results; one failure leaves the event undelivered.
Gathered(t) ==
  /\ pc[t] = "deliver"
  /\ \A e \in Endpoint : stage[t][e] \notin Posting
  /\ Leave(t, IF \A e \in Endpoint : stage[t][e] # "failed" THEN "mark" ELSE "idle")
  /\ UNCHANGED <<endpointVars, requestVars, eventVars, wanting, missed, failures>>

MarkDelivered(t) ==
  /\ pc[t] = "mark"
  /\ delivered' = delivered \cup {event[t]}
  /\ Leave(t, "idle")
  /\ UNCHANGED <<endpointVars, requestVars, logged, targets, accepted,
                 published, wanting, missed, failures>>

\* Mutant: the log is best effort, and the event is posted without it.
HandlerFailsToLog(t) ==
  /\ pc[t] = "log" /\ failures < MaxFailures
  /\ failures' = failures + 1
  /\ missed' = missed \cup {event[t]}
  /\ Goto(t, "list")
  /\ UNCHANGED <<endpointVars, requestVars, eventVars, event, wanting, stage>>

\* The log, the list or the mark raises: the bus logs it, nothing is retried.
HandlerFails(t) ==
  /\ pc[t] \in {"log", "list", "mark"} /\ failures < MaxFailures
  /\ failures' = failures + 1
  /\ missed' = missed \cup {event[t]}
  /\ Leave(t, "idle")
  /\ wanting' = [wanting EXCEPT ![t] = {}]
  /\ UNCHANGED <<endpointVars, requestVars, eventVars>>

\* The publishing task is cancelled before the event is logged, before the list,
\* while endpoints are posted to or counted, or before the mark; the bus lets
\* that pass, and nobody takes the event up again.
Cancelled(t) ==
  /\ pc[t] # "idle"
  /\ missed' = missed \cup {event[t]}
  /\ Leave(t, "idle")
  /\ wanting' = [wanting EXCEPT ![t] = {}]
  /\ UNCHANGED <<endpointVars, requestVars, eventVars, failures>>

\* The tables are all that remains, and no event is taken up again.
Crash ==
  /\ failures < MaxFailures
  /\ failures' = failures + 1
  /\ missed' = missed \cup {event[t] : t \in {u \in Task : pc[u] # "idle"}}
  /\ pc' = [t \in Task |-> "idle"]
  /\ event' = [t \in Task |-> 0] /\ wanting' = [t \in Task |-> {}]
  /\ stage' = [t \in Task |-> Fresh]
  /\ request' = "idle"
  /\ UNCHANGED <<endpointVars, subject, copy, answer, stale, requests, eventVars>>

Handle(t) ==
  \/ Log(t) \/ List(t) \/ Gathered(t) \/ MarkDelivered(t) \/ HandlerFails(t)
  \/ Cancelled(t)
  \/ \E e \in Endpoint : Answered(t, e) \/ Counted(t, e) \/ CountingFails(t, e)

Administer ==
  \/ \E e \in Endpoint :
       \/ CreateEndpoint(e) \/ DeleteEndpoint(e) \/ ReadToTest(e)
       \/ \E on \in BOOLEAN : ReadToToggle(e, on)
  \/ SaveToggled \/ TestAnswered \/ TestCounted

Next ==
  \/ \E t \in Task : (\E k \in Kind : Publish(t, k)) \/ Handle(t)
  \/ Administer
  \/ Crash

Spec == Init /\ [][Next]_vars

-----------------------------------------------------------------------------
Pair == Event \X Endpoint

\* Every variable keeps its type; only logged events are marked as delivered.
TypeOK ==
  /\ live \subseteq Endpoint /\ deleted \subseteq Endpoint /\ stale \subseteq Endpoint
  /\ enabled \in [Endpoint -> BOOLEAN]
  /\ fails \in [Endpoint -> Nat] /\ streak \in [Endpoint -> Nat]
  /\ request \in {"idle", "toggle", "test", "tell"} /\ subject \in Endpoint
  /\ copy \in [enabled : BOOLEAN, fails : Nat] /\ answer \in BOOLEAN
  /\ logged \subseteq Event /\ delivered \subseteq logged
  /\ pc \in [Task -> {"idle", "log", "list", "deliver", "mark"}]
  /\ event \in [Task -> 0..published] /\ wanting \in [Task -> SUBSET Endpoint]
  /\ stage \in [Task -> [Endpoint -> Posting \cup {"none", "ok", "failed"}]]
  /\ targets \subseteq Pair /\ accepted \subseteq Pair
  /\ missed \subseteq Event /\ published \in 0..MaxEvents
  /\ requests \in Nat /\ failures \in Nat

Targets(n) == {e \in Endpoint : <<n, e>> \in targets}

\* "delivered" in the log is true: the event was posted somewhere, and every
\* endpoint it was posted to took it, whatever happened to the endpoints since.
DeliveredIsAccepted ==
  \A n \in delivered :
    Targets(n) # {} /\ \A e \in Targets(n) : <<n, e>> \in accepted

\* And it is complete: an event that every target accepted is marked once its
\* handler is done, unless the database failed, the publishing task was
\* cancelled or the process died meanwhile.
AcceptedIsDelivered ==
  \A n \in logged \ missed :
    /\ Targets(n) # {}
    /\ \A e \in Targets(n) : <<n, e>> \in accepted
    /\ \A t \in Task : pc[t] # "idle" => event[t] # n
    => n \in delivered

\* What the log says of an event is right, in both directions.
MarkIsRight == DeliveredIsAccepted /\ AcceptedIsDelivered

\* The count of an endpoint is that of the failures reported since the last
\* success, however deliveries and tests overlap; only a toggle that reads the
\* row before and writes it after can undo a report.
FailuresCounted == \A e \in live \ stale : fails[e] = streak[e]

\* A deleted endpoint stays deleted, though deliveries and tests that were in
\* work still report on it; only an overlapping toggle can bring it back.
DeletedStaysDeleted == live \cap deleted \subseteq stale

\* Reports on endpoints and requests about them do not undo each other, except
\* for a toggle that overlaps.
ReportsKept == FailuresCounted /\ DeletedStaysDeleted
================================================================================
