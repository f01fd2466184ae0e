------------------------------- MODULE Pipeline -------------------------------
(***************************************************************************)
(* PipelineService: AlarmRaised events are queued by the bus handler and   *)
(* enriched by one worker task, which predicts, asks the reasoning layer,  *)
(* publishes AnomalyEnriched and, for a projected failure, publishes       *)
(* WorkOrderAssigned.  An event reaches AnomalyFeed after EventService     *)
(* let it through, and the sockets and webhooks after that; the worker is  *)
(* cancelled at whatever it awaits when the process shuts down.            *)
(*                                                                         *)
(* The feed is an ordered dictionary with one entry for each kind of event *)
(* and point: an entry has its place, which grows with every insertion.    *)
(*                                                                         *)
(* Sources: application/pipeline_service.py, application/anomaly_feed.py,  *)
(* the bus, __main__.py.                                                   *)
(***************************************************************************)
EXTENDS Naturals, Sequences, FiniteSets

CONSTANTS
  MaxQueue,          \* _MAX_QUEUE
  ReasoningEnabled,  \* settings.llm.enabled
  AutoWorkOrders,    \* constructor argument
  Point,             \* points, as pairs of device and name
  MaxItems,          \* max_items of the feed
  MaxAlarms,         \* bound on alarms raised
  MaxAcks            \* bound on items acknowledged

ASSUME PipelineAssumption ==
  /\ MaxQueue \in Nat \ {0} /\ MaxItems \in Nat
  /\ MaxAlarms \in Nat /\ MaxAcks \in Nat
  /\ ReasoningEnabled \in BOOLEAN /\ AutoWorkOrders \in BOOLEAN

VARIABLES
  pointOf,     \* the point of each alarm
  raised,      \* alarms raised so far; alarm n is the n-th
  queue,       \* the asyncio queue
  pc,          \* the worker
  current,     \* the alarm in _process, 0 for none
  actionable,  \* its prediction justifies a work order
  feed,        \* AnomalyFeed._items
  enriched,    \* history: alarms whose AnomalyEnriched reached the feed, in order
  orders,      \* history: work orders that reached it, and how many anomalies before
  acks,        \* history: events that were acknowledged
  enrichedTotal, workOrdersTotal,
  dropped,     \* alarms refused by the full queue
  failed,      \* alarms whose enrichment raised
  aborted      \* alarms in work when the worker was cancelled

workVars == <<current, actionable>>
feedVars == <<feed, enriched, orders, acks, enrichedTotal, workOrdersTotal>>
vars == <<pointOf, raised, queue, pc, workVars, feedVars, dropped, failed, aborted>>

\* "announce": AnomalyEnriched is in EventService; "fanout": it is past the
\* feed and in the sockets and webhooks.  The same for WorkOrderAssigned.
Unfed == {"predict", "explain", "announce"}
Fed == {"fanout", "announceOrder", "fanoutOrder"}
Stage == {"off", "get", "stopped"} \cup Unfed \cup Fed

Kind == {"anomaly", "order"}

Init ==
  /\ pointOf \in [1..MaxAlarms -> Point]
  /\ feed = [k \in {} |-> 0] /\ acks = {}
  /\ raised = 0 /\ queue = <<>> /\ pc = "off"
  /\ current = 0 /\ actionable = FALSE
  /\ enriched = <<>> /\ orders = <<>> /\ enrichedTotal = 0 /\ workOrdersTotal = 0
  /\ dropped = {} /\ failed = {} /\ aborted = {}

-----------------------------------------------------------------------------
\* Mutant: the full queue makes room by throwing out its oldest entry.
OnEventEvicting ==
  /\ raised < MaxAlarms
  /\ raised' = raised + 1
  /\ queue' = Append(IF Len(queue) < MaxQueue THEN queue ELSE Tail(queue), raised')
  /\ UNCHANGED <<pc, workVars, feedVars, dropped, failed, aborted>>

\* _on_event: put_nowait, and a full queue drops the alarm.  The handler is
\* subscribed from construction on, and stays subscribed after stop.
OnEvent ==
  /\ raised < MaxAlarms
  /\ raised' = raised + 1
  /\ IF Len(queue) < MaxQueue
     THEN queue' = Append(queue, raised') /\ UNCHANGED dropped
     ELSE dropped' = dropped \cup {raised'} /\ UNCHANGED queue
  /\ UNCHANGED <<pc, workVars, feedVars, failed, aborted>>

Start ==
  /\ pc = "off"
  /\ pc' = "get"
  /\ UNCHANGED <<raised, queue, workVars, feedVars, dropped, failed, aborted>>

\* Mutant: the queue is served newest first.
GetNewest ==
  /\ pc = "get" /\ queue # <<>>
  /\ current' = queue[Len(queue)]
  /\ queue' = SubSeq(queue, 1, Len(queue) - 1)
  /\ pc' = "predict"
  /\ UNCHANGED <<raised, actionable, feedVars, dropped, failed, aborted>>

Get ==
  /\ pc = "get" /\ queue # <<>>
  /\ current' = Head(queue)
  /\ queue' = Tail(queue)
  /\ pc' = "predict"
  /\ UNCHANGED <<raised, actionable, feedVars, dropped, failed, aborted>>

\* The prediction is there or not (it failed, there is none): what matters
\* later is an actionable level with an ETA.
Predict ==
  /\ pc = "predict"
  /\ actionable' \in BOOLEAN
  /\ pc' = IF ReasoningEnabled THEN "explain" ELSE "announce"
  /\ UNCHANGED <<raised, queue, current, feedVars, dropped, failed, aborted>>

\* The reasoning layer answers or fails; either way the event goes out.
Explain ==
  /\ pc = "explain"
  /\ pc' = "announce"
  /\ UNCHANGED <<raised, queue, workVars, feedVars, dropped, failed, aborted>>

\* Mutant: the bad enrichment kills the worker.
ProcessFailsFatally ==
  /\ pc = "predict"
  /\ failed' = failed \cup {current}
  /\ current' = 0
  /\ pc' = "dead"
  /\ UNCHANGED <<raised, queue, actionable, feedVars, dropped, aborted>>

\* _process raises outside its try blocks; the worker logs it and goes on.
ProcessFails ==
  /\ pc = "predict"
  /\ failed' = failed \cup {current}
  /\ current' = 0
  /\ pc' = "get"
  /\ UNCHANGED <<raised, queue, actionable, feedVars, dropped, aborted>>

Arrivals == Len(enriched) + Len(orders)

\* Mutant: the fresh item takes the place of the one it replaces.
AddedInPlace(kind, n) ==
  LET key == <<kind, pointOf[n]>>
  IN  [k \in DOMAIN feed \cup {key} |->
         IF k # key THEN feed[k]
         ELSE [alarm |-> n, acked |-> FALSE,
               place |-> IF key \in DOMAIN feed THEN feed[key].place ELSE Arrivals + 1]]

\* The earlier item of the point is popped and the fresh one comes last.
Added(kind, n) ==
  LET key == <<kind, pointOf[n]>>
  IN  [k \in DOMAIN feed \cup {key} |->
         IF k # key THEN feed[k]
         ELSE [alarm |-> n, acked |-> FALSE, place |-> Arrivals + 1]]

Oldest(items) == CHOOSE k \in DOMAIN items : \A l \in DOMAIN items : items[k].place <= items[l].place

\* popitem(last=False): one insertion makes at most one item too many.
Bounded(items) ==
  IF Cardinality(DOMAIN items) <= MaxItems THEN items
  ELSE [k \in DOMAIN items \ {Oldest(items)} |-> items[k]]

\* AnomalyFeed._on_event
Put(kind, n) == feed' = Bounded(Added(kind, n))

Announce ==
  /\ pc = "announce"
  /\ enriched' = Append(enriched, current)
  /\ Put("anomaly", current)
  /\ pc' = "fanout"
  /\ UNCHANGED <<raised, queue, workVars, orders, acks, enrichedTotal, workOrdersTotal, dropped,
                 failed, aborted>>

\* The end of _process: back to the queue.
Finish == pc' = "get" /\ current' = 0

\* Mutant: only anomalies without a work order are counted.
FanOutCountsElse ==
  /\ pc = "fanout"
  /\ IF AutoWorkOrders /\ actionable
     THEN pc' = "announceOrder" /\ UNCHANGED <<current, enrichedTotal>>
     ELSE Finish /\ enrichedTotal' = enrichedTotal + 1
  /\ UNCHANGED <<raised, queue, actionable, feed, enriched, orders, acks, workOrdersTotal,
                 dropped, failed, aborted>>

\* publish has returned: count, and decide on the work order.
FanOut ==
  /\ pc = "fanout"
  /\ enrichedTotal' = enrichedTotal + 1
  /\ IF AutoWorkOrders /\ actionable
     THEN pc' = "announceOrder" /\ UNCHANGED current
     ELSE Finish
  /\ UNCHANGED <<raised, queue, actionable, feed, enriched, orders, acks, workOrdersTotal,
                 dropped, failed, aborted>>

AnnounceOrder ==
  /\ pc = "announceOrder"
  /\ orders' = Append(orders, [alarm |-> current, behind |-> Len(enriched)])
  /\ Put("order", current)
  /\ pc' = "fanoutOrder"
  /\ UNCHANGED <<raised, queue, workVars, enriched, acks, enrichedTotal, workOrdersTotal,
                 dropped, failed, aborted>>

FanOutOrder ==
  /\ pc = "fanoutOrder"
  /\ workOrdersTotal' = workOrdersTotal + 1
  /\ Finish
  /\ UNCHANGED <<raised, queue, actionable, feed, enriched, orders, acks, enrichedTotal,
                 dropped, failed, aborted>>

\* The worker is cancelled where it awaits; what is queued stays queued.
Stop ==
  /\ pc \notin {"off", "stopped"}
  /\ pc' = "stopped"
  /\ aborted' = IF pc \in Unfed THEN aborted \cup {current} ELSE aborted
  /\ current' = 0
  /\ UNCHANGED <<raised, queue, actionable, feedVars, dropped, failed>>

\* POST /anomaly-feed/{feed_id}/ack, of what the feed has under that id by then.
Ack(k) ==
  /\ k \in DOMAIN feed /\ ~feed[k].acked /\ Cardinality(acks) < MaxAcks
  /\ feed' = [feed EXCEPT ![k].acked = TRUE]
  /\ acks' = acks \cup {<<k[1], feed[k].alarm>>}
  /\ UNCHANGED <<raised, queue, pc, workVars, enriched, orders, enrichedTotal,
                 workOrdersTotal, dropped, failed, aborted>>

Worker ==
  \/ Get \/ Predict \/ Explain \/ ProcessFails
  \/ Announce \/ FanOut \/ AnnounceOrder \/ FanOutOrder

Next ==
  /\ UNCHANGED pointOf
  /\ OnEvent \/ Start \/ Worker \/ Stop \/ \E k \in DOMAIN feed : Ack(k)

Spec == Init /\ [][Next]_vars

\* main starts the worker; every await of it ends (the model and the LLM have
\* timeouts).  Nobody has to raise an alarm or to stop the process.
FairSpec ==
  /\ Spec
  /\ WF_vars(Start /\ UNCHANGED pointOf) /\ WF_vars(Worker /\ UNCHANGED pointOf)

-----------------------------------------------------------------------------
Item == [alarm : Nat, acked : BOOLEAN, place : Nat]

\* Every variable keeps its type: queue, worker and feed, within the bound of the queue.
TypeOK ==
  /\ pointOf \in [1..MaxAlarms -> Point]
  /\ \A k \in DOMAIN feed : feed[k] \in Item
  /\ raised \in Nat /\ queue \in Seq(Nat) /\ pc \in Stage
  /\ current \in Nat /\ actionable \in BOOLEAN
  /\ enriched \in Seq(Nat) /\ orders \in Seq([alarm : Nat, behind : Nat])
  /\ enrichedTotal \in Nat /\ workOrdersTotal \in Nat
  /\ dropped \subseteq Nat /\ failed \subseteq Nat /\ aborted \subseteq Nat

Elements(s) == {s[i] : i \in 1..Len(s)}
InWork == IF pc \in Unfed THEN {current} ELSE {}

\* Between two alarms the counters of status() agree with the feed.
TotalsMatchFeed ==
  pc = "get" => enrichedTotal = Len(enriched) /\ workOrdersTotal = Len(orders)

\* Every alarm raised is in exactly one place: refused by a full queue, queued,
\* in work, enriched, failed, or lost with the worker; and the counters count
\* what was enriched and ordered.
EveryAlarmAccounted ==
  LET places == <<Elements(queue), InWork, Elements(enriched), dropped, failed,
                  aborted>>
  IN /\ UNION {places[i] : i \in 1..6} = 1..raised
     /\ \A i, j \in 1..6 : i # j => places[i] \cap places[j] = {}
     /\ TotalsMatchFeed

\* Anomalies are announced in the order they were raised, each at most once, and
\* a work order directly behind the anomaly it answers, at most one each.
AnnouncedInOrder ==
  /\ \A i, j \in 1..Len(enriched) : i < j => enriched[i] < enriched[j]
  /\ \A k \in 1..Len(orders) :
       /\ orders[k].behind \in 1..Len(enriched)
       /\ enriched[orders[k].behind] = orders[k].alarm
  /\ \A k, l \in 1..Len(orders) : k < l => orders[k].behind < orders[l].behind

Announced(kind) ==
  IF kind = "anomaly" THEN Elements(enriched) ELSE {orders[k].alarm : k \in 1..Len(orders)}

\* An item is the newest event of its kind and point, and it is acknowledged
\* exactly if that very event was.
ItemsAreNewest ==
  \A k \in DOMAIN feed :
    /\ feed[k].alarm \in Announced(k[1]) /\ pointOf[feed[k].alarm] = k[2]
    /\ \A n \in Announced(k[1]) : pointOf[n] = k[2] => n <= feed[k].alarm
    /\ feed[k].acked <=> <<k[1], feed[k].alarm>> \in acks

\* Items are shown by the age of their alarms; of one alarm the work order is
\* the newer.
ItemsByAge ==
  \A k, l \in DOMAIN feed :
    feed[k].place < feed[l].place =>
      \/ feed[k].alarm < feed[l].alarm
      \/ feed[k].alarm = feed[l].alarm /\ k[1] = "anomaly" /\ l[1] = "order"

\* What was announced is shown, or a newer event of its kind and point is, or
\* the feed is full with events that are not older.
NothingMissing ==
  \A kind \in Kind : \A n \in Announced(kind) :
    \/ <<kind, pointOf[n]>> \in DOMAIN feed
    \/ Cardinality(DOMAIN feed) = MaxItems /\ \A l \in DOMAIN feed : feed[l].alarm >= n

\* The feed is what the dashboard polls: within its bound it shows the newest
\* anomaly and work order of each point by age, what it does not show has made
\* room for something newer, and an acknowledgement ends with its event.
FeedInOrder ==
  /\ AnnouncedInOrder /\ ItemsAreNewest /\ ItemsByAge /\ NothingMissing
  /\ Cardinality(DOMAIN feed) <= MaxItems

\* A queued alarm is enriched in the end, unless its enrichment raises or the
\* process shuts down: no failure of one alarm holds up the ones behind it.
QueuedEventuallyEnriched ==
  \A n \in 1..MaxAlarms :
    n \in Elements(queue) ~> (n \in Elements(enriched) \cup failed \/ pc = "stopped")

\* The abstract stage: the alarm in work is still waiting until it is fed.
Fifo == INSTANCE FifoStage WITH
  Room <- MaxQueue + 1,
  offered <- raised,
  waiting <- IF pc \in Unfed THEN <<current>> \o queue ELSE queue,
  finished <- enriched,
  shut <- pc = "stopped"

\* PipelineService implements a bounded stage that serves in order.
ImplementsFifo == Fifo!Spec
=============================================================================
