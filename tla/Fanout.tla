--------------------------------- MODULE Fanout ---------------------------------
(***************************************************************************)
(* Enriched anomalies and work orders on their way out: the worker of the  *)
(* pipeline publishes one after the other, the bus calls the WebSocket     *)
(* broadcaster and then the webhook subscriber, and waits for each.        *)
(*                                                                         *)
(* The broadcast goes through a set, which clients enter and leave while   *)
(* it waits for one of them: the next step then raises if the set has      *)
(* another size than before, and if it only has other members, which of    *)
(* them come next is up to the table behind the set.  A post reaches the   *)
(* receiver at any time, also after the sender gave up waiting for it.     *)
(*                                                                         *)
(* Sources: adapters/web/websocket.py, adapters/http/routers/ws.py,        *)
(* adapters/webhook/subscriber.py, the bus, pipeline_service.py.           *)
(***************************************************************************)
EXTENDS Integers, Sequences, FiniteSets

CONSTANTS
  Clients,
  MaxMessages  \* bound on the messages that are published

ASSUME FanoutAssumption == IsFiniteSet(Clients) /\ MaxMessages \in Nat

VARIABLES
  clients,    \* _clients
  broken,     \* clients whose socket is gone; another one is another client
  stage,      \* where the publication is
  number,     \* of the message; the ones before are done
  loop,       \* the iteration: its size, who has had a turn, the dead
  awaited,    \* the client whose send is awaited, as a set
  audience,   \* the clients at the start of the broadcast
  told,       \* by client: the messages it was sent, in order
  disturbed,  \* messages during whose broadcast a client entered or left
  attempt,    \* of the webhook
  flying,     \* posts on their way: the message and the attempt
  received,   \* what the receiver took, in order
  late,       \* posts the sender gave up waiting for
  outcome     \* by message: what the webhook's log says

fanout == <<clients, broken, stage, number, loop, awaited, audience, told,
            disturbed, attempt, flying, received, late, outcome>>
clientVars == <<clients, broken, loop, awaited, audience, told, disturbed>>
hookVars == <<attempt, flying, received, late, outcome>>

NoLoop == [size |-> 0, turns |-> {}, dead |-> {}, churned |-> FALSE]

FanoutInit ==
  /\ clients = {} /\ broken = {}
  /\ stage = "idle" /\ number = 0
  /\ loop = NoLoop /\ awaited = {}
  /\ audience = {} /\ told = [c \in Clients |-> <<>>] /\ disturbed = {}
  /\ attempt = 0 /\ flying = {} /\ received = <<>> /\ late = {}
  /\ outcome = <<>>

Publish ==
  /\ stage = "idle" /\ number < MaxMessages
  /\ number' = number + 1
  /\ stage' = "broadcast"
  /\ loop' = [NoLoop EXCEPT !.size = Cardinality(clients)]
  /\ audience' = clients
  /\ UNCHANGED <<clients, broken, awaited, told, disturbed, hookVars>>

-----------------------------------------------------------------------------
(* ConnectionManager.broadcast: the next client has its turn.              *)
Turn(c) ==
  /\ stage = "broadcast" /\ awaited = {}
  /\ Cardinality(clients) = loop.size
  /\ c \in clients \ loop.turns
  /\ awaited' = {c}
  /\ loop' = [loop EXCEPT !.turns = @ \cup {c}]
  /\ UNCHANGED <<stage, number, clients, broken, audience, told, disturbed, hookVars>>

SendEnds(c, ok) ==
  /\ c \in awaited /\ (c \in broken => ~ok)
  /\ awaited' = {}
  /\ told' = IF ok THEN [told EXCEPT ![c] = Append(@, number)] ELSE told
  /\ loop' = IF ok THEN loop ELSE [loop EXCEPT !.dead = @ \cup {c}]
  /\ broken' = IF ok THEN broken ELSE broken \cup {c}
  /\ UNCHANGED <<stage, number, clients, audience, disturbed, hookVars>>

(* Mutant: the first dead client ends the loop.                            *)
LoopEndsAtDead ==
  /\ stage = "broadcast" /\ awaited = {}
  /\ Cardinality(clients) = loop.size
  /\ clients \subseteq loop.turns \/ loop.dead # {}
  /\ clients' = clients \ loop.dead
  /\ stage' = "webhook" /\ loop' = NoLoop
  /\ UNCHANGED <<number, broken, awaited, audience, told, disturbed, hookVars>>

(* The loop is over when all have had their turn; some may have been       *)
(* passed by if others took their places.  The dead are dropped.           *)
LoopEnds ==
  /\ stage = "broadcast" /\ awaited = {}
  /\ Cardinality(clients) = loop.size
  /\ clients \subseteq loop.turns \/ loop.churned
  /\ clients' = clients \ loop.dead
  /\ stage' = "webhook" /\ loop' = NoLoop
  /\ UNCHANGED <<number, broken, awaited, audience, told, disturbed, hookVars>>

(* The set has another size: the iteration raises, the bus logs it, and    *)
(* the dead stay.                                                          *)
LoopRaises ==
  /\ stage = "broadcast" /\ awaited = {}
  /\ Cardinality(clients) # loop.size
  /\ stage' = "webhook" /\ loop' = NoLoop
  /\ UNCHANGED <<number, clients, broken, awaited, audience, told, disturbed, hookVars>>

(* The table of the set may be built anew when a client enters: some of    *)
(* those who had their turn come again then.                               *)
Churn ==
  /\ \E had \in SUBSET loop.turns :
       loop' = [loop EXCEPT !.churned = @ \/ stage = "broadcast", !.turns = had]
  /\ disturbed' = IF stage = "broadcast" THEN disturbed \cup {number} ELSE disturbed

Connect(c) ==
  /\ c \notin clients \cup broken
  /\ clients' = clients \cup {c}
  /\ Churn
  /\ UNCHANGED <<stage, number, broken, awaited, audience, told, hookVars>>

(* The receive loop of a socket ends and discards it.                      *)
Disconnect(c) ==
  /\ c \in clients
  /\ clients' = clients \ {c}
  /\ broken' = broken \cup {c}
  /\ Churn
  /\ UNCHANGED <<stage, number, awaited, audience, told, hookVars>>

-----------------------------------------------------------------------------
(* deliver_anomaly_to_webhook: two attempts.                               *)
Post ==
  /\ stage = "webhook" /\ number \notin DOMAIN outcome
  /\ attempt' = attempt + 1
  /\ flying' = flying \cup {<<number, attempt'>>}
  /\ stage' = "answer"
  /\ UNCHANGED <<number, clientVars, received, late, outcome>>

Receive(post) ==
  /\ post \in flying
  /\ flying' = flying \ {post}
  /\ received' = Append(received, post)
  /\ UNCHANGED <<stage, number, clientVars, attempt, late, outcome>>

Taken(post) == \E i \in DOMAIN received : received[i] = post

Done(verdict) ==
  /\ outcome' = Append(outcome, verdict)
  /\ stage' = "idle" /\ attempt' = 0

(* A status of success from who received it.                               *)
Answered ==
  /\ stage = "answer" /\ Taken(<<number, attempt>>)
  /\ Done("delivered")
  /\ UNCHANGED <<number, clientVars, flying, received, late>>

(* Mutant: a lost one is sent again until it arrives.                      *)
FailsUntilTaken ==
  /\ stage = "answer" /\ <<number, attempt>> \in flying
  /\ flying' = flying \ {<<number, attempt>>}
  /\ stage' = "webhook" /\ attempt' = attempt - 1
  /\ UNCHANGED <<number, clientVars, received, late, outcome>>

(* No connection, another status, or no answer in time: a post that is on  *)
(* its way may arrive later, or be lost.                                   *)
Fails ==
  /\ stage = "answer"
  /\ late' = late \cup {<<number, attempt>>}
  /\ \E lost \in SUBSET {<<number, attempt>>} : flying' = flying \ lost
  /\ IF attempt = 1
     THEN stage' = "webhook" /\ UNCHANGED <<attempt, outcome>>
     ELSE Done("given up")
  /\ UNCHANGED <<number, clientVars, received>>

(* The worker is cancelled at whatever it awaits.                          *)
Cancel ==
  /\ stage \in {"broadcast", "webhook", "answer"}
  /\ stage' = "cancelled"
  /\ awaited' = {} /\ loop' = NoLoop
  /\ disturbed' = IF stage = "broadcast" THEN disturbed \cup {number} ELSE disturbed
  /\ UNCHANGED <<number, clients, broken, audience, told, hookVars>>

-----------------------------------------------------------------------------
Send == \E c \in Clients : Turn(c) \/ SendEnds(c, TRUE) \/ SendEnds(c, FALSE)
Publishing == Send \/ LoopEnds \/ LoopRaises \/ Post \/ Answered \/ Fails

FanoutNext ==
  \/ Publish \/ Publishing \/ Cancel
  \/ \E c \in Clients : Connect(c) \/ Disconnect(c)
  \/ \E post \in flying : Receive(post)

(* Each wait of the worker ends: the keep-alive of the server closes the   *)
(* sockets that do not answer, and the client of the webhook has a timeout *)
(* of ten seconds.                                                         *)
Fairness == WF_fanout(Publishing)

FanoutSpec == FanoutInit /\ [][FanoutNext]_fanout /\ Fairness

-----------------------------------------------------------------------------
Had(c, n) == \E i \in DOMAIN told[c] : told[c][i] = n

(* Whoever is connected while a message goes round is told it, in the      *)
(* order of the messages, or its socket broke and it is dropped, unless    *)
(* another client entered or left meanwhile: then some may miss it, and    *)
(* the dead may stay.  The webhook reports only what was received, and     *)
(* nothing is received twice or out of order unless the sender had stopped *)
(* waiting for it.                                                         *)
WatchersTold ==
  /\ \A c \in Clients : \A i, j \in DOMAIN told[c] : i < j =>
       told[c][i] < told[c][j] \/ (told[c][i] = told[c][j] /\ told[c][i] \in disturbed)
  /\ stage # "broadcast" /\ number \notin disturbed =>
       \A c \in audience : Had(c, number) \/ c \notin clients
  /\ \A n \in DOMAIN outcome :
       outcome[n] = "delivered" => \E k \in 1..2 : Taken(<<n, k>>)
  /\ \A i, j \in DOMAIN received : i < j =>
       \/ received[i][1] < received[j][1]
       \/ received[i] # received[j] /\ {received[i], received[j]} \cap late # {}

(* The worker gets through: whatever the clients and the receiver do, a    *)
(* publication ends, or is cancelled.                                      *)
PublicationsEnd == (stage # "idle") ~> (stage \in {"idle", "cancelled"})
=================================================================================
