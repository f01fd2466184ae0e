--------------------------- MODULE Pipeline_proofs ---------------------------
(***************************************************************************)
(* PipelineService keeps the order of the alarms, loses track of none, and *)
(* implements FifoStage, for any queue bound, with and without reasoning   *)
(* and work orders.  The predictions, which the pipeline works out for     *)
(* each alarm, are the second part: every one follows from what was        *)
(* forecast and measured, however many rows and points there are.          *)
(***************************************************************************)
EXTENDS Pipeline, Calculations, FiniteSetTheorems, SequenceTheorems, WellFoundedInduction, TLAPS

Order == [alarm : Nat, behind : Nat]

\* What the feed keeps after an event are items.
LEMMA PutTyped ==
  ASSUME TypeOK, NEW kind, NEW n \in Nat, Put(kind, n)
  PROVE  \A k \in DOMAIN feed' : feed'[k] \in Item
<1> DEFINE all == Added(kind, n)
<1>1. Arrivals + 1 \in Nat
  BY DEF TypeOK, Arrivals
<1>2. [alarm |-> n, acked |-> FALSE, place |-> Arrivals + 1] \in Item
  BY <1>1 DEF Item
<1>3. \A k \in DOMAIN all : all[k] \in Item
  BY <1>2, Zenon DEF Added, TypeOK
<1> HIDE DEF all
<1>4. feed' = all \/ feed' = [k \in DOMAIN all \ {Oldest(all)} |-> all[k]]
  BY Zenon DEF Put, Bounded, all
<1> QED BY <1>3, <1>4, Zenon

\* Every variable keeps its type.
THEOREM TypeCorrect == Spec => []TypeOK
<1>1. Init => TypeOK
  <2>1. <<>> \in Seq(Nat) /\ <<>> \in Seq([alarm : Nat, behind : Nat])
    BY EmptySeq
  <2> SUFFICES ASSUME Init PROVE TypeOK
    OBVIOUS
  <2>2. queue \in Seq(Nat) /\ enriched \in Seq(Nat)
    BY <2>1, Zenon DEF Init
  <2>3. orders \in Seq([alarm : Nat, behind : Nat])
    BY <2>1, Zenon DEF Init
  <2>6. pointOf \in [1..MaxAlarms -> Point] /\ \A k \in DOMAIN feed : feed[k] \in Item
    BY Zenon DEF Init
  <2>4. pc \in Stage /\ dropped \subseteq Nat /\ failed \subseteq Nat /\ aborted \subseteq Nat
    BY DEF Init, Stage
  <2>5. /\ raised \in Nat /\ current \in Nat /\ actionable \in BOOLEAN
        /\ enrichedTotal \in Nat /\ workOrdersTotal \in Nat
    BY DEF Init
  <2> QED BY <2>2, <2>3, <2>4, <2>5, <2>6 DEF TypeOK
<1>2. TypeOK /\ [Next]_vars => TypeOK'
  <2> SUFFICES ASSUME TypeOK, [Next]_vars PROVE TypeOK'
    OBVIOUS
  <2>0. pointOf' \in [1..MaxAlarms -> Point]
    BY DEF TypeOK, Next, vars
  <2>13. CASE \E k \in DOMAIN feed : Ack(k)
    <3>1. PICK k \in DOMAIN feed : Ack(k)
      BY <2>13
    <3>2. \A l \in DOMAIN feed' : feed'[l] \in Item
      <4> SUFFICES ASSUME NEW l \in DOMAIN feed' PROVE feed'[l] \in Item
        OBVIOUS
      <4>1. l \in DOMAIN feed /\ feed'[l] = IF l = k THEN [feed[k] EXCEPT !.acked = TRUE] ELSE feed[l]
        BY <3>1 DEF Ack
      <4> QED BY <4>1 DEF TypeOK, Item
    <3>3. UNCHANGED <<raised, queue, pc, workVars, enriched, orders, enrichedTotal,
                      workOrdersTotal, dropped, failed, aborted>>
      BY <3>1 DEF Ack
    <3> QED BY <2>0, <3>2, <3>3 DEF TypeOK, workVars
  <2> USE <2>0 DEF TypeOK, Stage, Unfed, Fed, workVars, feedVars
  <2>1. CASE OnEvent
    <3>1. raised' \in Nat /\ raised' = raised + 1
      BY <2>1 DEF OnEvent
    <3>2. Append(queue, raised') \in Seq(Nat)
      BY <3>1
    <3>3. dropped \cup {raised'} \subseteq Nat
      BY <3>1
    <3> QED BY <2>1, <3>1, <3>2, <3>3 DEF OnEvent
  <2>2. CASE Start
    BY <2>2 DEF Start
  <2>3. CASE Get
    <3>1. Head(queue) \in Nat /\ Tail(queue) \in Seq(Nat)
      BY <2>3, HeadTailProperties DEF Get
    <3> QED BY <2>3, <3>1 DEF Get
  <2>4. CASE Predict \/ Explain
    BY <2>4 DEF Predict, Explain
  <2>5. CASE ProcessFails
    BY <2>5 DEF ProcessFails
  <2>6. CASE Announce
    <3>1. \A k \in DOMAIN feed' : feed'[k] \in Item
      <4>1. TypeOK /\ current \in Nat /\ Put("anomaly", current)
        BY <2>6 DEF Announce
      <4> QED BY <4>1, PutTyped
    <3> QED BY <2>6, <3>1 DEF Announce
  <2>7. CASE FanOut
    BY <2>7 DEF FanOut, Finish
  <2>8. CASE AnnounceOrder
    <3>1. [alarm |-> current, behind |-> Len(enriched)] \in [alarm : Nat, behind : Nat]
      OBVIOUS
    <3>2. \A k \in DOMAIN feed' : feed'[k] \in Item
      <4>1. TypeOK /\ current \in Nat /\ Put("order", current)
        BY <2>8 DEF AnnounceOrder
      <4> QED BY <4>1, PutTyped
    <3> QED BY <2>8, <3>1, <3>2 DEF AnnounceOrder
  <2>9. CASE FanOutOrder
    BY <2>9 DEF FanOutOrder, Finish
  <2>10. CASE Stop
    BY <2>10 DEF Stop
  <2>11. CASE UNCHANGED vars
    BY <2>11 DEF vars
  <2> QED BY <2>1, <2>2, <2>3, <2>4, <2>5, <2>6, <2>7, <2>8, <2>9, <2>10, <2>11, <2>13
          DEF Next, Worker
<1> QED BY <1>1, <1>2, PTL DEF Spec

-----------------------------------------------------------------------------
\* The strengthening: what is queued came after what is in work, which came
\* after what is in the feed; a work order is published while its anomaly is
\* the last one there and before any other.
QueueAscends ==
  /\ \A i \in 1..Len(queue) : queue[i] \in 1..raised
  /\ \A i, j \in 1..Len(queue) : i < j => queue[i] < queue[j]

InHand == pc \in Unfed \cup Fed

CurrentBeforeQueue ==
  InHand =>
    /\ current \in 1..raised
    /\ \A i \in 1..Len(queue) : current < queue[i]

FeedBeforeCurrent ==
  /\ pc \in Unfed => \A i \in 1..Len(enriched) : enriched[i] < current
  /\ pc \in Fed => Len(enriched) > 0 /\ enriched[Len(enriched)] = current
  /\ pc \in {"fanout", "announceOrder"} =>
       \A k \in 1..Len(orders) : orders[k].behind < Len(enriched)

FeedBeforeQueue ==
  \A i \in 1..Len(enriched), j \in 1..Len(queue) : enriched[i] < queue[j]

FeedRaised == \A i \in 1..Len(enriched) : enriched[i] \in 1..raised

IInv ==
  /\ QueueAscends /\ CurrentBeforeQueue /\ FeedBeforeCurrent
  /\ FeedBeforeQueue /\ FeedRaised /\ AnnouncedInOrder

\* The strengthened invariant of the queue, the worker and the feed holds in every state.
THEOREM StrongInvariant == Spec => []IInv
<1> USE DEF IInv, QueueAscends, CurrentBeforeQueue, FeedBeforeCurrent,
            FeedBeforeQueue, FeedRaised, AnnouncedInOrder, InHand, Unfed, Fed
<1>1. Init => IInv
  BY DEF Init
<1>2. TypeOK /\ IInv /\ [Next]_vars => IInv'
  <2> SUFFICES ASSUME TypeOK, IInv, [Next]_vars PROVE IInv'
    OBVIOUS
  <2> USE DEF workVars, feedVars
  <2>1. CASE OnEvent
    <3>1. raised' = raised + 1 /\ raised \in Nat /\ queue \in Seq(Nat)
      BY <2>1 DEF OnEvent, TypeOK
    <3>2. CASE queue' = queue
      BY <2>1, <3>1, <3>2 DEF OnEvent, TypeOK
    <3>3. CASE queue' = Append(queue, raised')
      <4>1. /\ Len(queue') = Len(queue) + 1 /\ queue'[Len(queue) + 1] = raised + 1
            /\ \A i \in 1..Len(queue) : queue'[i] = queue[i]
            /\ Len(queue) \in Nat
        BY <3>1, <3>3
      <4>2. UNCHANGED <<pc, current, enriched, orders>>
        BY <2>1 DEF OnEvent
      <4> DEFINE n == Len(queue)
      <4>3. \A i \in 1..Len(queue') : i \in 1..n \/ i = n + 1
        BY <4>1
      <4>4. \A i \in 1..n : queue[i] \in 1..raised /\ queue[i] < raised + 1
        BY <3>1
      <4> HIDE DEF n
      <4>10. /\ n \in Nat /\ queue'[n + 1] = raised + 1
             /\ \A i \in 1..n : queue'[i] = queue[i]
        BY <4>1 DEF n
      <4>6. \A i \in 1..Len(queue') : queue'[i] \in 1..raised'
        BY <3>1, <4>3, <4>4, <4>10
      <4>7. \A i, j \in 1..Len(queue') : i < j => queue'[i] < queue'[j]
        <5> SUFFICES ASSUME NEW i \in 1..Len(queue'), NEW j \in 1..Len(queue'), i < j
                     PROVE  queue'[i] < queue'[j]
          OBVIOUS
        <5>1. i \in 1..n
          BY <4>3, <4>10
        <5>2. CASE j \in 1..n
          BY <5>1, <5>2, <4>10 DEF n
        <5>3. CASE j = n + 1
          BY <5>1, <5>3, <4>4, <4>10
        <5> QED BY <5>2, <5>3, <4>3
      <4>8. CurrentBeforeQueue'
        <5> SUFFICES ASSUME InHand
                     PROVE  /\ current \in 1..raised'
                            /\ \A i \in 1..Len(queue') : current < queue'[i]
          BY <4>2
        <5>1. current \in 1..raised /\ \A i \in 1..n : current < queue[i]
          BY DEF n
        <5> QED BY <3>1, <4>3, <4>10, <5>1
      <4>9. FeedBeforeQueue'
        <5> SUFFICES ASSUME NEW i \in 1..Len(enriched), NEW j \in 1..Len(queue')
                     PROVE  enriched[i] < queue'[j]
          BY <4>2
        <5>1. /\ \A k \in 1..n : enriched[i] < queue[k]
              /\ enriched[i] \in 1..raised
          BY DEF n
        <5> QED BY <3>1, <4>3, <4>10, <5>1
      <4>5. FeedBeforeCurrent' /\ FeedRaised' /\ AnnouncedInOrder'
        <5>1. FeedBeforeCurrent'
          BY <4>2
        <5>2. FeedRaised'
          BY <3>1, <4>2
        <5>3. AnnouncedInOrder'
          BY <4>2
        <5> QED BY <5>1, <5>2, <5>3
      <4> QED BY <4>5, <4>6, <4>7, <4>8, <4>9
    <3> QED BY <2>1, <3>2, <3>3 DEF OnEvent
  <2>2. CASE Start
    BY <2>2 DEF Start
  <2>3. CASE Get
    <3>1. /\ queue # <<>> /\ queue \in Seq(Nat)
          /\ current' = Head(queue) /\ queue' = Tail(queue)
          /\ pc = "get" /\ pc' = "predict" /\ UNCHANGED <<raised, enriched, orders>>
      BY <2>3 DEF Get, TypeOK
    <3>2. /\ current' = queue[1] /\ Len(queue) \in Nat \ {0}
          /\ Len(queue') = Len(queue) - 1
          /\ \A i \in 1..Len(queue') : queue'[i] = queue[i + 1]
      BY <3>1, HeadTailProperties, EmptySeq
    <3> QED BY <3>1, <3>2 DEF TypeOK
  <2>4. CASE Predict \/ Explain
    BY <2>4 DEF Predict, Explain
  <2>5. CASE ProcessFails
    BY <2>5 DEF ProcessFails
  <2>6. CASE Announce
    <3>1. /\ enriched \in Seq(Nat) /\ enriched' = Append(enriched, current)
          /\ pc = "announce" /\ pc' = "fanout"
          /\ UNCHANGED <<raised, queue, current, orders>>
      BY <2>6 DEF Announce, TypeOK
    <3>2. /\ Len(enriched') = Len(enriched) + 1 /\ Len(enriched) \in Nat
          /\ enriched'[Len(enriched) + 1] = current
          /\ \A i \in 1..Len(enriched) : enriched'[i] = enriched[i]
      BY <3>1 DEF TypeOK
    <3>3. QueueAscends' /\ CurrentBeforeQueue' /\ FeedBeforeQueue' /\ FeedRaised'
      BY <3>1, <3>2 DEF TypeOK
    <3>4. \A k \in 1..Len(orders) : orders[k].behind \in 1..Len(enriched)
      BY DEF TypeOK
    <3>5. FeedBeforeCurrent' /\ AnnouncedInOrder'
      BY <3>1, <3>2, <3>4 DEF TypeOK
    <3> QED BY <3>3, <3>5
  <2>7. CASE FanOut
    BY <2>7 DEF FanOut, Finish
  <2>8. CASE AnnounceOrder
    <3> DEFINE o == [alarm |-> current, behind |-> Len(enriched)]
    <3>1. /\ orders \in Seq(Order) /\ orders' = Append(orders, o) /\ o \in Order
          /\ pc = "announceOrder" /\ pc' = "fanoutOrder"
          /\ UNCHANGED <<raised, queue, current, enriched>>
      BY <2>8 DEF AnnounceOrder, TypeOK, Order
    <3>2. o.alarm = current /\ o.behind = Len(enriched) /\ Len(enriched) \in Nat
      BY DEF TypeOK
    <3> HIDE DEF o
    <3>3. /\ Len(orders') = Len(orders) + 1 /\ Len(orders) \in Nat
          /\ orders'[Len(orders) + 1] = o
          /\ \A i \in 1..Len(orders) : orders'[i] = orders[i]
      BY <3>1
    <3>4. QueueAscends' /\ CurrentBeforeQueue' /\ FeedBeforeQueue' /\ FeedRaised'
          /\ FeedBeforeCurrent'
      BY <3>1
    <3>5. AnnouncedInOrder'
      BY <3>1, <3>2, <3>3
    <3> QED BY <3>4, <3>5
  <2>9. CASE FanOutOrder
    BY <2>9 DEF FanOutOrder, Finish
  <2>10. CASE Stop
    BY <2>10 DEF Stop
  <2>12. CASE \E k \in DOMAIN feed : Ack(k)
    <3>1. UNCHANGED <<raised, queue, pc, current, enriched, orders>>
      BY <2>12 DEF Ack
    <3> QED BY <3>1
  <2>11. CASE UNCHANGED vars
    BY <2>11 DEF vars
  <2> QED BY <2>1, <2>2, <2>3, <2>4, <2>5, <2>6, <2>7, <2>8, <2>9, <2>10, <2>11, <2>12
          DEF Next, Worker
<1> QED BY <1>1, <1>2, TypeCorrect, PTL DEF Spec

-----------------------------------------------------------------------------
\* Refinement.  The abstract queue is the concrete one with the alarm in work,
\* until it is fed, in front.
InFront == IF pc \in Unfed THEN <<current>> \o queue ELSE queue

\* Two facts about a sequence behind one element.
LEMMA FrontProperties ==
  ASSUME NEW c \in Nat, NEW q \in Seq(Nat)
  PROVE  /\ <<c>> \o q \in Seq(Nat)
         /\ Len(<<c>> \o q) = Len(q) + 1
         /\ Head(<<c>> \o q) = c
         /\ Tail(<<c>> \o q) = q
         /\ <<c>> \o q # <<>>
         /\ \A n \in Nat : Append(<<c>> \o q, n) = <<c>> \o Append(q, n)
<1>1. /\ <<c>> \in Seq(Nat) /\ Len(<<c>>) = 1 /\ <<c>>[1] = c /\ Len(q) \in Nat
  OBVIOUS
<1>2. /\ <<c>> \o q \in Seq(Nat) /\ Len(<<c>> \o q) = 1 + Len(q)
      /\ \A i \in 1..(1 + Len(q)) :
           (<<c>> \o q)[i] = IF i <= 1 THEN <<c>>[i] ELSE q[i - 1]
  BY <1>1, ConcatProperties
<1> DEFINE s == <<c>> \o q
<1> HIDE DEF s
<1>3. s \in Seq(Nat) /\ Len(s) = 1 + Len(q) /\ s # <<>>
  BY <1>1, <1>2 DEF s
<1>4. s[1] = c /\ \A i \in 1..Len(q) : s[i + 1] = q[i]
  BY <1>1, <1>2 DEF s
<1>5. Head(s) = c
  BY <1>3, <1>4
<1>6. Tail(s) = q
  <2>1. /\ Tail(s) \in Seq(Nat) /\ Len(Tail(s)) = Len(q)
        /\ \A i \in 1..Len(Tail(s)) : Tail(s)[i] = s[i + 1]
    BY <1>1, <1>3, HeadTailProperties
  <2> QED BY <1>1, <1>4, <2>1, SeqEqual
<1>7. ASSUME NEW n \in Nat PROVE Append(s, n) = <<c>> \o Append(q, n)
  <2>1. Append(q, n) \in Seq(Nat) /\ Len(Append(q, n)) = Len(q) + 1
    OBVIOUS
  <2>2. /\ <<c>> \o Append(q, n) \in Seq(Nat)
        /\ Len(<<c>> \o Append(q, n)) = 1 + (Len(q) + 1)
        /\ \A i \in 1..(1 + (Len(q) + 1)) : (<<c>> \o Append(q, n))[i] =
             IF i <= 1 THEN <<c>>[i] ELSE Append(q, n)[i - 1]
    BY <1>1, <2>1, ConcatProperties
  <2>3. /\ Append(s, n) \in Seq(Nat) /\ Len(Append(s, n)) = (1 + Len(q)) + 1
        /\ \A i \in 1..Len(s) : Append(s, n)[i] = s[i]
        /\ Append(s, n)[Len(s) + 1] = n
    BY <1>1, <1>3
  <2> DEFINE r == <<c>> \o Append(q, n)
             l == Append(s, n)
  <2> HIDE DEF r, l
  <2>4. ASSUME NEW i \in 1..Len(l)
        PROVE  l[i] = r[i]
    <3>1. CASE i = 1
      BY <1>1, <1>3, <1>4, <2>2, <2>3, <3>1 DEF l, r
    <3>2. CASE i > 1 /\ i <= Len(s)
      <4>1. i - 1 \in 1..Len(q) /\ Append(q, n)[i - 1] = q[i - 1]
        BY <1>1, <1>3, <2>3, <3>2
      <4>2. l[i] = s[i] /\ s[i] = q[i - 1]
        <5>1. l[i] = s[i]
          BY <1>3, <2>3, <3>2 DEF l
        <5>2. s[(i - 1) + 1] = q[i - 1]
          BY <1>4, <4>1
        <5>3. (i - 1) + 1 = i
          BY <3>2, <1>3
        <5> QED BY <5>1, <5>2, <5>3
      <4>3. r[i] = Append(q, n)[i - 1]
        BY <1>1, <1>3, <2>2, <3>2 DEF r
      <4> QED BY <4>1, <4>2, <4>3
    <3>3. CASE i = Len(s) + 1
      <4>1. i = Len(q) + 2 /\ i - 1 = Len(q) + 1 /\ ~(i <= 1)
        BY <1>1, <1>3, <3>3
      <4>2. Append(q, n)[i - 1] = n
        BY <1>1, <4>1
      <4>3. r[i] = Append(q, n)[i - 1]
        BY <1>1, <2>2, <4>1 DEF r
      <4>4. l[i] = n
        BY <2>3, <3>3 DEF l
      <4> QED BY <4>2, <4>3, <4>4
    <3>4. i <= Len(s) + 1 /\ i >= 1 /\ i \in Int
      BY <1>1, <1>3, <2>3 DEF l
    <3> QED BY <1>1, <1>3, <3>1, <3>2, <3>3, <3>4
  <2>5. /\ l \in Seq(Nat) /\ r \in Seq(Nat) /\ Len(l) = Len(r)
    BY <1>1, <2>2, <2>3 DEF l, r
  <2>6. l = r
    BY <2>4, <2>5, SeqEqual
  <2> QED BY <2>6 DEF l, r
<1> QED BY <1>1, <1>3, <1>5, <1>6, <1>7 DEF s

\* A PipelineService that has just been constructed is an empty stage.
LEMMA RefineInit == Init => Fifo!Init
BY DEF Init, Fifo!Init, Unfed

\* Each step of the service is a step of the stage or none.
LEMMA RefineStep == TypeOK /\ [Next]_vars => [Fifo!Next]_(Fifo!stageVars)
<1> SUFFICES ASSUME TypeOK, [Next]_vars
             PROVE  Fifo!Next \/ UNCHANGED Fifo!stageVars
  OBVIOUS
<1> USE DEF workVars, feedVars, Fifo!Next, Fifo!stageVars
<1>1. /\ queue \in Seq(Nat) /\ current \in Nat /\ raised \in Nat
      /\ Len(queue) \in Nat
  BY DEF TypeOK
<1>2. CASE OnEvent
  <2>1. /\ raised' = raised + 1 /\ UNCHANGED <<pc, current, enriched>>
        /\ \/ Len(queue) < MaxQueue /\ queue' = Append(queue, raised')
           \/ queue' = queue
    BY <1>2 DEF OnEvent
  <2>2. CASE queue' = queue
    <3>1. Fifo!Offer
      BY <2>1, <2>2 DEF Fifo!Offer
    <3> QED BY <3>1
  <2>3. CASE Len(queue) < MaxQueue /\ queue' = Append(queue, raised')
    <3>1. Len(InFront) <= Len(queue) + 1
      BY <1>1, FrontProperties DEF InFront
    <3>2. Len(InFront) \in Nat /\ Len(InFront) < MaxQueue + 1
      BY <1>1, <2>3, <3>1, FrontProperties, PipelineAssumption DEF InFront
    <3>3. InFront' = Append(InFront, raised')
      <4>1. raised' \in Nat
        BY <1>1, <2>1
      <4>2. <<current>> \o Append(queue, raised') = Append(<<current>> \o queue, raised')
        BY <1>1, <4>1, FrontProperties, SMT
      <4>3. (pc' \in Unfed) = (pc \in Unfed) /\ current' = current
        BY <2>1, Zenon
      <4> QED BY <2>3, <4>2, <4>3, Zenon DEF InFront
    <3>4. Fifo!Offer
      BY <2>1, <3>2, <3>3 DEF Fifo!Offer, InFront
    <3> QED BY <3>4
  <2> QED BY <2>1, <2>2, <2>3
<1>3. CASE Start
  BY <1>3 DEF Start, Unfed
<1>4. CASE Get
  <2>1. /\ queue # <<>> /\ pc = "get" /\ pc' = "predict" /\ current' = Head(queue)
        /\ queue' = Tail(queue) /\ UNCHANGED <<raised, enriched>>
    BY <1>4 DEF Get
  <2>2. /\ Head(queue) \in Nat /\ Tail(queue) \in Seq(Nat)
        /\ Len(Tail(queue)) = Len(queue) - 1 /\ Len(queue) > 0
        /\ \A i \in 1..Len(Tail(queue)) : Tail(queue)[i] = queue[i + 1]
        /\ Head(queue) = queue[1]
    BY <1>1, <2>1, HeadTailProperties, EmptySeq
  <2>3. <<Head(queue)>> \o Tail(queue) = queue
    <3>1. /\ <<Head(queue)>> \in Seq(Nat) /\ Len(<<Head(queue)>>) = 1
          /\ <<Head(queue)>>[1] = queue[1]
      BY <2>2
    <3>2. /\ <<Head(queue)>> \o Tail(queue) \in Seq(Nat)
          /\ Len(<<Head(queue)>> \o Tail(queue)) = Len(queue)
          /\ \A i \in 1..Len(queue) : (<<Head(queue)>> \o Tail(queue))[i] =
               IF i <= 1 THEN <<Head(queue)>>[i] ELSE Tail(queue)[i - 1]
      BY <1>1, <2>2, <3>1, ConcatProperties
    <3>3. \A i \in 1..Len(queue) : (<<Head(queue)>> \o Tail(queue))[i] = queue[i]
      BY <1>1, <2>2, <3>1, <3>2
    <3> QED BY <1>1, <3>2, <3>3, SeqEqual
  <2>4. InFront' = InFront
    BY <2>1, <2>3 DEF InFront, Unfed
  <2> QED BY <2>1, <2>4 DEF InFront
<1>5. CASE Predict \/ Explain
  BY <1>5 DEF Predict, Explain, Unfed
<1>6. CASE ProcessFails
  <2>1. /\ pc = "predict" /\ pc' = "get" /\ UNCHANGED <<raised, queue, enriched>>
    BY <1>6 DEF ProcessFails
  <2>2. InFront = <<current>> \o queue /\ InFront' = queue
    BY <2>1 DEF InFront, Unfed
  <2>3. InFront # <<>> /\ InFront' = Tail(InFront)
    BY <1>1, <2>2, FrontProperties
  <2>4. Fifo!GiveUp
    BY <2>1, <2>3 DEF Fifo!GiveUp, InFront
  <2> QED BY <2>4
<1>7. CASE Announce
  <2>1. /\ pc = "announce" /\ pc' = "fanout" /\ UNCHANGED <<raised, queue>>
        /\ enriched' = Append(enriched, current)
    BY <1>7 DEF Announce
  <2>2. InFront = <<current>> \o queue /\ InFront' = queue
    BY <2>1 DEF InFront, Unfed
  <2>3. InFront # <<>> /\ InFront' = Tail(InFront) /\ Head(InFront) = current
    BY <1>1, <2>2, FrontProperties
  <2>4. Fifo!Finish
    BY <2>1, <2>3 DEF Fifo!Finish, InFront
  <2> QED BY <2>4
<1>8. CASE FanOut \/ AnnounceOrder \/ FanOutOrder
  BY <1>8 DEF FanOut, AnnounceOrder, FanOutOrder, Finish, Unfed
<1>9. CASE Stop
  <2>1. /\ pc' = "stopped" /\ UNCHANGED <<raised, queue, enriched>>
    BY <1>9 DEF Stop
  <2>2. InFront' = queue
    BY <2>1 DEF InFront, Unfed
  <2>3. InFront' = InFront \/ (InFront # <<>> /\ InFront' = Tail(InFront))
    BY <1>1, <2>2, FrontProperties DEF InFront
  <2>4. Fifo!Shut
    BY <2>1, <2>3 DEF Fifo!Shut, InFront
  <2> QED BY <2>4
<1>10. CASE UNCHANGED vars \/ \E k \in DOMAIN feed : Ack(k)
  BY <1>10 DEF vars, Ack
<1> QED BY <1>2, <1>3, <1>4, <1>5, <1>6, <1>7, <1>8, <1>9, <1>10 DEF Next, Worker

\* PipelineService implements a bounded stage that serves in order, each once.
THEOREM Refinement == Spec => ImplementsFifo
BY RefineInit, RefineStep, TypeCorrect, PTL DEF Spec, ImplementsFifo, Fifo!Spec

-----------------------------------------------------------------------------
\* Where the alarms are, as six sets: they cover what was raised, and no two
\* of them share an alarm.
Cover(Q, C, E, D, F, A, n) ==
  /\ Q \cup C \cup E \cup D \cup F \cup A = 1..n
  /\ Q \cap C = {} /\ Q \cap E = {} /\ Q \cap D = {} /\ Q \cap F = {} /\ Q \cap A = {}
  /\ C \cap E = {} /\ C \cap D = {} /\ C \cap F = {} /\ C \cap A = {}
  /\ E \cap D = {} /\ E \cap F = {} /\ E \cap A = {}
  /\ D \cap F = {} /\ D \cap A = {} /\ F \cap A = {}

Accounted == Cover(Elements(queue), InWork, Elements(enriched), dropped, failed, aborted, raised)

\* A counter lags behind the feed while its publish is still going on.
TotalsLag ==
  pc # "stopped" =>
    /\ enrichedTotal = Len(enriched) - (IF pc = "fanout" THEN 1 ELSE 0)
    /\ workOrdersTotal = Len(orders) - (IF pc = "fanoutOrder" THEN 1 ELSE 0)

\* Appending to a sequence adds one element to its set.
LEMMA ElementsOfAppend ==
  ASSUME NEW s \in Seq(Nat), NEW x \in Nat
  PROVE  Elements(Append(s, x)) = Elements(s) \cup {x}
<1>1. /\ Append(s, x) \in Seq(Nat) /\ Len(Append(s, x)) = Len(s) + 1 /\ Len(s) \in Nat
      /\ Append(s, x)[Len(s) + 1] = x
      /\ \A i \in 1..Len(s) : Append(s, x)[i] = s[i]
  OBVIOUS
<1> DEFINE t == Append(s, x)
<1> HIDE DEF t
<1>2. Len(t) = Len(s) + 1 /\ t[Len(s) + 1] = x /\ \A i \in 1..Len(s) : t[i] = s[i]
  BY <1>1 DEF t
<1>3. Elements(t) \subseteq Elements(s) \cup {x}
  BY <1>1, <1>2 DEF Elements
<1>4. Elements(s) \subseteq Elements(t) /\ x \in Elements(t)
  <2>1. 1..Len(s) \subseteq 1..Len(t) /\ Len(s) + 1 \in 1..Len(t)
    BY <1>1, <1>2
  <2> QED BY <1>2, <2>1 DEF Elements
<1> QED BY <1>3, <1>4 DEF t

\* The elements of a sequence are its head and those of its tail.
LEMMA ElementsOfTail ==
  ASSUME NEW s \in Seq(Nat), s # <<>>
  PROVE  Elements(s) = {Head(s)} \cup Elements(Tail(s))
<1>1. /\ Head(s) = s[1] /\ Len(s) \in Nat \ {0} /\ Len(Tail(s)) = Len(s) - 1
      /\ \A i \in 1..Len(Tail(s)) : Tail(s)[i] = s[i + 1]
  BY HeadTailProperties, EmptySeq
<1> DEFINE t == Tail(s)
<1> HIDE DEF t
<1>2. Len(t) = Len(s) - 1 /\ \A i \in 1..Len(t) : t[i] = s[i + 1]
  BY <1>1 DEF t
<1>3. Elements(s) \subseteq {s[1]} \cup Elements(t)
  <2> SUFFICES ASSUME NEW i \in 1..Len(s), i # 1
               PROVE  s[i] \in Elements(t)
    BY DEF Elements
  <2>1. i - 1 \in 1..Len(t) /\ (i - 1) + 1 = i
    BY <1>1, <1>2
  <2>2. t[i - 1] = s[i]
    BY <1>2, <2>1
  <2> QED BY <2>1, <2>2 DEF Elements
<1>4. {s[1]} \cup Elements(t) \subseteq Elements(s)
  <2>1. 1 \in 1..Len(s) /\ \A i \in 1..Len(t) : i + 1 \in 1..Len(s)
    BY <1>1, <1>2
  <2> QED BY <1>2, <2>1 DEF Elements
<1> QED BY <1>1, <1>3, <1>4 DEF t

\* An alarm that is raised is queued or dropped.
LEMMA OneMore ==
  ASSUME NEW Q, NEW C, NEW E, NEW D, NEW F, NEW A, NEW n \in Nat, Cover(Q, C, E, D, F, A, n)
  PROVE  Cover(Q \cup {n + 1}, C, E, D, F, A, n + 1) /\ Cover(Q, C, E, D \cup {n + 1}, F, A, n + 1)
<1>1. 1..(n + 1) = (1..n) \cup {n + 1} /\ n + 1 \notin 1..n
  OBVIOUS
<1>2. /\ n + 1 \notin Q /\ n + 1 \notin C /\ n + 1 \notin E
      /\ n + 1 \notin D /\ n + 1 \notin F /\ n + 1 \notin A
  BY <1>1 DEF Cover
<1>3. Cover(Q \cup {n + 1}, C, E, D, F, A, n + 1)
  BY <1>1, <1>2, SMTT(60) DEF Cover
<1>4. Cover(Q, C, E, D \cup {n + 1}, F, A, n + 1)
  BY <1>1, <1>2, SMTT(60) DEF Cover
<1> QED BY <1>3, <1>4

\* The alarm in work leaves the queue, and goes to one of three places.
LEMMA OneMoves ==
  ASSUME NEW Q, NEW C, NEW E, NEW D, NEW F, NEW A, NEW n, Cover(Q, C, E, D, F, A, n)
  PROVE  /\ Cover(Q, {}, E \cup C, D, F, A, n)
         /\ Cover(Q, {}, E, D, F \cup C, A, n)
         /\ Cover(Q, {}, E, D, F, A \cup C, n)
         /\ \A h, R : C = {} /\ Q = {h} \cup R /\ h \notin R => Cover(R, {h}, E, D, F, A, n)
<1>1. Cover(Q, {}, E \cup C, D, F, A, n)
  BY SMTT(60) DEF Cover
<1>2. Cover(Q, {}, E, D, F \cup C, A, n)
  BY SMTT(60) DEF Cover
<1>3. Cover(Q, {}, E, D, F, A \cup C, n)
  BY SMTT(60) DEF Cover
<1>4. ASSUME NEW h, NEW R, C = {}, Q = {h} \cup R, h \notin R
      PROVE  Cover(R, {h}, E, D, F, A, n)
  BY <1>4, SMTT(60) DEF Cover
<1> QED BY <1>1, <1>2, <1>3, <1>4

\* Every step moves at most one alarm from one place to another.
LEMMA AccountedStep == TypeOK /\ IInv /\ Accounted /\ [Next]_vars => Accounted'
<1> SUFFICES ASSUME TypeOK, IInv, Accounted, [Next]_vars PROVE Accounted'
  OBVIOUS
<1> USE DEF workVars, feedVars
<1> DEFINE Q == Elements(queue)
           E == Elements(enriched)
<1>1. /\ queue \in Seq(Nat) /\ enriched \in Seq(Nat) /\ raised \in Nat /\ current \in Nat
  BY DEF TypeOK
<1>2. CASE OnEvent
  <2>1. /\ raised' = raised + 1 /\ UNCHANGED <<pc, current, enriched, failed, aborted>>
        /\ \/ queue' = Append(queue, raised + 1) /\ dropped' = dropped
           \/ queue' = queue /\ dropped' = dropped \cup {raised + 1}
    BY <1>2 DEF OnEvent
  <2>2. InWork' = InWork /\ Elements(enriched)' = E
    BY <2>1 DEF InWork
  <2>3. \/ Elements(queue)' = Q \cup {raised + 1} /\ dropped' = dropped
        \/ Elements(queue)' = Q /\ dropped' = dropped \cup {raised + 1}
    <3>1. raised + 1 \in Nat
      BY <1>1
    <3> QED BY <1>1, <2>1, <3>1, ElementsOfAppend
  <2>4. Cover(Q, InWork, E, dropped, failed, aborted, raised)
    BY Zenon DEF Accounted
  <2>5. /\ Cover(Q \cup {raised + 1}, InWork, E, dropped, failed, aborted, raised + 1)
        /\ Cover(Q, InWork, E, dropped \cup {raised + 1}, failed, aborted, raised + 1)
    BY <1>1, <2>4, OneMore, Zenon
  <2>6. raised' = raised + 1 /\ failed' = failed /\ aborted' = aborted
    BY <2>1
  <2> HIDE DEF Q, E
  <2>7. Cover(Elements(queue)', InWork', Elements(enriched)', dropped', failed', aborted', raised')
    BY <2>2, <2>3, <2>5, <2>6, Zenon
  <2> QED BY <2>7, Zenon DEF Accounted
<1>3. CASE Get
  <2>1. /\ queue # <<>> /\ pc = "get" /\ pc' = "predict"
        /\ current' = Head(queue) /\ queue' = Tail(queue)
        /\ UNCHANGED <<raised, enriched, dropped, failed, aborted>>
    BY <1>3 DEF Get
  <2>2. InWork = {} /\ InWork' = {Head(queue)}
    BY <2>1 DEF InWork, Unfed
  <2>3. Q = {Head(queue)} \cup Elements(queue)'
    BY <1>1, <2>1, ElementsOfTail
  <2>4. Head(queue) \notin Elements(queue)'
    <3>1. /\ Head(queue) = queue[1] /\ Len(queue) \in Nat \ {0}
          /\ Len(queue') = Len(queue) - 1
          /\ \A i \in 1..Len(queue') : queue'[i] = queue[i + 1]
      BY <1>1, <2>1, HeadTailProperties, EmptySeq
    <3> SUFFICES ASSUME NEW i \in 1..Len(queue') PROVE queue'[i] # queue[1]
      BY <3>1 DEF Elements
    <3>2. 1 \in 1..Len(queue) /\ i + 1 \in 1..Len(queue) /\ 1 < i + 1
      BY <3>1
    <3>3. queue[1] < queue[i + 1]
      BY <3>2 DEF IInv, QueueAscends
    <3>4. queue[1] \in Nat /\ queue[i + 1] \in Nat
      BY <1>1, <3>2
    <3> QED BY <3>1, <3>3, <3>4
  <2> QED BY <2>1, <2>2, <2>3, <2>4, OneMoves, Zenon DEF Accounted
<1>4. CASE ProcessFails
  <2>1. /\ InWork = {current} /\ InWork' = {} /\ failed' = failed \cup {current}
        /\ UNCHANGED <<raised, queue, enriched, dropped, aborted>>
    BY <1>4 DEF ProcessFails, InWork, Unfed
  <2> QED BY <2>1, OneMoves DEF Accounted
<1>5. CASE Announce
  <2>1. /\ InWork = {current} /\ InWork' = {} /\ enriched' = Append(enriched, current)
        /\ UNCHANGED <<raised, queue, dropped, failed, aborted>>
    BY <1>5 DEF Announce, InWork, Unfed
  <2>2. Elements(enriched)' = E \cup {current} /\ Elements(queue)' = Q
    BY <1>1, <2>1, ElementsOfAppend
  <2>3. Cover(Q, {current}, E, dropped, failed, aborted, raised)
    BY <2>1, Zenon DEF Accounted
  <2>4. Cover(Q, {}, E \cup {current}, dropped, failed, aborted, raised)
    BY <1>1, <2>3, OneMoves, Zenon
  <2>5. raised' = raised /\ dropped' = dropped /\ failed' = failed /\ aborted' = aborted
    BY <2>1
  <2> HIDE DEF Q, E
  <2>6. Cover(Elements(queue)', InWork', Elements(enriched)', dropped', failed', aborted', raised')
    BY <2>1, <2>2, <2>4, <2>5, Zenon
  <2> QED BY <2>6, Zenon DEF Accounted
<1>6. CASE Stop
  <2>1. /\ InWork' = {} /\ aborted' = aborted \cup InWork
        /\ UNCHANGED <<raised, queue, enriched, dropped, failed>>
    BY <1>6 DEF Stop, InWork, Unfed
  <2> QED BY <2>1, OneMoves DEF Accounted
<1>7. CASE \/ Start \/ Predict \/ Explain \/ FanOut \/ AnnounceOrder \/ FanOutOrder
           \/ UNCHANGED vars \/ \E k \in DOMAIN feed : Ack(k)
  <2>1. InWork' = InWork /\ UNCHANGED <<raised, queue, enriched, dropped, failed, aborted>>
    BY <1>7 DEF Start, Predict, Explain, FanOut, AnnounceOrder, FanOutOrder, Finish, vars, Ack,
                InWork, Unfed
  <2> QED BY <2>1 DEF Accounted
<1> QED BY <1>2, <1>3, <1>4, <1>5, <1>6, <1>7 DEF Next, Worker

\* A counter is raised once for each event, by the step that ends its publish.
LEMMA TotalsStep == TypeOK /\ TotalsLag /\ [Next]_vars => TotalsLag'
<1> SUFFICES ASSUME TypeOK, TotalsLag, [Next]_vars PROVE TotalsLag'
  OBVIOUS
<1> USE DEF TotalsLag, workVars, feedVars
<1>1. /\ enriched \in Seq(Nat) /\ Len(enriched) \in Nat
      /\ orders \in Seq(Order) /\ Len(orders) \in Nat
      /\ enrichedTotal \in Nat /\ workOrdersTotal \in Nat
  BY DEF TypeOK, Order
<1>2. CASE Announce
  <2>1. Len(enriched') = Len(enriched) + 1
    BY <1>1, <1>2 DEF Announce, TypeOK
  <2> QED BY <1>1, <1>2, <2>1 DEF Announce
<1>3. CASE AnnounceOrder
  <2>1. [alarm |-> current, behind |-> Len(enriched)] \in Order
    BY <1>1 DEF TypeOK, Order
  <2>2. Len(orders') = Len(orders) + 1
    BY <1>1, <1>3, <2>1 DEF AnnounceOrder
  <2> QED BY <1>1, <1>3, <2>2 DEF AnnounceOrder
<1>4. CASE FanOut
  BY <1>1, <1>4 DEF FanOut, Finish
<1>5. CASE FanOutOrder
  BY <1>1, <1>5 DEF FanOutOrder, Finish
<1>6. CASE \/ OnEvent \/ Start \/ Get \/ Predict \/ Explain \/ ProcessFails \/ Stop
           \/ UNCHANGED vars \/ \E k \in DOMAIN feed : Ack(k)
  BY <1>1, <1>6 DEF OnEvent, Start, Get, Predict, Explain, ProcessFails, Stop, vars, Ack
<1> QED BY <1>2, <1>3, <1>4, <1>5, <1>6 DEF Next, Worker

\* The six sets, one by one, are the places of the property.
LEMMA AccountedIsEveryAlarm == Accounted /\ TotalsMatchFeed => EveryAlarmAccounted
<1> SUFFICES ASSUME Accounted, TotalsMatchFeed PROVE EveryAlarmAccounted
  OBVIOUS
<1> DEFINE Q == Elements(queue)
           E == Elements(enriched)
           p == <<Q, InWork, E, dropped, failed, aborted>>
<1>1. p[1] = Q /\ p[2] = InWork /\ p[3] = E /\ p[4] = dropped /\ p[5] = failed /\ p[6] = aborted
  OBVIOUS
<1>2. Cover(p[1], p[2], p[3], p[4], p[5], p[6], raised)
  BY <1>1, Zenon DEF Accounted
<1> HIDE DEF p
<1>3. \A i \in 1..6 : i = 1 \/ i = 2 \/ i = 3 \/ i = 4 \/ i = 5 \/ i = 6
  OBVIOUS
<1>4. UNION {p[i] : i \in 1..6} = p[1] \cup p[2] \cup p[3] \cup p[4] \cup p[5] \cup p[6]
  <2>1. 1 \in 1..6 /\ 2 \in 1..6 /\ 3 \in 1..6 /\ 4 \in 1..6 /\ 5 \in 1..6 /\ 6 \in 1..6
    OBVIOUS
  <2> HIDE <1>2
  <2> QED BY <1>3, <2>1, Zenon
<1>5. \A i, j \in 1..6 : i # j => p[i] \cap p[j] = {}
  <2> SUFFICES ASSUME NEW i \in 1..6, NEW j \in 1..6, i # j PROVE p[i] \cap p[j] = {}
    OBVIOUS
  <2> QED BY <1>2, <1>3, Zenon DEF Cover
<1> QED BY <1>2, <1>4, <1>5, Zenon DEF p, Cover, EveryAlarmAccounted

\* Every alarm has exactly one fate, and the counters count them, for every
\* bound of the queue, with and without reasoning and work orders.
THEOREM AlarmsAccounted == Spec => []EveryAlarmAccounted
<1>1. Init => Accounted /\ TotalsLag
  <2> SUFFICES ASSUME Init PROVE Accounted /\ TotalsLag
    OBVIOUS
  <2>1. /\ Elements(queue) = {} /\ Elements(enriched) = {} /\ InWork = {}
        /\ dropped = {} /\ failed = {} /\ aborted = {} /\ 1..raised = {}
    BY DEF Init, Elements, InWork, Unfed
  <2>2. Accounted
    BY <2>1, Zenon DEF Accounted, Cover
  <2>3. TotalsLag
    BY DEF Init, TotalsLag
  <2> QED BY <2>2, <2>3
<1>2. TypeOK /\ IInv /\ Accounted /\ TotalsLag /\ [Next]_vars => Accounted' /\ TotalsLag'
  BY AccountedStep, TotalsStep
<1>3. TypeOK /\ Accounted /\ TotalsLag => EveryAlarmAccounted
  <2>1. TypeOK /\ TotalsLag => TotalsMatchFeed
    BY DEF TypeOK, TotalsLag, TotalsMatchFeed
  <2> QED BY <2>1, AccountedIsEveryAlarm
<1> QED BY <1>1, <1>2, <1>3, TypeCorrect, StrongInvariant, PTL DEF Spec

-----------------------------------------------------------------------------
\* A set of numbers has a least one.
LEMMA HasLeast ==
  ASSUME NEW S \in SUBSET Nat, S # {}
  PROVE  \E m \in S : \A y \in S : m <= y
<1>1. PICK m \in S : \A y \in S : <<y, m>> \notin OpToRel(<, Nat)
  BY NatLessThanWellFounded, WFMin
<1>2. \A y \in S : y \in Nat /\ m \in Nat /\ ~(y < m)
  BY <1>1 DEF OpToRel
<1> QED BY <1>2

\* The feed.  What it holds against what was announced: the items are the newest
\* of their key, all places differ and grow with the age, what is missing made
\* room; over any feed, so that an insertion and an eviction are two steps.
Announcements == [kind \in Kind |-> Announced(kind)]

Keyed(f, top) ==
  /\ IsFiniteSet(DOMAIN f)
  /\ \A k \in DOMAIN f : /\ k = <<k[1], k[2]>> /\ k[1] \in Kind
                         /\ f[k] \in Item /\ f[k].place <= top
  /\ \A k, l \in DOMAIN f : k # l => f[k].place # f[l].place

ShowsNewest(f, ann, done) ==
  \A k \in DOMAIN f :
    /\ f[k].alarm \in ann[k[1]] /\ pointOf[f[k].alarm] = k[2]
    /\ \A n \in ann[k[1]] : pointOf[n] = k[2] => n <= f[k].alarm
    /\ f[k].acked <=> <<k[1], f[k].alarm>> \in done

Aged(f) ==
  \A k, l \in DOMAIN f :
    f[k].place < f[l].place =>
      \/ f[k].alarm < f[l].alarm
      \/ f[k].alarm = f[l].alarm /\ k[1] = "anomaly" /\ l[1] = "order"

\* Every announced event that is not shown met a full feed of younger events.
MadeRoom(f, ann, full) ==
  \A kind \in Kind : \A n \in ann[kind] :
    \/ <<kind, pointOf[n]>> \in DOMAIN f
    \/ full /\ \A l \in DOMAIN f : f[l].alarm >= n

Shown(f, ann, done, top) ==
  /\ Keyed(f, top) /\ ShowsNewest(f, ann, done) /\ Aged(f)
  /\ MadeRoom(f, ann, Cardinality(DOMAIN f) = MaxItems)
  /\ Cardinality(DOMAIN f) <= MaxItems

FeedInv ==
  /\ Shown(feed, Announcements, acks, Arrivals)
  /\ \A kind \in Kind, n \in Nat : <<kind, n>> \in acks => n \in Announced(kind)

\* An event n of a kind comes after everything announced: only the anomaly of
\* the very alarm may be as old as its work order.
Latest(n, kind, ann) ==
  \A other \in Kind : \A m \in ann[other] :
    m \in Nat /\ (m < n \/ (m = n /\ other = "anomaly" /\ kind = "order"))

\* The feed with the fresh item, before it is cut to its bound.
Inserted(kind, n, all, ann) ==
  /\ Keyed(all, Arrivals + 1) /\ ShowsNewest(all, ann, acks) /\ Aged(all)
  /\ MadeRoom(all, ann, Cardinality(DOMAIN feed) = MaxItems)
  /\ DOMAIN all = DOMAIN feed \cup {<<kind, pointOf[n]>>}

\* The fresh item is the newest of its key and the last in place and age.
LEMMA AddedShows ==
  ASSUME NEW kind \in Kind, NEW n \in Nat, NEW ann, NEW ann2,
         Shown(feed, ann, acks, Arrivals), Arrivals \in Nat, Latest(n, kind, ann),
         \A m \in Nat : <<kind, m>> \in acks => m \in ann[kind],
         \A other \in Kind : ann2[other] = IF other = kind THEN ann[kind] \cup {n} ELSE ann[other]
  PROVE  Inserted(kind, n, Added(kind, n), ann2)
<1> DEFINE all == Added(kind, n)
           key == <<kind, pointOf[n]>>
           fresh == [alarm |-> n, acked |-> FALSE, place |-> Arrivals + 1]
<1>1. DOMAIN all = DOMAIN feed \cup {key}
  BY Zenon DEF Added
<1>2. all[key] = fresh /\ \A k \in DOMAIN feed : k # key => all[k] = feed[k]
  BY Zenon DEF Added
<1>3. fresh \in Item /\ fresh.alarm = n /\ fresh.place = Arrivals + 1 /\ ~fresh.acked
  BY DEF Item
<1>4. key = <<key[1], key[2]>> /\ key[1] = kind /\ key[2] = pointOf[n]
  OBVIOUS
<1> HIDE DEF all, key, fresh
<1>5. Keyed(feed, Arrivals) /\ ShowsNewest(feed, ann, acks) /\ Aged(feed)
      /\ MadeRoom(feed, ann, Cardinality(DOMAIN feed) = MaxItems)
  BY DEF Shown
<1>6. \A k \in DOMAIN feed : /\ feed[k].place \in Nat /\ feed[k].place < Arrivals + 1
                             /\ feed[k].alarm \in Nat
  BY <1>5 DEF Keyed, Item
<1>7. Keyed(all, Arrivals + 1)
  <2>1. IsFiniteSet(DOMAIN all)
    BY <1>1, <1>5, FS_AddElement DEF Keyed
  <2>2. \A k \in DOMAIN all : /\ k = <<k[1], k[2]>> /\ k[1] \in Kind
                              /\ all[k] \in Item /\ all[k].place <= Arrivals + 1
    BY <1>1, <1>2, <1>3, <1>4, <1>5, <1>6 DEF Keyed
  <2>3. ASSUME NEW k \in DOMAIN all, NEW l \in DOMAIN all, k # l
        PROVE  all[k].place # all[l].place
    BY <1>1, <1>2, <1>3, <1>5, <1>6, <2>3 DEF Keyed
  <2> QED BY <2>1, <2>2, <2>3 DEF Keyed
\* Whatever the key held before, everything announced of it is at most n.
<1>8. ShowsNewest(all, ann2, acks)
  <2> SUFFICES ASSUME NEW k \in DOMAIN all
               PROVE  /\ all[k].alarm \in ann2[k[1]] /\ pointOf[all[k].alarm] = k[2]
                      /\ \A m \in ann2[k[1]] : pointOf[m] = k[2] => m <= all[k].alarm
                      /\ all[k].acked <=> <<k[1], all[k].alarm>> \in acks
    BY DEF ShowsNewest
  <2>1. CASE k = key
    <3>1. n \notin ann[kind]
      BY DEF Latest, Kind
    <3>2. \A m \in ann[kind] : m <= n
      BY DEF Latest, Kind
    <3>3. all[k].alarm = n /\ ~all[k].acked /\ k[1] = kind /\ k[2] = pointOf[n]
      BY <2>1, <1>2, <1>3, <1>4
    <3>4. ann2[k[1]] = ann[kind] \cup {n}
      BY <3>3
    <3>5. <<kind, n>> \notin acks
      BY <3>1
    <3> QED BY <3>2, <3>3, <3>4, <3>5
  <2>2. CASE k # key
    <3>1. k \in DOMAIN feed /\ all[k] = feed[k]
      BY <1>1, <1>2, <2>2
    <3>2. k = <<k[1], k[2]>> /\ k[1] \in Kind
      BY <1>5, <3>1 DEF Keyed
    <3>3. k[1] = kind => k[2] # pointOf[n]
      BY <3>2, <2>2 DEF key
    <3>4. /\ feed[k].alarm \in ann[k[1]] /\ pointOf[feed[k].alarm] = k[2]
          /\ \A m \in ann[k[1]] : pointOf[m] = k[2] => m <= feed[k].alarm
          /\ feed[k].acked <=> <<k[1], feed[k].alarm>> \in acks
      BY <1>5, <3>1 DEF ShowsNewest
    <3> QED BY <3>1, <3>2, <3>3, <3>4
  <2> QED BY <2>1, <2>2
<1>9. \A k \in DOMAIN feed : \/ feed[k].alarm < n
                             \/ feed[k].alarm = n /\ k[1] = "anomaly" /\ kind = "order"
  BY <1>5 DEF ShowsNewest, Keyed, Latest
<1>10. Aged(all)
  <2> SUFFICES ASSUME NEW k \in DOMAIN all, NEW l \in DOMAIN all, all[k].place < all[l].place
               PROVE  \/ all[k].alarm < all[l].alarm
                      \/ all[k].alarm = all[l].alarm /\ k[1] = "anomaly" /\ l[1] = "order"
    BY DEF Aged
  <2>1. k # key
    BY <1>1, <1>2, <1>3, <1>6
  <2>2. k \in DOMAIN feed /\ all[k] = feed[k]
    BY <2>1, <1>1, <1>2
  <2>3. CASE l = key
    BY <2>2, <2>3, <1>2, <1>3, <1>4, <1>9
  <2>4. CASE l # key
    BY <2>2, <2>4, <1>1, <1>2, <1>5 DEF Aged
  <2> QED BY <2>3, <2>4
<1>11. MadeRoom(all, ann2, Cardinality(DOMAIN feed) = MaxItems)
  <2> SUFFICES ASSUME NEW other \in Kind, NEW m \in ann2[other], <<other, pointOf[m]>> \notin DOMAIN all
               PROVE  Cardinality(DOMAIN feed) = MaxItems /\ \A l \in DOMAIN all : all[l].alarm >= m
    BY DEF MadeRoom
  <2>1. m \in ann[other]
    BY <1>1 DEF key
  <2>2. Cardinality(DOMAIN feed) = MaxItems /\ \A l \in DOMAIN feed : feed[l].alarm >= m
    BY <2>1, <1>1, <1>5 DEF MadeRoom
  <2>3. m <= n /\ m \in Nat
    BY <2>1 DEF Latest
  <2> QED BY <2>2, <2>3, <1>1, <1>2, <1>3
<1> QED BY <1>1, <1>7, <1>8, <1>10, <1>11, Zenon DEF Inserted, all, key

\* Cutting off the oldest item leaves the feed at its bound, with younger items only.
LEMMA CutShows ==
  ASSUME NEW f, NEW ann, NEW done, NEW top \in Nat, NEW b,
         Keyed(f, top), ShowsNewest(f, ann, done), Aged(f), MadeRoom(f, ann, b),
         \A kind \in Kind : ann[kind] \subseteq Nat,
         Cardinality(DOMAIN f) = MaxItems + 1
  PROVE  Shown([k \in DOMAIN f \ {Oldest(f)} |-> f[k]], ann, done, top)
<1> DEFINE old == Oldest(f)
           g == [k \in DOMAIN f \ {old} |-> f[k]]
<1>0. MaxItems \in Nat
  BY PipelineAssumption
<1>1. old \in DOMAIN f /\ \A l \in DOMAIN f : f[old].place <= f[l].place
  <2>1. DOMAIN f # {}
    BY <1>0, FS_EmptySet
  <2>2. \E k \in DOMAIN f : \A l \in DOMAIN f : f[k].place <= f[l].place
    <3> DEFINE places == {f[k].place : k \in DOMAIN f}
    <3>1. places \subseteq Nat /\ places # {}
      BY <2>1 DEF Keyed, Item
    <3>2. PICK p \in places : \A q \in places : p <= q
      <4> HIDE DEF places
      <4> QED BY <3>1, HasLeast
    <3>3. PICK k \in DOMAIN f : f[k].place = p
      BY <3>2
    <3> QED BY <3>2, <3>3
  <2> QED BY <2>2, Zenon DEF Oldest
<1>2. DOMAIN g = DOMAIN f \ {old} /\ \A k \in DOMAIN g : k \in DOMAIN f /\ g[k] = f[k]
  OBVIOUS
<1> HIDE DEF old, g
<1>3. IsFiniteSet(DOMAIN g) /\ Cardinality(DOMAIN g) = MaxItems
  <2> DEFINE keys == DOMAIN f
  <2>1. IsFiniteSet(keys)
    BY DEF Keyed
  <2>2. old \in keys /\ DOMAIN g = keys \ {old} /\ Cardinality(keys) = MaxItems + 1
    BY <1>1, <1>2
  <2> HIDE DEF keys
  <2>3. IsFiniteSet(keys \ {old}) /\ Cardinality(keys \ {old}) = Cardinality(keys) - 1
    BY <2>1, <2>2, FS_RemoveElement
  <2> QED BY <1>0, <2>2, <2>3
<1>4. Keyed(g, top)
  BY <1>2, <1>3, Zenon DEF Keyed
<1>5. ShowsNewest(g, ann, done) /\ Aged(g)
  <2>1. ShowsNewest(g, ann, done)
    BY <1>2, Zenon DEF ShowsNewest
  <2>2. Aged(g)
    <3> SUFFICES ASSUME NEW k \in DOMAIN g, NEW l \in DOMAIN g, g[k].place < g[l].place
                 PROVE  \/ g[k].alarm < g[l].alarm
                        \/ g[k].alarm = g[l].alarm /\ k[1] = "anomaly" /\ l[1] = "order"
      BY DEF Aged
    <3>1. k \in DOMAIN f /\ l \in DOMAIN f /\ g[k] = f[k] /\ g[l] = f[l]
      BY <1>2, Zenon
    <3> QED BY <3>1 DEF Aged
  <2> QED BY <2>1, <2>2
\* The items left have later places, so their alarms are not older.
<1>6. \A l \in DOMAIN g : g[l].alarm >= f[old].alarm /\ g[l].alarm \in Nat
  <2> SUFFICES ASSUME NEW l \in DOMAIN g PROVE g[l].alarm >= f[old].alarm /\ g[l].alarm \in Nat
    OBVIOUS
  <2>1. l \in DOMAIN f /\ g[l] = f[l] /\ l # old
    BY <1>2
  <2>2. f[l] \in Item /\ f[old] \in Item /\ f[old].place # f[l].place
    BY <2>1, <1>1 DEF Keyed
  <2>3. f[old].place < f[l].place
    BY <2>1, <2>2, <1>1 DEF Item
  <2>4. f[old].alarm < f[l].alarm \/ f[old].alarm = f[l].alarm
    BY <2>1, <2>3, <1>1 DEF Aged
  <2> QED BY <2>1, <2>2, <2>4 DEF Item
<1>7. MadeRoom(g, ann, Cardinality(DOMAIN g) = MaxItems)
  <2> SUFFICES ASSUME NEW kind \in Kind, NEW n \in ann[kind], <<kind, pointOf[n]>> \notin DOMAIN g
               PROVE  \A l \in DOMAIN g : g[l].alarm >= n
    BY <1>3 DEF MadeRoom
  <2>0. n \in Nat
    OBVIOUS
  <2>1. CASE <<kind, pointOf[n]>> \notin DOMAIN f
    BY <2>1, <1>2 DEF MadeRoom
  <2>2. CASE <<kind, pointOf[n]>> \in DOMAIN f
    <3>1. old = <<kind, pointOf[n]>>
      BY <2>2, <1>2
    <3>2. old[1] = kind /\ old[2] = pointOf[n]
      BY <3>1
    <3>3. n <= f[old].alarm /\ f[old].alarm \in Nat
      BY <3>2, <1>1 DEF ShowsNewest, Keyed, Item
    <3> QED BY <2>0, <3>3, <1>6
  <2> QED BY <2>1, <2>2
<1>8. Cardinality(DOMAIN g) <= MaxItems
  BY <1>0, <1>3
<1> QED BY <1>3, <1>4, <1>5, <1>7, <1>8 DEF Shown, old, g

\* The handler of the feed keeps it right for an event younger than what it got before.
LEMMA PutShows ==
  ASSUME NEW kind \in Kind, NEW n \in Nat, NEW ann, NEW ann2, Put(kind, n),
         Shown(feed, ann, acks, Arrivals), Arrivals \in Nat, Latest(n, kind, ann),
         \A m \in Nat : <<kind, m>> \in acks => m \in ann[kind],
         \A other \in Kind : ann2[other] = IF other = kind THEN ann[kind] \cup {n} ELSE ann[other]
  PROVE  Shown(feed', ann2, acks, Arrivals + 1)
<1> DEFINE all == Added(kind, n)
           key == <<kind, pointOf[n]>>
           full == Cardinality(DOMAIN feed) = MaxItems
<1>1. /\ Keyed(all, Arrivals + 1) /\ ShowsNewest(all, ann2, acks) /\ Aged(all)
      /\ MadeRoom(all, ann2, full) /\ DOMAIN all = DOMAIN feed \cup {key}
  <2>1. Inserted(kind, n, all, ann2)
    BY AddedShows
  <2> QED BY <2>1, Zenon DEF Inserted
<1>2. feed' = IF Cardinality(DOMAIN all) <= MaxItems THEN all
              ELSE [k \in DOMAIN all \ {Oldest(all)} |-> all[k]]
  BY DEF Put, Bounded
<1> HIDE DEF all, key
<1>3. /\ IsFiniteSet(DOMAIN feed) /\ Cardinality(DOMAIN feed) <= MaxItems
      /\ MaxItems \in Nat /\ Cardinality(DOMAIN feed) \in Nat
  BY PipelineAssumption, FS_CardinalityType DEF Shown, Keyed
<1>4. Cardinality(DOMAIN all) = IF key \in DOMAIN feed THEN Cardinality(DOMAIN feed)
                                ELSE Cardinality(DOMAIN feed) + 1
  BY <1>1, <1>3, FS_AddElement
<1>5. \A other \in Kind : ann2[other] \subseteq Nat
  BY DEF Latest
<1>6. CASE Cardinality(DOMAIN all) <= MaxItems
  <2>1. feed' = all
    BY <1>2, <1>6
  <2>2. full => Cardinality(DOMAIN all) = MaxItems
    BY <1>3, <1>4, <1>6
  <2>3. MadeRoom(all, ann2, Cardinality(DOMAIN all) = MaxItems)
    BY <1>1, <2>2 DEF MadeRoom
  <2> QED BY <1>1, <1>6, <2>1, <2>3 DEF Shown
<1>7. CASE ~(Cardinality(DOMAIN all) <= MaxItems)
  <2>1. Cardinality(DOMAIN all) = MaxItems + 1
    BY <1>3, <1>4, <1>7
  <2>2. Arrivals + 1 \in Nat
    OBVIOUS
  <2>3. Shown([k \in DOMAIN all \ {Oldest(all)} |-> all[k]], ann2, acks, Arrivals + 1)
    BY <1>1, <1>5, <2>1, <2>2, CutShows
  <2> QED BY <1>2, <1>7, <2>3
<1> QED BY <1>6, <1>7

\* What the steps of the worker say of the announced events.
LEMMA AnnouncedInLine ==
  ASSUME TypeOK, IInv
  PROVE  /\ Arrivals \in Nat
         /\ Announced("anomaly") \subseteq Nat /\ Announced("order") \subseteq Announced("anomaly")
         /\ pc = "announce" => \A m \in Announced("anomaly") : m < current
         /\ pc \in {"fanout", "announceOrder"} =>
              /\ \A m \in Announced("anomaly") : m <= current
              /\ \A m \in Announced("order") : m < current
<1> DEFINE len == Len(enriched)
           num == Len(orders)
<1>1. /\ len \in Nat /\ \A i \in 1..len : enriched[i] \in Nat
      /\ num \in Nat /\ \A k \in 1..num : orders[k].behind \in Nat
      /\ current \in Nat
  <2>1. enriched \in Seq(Nat) /\ orders \in Seq(Order) /\ current \in Nat
    BY DEF TypeOK, Order
  <2>2. len \in Nat /\ num \in Nat
    BY <2>1
  <2>3. \A i \in 1..len : enriched[i] \in Nat
    BY <2>1
  <2>4. \A k \in 1..num : orders[k] \in Order
    BY <2>1
  <2>5. \A k \in 1..num : orders[k].behind \in Nat
    BY <2>4 DEF Order
  <2> QED BY <2>1, <2>2, <2>3, <2>5
<1>2. /\ Announced("anomaly") = {enriched[i] : i \in 1..len}
      /\ Announced("order") = {orders[k].alarm : k \in 1..num}
  BY DEF Announced, Elements
<1>3. \A k \in 1..num : orders[k].behind \in 1..len /\ enriched[orders[k].behind] = orders[k].alarm
  BY DEF IInv, AnnouncedInOrder
<1>4. \A i, j \in 1..len : i < j => enriched[i] < enriched[j]
  BY DEF IInv, AnnouncedInOrder
<1>5. Arrivals \in Nat
  BY <1>1 DEF Arrivals
<1>6. pc = "announce" => \A i \in 1..len : enriched[i] < current
  BY DEF IInv, FeedBeforeCurrent, Unfed
<1>7. pc \in {"fanout", "announceOrder"} =>
        len > 0 /\ enriched[len] = current /\ \A k \in 1..num : orders[k].behind < len
  BY DEF IInv, FeedBeforeCurrent, Fed
<1> HIDE DEF len, num
<1>8. Announced("anomaly") \subseteq Nat /\ Announced("order") \subseteq Announced("anomaly")
  BY <1>1, <1>2, <1>3
<1>9. pc = "announce" => \A m \in Announced("anomaly") : m < current
  BY <1>2, <1>6
<1>10. ASSUME pc \in {"fanout", "announceOrder"}
       PROVE  /\ \A m \in Announced("anomaly") : m <= current
              /\ \A m \in Announced("order") : m < current
  <2>1. len \in 1..len /\ enriched[len] = current
    BY <1>1, <1>7, <1>10
  <2>2. \A i \in 1..len : enriched[i] <= current
    <3> SUFFICES ASSUME NEW i \in 1..len PROVE enriched[i] <= current
      OBVIOUS
    <3>1. i < len \/ i = len
      BY <1>1
    <3> QED BY <1>1, <1>4, <2>1, <3>1
  <2>3. \A k \in 1..num : orders[k].alarm < current
    <3> SUFFICES ASSUME NEW k \in 1..num PROVE orders[k].alarm < current
      OBVIOUS
    <3>1. orders[k].behind \in 1..len /\ orders[k].behind < len
      BY <1>3, <1>7, <1>10
    <3>2. enriched[orders[k].behind] < enriched[len]
      BY <1>4, <2>1, <3>1
    <3> QED BY <1>3, <2>1, <3>2
  <2> QED BY <1>2, <2>2, <2>3
<1> QED BY <1>5, <1>8, <1>9, <1>10

\* The other kinds' announcements and the acknowledgements stay; one is added.
LEMMA FeedPut ==
  ASSUME NEW kind \in Kind, Put(kind, current), TypeOK, FeedInv,
         Latest(current, kind, Announcements), Arrivals \in Nat,
         \A other \in Kind : Announced(other)' =
            IF other = kind THEN Announced(kind) \cup {current} ELSE Announced(other),
         Arrivals' = Arrivals + 1, UNCHANGED <<acks, pointOf>>
  PROVE  FeedInv'
<1> DEFINE ann == Announcements
           ann2 == [other \in Kind |-> IF other = kind THEN ann[kind] \cup {current} ELSE ann[other]]
<1>1. \A other \in Kind : ann[other] = Announced(other)
  BY Zenon DEF Announcements
<1>2. current \in Nat /\ Shown(feed, ann, acks, Arrivals)
  BY DEF TypeOK, FeedInv
<1>3. \A m \in Nat : <<kind, m>> \in acks => m \in ann[kind]
  BY <1>1, Zenon DEF FeedInv
<1>4. \A other \in Kind : ann2[other] = IF other = kind THEN ann[kind] \cup {current} ELSE ann[other]
  OBVIOUS
<1>5. Announcements' = ann2
  BY <1>1, Zenon DEF Announcements
<1>6. Latest(current, kind, ann)
  OBVIOUS
<1> HIDE DEF ann, ann2
<1>7. Shown(feed', ann2, acks, Arrivals + 1)
  BY <1>2, <1>3, <1>4, <1>6, PutShows
<1>8. Shown(feed, Announcements, acks, Arrivals)'
  BY <1>5, <1>7 DEF Shown, Keyed, ShowsNewest, Aged, MadeRoom
<1>9. \A other \in Kind, m \in Nat : <<other, m>> \in acks' => m \in Announced(other)'
  BY <1>1 DEF FeedInv
<1> QED BY <1>8, <1>9 DEF FeedInv

\* An acknowledgement touches one item, the newest of its key.
LEMMA AckKeeps ==
  ASSUME NEW k \in DOMAIN feed, Ack(k), TypeOK, FeedInv, UNCHANGED pointOf,
         \A kind \in Kind : Announced(kind) \subseteq Nat
  PROVE  FeedInv'
<1>1. /\ DOMAIN feed' = DOMAIN feed
      /\ feed' = [feed EXCEPT ![k].acked = TRUE] /\ acks' = acks \cup {<<k[1], feed[k].alarm>>}
      /\ UNCHANGED <<enriched, orders>>
  BY DEF Ack
<1>2. /\ Keyed(feed, Arrivals) /\ ShowsNewest(feed, Announcements, acks) /\ Aged(feed)
      /\ MadeRoom(feed, Announcements, Cardinality(DOMAIN feed) = MaxItems)
      /\ Cardinality(DOMAIN feed) <= MaxItems
  BY DEF FeedInv, Shown
<1>3. \A l \in DOMAIN feed :
        /\ feed'[l] \in Item /\ feed'[l].alarm = feed[l].alarm /\ feed'[l].place = feed[l].place
        /\ feed'[l].acked = (IF l = k THEN TRUE ELSE feed[l].acked)
  <2> SUFFICES ASSUME NEW l \in DOMAIN feed
               PROVE  /\ feed'[l] \in Item
                      /\ feed'[l].alarm = feed[l].alarm /\ feed'[l].place = feed[l].place
                      /\ feed'[l].acked = (IF l = k THEN TRUE ELSE feed[l].acked)
    OBVIOUS
  <2>1. feed'[l] = IF l = k THEN [feed[k] EXCEPT !.acked = TRUE] ELSE feed[l]
    BY <1>1
  <2>2. feed[l] \in Item
    BY <1>2 DEF Keyed
  <2> QED BY <2>1, <2>2 DEF Item
<1>4. Announcements' = Announcements /\ Arrivals' = Arrivals
      /\ \A kind \in Kind : Announced(kind)' = Announced(kind)
  BY <1>1 DEF Announcements, Announced, Elements, Arrivals
<1>5. Keyed(feed', Arrivals)
  <2>1. IsFiniteSet(DOMAIN feed')
    BY <1>1, <1>2, Zenon DEF Keyed
  <2>2. \A l \in DOMAIN feed' :
          l = <<l[1], l[2]>> /\ l[1] \in Kind /\ feed'[l] \in Item /\ feed'[l].place <= Arrivals
    BY <1>1, <1>2, <1>3, Zenon DEF Keyed
  <2>3. \A l, m \in DOMAIN feed' : l # m => feed'[l].place # feed'[m].place
    <3> SUFFICES ASSUME NEW l \in DOMAIN feed, NEW m \in DOMAIN feed, l # m
                 PROVE  feed'[l].place # feed'[m].place
      BY <1>1, Zenon
    <3>1. feed'[l].place = feed[l].place /\ feed'[m].place = feed[m].place
      BY <1>3, Zenon
    <3>2. feed[l].place # feed[m].place
      BY <1>2, Zenon DEF Keyed
    <3> QED BY <3>1, <3>2, Zenon
  <2> QED BY <2>1, <2>2, <2>3, Zenon DEF Keyed
<1>6. ShowsNewest(feed', Announcements, acks')
  <2> SUFFICES ASSUME NEW l \in DOMAIN feed
               PROVE  /\ feed'[l].alarm \in Announcements[l[1]] /\ pointOf[feed'[l].alarm] = l[2]
                      /\ \A n \in Announcements[l[1]] : pointOf[n] = l[2] => n <= feed'[l].alarm
                      /\ feed'[l].acked <=> <<l[1], feed'[l].alarm>> \in acks'
    BY <1>1, Zenon DEF ShowsNewest
  <2>1. /\ feed[l].alarm \in Announcements[l[1]] /\ pointOf[feed[l].alarm] = l[2]
        /\ \A n \in Announcements[l[1]] : pointOf[n] = l[2] => n <= feed[l].alarm
        /\ feed[l].acked <=> <<l[1], feed[l].alarm>> \in acks
    BY <1>2, Zenon DEF ShowsNewest
  <2>2. feed[l].acked \in BOOLEAN
    BY <1>2 DEF Keyed, Item
  <2>3. CASE l = k
    <3>1. feed'[l].alarm = feed[l].alarm /\ feed'[l].acked = TRUE
      BY <1>3, <2>3, Zenon
    <3>2. <<l[1], feed[l].alarm>> \in acks'
      BY <1>1, <2>3, Zenon
    <3> QED BY <2>1, <3>1, <3>2, Zenon
  <2>4. CASE l # k
    <3>1. pointOf[feed[k].alarm] = k[2]
      BY <1>2, Zenon DEF ShowsNewest
    <3>2. l = <<l[1], l[2]>> /\ k = <<k[1], k[2]>>
      BY <1>2, Zenon DEF Keyed
    <3>3. <<l[1], feed[l].alarm>> # <<k[1], feed[k].alarm>>
      <4> SUFFICES ASSUME <<l[1], feed[l].alarm>> = <<k[1], feed[k].alarm>> PROVE FALSE
        OBVIOUS
      <4>1. l[1] = k[1] /\ feed[l].alarm = feed[k].alarm
        OBVIOUS
      <4>2. l[2] = k[2]
        BY <4>1, <2>1, <3>1
      <4> QED BY <4>1, <4>2, <3>2, <2>4
    <3>4. feed'[l].acked = feed[l].acked /\ feed'[l].alarm = feed[l].alarm
      BY <1>3, <2>4
    <3> QED BY <1>1, <2>1, <2>2, <3>3, <3>4
  <2> QED BY <2>3, <2>4
<1>7. Aged(feed')
  BY <1>1, <1>2, <1>3 DEF Aged
<1>8. MadeRoom(feed', Announcements, Cardinality(DOMAIN feed') = MaxItems)
  BY <1>1, <1>2, <1>3 DEF MadeRoom
<1>9. Shown(feed, Announcements, acks, Arrivals)'
  <2>1. Shown(feed', Announcements, acks', Arrivals)
    BY <1>1, <1>2, <1>5, <1>6, <1>7, <1>8, Zenon DEF Shown
  <2> QED BY <1>4, <2>1 DEF Shown, Keyed, ShowsNewest, Aged, MadeRoom
<1>10. \A kind \in Kind, n \in Nat : <<kind, n>> \in acks' => n \in Announced(kind)'
  <2> SUFFICES ASSUME NEW kind \in Kind, NEW n \in Nat, <<kind, n>> \in acks'
               PROVE  n \in Announced(kind)
    BY <1>4
  <2>1. CASE <<kind, n>> \in acks
    BY <2>1 DEF FeedInv
  <2>2. CASE <<kind, n>> = <<k[1], feed[k].alarm>>
    <3>1. kind = k[1] /\ n = feed[k].alarm
      BY <2>2
    <3>2. feed[k].alarm \in Announcements[k[1]] /\ k[1] \in Kind
      BY <1>2, Zenon DEF ShowsNewest, Keyed
    <3>3. Announcements[k[1]] = Announced(k[1])
      BY <3>2, Zenon DEF Announcements
    <3> QED BY <3>1, <3>2, <3>3
  <2> QED BY <1>1, <2>1, <2>2
<1> QED BY <1>9, <1>10 DEF FeedInv

\* Every step keeps the feed right.
LEMMA FeedStep == TypeOK /\ IInv /\ FeedInv /\ [Next]_vars => FeedInv'
<1> SUFFICES ASSUME TypeOK, IInv, FeedInv, [Next]_vars PROVE FeedInv'
  OBVIOUS
<1>0. UNCHANGED pointOf
  BY DEF Next, vars
<1>1. /\ Arrivals \in Nat
      /\ Announced("anomaly") \subseteq Nat /\ Announced("order") \subseteq Announced("anomaly")
      /\ pc = "announce" => \A m \in Announced("anomaly") : m < current
      /\ pc \in {"fanout", "announceOrder"} =>
           /\ \A m \in Announced("anomaly") : m <= current
           /\ \A m \in Announced("order") : m < current
  BY AnnouncedInLine
<1>2. Announcements["anomaly"] = Announced("anomaly") /\ Announcements["order"] = Announced("order")
  BY DEF Announcements, Kind
<1>3. CASE Announce
  <2>1. /\ Put("anomaly", current) /\ pc = "announce"
        /\ enriched' = Append(enriched, current) /\ UNCHANGED <<orders, acks>>
        /\ enriched \in Seq(Nat) /\ current \in Nat
    BY <1>3 DEF Announce, TypeOK
  <2>2. Arrivals' = Arrivals + 1
    <3>1. Len(enriched') = Len(enriched) + 1 /\ Len(enriched) \in Nat /\ Len(orders) \in Nat
      BY <2>1 DEF TypeOK
    <3> QED BY <2>1, <3>1 DEF Arrivals
  <2>3. \A other \in Kind : Announced(other)' =
          IF other = "anomaly" THEN Announced("anomaly") \cup {current} ELSE Announced(other)
    <3>1. Elements(enriched)' = Elements(enriched) \cup {current}
      <4>1. Elements(enriched') = Elements(enriched) \cup {current}
        BY <2>1, ElementsOfAppend
      <4> QED BY <4>1 DEF Elements
    <3>2. Announced("anomaly")' = Announced("anomaly") \cup {current}
      BY <3>1 DEF Announced
    <3>3. Announced("order")' = Announced("order")
      BY <2>1 DEF Announced
    <3> QED BY <3>2, <3>3 DEF Kind
  <2>4. Latest(current, "anomaly", Announcements)
    BY <1>1, <1>2, <2>1 DEF Latest, Kind
  <2>5. "anomaly" \in Kind
    BY DEF Kind
  <2> QED BY <1>0, <1>1, <2>1, <2>2, <2>3, <2>4, <2>5, FeedPut
<1>4. CASE AnnounceOrder
  <2> DEFINE o == [alarm |-> current, behind |-> Len(enriched)]
  <2>1. /\ Put("order", current) /\ pc = "announceOrder"
        /\ orders' = Append(orders, o) /\ UNCHANGED <<enriched, acks>>
        /\ orders \in Seq(Order) /\ o \in Order /\ current \in Nat /\ o.alarm = current
    BY <1>4 DEF AnnounceOrder, TypeOK, Order
  <2> HIDE DEF o
  <2>2. /\ Len(orders') = Len(orders) + 1 /\ Len(orders) \in Nat
        /\ orders'[Len(orders) + 1] = o
        /\ \A i \in 1..Len(orders) : orders'[i] = orders[i]
    BY <2>1
  <2>3. Arrivals' = Arrivals + 1
    <3>1. Len(enriched) \in Nat
      BY DEF TypeOK
    <3> QED BY <2>1, <2>2, <3>1 DEF Arrivals
  <2>4. \A other \in Kind : Announced(other)' =
          IF other = "order" THEN Announced("order") \cup {current} ELSE Announced(other)
    <3>1. {orders'[k].alarm : k \in 1..Len(orders')} = {orders[k].alarm : k \in 1..Len(orders)} \cup {current}
      <4> DEFINE num == Len(orders)
      <4>1. num \in Nat /\ Len(orders') = num + 1 /\ orders'[num + 1].alarm = current
            /\ \A i \in 1..num : orders'[i] = orders[i]
        BY <2>1, <2>2
      <4> HIDE DEF num
      <4>2. 1..(num + 1) = (1..num) \cup {num + 1}
        BY <4>1
      <4>3. {orders'[k].alarm : k \in 1..(num + 1)} = {orders[k].alarm : k \in 1..num} \cup {current}
        BY <4>1, <4>2
      <4> QED BY <4>1, <4>3 DEF num
    <3>2. Announced("order")' = Announced("order") \cup {current}
      BY <3>1 DEF Announced
    <3>3. Announced("anomaly")' = Announced("anomaly")
      BY <2>1 DEF Announced, Elements
    <3> QED BY <3>2, <3>3 DEF Kind
  <2>5. Latest(current, "order", Announcements)
    BY <1>1, <1>2, <2>1 DEF Latest, Kind
  <2>6. "order" \in Kind
    BY DEF Kind
  <2> QED BY <1>0, <1>1, <2>1, <2>3, <2>4, <2>5, <2>6, FeedPut
<1>5. CASE \E k \in DOMAIN feed : Ack(k)
  <2>1. \A kind \in Kind : Announced(kind) \subseteq Nat
    BY <1>1 DEF Kind
  <2> QED BY <1>0, <1>5, <2>1, AckKeeps
<1>6. CASE \/ OnEvent \/ Start \/ Get \/ Predict \/ Explain \/ ProcessFails
           \/ FanOut \/ FanOutOrder \/ Stop \/ UNCHANGED vars
  <2>1. UNCHANGED <<feed, enriched, orders, acks>>
    BY <1>6 DEF OnEvent, Start, Get, Predict, Explain, ProcessFails, FanOut, FanOutOrder, Stop,
                vars, feedVars
  <2>2. /\ Announcements' = Announcements /\ Arrivals' = Arrivals
        /\ \A kind \in Kind : Announced(kind)' = Announced(kind)
    BY <2>1 DEF Announcements, Announced, Elements, Arrivals
  <2> QED BY <1>0, <2>1, <2>2 DEF FeedInv, Shown, Keyed, ShowsNewest, Aged, MadeRoom
<1> QED BY <1>3, <1>4, <1>5, <1>6 DEF Next, Worker

\* What the feed shows is the newest of every point and kind, in the order of the
\* alarms, within its bound; what it does not show made room for something newer.
THEOREM FeedOrdered == Spec => []FeedInOrder
<1>1. Init => FeedInv
  <2> SUFFICES ASSUME Init PROVE FeedInv
    OBVIOUS
  <2>1. DOMAIN feed = {} /\ acks = {} /\ \A kind \in Kind : Announced(kind) = {}
    BY DEF Init, Announced, Elements
  <2>2. IsFiniteSet(DOMAIN feed) /\ Cardinality(DOMAIN feed) <= MaxItems
    BY <2>1, FS_EmptySet, PipelineAssumption
  <2>3. \A kind \in Kind : Announcements[kind] = {}
    BY <2>1, Zenon DEF Announcements
  <2> QED BY <2>1, <2>2, <2>3, Zenon DEF FeedInv, Shown, Keyed, ShowsNewest, Aged, MadeRoom
<1>2. TypeOK /\ IInv /\ FeedInv => FeedInOrder
  <2> SUFFICES ASSUME TypeOK, IInv, FeedInv PROVE FeedInOrder
    OBVIOUS
  <2>1. AnnouncedInOrder
    BY DEF IInv
  <2>2. \A kind \in Kind : Announcements[kind] = Announced(kind)
    BY Zenon DEF Announcements
  <2>3. /\ Keyed(feed, Arrivals) /\ ShowsNewest(feed, Announcements, acks) /\ Aged(feed)
        /\ MadeRoom(feed, Announcements, Cardinality(DOMAIN feed) = MaxItems)
        /\ Cardinality(DOMAIN feed) <= MaxItems
    BY DEF FeedInv, Shown
  <2>4. ItemsAreNewest
    BY <2>2, <2>3, Zenon DEF ItemsAreNewest, ShowsNewest, Keyed
  <2>5. ItemsByAge
    BY <2>3, Zenon DEF ItemsByAge, Aged
  <2>6. NothingMissing
    BY <2>2, <2>3, Zenon DEF NothingMissing, MadeRoom
  <2> QED BY <2>1, <2>3, <2>4, <2>5, <2>6 DEF FeedInOrder
<1> QED BY <1>1, <1>2, FeedStep, TypeCorrect, StrongInvariant, PTL DEF Spec

-----------------------------------------------------------------------------
(***************************************************************************)
(* What is shown to the operator: predictions, health and fleet figures    *)
(***************************************************************************)
\* Induction over the numbers, stated with a set instead of a predicate.
LEMMA AllNumbers ==
  ASSUME NEW S \in SUBSET Nat, 0 \in S, \A n \in S : n + 1 \in S
  PROVE  S = Nat
<1> SUFFICES ASSUME Nat \ S # {} PROVE FALSE
  OBVIOUS
<1>1. PICK m \in Nat \ S : \A y \in Nat \ S : m <= y
  BY HasLeast
<1>2. m # 0 /\ m - 1 \in Nat
  BY <1>1
<1>3. m - 1 \in S
  BY <1>1, <1>2
<1>4. (m - 1) + 1 \in S
  BY <1>3
<1> QED BY <1>1, <1>4

\* The least and the greatest of a set that has them.
LEMMA LeastIs ==
  ASSUME NEW S \in SUBSET Int, NEW m \in S, \A y \in S : m <= y
  PROVE  Foresight!Min(S) = m
<1>1. Foresight!Min(S) \in S /\ \A y \in S : Foresight!Min(S) <= y
  BY Zenon DEF Foresight!Min
<1> DEFINE c == Foresight!Min(S)
<1>2. c \in S /\ c <= m /\ m <= c
  BY <1>1, Zenon
<1> HIDE DEF c
<1>3. c = m
  BY <1>2
<1> QED BY <1>3, Zenon DEF c

LEMMA GreatestIs ==
  ASSUME NEW S \in SUBSET Int, NEW m \in S, \A y \in S : y <= m
  PROVE  Foresight!Max(S) = m
<1>1. \A y \in S : m >= y
  OBVIOUS
<1>2. Foresight!Max(S) \in S /\ \A y \in S : Foresight!Max(S) >= y
  BY <1>1, Zenon DEF Foresight!Max
<1> DEFINE c == Foresight!Max(S)
<1>3. c \in S /\ c >= m /\ m >= c
  BY <1>1, <1>2, Zenon
<1> HIDE DEF c
<1>4. c = m
  BY <1>3
<1> QED BY <1>4, Zenon DEF c

\* The module counts as the library does.
LEMMA SameSize == \A S : Foresight!Cardinality(S) = Cardinality(S)
  BY DEF Foresight!Cardinality, Cardinality

\* One member of n + 1 taken out leaves n, and n + 1 are not none.
LEMMA OneFewer ==
  ASSUME NEW T, IsFiniteSet(T), NEW n \in Nat, Cardinality(T) = n + 1
  PROVE  T # {} /\ \A z \in T : Cardinality(T \ {z}) = n
<1>1. T # {}
  BY FS_EmptySet
<1>2. ASSUME NEW z \in T PROVE Cardinality(T \ {z}) = n
  <2>1. Cardinality(T \ {z}) = Cardinality(T) - 1
    BY FS_RemoveElement
  <2> QED BY <2>1
<1> QED BY <1>1, <1>2

\* R puts the members of S in one line.
InLine(S, R) ==
  /\ \A x \in S : <<x, x>> \notin R
  /\ \A x, y \in S : x = y \/ <<x, y>> \in R \/ <<y, x>> \in R
  /\ \A x, y, z \in S : <<x, y>> \in R /\ <<y, z>> \in R => <<x, z>> \in R

\* In a line of finitely many, one is the last.
LEMMA HasLast ==
  ASSUME NEW S, IsFiniteSet(S), NEW R, InLine(S, R), S # {}
  PROVE  \E x \in S : \A y \in S : y = x \/ <<y, x>> \in R
<1> DEFINE Has(T) == T = {} \/ \E x \in T : \A y \in T : y = x \/ <<y, x>> \in R
           Good == {n \in Nat : \A T \in SUBSET S : Cardinality(T) = n => Has(T)}
<1>1. 0 \in Good
  <2>1. \A T \in SUBSET S : Cardinality(T) = 0 => T = {}
    BY FS_EmptySet, FS_Subset
  <2> QED BY <2>1
<1>2. ASSUME NEW n \in Good PROVE n + 1 \in Good
  <2> SUFFICES ASSUME NEW T \in SUBSET S, Cardinality(T) = n + 1, T # {} PROVE Has(T)
    OBVIOUS
  <2>1. PICK z \in T : TRUE
    OBVIOUS
  <2>2. IsFiniteSet(T) /\ n \in Nat
    BY FS_Subset
  <2>3. Cardinality(T \ {z}) = n
    BY <2>1, <2>2, OneFewer, Zenon
  <2>4. Has(T \ {z})
    BY <2>3
  <2>5. CASE T \ {z} = {}
    BY <2>1, <2>5
  <2>6. CASE T \ {z} # {}
    <3>1. PICK x \in T \ {z} : \A y \in T \ {z} : y = x \/ <<y, x>> \in R
      BY <2>4, <2>6
    <3>2. x \in S /\ z \in S /\ x # z /\ \A y \in T : y \in S
      BY <2>1
    <3>3. CASE <<x, z>> \in R
      <4>1. \A y \in T : y = z \/ <<y, z>> \in R
        BY <3>1, <3>2, <3>3 DEF InLine
      <4> QED BY <4>1
    <3>4. CASE <<z, x>> \in R
      <4>1. \A y \in T : y = x \/ <<y, x>> \in R
        BY <3>1, <3>4
      <4> QED BY <4>1
    <3> QED BY <3>2, <3>3, <3>4 DEF InLine
  <2> QED BY <2>5, <2>6
<1> HIDE DEF Has
<1>3. Good = Nat
  <2>1. Good \in SUBSET Nat
    OBVIOUS
  <2> HIDE DEF Good
  <2> QED BY <1>1, <1>2, <2>1, AllNumbers
<1>4. Cardinality(S) \in Nat
  BY FS_CardinalityType
<1>5. Has(S)
  BY <1>3, <1>4
<1> QED BY <1>5 DEF Has

\* Finitely many that are in one line can be numbered along it.
LEMMA CanBeNumbered ==
  ASSUME NEW S, IsFiniteSet(S), NEW R, InLine(S, R)
  PROVE  \E t \in [1..Cardinality(S) -> S] :
           \A i, j \in 1..Cardinality(S) : i < j => <<t[i], t[j]>> \in R
<1> DEFINE Along(T, n, t) == \A i, j \in 1..n : i < j => <<t[i], t[j]>> \in R
           Good == {n \in Nat : \A T \in SUBSET S : Cardinality(T) = n =>
                                  \E t \in [1..n -> T] : Along(T, n, t)}
<1>1. 0 \in Good
  <2> SUFFICES ASSUME NEW T \in SUBSET S
               PROVE  \E t \in [1..0 -> T] : Along(T, 0, t)
    OBVIOUS
  <2>1. [i \in 1..0 |-> i] \in [1..0 -> T]
    OBVIOUS
  <2>2. Along(T, 0, [i \in 1..0 |-> i])
    OBVIOUS
  <2> QED BY <2>1, <2>2
<1>2. ASSUME NEW n \in Good PROVE n + 1 \in Good
  <2> SUFFICES ASSUME NEW T \in SUBSET S, Cardinality(T) = n + 1
               PROVE  \E t \in [1..n + 1 -> T] : Along(T, n + 1, t)
    OBVIOUS
  <2>1. n \in Nat /\ IsFiniteSet(T)
    BY FS_Subset
  <2>2. T # {}
    BY <2>1, OneFewer, Zenon
  <2>3. InLine(T, R)
    BY DEF InLine
  <2>4. PICK x \in T : \A y \in T : y = x \/ <<y, x>> \in R
    BY <2>1, <2>2, <2>3, HasLast
  <2>5. Cardinality(T \ {x}) = n /\ T \ {x} \in SUBSET S
    BY <2>1, OneFewer, Zenon
  <2>6. PICK t \in [1..n -> T \ {x}] : Along(T \ {x}, n, t)
    BY <2>5
  <2> DEFINE u == [i \in 1..n + 1 |-> IF i = n + 1 THEN x ELSE t[i]]
  <2>7. \A i \in 1..n + 1 : i # n + 1 => i \in 1..n /\ t[i] \in T \ {x}
    BY <2>1, <2>6
  <2>8. u \in [1..n + 1 -> T]
    BY <2>4, <2>7
  <2>9. Along(T, n + 1, u)
    <3> SUFFICES ASSUME NEW i \in 1..n + 1, NEW j \in 1..n + 1, i < j
                 PROVE  <<u[i], u[j]>> \in R
      OBVIOUS
    <3>1. i \in 1..n /\ u[i] = t[i] /\ t[i] \in T \ {x}
      BY <2>1, <2>7
    <3>2. CASE j = n + 1
      BY <2>4, <3>1, <3>2
    <3>3. CASE j # n + 1
      BY <2>6, <2>7, <3>1, <3>3
    <3> QED BY <3>2, <3>3
  <2> QED BY <2>8, <2>9
<1>3. Good = Nat
  <2>1. Good \in SUBSET Nat
    OBVIOUS
  <2> HIDE DEF Good
  <2> QED BY <1>1, <1>2, <2>1, AllNumbers
<1>4. Cardinality(S) \in Nat
  BY FS_CardinalityType
<1>5. \E t \in [1..Cardinality(S) -> S] : Along(S, Cardinality(S), t)
  BY <1>3, <1>4
<1> QED BY <1>5

\* B compares, and what it leaves equal it leaves equal to the same others.
Compares(S, B) ==
  /\ \A x, y \in S : <<x, y>> \in B => <<y, x>> \notin B
  /\ \A x, y, z \in S : <<x, z>> \in B => <<x, y>> \in B \/ <<y, z>> \in B

\* A stable sort has a result: every position once, none after one it is before.
LEMMA Sorted ==
  ASSUME NEW S \in SUBSET Nat, IsFiniteSet(S), NEW B, Compares(S, B)
  PROVE  LET t == Foresight!InOrder(S, B)
             n == Cardinality(S)
         IN  /\ t \in [1..n -> S]
             /\ \A x \in S : \E k \in 1..n : t[k] = x
             /\ \A i, j \in 1..n : i < j => t[i] # t[j] /\ <<t[j], t[i]>> \notin B
<1> DEFINE n == Cardinality(S)
           Then(a, b) == <<a, b>> \in B \/ (<<b, a>> \notin B /\ a < b)
           R == {e \in S \X S : Then(e[1], e[2])}
           Along(t) == \A i, j \in 1..n : i < j => Then(t[i], t[j])
<1>1. n \in Nat
  BY FS_CardinalityType
<1>2. \A a, b \in S : <<a, b>> \in R <=> Then(a, b)
  OBVIOUS
<1>3. InLine(S, R)
  <2>1. \A x \in S : ~Then(x, x)
    BY DEF Compares
  <2>2. \A x, y \in S : x = y \/ Then(x, y) \/ Then(y, x)
    OBVIOUS
  <2>3. ASSUME NEW x \in S, NEW y \in S, NEW z \in S, Then(x, y), Then(y, z)
        PROVE  Then(x, z)
    BY <2>3 DEF Compares
  <2> HIDE DEF R, Then
  <2> QED BY <1>2, <2>1, <2>2, <2>3 DEF InLine
<1> HIDE DEF R
<1>4. PICK t \in [1..n -> S] : \A i, j \in 1..n : i < j => <<t[i], t[j]>> \in R
  BY <1>3, CanBeNumbered
<1>5. Along(t)
  BY <1>2, <1>4
<1> DEFINE u == Foresight!InOrder(S, B)
<1>6. u = CHOOSE w \in [1..n -> S] : Along(w)
  BY SameSize DEF Foresight!InOrder
<1> HIDE DEF u
<1>7. u \in [1..n -> S] /\ Along(u)
  <2> HIDE DEF Along, n
  <2> QED BY <1>4, <1>5, <1>6
<1>8. \A i, j \in 1..n : i < j => u[i] # u[j] /\ <<u[j], u[i]>> \notin B
  <2> SUFFICES ASSUME NEW i \in 1..n, NEW j \in 1..n, i < j
               PROVE  u[i] # u[j] /\ <<u[j], u[i]>> \notin B
    OBVIOUS
  <2>1. Then(u[i], u[j]) /\ u[i] \in S /\ u[j] \in S
    BY <1>7
  <2>2. ASSUME NEW a \in S, NEW b \in S, Then(a, b)
        PROVE  a # b /\ <<b, a>> \notin B
    BY <2>2 DEF Compares
  <2> HIDE DEF Then
  <2> QED BY <2>1, <2>2, Zenon
<1>9. u \in Surjection(1..n, S)
  <2>1. \A i, j \in 1..n : u[i] = u[j] => i = j
    <3>1. \A i, j \in 1..n : i < j \/ j < i \/ i = j
      BY <1>1
    <3> HIDE DEF n
    <3> QED BY <1>8, <3>1, Zenon
  <2>2. DOMAIN u = 1..n
    BY <1>7
  <2>3. u \in Injection(1..n, S)
    BY <1>7, <2>1, <2>2, Zenon DEF Injection, IsInjective
  <2>4. Cardinality(1..n) = Cardinality(S)
    BY <1>1, FS_Interval
  <2> QED BY <2>3, <2>4, FS_Injection
<1>10. \A x \in S : \E k \in 1..n : u[k] = x
  BY <1>9, Zenon DEF Surjection
<1> QED BY <1>7, <1>8, <1>10 DEF u

\* What is added up for the subset T of S: nothing, or one member and the rest.
OneOf(T) == CHOOSE x \in T : TRUE
Adds(f, g, T) == IF T = {} THEN 0 ELSE f[OneOf(T)] + g[T \ {OneOf(T)}]

\* A sum over a finite set is added up member by member.
LEMMA SumAdds ==
  ASSUME NEW S, IsFiniteSet(S), NEW f, \A x \in S : f[x] \in Int
  PROVE  \E g \in [SUBSET S -> Int] :
           /\ \A T \in SUBSET S : g[T] = Adds(f, g, T)
           /\ Foresight!SumOver(f, S) = g[S]
<1> DEFINE Upto(n, g) == \A T \in SUBSET S : Cardinality(T) <= n => g[T] = Adds(f, g, T)
           Good == {n \in Nat : \E g \in [SUBSET S -> Int] : Upto(n, g)}
<1>1. \A T \in SUBSET S : /\ IsFiniteSet(T) /\ Cardinality(T) \in Nat
                          /\ Cardinality(T) <= Cardinality(S)
  BY FS_Subset, FS_CardinalityType
<1>2. \A T \in SUBSET S : T # {} => /\ OneOf(T) \in T /\ T \ {OneOf(T)} \in SUBSET S
                                    /\ Cardinality(T \ {OneOf(T)}) = Cardinality(T) - 1
  <2> SUFFICES ASSUME NEW T \in SUBSET S, T # {}
               PROVE  OneOf(T) \in T /\ Cardinality(T \ {OneOf(T)}) = Cardinality(T) - 1
    OBVIOUS
  <2>1. OneOf(T) \in T
    BY Zenon DEF OneOf
  <2> QED BY <1>1, <2>1, FS_RemoveElement
<1>3. \A g \in [SUBSET S -> Int] : \A T \in SUBSET S : Adds(f, g, T) \in Int
  <2> SUFFICES ASSUME NEW g \in [SUBSET S -> Int], NEW T \in SUBSET S, T # {}
               PROVE  f[OneOf(T)] + g[T \ {OneOf(T)}] \in Int
    <3>1. 0 \in Int
      OBVIOUS
    <3> QED BY <3>1, Zenon DEF Adds
  <2>1. OneOf(T) \in S /\ T \ {OneOf(T)} \in SUBSET S
    BY <1>2, Zenon
  <2>2. f[OneOf(T)] \in Int /\ g[T \ {OneOf(T)}] \in Int
    BY <2>1, Zenon
  <2> QED BY <2>2
<1>4. 0 \in Good
  <2> DEFINE g == [T \in SUBSET S |-> 0]
  <2>1. \A T \in SUBSET S : Cardinality(T) <= 0 => T = {}
    BY <1>1, FS_EmptySet
  <2>2. Upto(0, g)
    BY <2>1 DEF Adds
  <2>3. g \in [SUBSET S -> Int]
    OBVIOUS
  <2> QED BY <2>2, <2>3
<1>5. ASSUME NEW n \in Good PROVE n + 1 \in Good
  <2>1. n \in Nat
    OBVIOUS
  <2>2. PICK g \in [SUBSET S -> Int] : Upto(n, g)
    OBVIOUS
  <2> DEFINE h == [T \in SUBSET S |-> IF Cardinality(T) <= n THEN g[T] ELSE Adds(f, g, T)]
  <2>3. h \in [SUBSET S -> Int]
    BY <1>3
  <2>4. ASSUME NEW T \in SUBSET S, Cardinality(T) <= n + 1
        PROVE  h[T] = Adds(f, h, T)
    <3>1. h[T] = Adds(f, g, T)
      BY <2>2
    <3>2. T # {} => h[T \ {OneOf(T)}] = g[T \ {OneOf(T)}]
      BY <1>1, <1>2, <2>1, <2>4
    <3> HIDE DEF h
    <3> QED BY <3>1, <3>2 DEF Adds
  <2>5. Upto(n + 1, h)
    BY <2>4
  <2> HIDE DEF h, Upto
  <2>6. n + 1 \in Nat
    BY <2>1
  <2> QED BY <2>3, <2>5, <2>6
<1>6. Cardinality(S) \in Good
  <2>1. Good \in SUBSET Nat
    OBVIOUS
  <2>2. Good = Nat
    <3> HIDE DEF Good
    <3> QED BY <1>4, <1>5, <2>1, AllNumbers
  <2> HIDE DEF Good
  <2> QED BY <1>1, <2>2
<1>7. PICK g \in [SUBSET S -> Int] : Upto(Cardinality(S), g)
  BY <1>6
<1>8. \A T \in SUBSET S : g[T] = Adds(f, g, T)
  BY <1>1, <1>7
<1>9. g = [T \in SUBSET S |-> Adds(f, g, T)]
  BY <1>8
<1> DEFINE u == CHOOSE it : it = [T \in SUBSET S |-> Adds(f, it, T)]
<1>10. u = [T \in SUBSET S |-> Adds(f, u, T)]
  <2> HIDE DEF Upto, Good
  <2> QED BY <1>9, Zenon
<1>11. Foresight!SumOver(f, S) = u[S]
  BY Zenon DEF Foresight!SumOver, Foresight!MapThenSumSet, Foresight!MapThenFoldSet, Adds, OneOf
<1> HIDE DEF u, Upto, Good
<1>12. \A T \in SUBSET S : u[T] = Adds(f, u, T)
  BY <1>10, Zenon
<1> DEFINE Same == {n \in Nat : \A T \in SUBSET S : Cardinality(T) <= n => u[T] = g[T]}
<1>13. 0 \in Same
  <2>1. \A T \in SUBSET S : Cardinality(T) <= 0 => T = {}
    BY <1>1, FS_EmptySet
  <2> QED BY <1>8, <1>12, <2>1 DEF Adds
<1>14. ASSUME NEW n \in Same PROVE n + 1 \in Same
  <2> SUFFICES ASSUME NEW T \in SUBSET S, Cardinality(T) <= n + 1 PROVE u[T] = g[T]
    OBVIOUS
  <2>1. T # {} => u[T \ {OneOf(T)}] = g[T \ {OneOf(T)}]
    BY <1>1, <1>2
  <2> QED BY <1>8, <1>12, <2>1 DEF Adds
<1>15. Cardinality(S) \in Same
  <2>1. Same \in SUBSET Nat
    OBVIOUS
  <2>2. Same = Nat
    <3> HIDE DEF Same
    <3> QED BY <1>13, <1>14, <2>1, AllNumbers
  <2> HIDE DEF Same
  <2> QED BY <1>1, <2>2
<1>16. u[S] = g[S]
  BY <1>1, <1>15
<1> QED BY <1>8, <1>11, <1>16

\* A sum is a number, between what it is with the least and with the greatest
\* member throughout; without negative members none of them exceeds it.
LEMMA SumBounds ==
  ASSUME NEW S, IsFiniteSet(S), NEW f, \A x \in S : f[x] \in Int
  PROVE  LET s == Foresight!SumOver(f, S)
             n == Cardinality(S)
         IN  /\ s \in Int
             /\ \A c \in Int : (\A x \in S : c <= f[x]) => c * n <= s
             /\ \A c \in Int : (\A x \in S : f[x] <= c) => s <= c * n
             /\ (\A x \in S : 0 <= f[x]) => \A x \in S : f[x] <= s
<1>1. PICK g \in [SUBSET S -> Int] : /\ \A T \in SUBSET S : g[T] = Adds(f, g, T)
                                     /\ Foresight!SumOver(f, S) = g[S]
  BY SumAdds
<1> DEFINE Least(T) == \A c \in Int : (\A x \in T : c <= f[x]) => c * Cardinality(T) <= g[T]
           Most(T) == \A c \in Int : (\A x \in T : f[x] <= c) => g[T] <= c * Cardinality(T)
           Each(T) == (\A x \in T : 0 <= f[x]) => 0 <= g[T] /\ \A x \in T : f[x] <= g[T]
           Bound(T) == Least(T) /\ Most(T) /\ Each(T)
           Good == {n \in Nat : \A T \in SUBSET S : Cardinality(T) = n => Bound(T)}
<1>2. \A T \in SUBSET S : IsFiniteSet(T) /\ Cardinality(T) \in Nat /\ g[T] \in Int
  BY FS_Subset, FS_CardinalityType
<1>3. 0 \in Good
  <2>1. \A T \in SUBSET S : Cardinality(T) = 0 => T = {}
    BY <1>2, FS_EmptySet
  <2>2. g[{}] = 0
    BY <1>1 DEF Adds
  <2>3. Cardinality({}) = 0
    BY FS_EmptySet
  <2>4. Bound({})
    BY <2>2, <2>3
  <2> HIDE DEF Bound
  <2> QED BY <2>1, <2>4
<1>4. ASSUME NEW n \in Good PROVE n + 1 \in Good
  <2> SUFFICES ASSUME NEW T \in SUBSET S, Cardinality(T) = n + 1 PROVE Bound(T)
    OBVIOUS
  <2>1. n \in Nat /\ T # {} /\ \A y \in T : Cardinality(T \ {y}) = n
    <3>1. n \in Nat
      OBVIOUS
    <3> QED BY <1>2, <3>1, OneFewer, Zenon
  <2> DEFINE x == OneOf(T)
             U == T \ {x}
  <2>2. x \in T
    BY <2>1, Zenon DEF OneOf
  <2>3. U \in SUBSET S /\ Cardinality(U) = n
    BY <2>1, <2>2, Zenon
  <2>4. Bound(U) /\ g[U] \in Int
    BY <1>2, <2>3
  <2>5. g[T] = f[x] + g[U] /\ f[x] \in Int
    BY <1>1, <2>1, <2>2, Zenon DEF Adds
  <2>6. \A y \in T : y = x \/ y \in U
    OBVIOUS
  <2>7. U \subseteq T
    OBVIOUS
  <2> HIDE DEF x, U
  <2>8. Least(T)
    <3> SUFFICES ASSUME NEW c \in Int, \A y \in T : c <= f[y] PROVE c * (n + 1) <= g[T]
      OBVIOUS
    <3>1. c * n <= g[U]
      BY <2>3, <2>4, <2>7
    <3>2. c <= f[x] /\ c * (n + 1) = c * n + c /\ c * n \in Int
      BY <2>1, <2>2
    <3> QED BY <2>4, <2>5, <3>1, <3>2
  <2>9. Most(T)
    <3> SUFFICES ASSUME NEW c \in Int, \A y \in T : f[y] <= c PROVE g[T] <= c * (n + 1)
      OBVIOUS
    <3>1. g[U] <= c * n
      BY <2>3, <2>4, <2>7
    <3>2. f[x] <= c /\ c * (n + 1) = c * n + c /\ c * n \in Int
      BY <2>1, <2>2
    <3> QED BY <2>4, <2>5, <3>1, <3>2
  <2>10. Each(T)
    <3> SUFFICES ASSUME \A y \in T : 0 <= f[y]
                 PROVE  0 <= g[T] /\ \A y \in T : f[y] <= g[T]
      OBVIOUS
    <3>1. 0 <= g[U] /\ \A y \in U : f[y] <= g[U]
      BY <2>4, <2>7
    <3>2. \A y \in T : f[y] \in Int
      OBVIOUS
    <3> QED BY <2>2, <2>4, <2>5, <2>6, <3>1, <3>2
  <2> QED BY <2>8, <2>9, <2>10
<1> HIDE DEF Bound
<1>5. Good = Nat
  <2>1. Good \in SUBSET Nat
    OBVIOUS
  <2> HIDE DEF Good
  <2> QED BY <1>3, <1>4, <2>1, AllNumbers
<1>6. Bound(S)
  BY <1>2, <1>5
<1> QED BY <1>1, <1>2, <1>6 DEF Bound

-----------------------------------------------------------------------------
\* What a point and a row of its forecasts may be: any numbers, or none.
Reading == Int \cup {None}
ForecastRow == [made : Int, at : Reading, p10 : Reading, p50 : Reading, p90 : Reading]

Measured(p) ==
  /\ p.value \in Reading /\ p.count \in Int /\ p.mean \in Int /\ p.deviation \in Nat
  /\ p.hardHigh \in Reading /\ p.hardLow \in Reading /\ p.rows \in Seq(ForecastRow)

\* Finitely many numbers have a greatest.
LEMMA HasGreatest ==
  ASSUME NEW n \in Nat, NEW f, \A i \in 1..n : f[i] \in Int, n # 0
  PROVE  \E m \in 1..n : \A j \in 1..n : f[j] <= f[m]
<1> DEFINE Has(k) == \E m \in 1..k : \A j \in 1..k : f[j] <= f[m]
           Good == {k \in Nat : k # 0 /\ k <= n => Has(k)}
<1>1. ASSUME NEW k \in Good PROVE k + 1 \in Good
  <2> SUFFICES ASSUME k + 1 <= n PROVE Has(k + 1)
    OBVIOUS
  <2>1. k \in Nat
    OBVIOUS
  <2>2. CASE k = 0
    <3>1. 1 \in 1..k + 1 /\ \A j \in 1..k + 1 : j = 1 /\ f[j] \in Int
      BY <2>2
    <3> QED BY <3>1
  <2>3. CASE k # 0
    <3>1. PICK m \in 1..k : \A j \in 1..k : f[j] <= f[m]
      BY <2>1, <2>3
    <3>2. /\ m \in 1..k + 1 /\ k + 1 \in 1..k + 1 /\ f[m] \in Int /\ f[k + 1] \in Int
          /\ \A j \in 1..k + 1 : f[j] \in Int /\ (j = k + 1 \/ j \in 1..k)
      BY <2>1
    <3>3. CASE f[k + 1] <= f[m]
      <4>1. \A j \in 1..k + 1 : f[j] <= f[m]
        BY <3>1, <3>2, <3>3
      <4> QED BY <3>2, <4>1
    <3>4. CASE f[m] <= f[k + 1]
      <4>1. \A j \in 1..k + 1 : f[j] <= f[k + 1]
        BY <3>1, <3>2, <3>4
      <4> QED BY <3>2, <4>1
    <3> QED BY <3>2, <3>3, <3>4
  <2> QED BY <2>2, <2>3
<1> HIDE DEF Has
<1>2. Good = Nat
  <2>1. 0 \in Good /\ Good \in SUBSET Nat
    OBVIOUS
  <2> HIDE DEF Good
  <2> QED BY <1>1, <2>1, AllNumbers
<1>3. Has(n)
  BY <1>2
<1> QED BY <1>3 DEF Has

\* An operating envelope is two numbers, and a spread is never negative.
LEMMA Envelope ==
  ASSUME NEW p, Measured(p)
  PROVE  Foresight!Spread(p) \in Nat /\ Foresight!High(p) \in Int /\ Foresight!Low(p) \in Int
<1>1. /\ p.mean \in Int /\ p.deviation \in Nat /\ p.hardHigh \in Reading /\ p.hardLow \in Reading
  BY DEF Measured
<1>2. Foresight!Spread(p) \in Nat
  <2>1. \A m \in Nat : m \div 50 \in Nat
    OBVIOUS
  <2> QED BY <1>1, <2>1 DEF Foresight!Spread
<1> DEFINE h == p.mean + 4 * Foresight!Spread(p)
           l == p.mean - 4 * Foresight!Spread(p)
<1>3. h \in Int /\ l \in Int
  BY <1>1, <1>2
<1> HIDE DEF h, l
<1>4. Foresight!Min({h} \cup ({p.hardHigh} \ {None})) \in Int
  <2> DEFINE S == {h} \cup ({p.hardHigh} \ {None})
  <2>1. S \in SUBSET Int
    BY <1>1, <1>3 DEF Reading
  <2>2. \E m \in S : \A y \in S : m <= y
    <3>1. CASE p.hardHigh = None
      BY <1>3, <3>1
    <3>2. CASE p.hardHigh # None
      <4>1. p.hardHigh \in Int /\ p.hardHigh \in S /\ h \in S /\ \A y \in S : y = h \/ y = p.hardHigh
        BY <1>1, <3>2 DEF Reading
      <4>2. h <= p.hardHigh \/ p.hardHigh <= h
        BY <1>3, <4>1
      <4> QED BY <1>3, <4>1, <4>2
    <3> QED BY <3>1, <3>2
  <2> HIDE DEF S
  <2>3. PICK m \in S : \A y \in S : m <= y
    BY <2>2
  <2>4. Foresight!Min(S) = m
    BY <2>1, <2>3, LeastIs
  <2>5. Foresight!Min(S) \in Int
    BY <2>1, <2>4
  <2> QED BY <2>5 DEF S
<1>5. Foresight!Max({l} \cup ({p.hardLow} \ {None})) \in Int
  <2> DEFINE S == {l} \cup ({p.hardLow} \ {None})
  <2>1. S \in SUBSET Int
    BY <1>1, <1>3 DEF Reading
  <2>2. \E m \in S : \A y \in S : y <= m
    <3>1. CASE p.hardLow = None
      BY <1>3, <3>1
    <3>2. CASE p.hardLow # None
      <4>1. p.hardLow \in Int /\ p.hardLow \in S /\ l \in S /\ \A y \in S : y = l \/ y = p.hardLow
        BY <1>1, <3>2 DEF Reading
      <4>2. l <= p.hardLow \/ p.hardLow <= l
        BY <1>3, <4>1
      <4> QED BY <1>3, <4>1, <4>2
    <3> QED BY <3>1, <3>2
  <2> HIDE DEF S
  <2>3. PICK m \in S : \A y \in S : y <= m
    BY <2>2
  <2>4. Foresight!Max(S) = m
    BY <2>1, <2>3, GreatestIs
  <2>5. Foresight!Max(S) \in Int
    BY <2>1, <2>4
  <2> QED BY <2>5 DEF S
<1> QED BY <1>2, <1>4, <1>5 DEF h, l, Foresight!High, Foresight!Low

\* The positions of the newest batch, and what a trajectory of them is.
Newest(rows) == {i \in DOMAIN rows : \A j \in DOMAIN rows : rows[j].made <= rows[i].made}

InTime(rows, steps) ==
  /\ \A k \in DOMAIN steps : \E i \in Newest(rows) : steps[k] = rows[i]
  /\ \A i \in Newest(rows) : \E k \in DOMAIN steps : steps[k] = rows[i]
  /\ \A k, l \in DOMAIN steps : k < l => ~Foresight!Earlier(steps[l], steps[k])

\* A trajectory is the newest batch in time.
LEMMA TrajectoryIsNewest ==
  ASSUME NEW rows \in Seq(ForecastRow), rows # <<>>
  PROVE  LET steps == Foresight!LatestTrajectory(rows)
         IN  /\ steps \in Seq(ForecastRow) /\ steps # <<>> /\ InTime(rows, steps)
<1> DEFINE n == Len(rows)
           made == [i \in 1..n |-> rows[i].made]
           mades == {rows[i].made : i \in DOMAIN rows}
           batch == {i \in DOMAIN rows : rows[i].made = Foresight!Max(mades)}
<1>1. /\ DOMAIN rows = 1..n /\ n \in Nat /\ n # 0
      /\ \A i \in 1..n : rows[i] \in ForecastRow /\ rows[i].made \in Int
  <2>1. DOMAIN rows = 1..n /\ n \in Nat /\ n # 0 /\ \A i \in 1..n : rows[i] \in ForecastRow
    OBVIOUS
  <2>2. \A r \in ForecastRow : r.made \in Int
    BY DEF ForecastRow
  <2> QED BY <2>1, <2>2
<1>2. PICK m \in 1..n : \A j \in 1..n : made[j] <= made[m]
  <2>1. \A i \in 1..n : made[i] \in Int
    BY <1>1
  <2> HIDE DEF made
  <2> QED BY <1>1, <2>1, HasGreatest
<1>3. Foresight!Max(mades) = rows[m].made
  <2>1. mades \in SUBSET Int /\ rows[m].made \in mades /\ \A y \in mades : y <= rows[m].made
    BY <1>1, <1>2
  <2> HIDE DEF mades
  <2> QED BY <2>1, GreatestIs
<1>4. batch = Newest(rows) /\ m \in batch
  <2>1. \A j \in DOMAIN rows : rows[j].made <= rows[m].made
    BY <1>1, <1>2
  <2>2. batch = {i \in DOMAIN rows : rows[i].made = rows[m].made} /\ m \in batch
    BY <1>1, <1>3
  <2>3. \A i \in DOMAIN rows : rows[i].made = rows[m].made
                             <=> \A j \in DOMAIN rows : rows[j].made <= rows[i].made
    BY <1>1, <2>1
  <2> QED BY <2>2, <2>3 DEF Newest
<1>5. batch \in SUBSET Nat /\ IsFiniteSet(batch)
  <2>1. IsFiniteSet(1..n)
    BY <1>1, FS_Interval
  <2>2. batch \in SUBSET (1..n)
    BY <1>1
  <2> HIDE DEF batch, n
  <2>3. IsFiniteSet(batch)
    BY <2>1, <2>2, FS_Subset
  <2> QED BY <1>1, <2>2, <2>3
<1> DEFINE B == {e \in batch \X batch : Foresight!Earlier(rows[e[1]], rows[e[2]])}
           t == Foresight!InOrder(batch, B)
           c == Cardinality(batch)
           steps == Foresight!LatestTrajectory(rows)
<1>6. steps = [k \in 1..c |-> rows[t[k]]]
  BY SameSize, Zenon DEF Foresight!LatestTrajectory, Foresight!ByTime
<1>7. \A i, j \in batch : <<i, j>> \in B <=> Foresight!Earlier(rows[i], rows[j])
  OBVIOUS
<1>8. \A i \in batch : i \in 1..n /\ rows[i].at \in Reading /\ rows[i] \in ForecastRow
  BY <1>1 DEF ForecastRow
<1> HIDE DEF batch, B, t, steps, n, made, mades
<1>9. Compares(batch, B)
  <2>1. \A i, j \in batch : Foresight!Earlier(rows[i], rows[j]) => ~Foresight!Earlier(rows[j], rows[i])
    BY <1>8, NoneAssumption DEF Foresight!Earlier, Reading
  <2>2. \A i, j, k \in batch : Foresight!Earlier(rows[i], rows[k]) =>
          Foresight!Earlier(rows[i], rows[j]) \/ Foresight!Earlier(rows[j], rows[k])
    BY <1>8, NoneAssumption DEF Foresight!Earlier, Reading
  <2> QED BY <1>7, <2>1, <2>2 DEF Compares
<1>10. /\ t \in [1..c -> batch]
       /\ \A i \in batch : \E k \in 1..c : t[k] = i
       /\ \A i, j \in 1..c : i < j => t[i] # t[j] /\ <<t[j], t[i]>> \notin B
  BY <1>5, <1>9, Sorted DEF t
<1>11. c \in Nat
  BY <1>5, FS_CardinalityType
<1> HIDE DEF c
<1>12. /\ DOMAIN steps = 1..c
       /\ \A k \in 1..c : steps[k] = rows[t[k]] /\ t[k] \in batch
  BY <1>6, <1>10
<1>13. steps \in Seq(ForecastRow)
  <2>1. \A k \in 1..c : rows[t[k]] \in ForecastRow
    BY <1>8, <1>12
  <2> QED BY <1>6, <1>11, <2>1
<1>14. steps # <<>>
  <2>1. PICK k \in 1..c : t[k] = m
    BY <1>4, <1>10
  <2>2. DOMAIN steps # {} /\ DOMAIN <<>> = {}
    BY <1>12, <2>1
  <2> QED BY <2>2
<1>15. InTime(rows, steps)
  <2>1. \A k \in DOMAIN steps : \E i \in batch : steps[k] = rows[i]
    BY <1>12
  <2>2. \A i \in batch : \E k \in DOMAIN steps : steps[k] = rows[i]
    BY <1>10, <1>12
  <2>3. \A k, l \in DOMAIN steps : k < l => ~Foresight!Earlier(steps[l], steps[k])
    BY <1>7, <1>10, <1>12
  <2> QED BY <1>4, <2>1, <2>2, <2>3 DEF InTime
<1> QED BY <1>13, <1>14, <1>15 DEF steps

\* What is predicted for a point, by the steps of its newest forecast.
Breaching(p, steps) == {k \in 1..Len(steps) : Foresight!Breaches(steps[k], p)}

\* Now: the value is beyond the envelope.
LEMMA PredictsNow ==
  ASSUME NEW p, p.count >= 8, Foresight!LatestTrajectory(p.rows) # <<>>,
         Foresight!Beyond(p.value, p), Measured(p)
  PROVE  Foresight!Evaluate(p) = <<Foresight!Prediction(p, "critical", 0, p.value,
                                     p.value >= Foresight!High(p), "high")>>
<1>1. ~(p.count < Foresight!MinHistory)
  BY DEF Measured, Foresight!MinHistory
<1> QED BY <1>1, Zenon DEF Foresight!Evaluate, Foresight!EvaluateAlong

\* Ahead: the first step that is beyond it.
LEMMA PredictsAhead ==
  ASSUME NEW p, p.count >= 8, Foresight!LatestTrajectory(p.rows) # <<>>,
         ~Foresight!Beyond(p.value, p), Measured(p),
         NEW steps, steps = Foresight!LatestTrajectory(p.rows),
         Breaching(p, steps) # {}, Len(steps) \in Nat
  PROVE  \E k \in Breaching(p, steps), confidence \in {"high", "medium"} :
           /\ \A l \in Breaching(p, steps) : k <= l
           /\ Foresight!Evaluate(p) =
                <<Foresight!Prediction(p, Foresight!LevelFor(steps[k].at), steps[k].at, steps[k].p50,
                                       steps[k].p50 >= Foresight!High(p), confidence)>>
<1>1. ~(p.count < Foresight!MinHistory)
  BY DEF Measured, Foresight!MinHistory
<1>2. Breaching(p, steps) \in SUBSET Nat
  BY DEF Breaching
<1>3. PICK k \in Breaching(p, steps) : \A l \in Breaching(p, steps) : k <= l
  BY <1>2, HasLeast
<1>4. Foresight!Min(Breaching(p, steps)) = k
  <2>1. Breaching(p, steps) \in SUBSET Int
    BY <1>2
  <2> QED BY <1>3, <2>1, LeastIs
<1> DEFINE first == Foresight!SelectInSeq(steps, LAMBDA f : Foresight!Breaches(f, p))
<1>5. first = k /\ k # 0
  <2>1. first = Foresight!Min(Breaching(p, steps))
    BY Zenon DEF Foresight!SelectInSeq, Breaching
  <2>2. k # 0
    BY DEF Breaching
  <2> QED BY <1>4, <2>1, <2>2
<1> DEFINE rising == steps[k].p50 >= Foresight!High(p)
           edge == IF rising THEN steps[k].p90 # None /\ steps[k].p90 >= Foresight!High(p)
                   ELSE steps[k].p10 # None /\ steps[k].p10 <= Foresight!Low(p)
           confidence == IF edge THEN "high" ELSE "medium"
<1>6. Foresight!Evaluate(p) =
        <<Foresight!Prediction(p, Foresight!LevelFor(steps[k].at), steps[k].at, steps[k].p50,
                               rising, confidence)>>
  BY <1>1, <1>5, Zenon DEF Foresight!Evaluate, Foresight!EvaluateAlong
<1> QED BY <1>3, <1>6

\* Neither: a watch, or nothing.
LEMMA PredictsTrend ==
  ASSUME NEW p, p.count >= 8, Foresight!LatestTrajectory(p.rows) # <<>>,
         ~Foresight!Beyond(p.value, p), Measured(p),
         NEW steps, steps = Foresight!LatestTrajectory(p.rows),
         Breaching(p, steps) = {}
  PROVE  Foresight!Evaluate(p) = Foresight!Watch(p, steps)
<1>1. ~(p.count < Foresight!MinHistory)
  BY DEF Measured, Foresight!MinHistory
<1> DEFINE first == Foresight!SelectInSeq(steps, LAMBDA f : Foresight!Breaches(f, p))
<1>2. first = 0
  BY Zenon DEF Foresight!SelectInSeq, Breaching
<1> QED BY <1>1, <1>2, Zenon DEF Foresight!Evaluate, Foresight!EvaluateAlong

\* Too little history, or no forecast: nothing.
LEMMA PredictsNothing ==
  ASSUME NEW p, ~(p.count >= 8) \/ Foresight!LatestTrajectory(p.rows) = <<>>, Measured(p)
  PROVE  Foresight!Evaluate(p) = <<>>
<1>1. p.count < Foresight!MinHistory \/ Foresight!LatestTrajectory(p.rows) = <<>>
  BY DEF Measured, Foresight!MinHistory
<1> QED BY <1>1, Zenon DEF Foresight!Evaluate, Foresight!EvaluateAlong

\* A watch has two readings of the newest forecast on the way to its bound.
LEMMA WatchHeads ==
  ASSUME NEW p, Measured(p), NEW steps \in Seq(ForecastRow),
         Foresight!Watch(p, steps) # <<>>
  PROVE  \E predicted \in Int, rising \in BOOLEAN :
           /\ Foresight!Watch(p, steps) =
                <<Foresight!Prediction(p, "watch", None, predicted, rising, "low")>>
           /\ \E k, l \in {m \in DOMAIN steps : steps[m].p50 # None} :
                IF rising THEN steps[k].p50 < steps[l].p50 ELSE steps[k].p50 > steps[l].p50
<1> DEFINE known == {m \in DOMAIN steps : steps[m].p50 # None}
           last == steps[Foresight!Max(known)].p50
           head == steps[Foresight!Min(known)].p50
           slope == last - head
           size == IF slope > 0 THEN slope ELSE -slope
           sharp == Foresight!Cardinality(known) >= 2 /\ 2 * size > Foresight!Spread(p)
<1>1. /\ sharp
      /\ Foresight!Watch(p, steps) =
           <<Foresight!Prediction(p, "watch", None, last, slope > 0, "low")>>
  BY Zenon DEF Foresight!Watch
<1>2. /\ Len(steps) \in Nat /\ DOMAIN steps = 1..Len(steps)
      /\ \A k \in DOMAIN steps : steps[k] \in ForecastRow
  OBVIOUS
<1>3. \A r \in ForecastRow : r.p50 \in Reading
  BY DEF ForecastRow
<1>4. \A k \in known : k \in DOMAIN steps /\ steps[k].p50 \in Int
  BY <1>2, <1>3 DEF Reading
<1>5. known \in SUBSET (1..Len(steps)) /\ IsFiniteSet(known)
  <2>1. IsFiniteSet(1..Len(steps))
    BY <1>2, FS_Interval
  <2>2. known \in SUBSET (1..Len(steps))
    BY <1>2
  <2> HIDE DEF known
  <2> QED BY <2>1, <2>2, FS_Subset
<1>6. known # {}
  <2>1. Cardinality(known) >= 2
    BY <1>1, SameSize, Zenon
  <2>2. Cardinality({}) = 0
    BY FS_EmptySet
  <2> HIDE DEF known
  <2> QED BY <2>1, <2>2
<1>7. Foresight!Min(known) \in known
  <2> HIDE DEF known
  <2>1. known \in SUBSET Nat /\ known \in SUBSET Int
    BY <1>2, <1>5
  <2>2. PICK m \in known : \A y \in known : m <= y
    BY <1>6, <2>1, HasLeast
  <2> QED BY <2>1, <2>2, LeastIs
<1>8. Foresight!Max(known) \in known
  <2> HIDE DEF known
  <2>1. known \in SUBSET Int
    BY <1>2, <1>5
  <2> DEFINE n == Len(steps)
             Over(m) == \A y \in known : y <= m
             tops == {m \in 0..n : Over(m)}
  <2>2. tops \in SUBSET Nat /\ n \in tops
    BY <1>2, <1>5
  <2>3. PICK m \in tops : \A y \in tops : m <= y
    <3> HIDE DEF tops
    <3> QED BY <2>2, HasLeast
  <2>4. m \in known
    <3> SUFFICES ASSUME m \notin known PROVE FALSE
      OBVIOUS
    <3>1. PICK y \in known : TRUE
      BY <1>6
    <3>2. m \in 0..n /\ y \in 1..n /\ y <= m /\ y # m
      BY <1>5, <2>3, <3>1
    <3>3. m - 1 \in 0..n
      BY <1>2, <3>2
    <3>4. Over(m - 1)
      <4>1. \A z \in known : z <= m /\ z # m /\ z \in Int
        BY <2>1, <2>3
      <4> QED BY <3>2, <4>1
    <3>5. m <= m - 1
      BY <2>3, <3>3, <3>4
    <3> QED BY <3>2, <3>5
  <2> QED BY <2>1, <2>3, <2>4, GreatestIs
<1>9. last \in Int /\ head \in Int
  BY <1>4, <1>7, <1>8
<1>10. Foresight!Spread(p) \in Nat
  BY Envelope
<1>11. (slope > 0) \in BOOLEAN
  OBVIOUS
<1>12. IF slope > 0 THEN head < last ELSE head > last
  <2> HIDE DEF known
  <2>1. 2 * size > Foresight!Spread(p)
    BY <1>1
  <2> HIDE DEF last, head
  <2> QED BY <1>9, <1>10, <2>1
<1>13. \E k, l \in known :
         IF slope > 0 THEN steps[k].p50 < steps[l].p50 ELSE steps[k].p50 > steps[l].p50
  <2> HIDE DEF known, slope
  <2> QED BY <1>7, <1>8, <1>12
<1> HIDE DEF known, last, slope
<1> QED BY <1>1, <1>9, <1>11, <1>13 DEF known

\* A failure has a time, a watch none; both are of their point.
Foretold(p, r) ==
  /\ r.device = p.device /\ r.level \in DOMAIN Foresight!Rank
  /\ r.level = "watch" => r.eta = None
  /\ r.level # "watch" => r.eta \in Nat

LEMMA LevelIsFailure ==
  ASSUME NEW eta
  PROVE  Foresight!LevelFor(eta) \in DOMAIN Foresight!Rank /\ Foresight!LevelFor(eta) # "watch"
BY DEF Foresight!LevelFor, Foresight!Rank

LEMMA PredictionFields ==
  ASSUME NEW p, NEW level, NEW eta, NEW predicted, NEW rising, NEW confidence
  PROVE  LET r == Foresight!Prediction(p, level, eta, predicted, rising, confidence)
         IN  /\ r.device = p.device /\ r.level = level /\ r.eta = eta /\ r.predicted = predicted
             /\ r.rising = rising
             /\ r.bound = IF rising THEN Foresight!High(p) ELSE Foresight!Low(p)
BY DEF Foresight!Prediction

\* A measured point whose steps breach has a known time and value at each of them.
LEMMA BreachKnown ==
  ASSUME NEW p, Measured(p), NEW r \in ForecastRow, Foresight!Breaches(r, p)
  PROVE  /\ r.at \in Nat /\ r.p50 \in Int
         /\ r.p50 >= Foresight!High(p) \/ r.p50 <= Foresight!Low(p)
<1>1. r.at \in Reading /\ r.p50 \in Reading
  BY DEF ForecastRow
<1> QED BY <1>1 DEF Foresight!Breaches, Foresight!Beyond, Reading

\* Whatever is predicted for a measured point is a failure with a time or a watch.
LEMMA PredictsSomething ==
  ASSUME NEW p, Measured(p), Foresight!Evaluate(p) # <<>>
  PROVE  /\ Foresight!Evaluate(p) = <<Foresight!Evaluate(p)[1]>>
         /\ Foretold(p, Foresight!Evaluate(p)[1])
<1> DEFINE steps == Foresight!LatestTrajectory(p.rows)
<1>1. p.count >= 8 /\ steps # <<>>
  BY PredictsNothing
<1>2. p.rows # <<>> /\ p.rows \in Seq(ForecastRow)
  BY <1>1, Zenon DEF Foresight!LatestTrajectory, Measured
<1>3. steps \in Seq(ForecastRow)
  BY <1>2, TrajectoryIsNewest
<1> SUFFICES \E r : Foresight!Evaluate(p) = <<r>> /\ Foretold(p, r)
  OBVIOUS
<1>4. CASE Foresight!Beyond(p.value, p)
  <2> DEFINE r == Foresight!Prediction(p, "critical", 0, p.value,
                                       p.value >= Foresight!High(p), "high")
  <2>1. Foresight!Evaluate(p) = <<r>>
    BY <1>1, <1>4, PredictsNow
  <2>2. r.device = p.device /\ r.level = "critical" /\ r.eta = 0
    BY PredictionFields
  <2>3. Foretold(p, r)
    BY <2>2 DEF Foretold, Foresight!Rank
  <2> QED BY <2>1, <2>3
<1>5. CASE ~Foresight!Beyond(p.value, p) /\ Breaching(p, steps) # {}
  <2>1. PICK k \in Breaching(p, steps), confidence \in {"high", "medium"} :
          Foresight!Evaluate(p) =
            <<Foresight!Prediction(p, Foresight!LevelFor(steps[k].at), steps[k].at, steps[k].p50,
                                   steps[k].p50 >= Foresight!High(p), confidence)>>
    <3>1. Len(steps) \in Nat
      BY <1>3
    <3> HIDE DEF steps
    <3>2. steps = Foresight!LatestTrajectory(p.rows)
      BY DEF steps
    <3> QED BY <1>1, <1>5, <3>1, <3>2, PredictsAhead, Zenon
  <2> DEFINE r == Foresight!Prediction(p, Foresight!LevelFor(steps[k].at), steps[k].at,
                    steps[k].p50, steps[k].p50 >= Foresight!High(p), confidence)
  <2>2. r.device = p.device /\ r.level = Foresight!LevelFor(steps[k].at) /\ r.eta = steps[k].at
    BY PredictionFields
  <2>3. steps[k] \in ForecastRow /\ Foresight!Breaches(steps[k], p)
    BY <1>3 DEF Breaching
  <2>4. steps[k].at \in Nat
    BY <2>3, BreachKnown
  <2>5. Foretold(p, r)
    <3> HIDE DEF r
    <3> QED BY <2>2, <2>4, LevelIsFailure, Zenon DEF Foretold
  <2> QED BY <2>1, <2>5
<1>6. CASE ~Foresight!Beyond(p.value, p) /\ Breaching(p, steps) = {}
  <2>1. Foresight!Evaluate(p) = Foresight!Watch(p, steps)
    BY <1>1, <1>6, PredictsTrend
  <2>2. PICK predicted \in Int, rising \in BOOLEAN :
          Foresight!Watch(p, steps) =
            <<Foresight!Prediction(p, "watch", None, predicted, rising, "low")>>
    BY <1>3, <2>1, WatchHeads
  <2> DEFINE r == Foresight!Prediction(p, "watch", None, predicted, rising, "low")
  <2>3. r.device = p.device /\ r.level = "watch" /\ r.eta = None
    BY PredictionFields
  <2>4. Foretold(p, r)
    <3> HIDE DEF r
    <3> QED BY <2>3 DEF Foretold, Foresight!Rank
  <2> QED BY <2>1, <2>2, <2>4
<1> QED BY <1>4, <1>5, <1>6

\* Whoever is warned is warned of what the value or the newest forecast says, of
\* the first of it, and of all of it: for any point and any stored forecasts.
THEOREM WarnedWithReason ==
  ASSUME NEW p, Measured(p)
  PROVE  Foresight!GroundedFor(p)
<1> DEFINE newest == {i \in DOMAIN p.rows : \A j \in DOMAIN p.rows : p.rows[j].made <= p.rows[i].made}
           ahead == {i \in newest : /\ p.rows[i].at # None /\ p.rows[i].at >= 0
                                    /\ Foresight!Beyond(p.rows[i].p50, p)}
           ats == {p.rows[i].at : i \in ahead}
           now == Foresight!Beyond(p.value, p)
           result == Foresight!Evaluate(p)
           Failure(r) ==
             /\ r.eta = (IF now THEN 0 ELSE Foresight!Min(ats))
             /\ IF r.rising THEN r.predicted >= r.bound ELSE r.predicted <= r.bound
           Trend(r) ==
             \E i, j \in {k \in newest : p.rows[k].p50 # None} :
               IF r.rising THEN p.rows[i].p50 < p.rows[j].p50 ELSE p.rows[i].p50 > p.rows[j].p50
<1> SUFFICES ASSUME p.count >= Foresight!MinHistory, p.rows # <<>>
             PROVE  /\ (result # <<>> /\ result[1].level # "watch") <=> (now \/ ahead # {})
                    /\ result # <<>> => /\ result[1].level # "watch" => Failure(result[1])
                                        /\ result[1].level = "watch" => Trend(result[1])
  BY Zenon DEF Foresight!GroundedFor
<1> DEFINE steps == Foresight!LatestTrajectory(p.rows)
<1>1. newest = Newest(p.rows)
  BY DEF Newest
<1>2. p.rows \in Seq(ForecastRow) /\ p.count >= 8
  BY DEF Measured, Foresight!MinHistory
<1>3. steps \in Seq(ForecastRow) /\ steps # <<>> /\ InTime(p.rows, steps)
  BY <1>2, TrajectoryIsNewest
<1>4. /\ \A k \in DOMAIN steps : \E i \in newest : steps[k] = p.rows[i]
      /\ \A i \in newest : \E k \in DOMAIN steps : steps[k] = p.rows[i]
      /\ \A k, l \in DOMAIN steps : k < l => ~Foresight!Earlier(steps[l], steps[k])
  BY <1>1, <1>3, Zenon DEF InTime
<1>5. \A i \in newest : i \in ahead <=> Foresight!Breaches(p.rows[i], p)
  BY DEF Foresight!Breaches
<1>6. \A i \in newest : p.rows[i] \in ForecastRow
  BY <1>2
<1>7. DOMAIN steps = 1..Len(steps) /\ Len(steps) \in Nat
  BY <1>3
<1>8. \A k \in DOMAIN steps : k \in Breaching(p, steps) <=> Foresight!Breaches(steps[k], p)
  BY <1>7, Zenon DEF Breaching
<1>9. Breaching(p, steps) \subseteq DOMAIN steps
  BY <1>7, Zenon DEF Breaching
<1>10. steps = Foresight!LatestTrajectory(p.rows)
  OBVIOUS
<1>11. ahead \subseteq newest
  OBVIOUS
<1>12. ats = {p.rows[i].at : i \in ahead}
  OBVIOUS
<1> HIDE DEF newest, ahead, steps, ats, now
<1>13. Breaching(p, steps) # {} <=> ahead # {}
  BY <1>4, <1>5, <1>8, <1>9, <1>11, Zenon
<1>14. CASE now
  <2> DEFINE r == Foresight!Prediction(p, "critical", 0, p.value,
                                       p.value >= Foresight!High(p), "high")
  <2>1. result = <<r>>
    BY <1>2, <1>3, <1>10, <1>14, PredictsNow DEF now
  <2>2. /\ r.level = "critical" /\ r.eta = 0 /\ r.predicted = p.value
        /\ r.rising = (p.value >= Foresight!High(p))
        /\ r.bound = IF r.rising THEN Foresight!High(p) ELSE Foresight!Low(p)
    BY PredictionFields
  <2>3. p.value >= Foresight!High(p) \/ p.value <= Foresight!Low(p)
    BY <1>14 DEF now, Foresight!Beyond
  <2> HIDE DEF r
  <2>4. Failure(r)
    BY <1>14, <2>2, <2>3
  <2>5. result # <<>> /\ result[1] = r
    BY <2>1
  <2> QED BY <1>14, <2>2, <2>4, <2>5
<1>15. CASE ~now /\ ahead # {}
  <2>1. PICK k \in Breaching(p, steps), confidence \in {"high", "medium"} :
          /\ \A l \in Breaching(p, steps) : k <= l
          /\ result =
               <<Foresight!Prediction(p, Foresight!LevelFor(steps[k].at), steps[k].at, steps[k].p50,
                                      steps[k].p50 >= Foresight!High(p), confidence)>>
    BY <1>2, <1>3, <1>7, <1>10, <1>13, <1>15, PredictsAhead, Zenon DEF now
  <2> DEFINE r == Foresight!Prediction(p, Foresight!LevelFor(steps[k].at), steps[k].at,
                    steps[k].p50, steps[k].p50 >= Foresight!High(p), confidence)
  <2>2. /\ r.level = Foresight!LevelFor(steps[k].at) /\ r.eta = steps[k].at
        /\ r.predicted = steps[k].p50 /\ r.rising = (steps[k].p50 >= Foresight!High(p))
        /\ r.bound = IF r.rising THEN Foresight!High(p) ELSE Foresight!Low(p)
    BY PredictionFields
  <2>3. r.level # "watch"
    BY <2>2, LevelIsFailure, Zenon
  <2>4. result = <<r>>
    BY <2>1
  <2>5. k \in DOMAIN steps /\ Foresight!Breaches(steps[k], p)
    BY <1>8, <1>9
  <2>6. /\ steps[k].p50 >= Foresight!High(p) \/ steps[k].p50 <= Foresight!Low(p)
        /\ steps[k].at \in Nat
    <3>1. steps[k] \in ForecastRow
      BY <1>3, <2>5
    <3> QED BY <2>5, <3>1, BreachKnown
  <2> HIDE DEF r
  <2>7. Foresight!Min(ats) = steps[k].at
    <3>1. ats \in SUBSET Int
      <4>1. \A i \in ahead : p.rows[i].at \in Nat
        BY <1>5, <1>6, <1>11, BreachKnown
      <4> QED BY <1>12, <4>1
    <3>2. steps[k].at \in ats
      <4>1. PICK i \in newest : steps[k] = p.rows[i]
        BY <1>4, <2>5
      <4>2. i \in ahead
        BY <1>5, <2>5, <4>1
      <4> QED BY <1>12, <4>1, <4>2
    <3>3. ASSUME NEW i \in ahead PROVE steps[k].at <= p.rows[i].at
      <4>1. PICK l \in DOMAIN steps : steps[l] = p.rows[i]
        BY <1>4, <1>11
      <4>2. l \in Breaching(p, steps)
        BY <1>5, <1>8, <1>11, <4>1
      <4>3. k <= l /\ k \in Nat /\ l \in Nat
        BY <1>7, <2>1, <2>5, <4>2
      <4>4. k = l \/ ~Foresight!Earlier(steps[l], steps[k])
        BY <1>4, <2>5, <4>3
      <4>5. steps[l].at \in Nat
        BY <1>5, <1>6, <1>11, <4>1, BreachKnown
      <4>6. steps[k].at <= steps[l].at
        BY <2>6, <4>4, <4>5, NoneAssumption DEF Foresight!Earlier
      <4> QED BY <4>1, <4>6
    <3>4. \A y \in ats : steps[k].at <= y
      BY <1>12, <3>3
    <3> QED BY <3>1, <3>2, <3>4, LeastIs
  <2>8. Failure(r)
    BY <1>15, <2>2, <2>6, <2>7
  <2>9. result # <<>> /\ result[1] = r
    BY <2>4
  <2> QED BY <1>15, <2>3, <2>8, <2>9
<1>16. CASE ~now /\ ahead = {}
  <2>1. result = Foresight!Watch(p, steps)
    BY <1>2, <1>3, <1>10, <1>13, <1>16, PredictsTrend DEF now
  <2>2. CASE result = <<>>
    BY <1>16, <2>2
  <2>3. CASE result # <<>>
    <3>1. PICK predicted \in Int, rising \in BOOLEAN :
            /\ result = <<Foresight!Prediction(p, "watch", None, predicted, rising, "low")>>
            /\ \E k, l \in {m \in DOMAIN steps : steps[m].p50 # None} :
                 IF rising THEN steps[k].p50 < steps[l].p50 ELSE steps[k].p50 > steps[l].p50
      BY <1>3, <2>1, <2>3, WatchHeads
    <3> DEFINE r == Foresight!Prediction(p, "watch", None, predicted, rising, "low")
    <3>2. r.level = "watch" /\ r.rising = rising
      BY PredictionFields
    <3>3. result[1] = r
      BY <3>1
    <3> HIDE DEF r
    <3>4. PICK k \in DOMAIN steps, l \in DOMAIN steps :
            /\ steps[k].p50 # None /\ steps[l].p50 # None
            /\ IF rising THEN steps[k].p50 < steps[l].p50 ELSE steps[k].p50 > steps[l].p50
      BY <3>1
    <3>5. PICK i \in newest, j \in newest : steps[k] = p.rows[i] /\ steps[l] = p.rows[j]
      BY <1>4
    <3>6. Trend(r)
      BY <3>2, <3>4, <3>5, Zenon
    <3> HIDE DEF result
    <3> QED BY <1>16, <2>3, <3>2, <3>3, <3>6
  <2> QED BY <2>2, <2>3
<1> QED BY <1>14, <1>15, <1>16

-----------------------------------------------------------------------------
\* Urgency compares the predictions: by level, and in a level by the time.
LEMMA UrgencyCompares ==
  ASSUME NEW S, NEW r, \A i \in S : \E p : Foretold(p, r[i])
  PROVE  /\ \A i, j \in S : Foresight!MoreUrgent(r[i], r[j]) => ~Foresight!MoreUrgent(r[j], r[i])
         /\ \A i, j, k \in S : Foresight!MoreUrgent(r[i], r[k]) =>
              Foresight!MoreUrgent(r[i], r[j]) \/ Foresight!MoreUrgent(r[j], r[k])
<1> DEFINE rank(i) == Foresight!Rank[r[i].level]
<1>1. \A i \in S : r[i].level \in DOMAIN Foresight!Rank /\ r[i].eta \in Reading
  BY DEF Foretold, Reading
<1>2. \A l \in DOMAIN Foresight!Rank : Foresight!Rank[l] \in Int
  BY DEF Foresight!Rank
<1>3. \A i \in S : rank(i) \in Int
  BY <1>1, <1>2
<1> DEFINE Sooner(i, j) == \/ rank(i) < rank(j)
                           \/ /\ rank(i) = rank(j) /\ r[i].eta # None
                              /\ r[j].eta = None \/ r[i].eta < r[j].eta
<1>4. \A i, j \in S : Foresight!MoreUrgent(r[i], r[j]) <=> Sooner(i, j)
  BY DEF Foresight!MoreUrgent
<1> HIDE DEF rank
<1>5. \A i, j \in S : Sooner(i, j) => ~Sooner(j, i)
  BY <1>1, <1>3, NoneAssumption DEF Reading
<1>6. \A i, j, k \in S : Sooner(i, k) => Sooner(i, j) \/ Sooner(j, k)
  BY <1>1, <1>3, NoneAssumption DEF Reading
<1> HIDE DEF Sooner
<1> QED BY <1>4, <1>5, <1>6

\* A scan is the predictions of the critical points, each once, by urgency.
LEMMA ScanIsSorted ==
  ASSUME NEW P, \A p \in P : Measured(p), NEW points \in Seq(P)
  PROVE  LET predictions == Foresight!Scan(points)
             found == Foresight!Warned(points)
             c == Cardinality(found)
         IN  /\ c \in Nat /\ DOMAIN predictions = 1..c /\ Len(predictions) = c
             /\ \A k \in 1..c : \E p \in P : Foretold(p, predictions[k])
             /\ \A i \in found : \E k \in 1..c : predictions[k] = Foresight!Evaluate(points[i])[1]
             /\ \A k, l \in 1..c : k < l =>
                  ~Foresight!MoreUrgent(predictions[l], predictions[k])
<1> DEFINE found == Foresight!Warned(points)
           c == Cardinality(found)
           result == [i \in found |-> Foresight!Evaluate(points[i])[1]]
           B == {e \in found \X found : Foresight!MoreUrgent(result[e[1]], result[e[2]])}
           t == Foresight!InOrder(found, B)
           predictions == Foresight!Scan(points)
<1>1. predictions = [k \in 1..c |-> result[t[k]]]
  <2>1. DOMAIN result = found
    BY Zenon
  <2>2. predictions = Foresight!Ranked(result)
    BY Zenon DEF Foresight!Scan
  <2> HIDE DEF result, found
  <2>3. Foresight!Ranked(result) = [k \in 1..c |-> result[t[k]]]
    BY <2>1, SameSize, Zenon DEF Foresight!Ranked
  <2> QED BY <2>2, <2>3, Zenon
<1>2. \A i \in found : /\ i \in 1..Len(points) /\ points[i] \in P
                       /\ Foresight!Evaluate(points[i]) # <<>>
  BY DEF Foresight!Warned
<1>3. \A i \in found : Foretold(points[i], result[i])
  BY <1>2, PredictsSomething
<1>4. found \in SUBSET Nat /\ IsFiniteSet(found)
  <2>1. Len(points) \in Nat
    OBVIOUS
  <2>2. IsFiniteSet(1..Len(points))
    BY <2>1, FS_Interval
  <2>3. found \in SUBSET (1..Len(points))
    BY <1>2
  <2> HIDE DEF found
  <2>4. IsFiniteSet(found)
    BY <2>2, <2>3, FS_Subset
  <2> QED BY <2>1, <2>3, <2>4
<1>5. \A i, j \in found : <<i, j>> \in B <=> Foresight!MoreUrgent(result[i], result[j])
  OBVIOUS
<1>6. \A i \in found : result[i] = Foresight!Evaluate(points[i])[1]
  OBVIOUS
<1> HIDE DEF found, result, B, t, predictions
<1>7. Compares(found, B)
  <2>1. \A i \in found : \E p : Foretold(p, result[i])
    BY <1>3
  <2>2. /\ \A i, j \in found : Foresight!MoreUrgent(result[i], result[j])
                                 => ~Foresight!MoreUrgent(result[j], result[i])
        /\ \A i, j, k \in found : Foresight!MoreUrgent(result[i], result[k]) =>
             Foresight!MoreUrgent(result[i], result[j]) \/ Foresight!MoreUrgent(result[j], result[k])
    BY <2>1, UrgencyCompares
  <2> QED BY <1>5, <2>2, Zenon DEF Compares
<1>8. /\ t \in [1..c -> found]
      /\ \A i \in found : \E k \in 1..c : t[k] = i
      /\ \A k, l \in 1..c : k < l => t[k] # t[l] /\ <<t[l], t[k]>> \notin B
  BY <1>4, <1>7, Sorted DEF t
<1>9. c \in Nat
  BY <1>4, FS_CardinalityType
<1> HIDE DEF c
<1>10. DOMAIN predictions = 1..c /\ \A k \in 1..c : predictions[k] = result[t[k]] /\ t[k] \in found
  BY <1>1, <1>8
<1>11. Len(predictions) = c
  BY <1>1, <1>9
<1>12. \A k \in 1..c : \E p \in P : Foretold(p, predictions[k])
  BY <1>2, <1>3, <1>10
<1>13. \A i \in found : \E k \in 1..c : predictions[k] = Foresight!Evaluate(points[i])[1]
  BY <1>6, <1>8, <1>10
<1>14. \A k, l \in 1..c : k < l => ~Foresight!MoreUrgent(predictions[l], predictions[k])
  BY <1>5, <1>8, <1>10
<1> QED BY <1>9, <1>10, <1>11, <1>12, <1>13, <1>14 DEF c, found, predictions

\* What a severity costs.
LEMMA Weights ==
  /\ \A s \in DOMAIN Foresight!Weight : Foresight!Weight[s] \in Nat
  /\ \A s \in DOMAIN Foresight!Weight : Foresight!Weight[s] <= 20 => s \in {"medium", "low"}
BY DEF Foresight!Weight

\* A score is between nothing and a hundred, and a good one has no severe alarm.
LEMMA ScoreBounds ==
  ASSUME NEW A, \A a \in A : a.severity \in DOMAIN Foresight!Weight, NEW alarms \in Seq(A),
         NEW predictions, NEW c \in Nat, DOMAIN predictions = 1..c, NEW device
  PROVE  LET score == Foresight!Score(device, alarms, predictions)
         IN  /\ score \in 0..100
             /\ score >= 80 => \A k \in DOMAIN alarms :
                                 alarms[k].device = device => alarms[k].severity \in {"medium", "low"}
<1> DEFINE weights == [i \in DOMAIN alarms |-> Foresight!Weight[alarms[i].severity]]
           own == Foresight!OfDevice(alarms, device)
           penalty == Foresight!SumOver(weights, own)
           failures == Foresight!OfDevice(predictions, device) \cap Foresight!Failures(predictions)
           score == Foresight!Score(device, alarms, predictions)
<1>1. score = Foresight!Clamp(0, 100, 100 - penalty - 20 * Cardinality(failures))
  BY SameSize, Zenon DEF Foresight!Score
<1>2. own \subseteq DOMAIN alarms /\ failures \subseteq 1..c
  BY Zenon DEF Foresight!OfDevice
<1>3. /\ DOMAIN alarms = 1..Len(alarms) /\ Len(alarms) \in Nat
      /\ \A k \in DOMAIN alarms : alarms[k].severity \in DOMAIN Foresight!Weight
  OBVIOUS
<1>4. \A k \in own : weights[k] = Foresight!Weight[alarms[k].severity] /\ weights[k] \in Nat
  BY <1>2, <1>3, Weights
<1>5. \A k \in DOMAIN alarms : alarms[k].device = device => k \in own
  BY Zenon DEF Foresight!OfDevice
<1> HIDE DEF own, weights, failures
<1>6. IsFiniteSet(own)
  <2>1. 1 \in Int /\ Len(alarms) \in Int
    BY <1>3
  <2>2. IsFiniteSet(1..Len(alarms))
    BY <2>1, FS_Interval, Zenon
  <2> QED BY <1>2, <1>3, <2>2, FS_Subset
<1>7. Cardinality(failures) \in Nat
  <2>1. 1 \in Int /\ c \in Int
    OBVIOUS
  <2>2. IsFiniteSet(1..c)
    BY <2>1, FS_Interval, Zenon
  <2> QED BY <1>2, <2>2, FS_Subset, FS_CardinalityType
<1>8. \A k \in own : weights[k] \in Int /\ 0 <= weights[k]
  BY <1>4
<1>9. /\ penalty \in Int
      /\ \A d \in Int : (\A x \in own : d <= weights[x]) => d * Cardinality(own) <= penalty
      /\ \A k \in own : weights[k] <= penalty
  BY <1>6, <1>8, SumBounds
<1>10. 0 <= penalty
  <2>1. 0 * Cardinality(own) <= penalty
    BY <1>8, <1>9
  <2>2. Cardinality(own) \in Nat
    BY <1>6, FS_CardinalityType
  <2> QED BY <2>1, <2>2
<1> HIDE DEF penalty, score
<1>11. score \in 0..100 /\ (score >= 80 => penalty <= 20)
  <2> DEFINE size == Cardinality(failures)
             raw == 100 - penalty - 20 * size
  <2>1. raw \in Int /\ (raw >= 80 => penalty <= 20)
    <3>1. size \in Nat /\ penalty \in Int
      BY <1>7, <1>9
    <3> HIDE DEF size
    <3> QED BY <1>10, <3>1
  <2>2. score = IF raw < 0 THEN 0 ELSE IF raw > 100 THEN 100 ELSE raw
    BY <1>1, Zenon DEF Foresight!Clamp
  <2> HIDE DEF raw
  <2> QED BY <2>1, <2>2
<1>12. ASSUME score >= 80, NEW k \in DOMAIN alarms, alarms[k].device = device
       PROVE  alarms[k].severity \in {"medium", "low"}
  <2>1. k \in own /\ alarms[k].severity \in DOMAIN Foresight!Weight
    BY <1>3, <1>5, <1>12
  <2>2. Foresight!Weight[alarms[k].severity] <= 20
    BY <1>4, <1>9, <1>11, <1>12, <2>1
  <2> QED BY <2>1, <2>2, Weights
<1> QED BY <1>11, <1>12 DEF score

\* A rounded average is between the least and the greatest that is averaged.
LEMMA RoundBetween ==
  ASSUME NEW n \in Nat, n # 0, NEW s \in Int, NEW c \in Int
  PROVE  /\ Foresight!Round(s, n) \in Int
         /\ c * n <= s => c <= Foresight!Round(s, n)
         /\ s <= c * n => Foresight!Round(s, n) <= c
<1> DEFINE q == s \div n
           r == s % n
<1>1. q \in Int /\ r \in Int /\ s = n * q + r /\ 0 <= r /\ r < n
  OBVIOUS
<1>2. Foresight!Round(s, n) = IF 2 * r < n \/ (2 * r = n /\ q % 2 = 0) THEN q ELSE q + 1
  BY DEF Foresight!Round
<1> HIDE DEF q, r
<1> DEFINE d == c - q
<1>3. d \in Int /\ c * n = n * q + d * n
  BY <1>1
<1>4. /\ d >= 1 => d * n >= n
      /\ d <= -1 => d * n <= -n
      /\ d = 0 => d * n = 0
  BY <1>3
<1> HIDE DEF d
<1> DEFINE m == d * n
           k == n * q
<1>5. m \in Int /\ k \in Int
  BY <1>1, <1>3
<1>6. s = k + r /\ c * n = k + m
  BY <1>1, <1>3
<1>7. (d >= 1 => m >= n) /\ (d <= -1 => m <= -n) /\ (d = 0 => m = 0)
  BY <1>4
<1> HIDE DEF m, k
<1>8. c = q + d
  BY <1>1 DEF d
<1>9. c * n <= s => c <= q
  BY <1>1, <1>3, <1>5, <1>6, <1>7, <1>8
<1>10. s <= c * n => q < c \/ (q = c /\ r = 0)
  BY <1>1, <1>3, <1>5, <1>6, <1>7, <1>8
<1> QED BY <1>1, <1>2, <1>9, <1>10

\* Three sets that do not overlap are together as large as their sizes add up to.
LEMMA SizesAdd ==
  ASSUME NEW A, NEW B, NEW C, IsFiniteSet(A), IsFiniteSet(B), IsFiniteSet(C),
         A \cap B = {}, (A \cup B) \cap C = {}
  PROVE  Cardinality((A \cup B) \cup C) = Cardinality(A) + Cardinality(B) + Cardinality(C)
<1>1. /\ Cardinality(A) \in Nat /\ Cardinality(B) \in Nat /\ Cardinality(C) \in Nat
      /\ Cardinality({}) = 0
  BY FS_CardinalityType, FS_EmptySet
<1>2. /\ IsFiniteSet(A \cup B)
      /\ Cardinality(A \cup B) = Cardinality(A) + Cardinality(B) - Cardinality(A \cap B)
  BY FS_Union
<1>3. Cardinality((A \cup B) \cup C)
        = Cardinality(A \cup B) + Cardinality(C) - Cardinality((A \cup B) \cap C)
  BY <1>2, FS_Union
<1>4. /\ Cardinality(A \cup B) = Cardinality(A) + Cardinality(B) - 0
      /\ Cardinality((A \cup B) \cup C) = Cardinality(A \cup B) + Cardinality(C) - 0
  BY <1>1, <1>2, <1>3, Zenon
<1> QED BY <1>1, <1>4

\* The health of one asset follows from the scan and its alarms.
LEMMA OneHealth ==
  ASSUME NEW P, \A p \in P : Measured(p), NEW points \in Seq(P),
         NEW A, \A a \in A : a.severity \in DOMAIN Foresight!Weight, NEW alarms \in Seq(A),
         NEW device
  PROVE  LET health == Foresight!Health(device, alarms, points)
             predictions == Foresight!Scan(points)
             Near(r) == r.device = device /\ r.level # "watch"
         IN  /\ health.score = Foresight!Score(device, alarms, predictions)
             /\ health.score \in 0..100
             /\ health.status = "At-Risk" <=> health.score < 50
             /\ health.rul # None <=> \E k \in DOMAIN predictions : Near(predictions[k])
             /\ \A k \in DOMAIN predictions :
                  Near(predictions[k]) => health.rul <= predictions[k].eta
             /\ health.status = "Healthy" =>
                  \A k \in DOMAIN alarms :
                    alarms[k].device = device => alarms[k].severity \in {"medium", "low"}
<1> DEFINE health == Foresight!Health(device, alarms, points)
           predictions == Foresight!Scan(points)
           c == Cardinality(Foresight!Warned(points))
           score == Foresight!Score(device, alarms, predictions)
           etas == {predictions[i].eta : i \in Foresight!OfDevice(predictions, device)} \ {None}
           Near(r) == r.device = device /\ r.level # "watch"
<1>1. /\ c \in Nat /\ DOMAIN predictions = 1..c
      /\ \A k \in 1..c : \E p \in P : Foretold(p, predictions[k])
  BY ScanIsSorted
<1>2. /\ health.score = score
      /\ health.status = IF score >= 80 THEN "Healthy" ELSE IF score >= 50 THEN "Watch" ELSE "At-Risk"
      /\ health.rul = IF etas = {} THEN None ELSE Foresight!Min(etas)
  BY DEF Foresight!Health, Foresight!HealthBy
<1> HIDE DEF health, c
<1>3. /\ score \in 0..100
      /\ score >= 80 => \A k \in DOMAIN alarms :
                          alarms[k].device = device => alarms[k].severity \in {"medium", "low"}
  <2> HIDE DEF predictions
  <2> QED BY <1>1, ScoreBounds
<1> HIDE DEF score
<1>4. \A i : i \in Foresight!OfDevice(predictions, device)
               <=> i \in DOMAIN predictions /\ predictions[i].device = device
  BY Zenon DEF Foresight!OfDevice
<1>5. \A e : e \in etas <=> \E k \in DOMAIN predictions :
                              predictions[k].device = device /\ predictions[k].eta = e /\ e # None
  BY <1>4
<1> HIDE DEF etas, predictions
<1>6. \A k \in DOMAIN predictions :
        /\ predictions[k].level = "watch" => predictions[k].eta = None
        /\ predictions[k].level # "watch" => predictions[k].eta \in Nat /\ predictions[k].eta # None
  <2>1. None \notin Nat
    BY NoneAssumption
  <2> QED BY <1>1, <2>1 DEF Foretold
<1>7. etas \in SUBSET Nat
  BY <1>5, <1>6
<1>8. etas # {} <=> \E k \in DOMAIN predictions : Near(predictions[k])
  BY <1>5, <1>6
<1>9. etas # {} => Foresight!Min(etas) \in etas /\ \A e \in etas : Foresight!Min(etas) <= e
  <2> SUFFICES ASSUME etas # {}
               PROVE  Foresight!Min(etas) \in etas /\ \A e \in etas : Foresight!Min(etas) <= e
    OBVIOUS
  <2>1. PICK m \in etas : \A e \in etas : m <= e
    BY <1>7, HasLeast
  <2>2. etas \in SUBSET Int
    BY <1>7
  <2> QED BY <2>1, <2>2, LeastIs
<1>10. \A k \in DOMAIN predictions : Near(predictions[k]) => predictions[k].eta \in etas
  BY <1>5, <1>6
<1>11. health.rul # None <=> \E k \in DOMAIN predictions : Near(predictions[k])
  BY <1>2, <1>5, <1>8, <1>9
<1>12. \A k \in DOMAIN predictions : Near(predictions[k]) => health.rul <= predictions[k].eta
  BY <1>2, <1>8, <1>9, <1>10
<1>13. (health.status = "At-Risk" <=> score < 50) /\ (health.status = "Healthy" => score >= 80)
  BY <1>2, <1>3
<1> QED BY <1>2, <1>3, <1>11, <1>12, <1>13 DEF score, health, predictions

\* The scan leaves no warned point out and puts the most urgent first, an asset
\* lives as long as its first failure is away, and the figures of the fleet are
\* those of its assets: for any points, alarms and assets.
THEOREM HealthFollows ==
  ASSUME NEW P, \A p \in P : Measured(p), NEW points \in Seq(P),
         NEW A, \A a \in A : a.severity \in DOMAIN Foresight!Weight, NEW alarms \in Seq(A),
         NEW D, NEW assets \in Seq(D)
  PROVE  Foresight!HealthAgrees(assets, alarms, points)
<1> DEFINE predictions == Foresight!Scan(points)
           found == Foresight!Warned(points)
           c == Cardinality(found)
           n == Len(assets)
           health == [i \in DOMAIN assets |-> Foresight!Health(assets[i], alarms, points)]
           scores == [i \in DOMAIN assets |-> Foresight!Score(assets[i], alarms, predictions)]
           kpi == Foresight!Kpi(assets, alarms, points)
           Level(l) == {i \in DOMAIN predictions : predictions[i].level = l}
           Near(r, d) == r.device = d /\ r.level # "watch"
<1>1. /\ c \in Nat /\ DOMAIN predictions = 1..c /\ Len(predictions) = c
      /\ \A k \in 1..c : \E p \in P : Foretold(p, predictions[k])
      /\ \A i \in found : \E k \in 1..c : predictions[k] = Foresight!Evaluate(points[i])[1]
      /\ \A k, l \in 1..c : k < l => ~Foresight!MoreUrgent(predictions[l], predictions[k])
  BY ScanIsSorted
<1>2. DOMAIN assets = 1..n /\ n \in Nat
  OBVIOUS
<1>3. \A i \in DOMAIN assets :
        /\ health[i].score = scores[i] /\ health[i].score \in 0..100
        /\ health[i].status = "At-Risk" <=> health[i].score < 50
        /\ health[i].rul # None <=> \E k \in DOMAIN predictions : Near(predictions[k], assets[i])
        /\ \A k \in DOMAIN predictions :
             Near(predictions[k], assets[i]) => health[i].rul <= predictions[k].eta
        /\ health[i].status = "Healthy" =>
             \A k \in DOMAIN alarms :
               alarms[k].device = assets[i] => alarms[k].severity \in {"medium", "low"}
  <2> SUFFICES ASSUME NEW i \in DOMAIN assets
               PROVE  LET h == Foresight!Health(assets[i], alarms, points) IN
                      /\ h.score = Foresight!Score(assets[i], alarms, predictions)
                      /\ h.score \in 0..100
                      /\ h.status = "At-Risk" <=> h.score < 50
                      /\ h.rul # None <=>
                           \E k \in DOMAIN predictions : Near(predictions[k], assets[i])
                      /\ \A k \in DOMAIN predictions :
                           Near(predictions[k], assets[i]) => h.rul <= predictions[k].eta
                      /\ h.status = "Healthy" =>
                           \A k \in DOMAIN alarms :
                             alarms[k].device = assets[i] => alarms[k].severity \in {"medium", "low"}
    BY Zenon
  <2> QED BY OneHealth
<1>4. /\ kpi.average = IF n = 0 THEN 100
                       ELSE Foresight!Round(Foresight!SumOver(scores, DOMAIN assets), n)
      /\ kpi.atRisk = Cardinality({i \in DOMAIN assets : scores[i] < 50})
      /\ kpi.failures = Cardinality(Foresight!Failures(predictions))
      /\ \A l \in DOMAIN Foresight!Rank : kpi.levels[l] = Cardinality(Level(l))
  BY SameSize DEF Foresight!Kpi, Foresight!KpiBy
<1>5. kpi.atRisk = Foresight!Cardinality({i \in DOMAIN assets : health[i].status = "At-Risk"})
  <2>1. {i \in DOMAIN assets : scores[i] < 50} = {i \in DOMAIN assets : health[i].status = "At-Risk"}
    <3> HIDE DEF health, scores
    <3> QED BY <1>3
  <2> HIDE DEF health, scores, kpi
  <2> QED BY <1>4, <2>1, SameSize
<1>6. kpi.failures = kpi.levels["critical"] + kpi.levels["high"] + kpi.levels["elevated"]
  <2> DEFINE a == Level("critical")
             b == Level("high")
             e == Level("elevated")
  <2>1. Foresight!Failures(predictions) = (a \cup b) \cup e
    <3>1. \A k \in DOMAIN predictions :
            predictions[k].level \in {"critical", "high", "elevated", "watch"}
      BY <1>1 DEF Foretold, Foresight!Rank
    <3> HIDE DEF predictions
    <3> QED BY <3>1 DEF Foresight!Failures
  <2>2. a \cap b = {} /\ (a \cup b) \cap e = {}
    <3> HIDE DEF predictions
    <3> QED OBVIOUS
  <2>3. a \in SUBSET (1..c) /\ b \in SUBSET (1..c) /\ e \in SUBSET (1..c)
    <3> HIDE DEF predictions, c
    <3> QED BY <1>1
  <2> HIDE DEF a, b, e
  <2>4. IsFiniteSet(a) /\ IsFiniteSet(b) /\ IsFiniteSet(e)
    <3>1. IsFiniteSet(1..c)
      BY <1>1, FS_Interval
    <3> QED BY <2>3, <3>1, FS_Subset
  <2>5. Cardinality((a \cup b) \cup e) = Cardinality(a) + Cardinality(b) + Cardinality(e)
    BY <2>2, <2>4, SizesAdd
  <2>6. /\ kpi.levels["critical"] = Cardinality(a) /\ kpi.levels["high"] = Cardinality(b)
        /\ kpi.levels["elevated"] = Cardinality(e)
    <3>1. {"critical", "high", "elevated"} \subseteq DOMAIN Foresight!Rank
      BY DEF Foresight!Rank
    <3> HIDE DEF kpi, Level
    <3> QED BY <1>4, <3>1 DEF a, b, e
  <2> HIDE DEF kpi, predictions
  <2> QED BY <1>4, <2>1, <2>5, <2>6
<1>7. assets # <<>> => /\ \E i \in DOMAIN assets : health[i].score <= kpi.average
                       /\ \E i \in DOMAIN assets : health[i].score >= kpi.average
  <2> SUFFICES ASSUME assets # <<>>
               PROVE  /\ \E i \in DOMAIN assets : scores[i] <= kpi.average
                      /\ \E i \in DOMAIN assets : scores[i] >= kpi.average
    <3> HIDE DEF health, scores, kpi
    <3> QED BY <1>3
  <2> DEFINE s == Foresight!SumOver(scores, DOMAIN assets)
             v == Foresight!Round(s, n)
  <2>1. n # 0 /\ IsFiniteSet(DOMAIN assets) /\ Cardinality(DOMAIN assets) = n
    <3>1. n # 0 /\ 1 \in Int /\ n \in Int
      BY <1>2
    <3> HIDE DEF n
    <3>2. IsFiniteSet(1..n) /\ Cardinality(1..n) = IF 1 > n THEN 0 ELSE n - 1 + 1
      BY <3>1, FS_Interval, Zenon
    <3> QED BY <1>2, <3>1, <3>2
  <2>2. kpi.average = v
    BY <1>4, <2>1
  <2>3. \A i \in DOMAIN assets : scores[i] \in Int
    <3> HIDE DEF health, scores
    <3>1. \A i \in DOMAIN assets : scores[i] \in 0..100
      BY <1>3, Zenon
    <3>2. \A x \in 0..100 : x \in Int
      OBVIOUS
    <3> HIDE DEF n
    <3> QED BY <3>1, <3>2, Zenon
  <2> HIDE DEF scores, kpi
  <2>4. /\ s \in Int
        /\ \A d \in Int : (\A i \in DOMAIN assets : d <= scores[i]) => d * n <= s
        /\ \A d \in Int : (\A i \in DOMAIN assets : scores[i] <= d) => s <= d * n
    BY <2>1, <2>3, SumBounds
  <2> HIDE DEF s
  <2>5. v \in Int /\ \A d \in Int : (d * n <= s => d <= v) /\ (s <= d * n => v <= d)
    BY <1>2, <2>1, <2>4, RoundBetween
  <2> HIDE DEF v, n
  <2>6. \E i \in DOMAIN assets : scores[i] <= v
    <3> SUFFICES ASSUME \A i \in DOMAIN assets : ~(scores[i] <= v) PROVE FALSE
      OBVIOUS
    <3>1. v + 1 \in Int /\ \A i \in DOMAIN assets : v + 1 <= scores[i]
      BY <2>3, <2>5
    <3>2. v + 1 <= v
      BY <2>4, <2>5, <3>1
    <3> QED BY <2>5, <3>2
  <2>7. \E i \in DOMAIN assets : scores[i] >= v
    <3> SUFFICES ASSUME \A i \in DOMAIN assets : ~(scores[i] >= v) PROVE FALSE
      OBVIOUS
    <3>1. v - 1 \in Int /\ \A i \in DOMAIN assets : scores[i] <= v - 1
      BY <2>3, <2>5
    <3>2. v <= v - 1
      BY <2>4, <2>5, <3>1
    <3> QED BY <2>5, <3>2
  <2> QED BY <2>2, <2>6, <2>7
<1>8. Len(predictions) = Foresight!Cardinality(Foresight!Warned(points))
  BY <1>1, SameSize
<1> HIDE DEF predictions, health, scores, kpi, c, found
<1>9. /\ \A i \in Foresight!Warned(points) : \E k \in DOMAIN predictions :
           predictions[k] = Foresight!Evaluate(points[i])[1]
      /\ \A i, j \in DOMAIN predictions : i < j =>
           ~Foresight!MoreUrgent(predictions[j], predictions[i])
  BY <1>1 DEF found
<1> QED BY <1>3, <1>5, <1>6, <1>7, <1>8, <1>9, Zenon
        DEF Foresight!HealthAgrees, predictions, health, kpi

-----------------------------------------------------------------------------
\* Short sequences.
LEMMA ShortSequences ==
  ASSUME NEW S
  PROVE  /\ <<>> \in Seq(S)
         /\ \A a \in S : <<a>> \in Seq(S)
         /\ \A a, b \in S : <<a, b>> \in Seq(S)
OBVIOUS

\* Every point that is asked about is measured, and every alarm has a severity.
LEMMA AskedMeasured ==
  /\ \A rows \in RowLists : rows \in Seq(ForecastRow)
  /\ \A d, count \in Int, value \in Reading, deviation \in Nat, hardHigh \in Reading,
        rows \in Seq(ForecastRow) :
       Measured(PointOf(d, count, value, deviation, hardHigh, rows))
  /\ \A p \in Assessed : Measured(p)
  /\ \A alarms \in Alarms : alarms \in Seq([device : 1..2, severity : DOMAIN Foresight!Weight])
<1>1. \A made, at, p10, p50, p90 :
        /\ made \in Int /\ at \in Reading /\ p10 \in Reading /\ p50 \in Reading /\ p90 \in Reading
        => Row(made, at, p10, p50, p90) \in ForecastRow
  BY Zenon DEF Row, ForecastRow
<1>2. \A r \in Rows : r \in ForecastRow
  <2> SUFFICES ASSUME NEW made \in {1, 2}, NEW at \in {None, -10, 0, 30, 31, 200},
                      NEW p10 \in {None, -500}, NEW p50 \in {None, -500, 0, 80, 500}
               PROVE  Row(made, at, p10, p50, 500) \in ForecastRow
    BY DEF Rows
  <2>1. /\ made \in Int /\ at \in Reading /\ p10 \in Reading /\ p50 \in Reading
        /\ 500 \in Reading
    BY DEF Reading
  <2> QED BY <1>1, <2>1
<1>3. \A rows \in RowLists : rows \in Seq(ForecastRow)
  <2> SUFFICES ASSUME NEW rows \in RowLists PROVE rows \in Seq(ForecastRow)
    OBVIOUS
  <2>1. rows = <<>> \/ (\E r \in Rows : rows = <<r>>) \/ \E r, s \in Rows : rows = <<r, s>>
    BY DEF RowLists
  <2> QED BY <1>2, <2>1, ShortSequences, Zenon
<1>4. ASSUME NEW d, NEW count \in Int, NEW value \in Reading, NEW deviation \in Nat,
             NEW hardHigh \in Reading, NEW rows \in Seq(ForecastRow)
      PROVE  Measured(PointOf(d, count, value, deviation, hardHigh, rows))
  <2> DEFINE p == PointOf(d, count, value, deviation, hardHigh, rows)
  <2>1. /\ p.value = value /\ p.count = count /\ p.mean = 0 /\ p.deviation = deviation
        /\ p.hardHigh = hardHigh /\ p.hardLow = None /\ p.rows = rows
    BY DEF PointOf
  <2> HIDE DEF p
  <2>2. 0 \in Int /\ None \in Reading
    BY DEF Reading
  <2>3. Measured(p)
    BY <2>1, <2>2, Zenon DEF Measured
  <2> QED BY <2>3 DEF p
<1>5. \A f \in Forecasts : f \in Seq(ForecastRow)
  <2> SUFFICES ASSUME NEW f \in Forecasts PROVE f \in Seq(ForecastRow)
    OBVIOUS
  <2>1. PICK at \in {-10, 3, 130}, p50 \in {0, 500} :
          f = <<Row(1, at, None, p50, None), Row(1, at + 5, None, 100, None)>>
    BY DEF Forecasts
  <2>2. /\ 1 \in Int /\ at \in Reading /\ at + 5 \in Reading /\ None \in Reading
        /\ p50 \in Reading /\ 100 \in Reading
    BY DEF Reading
  <2>3. Row(1, at, None, p50, None) \in ForecastRow /\ Row(1, at + 5, None, 100, None) \in ForecastRow
    BY <1>1, <2>2
  <2> QED BY <2>1, <2>3, ShortSequences
<1>6. \A p \in Assessed : Measured(p)
  <2> SUFFICES ASSUME NEW p \in Assessed PROVE Measured(p)
    OBVIOUS
  <2>1. PICK d \in 1..3, v \in {0, 300}, f \in Forecasts : p = PointOf(d, 8, v, 50, None, f)
    BY DEF Assessed
  <2>2. 8 \in Int /\ v \in Reading /\ 50 \in Nat /\ None \in Reading
    BY DEF Reading
  <2> QED BY <1>4, <1>5, <2>1, <2>2
<1>7. \A alarms \in Alarms : alarms \in Seq([device : 1..2, severity : DOMAIN Foresight!Weight])
  <2> DEFINE Alarm == [device : 1..2, severity : DOMAIN Foresight!Weight]
  <2>1. {"critical", "high", "low", "medium"} \subseteq DOMAIN Foresight!Weight
    BY DEF Foresight!Weight
  <2>2. \A a \in [device : 1..2, severity : {"critical", "high", "low"}] : a \in Alarm
    BY <2>1
  <2>3. \A d \in 1..2, s \in {"critical", "high", "medium"} : [device |-> d, severity |-> s] \in Alarm
    BY <2>1
  <2>4. 1 \in 1..2
    OBVIOUS
  <2> HIDE DEF Alarm
  <2>5. ASSUME NEW alarms \in Alarms PROVE alarms \in Seq(Alarm)
    <3>1. \/ alarms = <<>>
          \/ \E a \in [device : 1..2, severity : {"critical", "high", "low"}] : alarms = <<a>>
          \/ \E d \in 1..2, s \in {"critical", "high"} :
               alarms = <<[device |-> 1, severity |-> s], [device |-> d, severity |-> "medium"]>>
      BY DEF Alarms
    <3>2. alarms = <<>> \/ (\E a \in Alarm : alarms = <<a>>) \/ \E a, b \in Alarm : alarms = <<a, b>>
      BY <2>2, <2>3, <2>4, <3>1
    <3> QED BY <3>2, ShortSequences, Zenon
  <2> QED BY <2>5 DEF Alarm
<1> QED BY <1>3, <1>4, <1>6, <1>7

\* What a call of the predictions or of the health returns is grounded.
LEMMA ForetoldRight == CallNext => PredictionsGrounded'
<1>1. CASE Foretell
  <2>1. PICK value \in {None, 0, 300}, rows \in RowLists, hardHigh \in {None, 100},
             deviation \in {0, 60}, count \in {7, 8} :
          call' = <<PointOf(1, count, value, deviation, hardHigh, rows)>>
    BY <1>1 DEF Foretell
  <2>2. /\ value \in Reading /\ hardHigh \in Reading /\ deviation \in Nat /\ count \in Int
        /\ rows \in Seq(ForecastRow)
    BY AskedMeasured DEF Reading
  <2> DEFINE p == PointOf(1, count, value, deviation, hardHigh, rows)
  <2>3. Measured(p)
    BY <2>2, AskedMeasured
  <2>4. call'[1] = p
    BY <2>1
  <2> HIDE DEF p
  <2>5. Foresight!GroundedFor(p)
    BY <2>3, WarnedWithReason
  <2>6. Foresight!GroundedFor(call'[1])
    BY <2>4, <2>5
  <2>7. topic' = "prediction"
    BY <1>1, Zenon DEF Foretell, Asked
  <2> QED BY <2>6, <2>7, Zenon DEF PredictionsGrounded
<1>2. CASE Assess
  <2>1. PICK first \in Assessed, second \in Assessed, alarms \in Alarms :
          call' = <<<<first, second>>, alarms>>
    BY <1>2, Zenon DEF Assess
  <2>2. call'[1] = <<first, second>> /\ call'[2] = alarms
    BY <2>1
  <2>3. <<first, second>> \in Seq(Assessed)
    BY ShortSequences, Zenon
  <2>4. \A assets \in {<<>>, <<1>>, <<1, 2>>} : assets \in Seq(1..2)
    <3>1. 1 \in 1..2 /\ 2 \in 1..2
      OBVIOUS
    <3> QED BY <3>1, ShortSequences, Zenon
  <2> DEFINE A == [device : 1..2, severity : DOMAIN Foresight!Weight]
  <2>5. alarms \in Seq(A) /\ \A a \in A : a.severity \in DOMAIN Foresight!Weight
    <3>1. alarms \in Seq(A)
      BY AskedMeasured, Zenon
    <3> QED BY <3>1
  <2> HIDE DEF A
  <2>6. \A p \in Assessed : Measured(p)
    BY AskedMeasured, Zenon
  <2>7. \A assets \in {<<>>, <<1>>, <<1, 2>>} :
          Foresight!HealthAgrees(assets, alarms, <<first, second>>)
    BY <2>3, <2>4, <2>5, <2>6, HealthFollows, Zenon
  <2>8. topic' = "health"
    BY <1>2, Zenon DEF Assess, Asked
  <2>9. "health" # "prediction"
    OBVIOUS
  <2> QED BY <2>2, <2>7, <2>8, <2>9, Zenon DEF PredictionsGrounded
<1>3. CASE Send \/ Address \/ Exchange \/ Publish \/ ImportProject
           \/ ImportTable \/ Sweep \/ Probe \/ Multiply \/ Simulate
           \/ Refer \/ Weather
  <2>1. topic' \in {"bus", "address", "forms", "topics", "project", "table", "sweep", "units",
                    "fleet", "signal", "reference", "world"}
    BY <1>3, Zenon DEF Asked, Send, Address, Exchange, Publish, ImportProject, ImportTable, Sweep,
                       Probe, Multiply, Simulate, Refer, Weather
  <2>2. topic' # "prediction" /\ topic' # "health"
    BY <2>1
  <2> QED BY <2>2, Zenon DEF PredictionsGrounded
<1> QED BY <1>1, <1>2, <1>3, Zenon DEF CallNext

\* Predictions and health are grounded in what is known, whatever is asked.
THEOREM PredictionsAreGrounded == CallSpec => []PredictionsGrounded
<1>1. CallInit => PredictionsGrounded
  BY Zenon DEF CallInit, PredictionsGrounded
<1>2. PredictionsGrounded /\ [CallNext]_calculations => PredictionsGrounded'
  <2>1. CASE CallNext
    BY <2>1, ForetoldRight
  <2>2. CASE UNCHANGED calculations
    <3>1. topic' = topic /\ call' = call
      BY <2>2 DEF calculations
    <3> QED BY <3>1, Zenon DEF PredictionsGrounded
  <2> QED BY <2>1, <2>2
<1> QED BY <1>1, <1>2, PTL DEF CallSpec
=============================================================================
