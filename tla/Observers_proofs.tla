---------------------------- MODULE Observers_proofs ----------------------------
(***************************************************************************)
(* What holds of the three parts for any devices, names, clients, messages *)
(* and connections: values and forecasts are in the series of their point, *)
(* whoever is connected is told every message, and memory and bus agree.   *)
(*                                                                         *)
(* Each part has an invariant of its own, about its own steps; at the end  *)
(* they are put together for the behaviours of Observers.                  *)
(***************************************************************************)
EXTENDS Observers, FiniteSetTheorems, SequenceTheorems, WellFoundedInduction, TLAPS

-----------------------------------------------------------------------------
(***************************************************************************)
(* The store: maps                                                         *)
(***************************************************************************)

\* What is put over a map is found there, and the rest is what it was.
LEMMA OverFacts ==
  ASSUME NEW f, NEW g
  PROVE  /\ DOMAIN Over(f, g) = DOMAIN f \cup DOMAIN g
         /\ \A x \in DOMAIN f : Over(f, g)[x] = f[x]
         /\ \A x \in DOMAIN g \ DOMAIN f : Over(f, g)[x] = g[x]
BY DEF Over

\* Maps of points to ids.
Maps == UNION {[S -> 1..MaxId] : S \in SUBSET Points}

LEMMA MapFacts ==
  /\ <<>> \in Maps
  /\ \A f \in Maps : DOMAIN f \subseteq Points /\ \A p \in DOMAIN f : f[p] \in 1..MaxId
  /\ \A f, g \in Maps : Over(f, g) \in Maps
  /\ \A p \in Points, i \in 1..MaxId : Single(p, i) \in Maps
<1>1. <<>> \in Maps
  <2>1. <<>> \in [{} -> 1..MaxId]
    OBVIOUS
  <2> QED BY <2>1 DEF Maps
<1>2. \A f \in Maps : DOMAIN f \subseteq Points /\ \A p \in DOMAIN f : f[p] \in 1..MaxId
  BY DEF Maps
<1>3. ASSUME NEW f \in Maps, NEW g \in Maps PROVE Over(f, g) \in Maps
  <2>1. Over(f, g) \in [DOMAIN f \cup DOMAIN g -> 1..MaxId]
    BY <1>2 DEF Over
  <2> QED BY <1>2, <2>1 DEF Maps
<1>4. ASSUME NEW p \in Points, NEW i \in 1..MaxId PROVE Single(p, i) \in Maps
  <2>1. Single(p, i) \in [{p} -> 1..MaxId]
    BY DEF Single
  <2> QED BY <2>1 DEF Maps
<1> QED BY <1>1, <1>2, <1>3, <1>4

-----------------------------------------------------------------------------
(***************************************************************************)
(* The store: types                                                        *)
(***************************************************************************)

Pointed == {d \in Devices : NamesOf[d] # <<>>}
Transaction == [todo : Seq(Pointed), at : Nat \ {0}, rows : Maps, running : BOOLEAN]

Types ==
  /\ known \subseteq Devices
  /\ open \in [Tasks -> Transaction]
  /\ \A t \in Tasks : open[t].todo # <<>> => open[t].at <= Len(NamesOf[Head(open[t].todo)])
  /\ table \in Maps
  /\ nextId \in Nat \ {0}

LEMMA IdleTypes == Idle \in Transaction /\ Idle.rows = <<>> /\ Idle.todo = <<>>
<1>1. <<>> \in Seq(Pointed)
  BY EmptySeq
<1> QED BY <1>1, MapFacts DEF Idle, Transaction

LEMMA RegisteringFacts ==
  ASSUME StoreAssumption, Types, NEW t \in Tasks, NEW connected,
         NEW devs \in SUBSET Devices, Registering(t, connected, devs)
  PROVE  /\ open' \in [Tasks -> Transaction]
         /\ \A u \in Tasks : u # t => open'[u] = open[u]
         /\ open'[t] = open[t] \/ (open'[t].rows = <<>> /\ open'[t].at = 1)
<1> DEFINE S == {d \in devs : NamesOf[d] # <<>>}
<1>1. PICK order \in SetToSeqs(S) :
        open' = [open EXCEPT ![t] = IF connected THEN [Idle EXCEPT !.todo = order, !.running = TRUE]
                                    ELSE @]
  BY DEF Registering
<1>2. order \in Seq(Pointed)
  <2>1. IsFiniteSet(S) /\ S \subseteq Pointed
    BY FS_Subset DEF StoreAssumption, Pointed
  <2>2. Cardinality(S) \in Nat
    BY <2>1, FS_CardinalityType
  <2>3. order \in [1..Cardinality(S) -> S]
    BY DEF SetToSeqs
  <2> HIDE DEF S
  <2>4. order \in [1..Cardinality(S) -> Pointed]
    BY <2>1, <2>3
  <2> QED BY <2>2, <2>4
<1>3. [Idle EXCEPT !.todo = order, !.running = TRUE] \in Transaction
  BY <1>2, IdleTypes DEF Transaction, Idle
<1>4. /\ [Idle EXCEPT !.todo = order, !.running = TRUE].rows = <<>>
      /\ [Idle EXCEPT !.todo = order, !.running = TRUE].at = 1
  BY DEF Idle
<1>5. open \in [Tasks -> Transaction]
  BY DEF Types
<1> DEFINE begun == [Idle EXCEPT !.todo = order, !.running = TRUE]
<1> HIDE DEF S, begun
<1>6. \E x \in Transaction : /\ open' = [open EXCEPT ![t] = x]
                             /\ x = open[t] \/ (x.rows = <<>> /\ x.at = 1)
  <2>1. CASE connected
    BY <1>1, <1>3, <1>4, <2>1 DEF begun
  <2>2. CASE ~connected
    BY <1>1, <1>5, <2>2
  <2> QED BY <2>1, <2>2
<1> QED BY <1>5, <1>6

\* The point in work is one of the device in work.
LEMMA NextPointType ==
  ASSUME StoreAssumption, Types, NEW t \in Tasks, open[t].todo # <<>>
  PROVE  NextPoint(t) \in Points
<1>1. open[t] \in Transaction
  BY DEF Types
<1>2. Head(open[t].todo) \in Pointed
  BY <1>1, HeadTailProperties DEF Transaction
<1>3. open[t].at \in DOMAIN NamesOf[Head(open[t].todo)]
  BY <1>1, <1>2 DEF Types, StoreAssumption, Pointed, Transaction
<1> QED BY <1>2, <1>3 DEF NextPoint, Points, Pointed

\* What is left is one point or one device less.
LEMMA LeftFacts ==
  ASSUME StoreAssumption, Types, NEW t \in Tasks, open[t].todo # <<>>
  PROVE  /\ Left(t) \in Transaction /\ Left(t).rows = Rows(t)
         /\ Left(t).todo # <<>> => Left(t).at <= Len(NamesOf[Head(Left(t).todo)])
<1>1. open[t] \in Transaction
  BY DEF Types
<1>2. /\ Head(open[t].todo) \in Pointed /\ Tail(open[t].todo) \in Seq(Pointed)
      /\ open[t].at \in Nat \ {0} /\ open[t].at <= Len(NamesOf[Head(open[t].todo)])
  BY <1>1, HeadTailProperties DEF Transaction, Types
<1>3. \A d \in Pointed : Len(NamesOf[d]) \in Nat \ {0}
  BY DEF StoreAssumption, Pointed
<1>4. CASE open[t].at < Len(NamesOf[Head(open[t].todo)])
  <2>1. Left(t) = [open[t] EXCEPT !.at = open[t].at + 1]
    BY <1>4 DEF Left
  <2> QED BY <1>1, <1>2, <1>3, <1>4, <2>1 DEF Transaction, Rows
<1>5. CASE ~(open[t].at < Len(NamesOf[Head(open[t].todo)]))
  <2>1. Left(t) = [open[t] EXCEPT !.at = 1, !.todo = Tail(open[t].todo)]
    BY <1>5 DEF Left
  <2>2. /\ Left(t) \in Transaction /\ Left(t).rows = Rows(t) /\ Left(t).at = 1
        /\ Left(t).todo = Tail(open[t].todo)
    <3> DEFINE rest == Tail(open[t].todo)
    <3>1. rest \in Seq(Pointed)
      BY <1>2
    <3>2. Left(t) = [open[t] EXCEPT !.at = 1, !.todo = rest]
      BY <2>1
    <3> HIDE DEF rest
    <3>3. Left(t) = [todo |-> rest, at |-> 1, rows |-> open[t].rows, running |-> open[t].running]
      BY <1>1, <3>2 DEF Transaction
    <3>4. open[t].rows \in Maps /\ open[t].running \in BOOLEAN
      BY <1>1 DEF Transaction
    <3>5. Left(t) \in Transaction
      BY <3>1, <3>3, <3>4 DEF Transaction
    <3> QED BY <3>3, <3>5 DEF rest, Rows
  <2>3. Left(t).todo # <<>> => Head(Left(t).todo) \in Pointed
    BY <2>2, HeadTailProperties DEF Transaction
  <2> QED BY <1>3, <2>2, <2>3
<1> QED BY <1>4, <1>5

LEMMA TypesStep == StoreAssumption /\ Types /\ [HistorianNext]_history => Types'
<1> SUFFICES ASSUME StoreAssumption, Types, [HistorianNext]_history PROVE Types'
  OBVIOUS
<1> USE DEF used
<1>a. ASSUME NEW t \in Tasks, NEW x \in Transaction, open' = [open EXCEPT ![t] = x],
             x.todo # <<>> => x.at <= Len(NamesOf[Head(x.todo)]),
             known' = known, table' \in Maps, nextId' \in Nat \ {0}
      PROVE  Types'
  BY <1>a DEF Types
<1>b. ASSUME NEW t \in Tasks, NEW connected, NEW devs \in SUBSET Devices,
             Registering(t, connected, devs), UNCHANGED <<table, nextId>>, known' \subseteq Devices
      PROVE  Types'
  <2>1. /\ open' \in [Tasks -> Transaction]
        /\ \A u \in Tasks : u # t => open'[u] = open[u]
        /\ open'[t] = open[t] \/ (open'[t].rows = <<>> /\ open'[t].at = 1)
    BY <1>b, RegisteringFacts
  <2>2. ASSUME NEW u \in Tasks, open'[u].todo # <<>>, open'[u].at = 1
        PROVE  open'[u].at <= Len(NamesOf[Head(open'[u].todo)])
    <3>1. Head(open'[u].todo) \in Pointed
      BY <2>1, <2>2, HeadTailProperties DEF Transaction
    <3> QED BY <2>2, <3>1 DEF Pointed, StoreAssumption
  <2> QED BY <1>b, <2>1, <2>2 DEF Types
<1>1. CASE Start
  BY <1>b, <1>1 DEF Start, Types, StoreAssumption
<1>2. ASSUME NEW t \in Tasks, NEW d \in Devices, Add(t, d) PROVE Types'
  BY <1>b, <1>2 DEF Add, Types
<1>3. ASSUME NEW t \in Tasks, UpsertPoint(t) PROVE Types'
  <2> DEFINE p == NextPoint(t)
             i == IdFor(t, p)
             x == [Left(t) EXCEPT !.rows = Over(@, Single(p, i))]
  <2>1. /\ open[t].todo # <<>> /\ i <= MaxId /\ open' = [open EXCEPT ![t] = x]
        /\ nextId' = IF i = nextId THEN nextId + 1 ELSE nextId
        /\ UNCHANGED <<known, table>>
    BY <1>3 DEF UpsertPoint, Inserted
  <2>2. p \in Points
    BY <2>1, NextPointType
  <2>3. Left(t) \in Transaction /\ Left(t).rows \in Maps
    BY <2>1, LeftFacts DEF Transaction
  <2>4. open[t].rows \in Maps
    BY DEF Types, Transaction
  <2>5. i \in 1..MaxId
    BY <2>1, <2>4, MapFacts DEF Types, StoreAssumption, IdFor, Rows
  <2> HIDE DEF p, i
  <2>6. Over(Left(t).rows, Single(p, i)) \in Maps
    BY <2>2, <2>3, <2>5, MapFacts
  <2>7. x \in Transaction /\ x.todo = Left(t).todo /\ x.at = Left(t).at
    BY <2>3, <2>6 DEF Transaction
  <2> HIDE DEF x
  <2>8. x.todo # <<>> => x.at <= Len(NamesOf[Head(x.todo)])
    BY <2>1, <2>7, LeftFacts
  <2> QED BY <1>a, <2>1, <2>7, <2>8 DEF Types
<1>4. ASSUME NEW t \in Tasks, Commit(t) \/ Rollback(t) PROVE Types'
  <2>1. open' = [open EXCEPT ![t] = Idle] /\ UNCHANGED <<known, nextId>>
    BY <1>4 DEF Commit, Rollback, Ends
  <2>2. open[t].rows \in Maps
    BY DEF Types, Transaction
  <2>3. table' \in Maps
    BY <1>4, <2>2, MapFacts DEF Commit, Rollback, Ends, Types, Rows
  <2> QED BY <1>a, <2>1, <2>3, IdleTypes DEF Types
<1>5. CASE Restart
  BY <1>5, IdleTypes DEF Restart, Types
<1>6. CASE Sample \/ StoreForecast \/ (\E p \in Points : FetchSeries(p[2])) \/ UNCHANGED history
  BY <1>6 DEF Sample, StoreForecast, FetchSeries, history, Types
<1> QED BY <1>1, <1>2, <1>3, <1>4, <1>5, <1>6 DEF HistorianNext

-----------------------------------------------------------------------------
(***************************************************************************)
(* The store: ids                                                          *)
(***************************************************************************)

\* A point has an id in the table or in a transaction that has not ended.
Given(p, i) ==
  \/ p \in DOMAIN table /\ table[p] = i
  \/ \E t \in Tasks : p \in DOMAIN Rows(t) /\ Rows(t)[p] = i

\* A point has one id and an id has one point; ids still to come are unused.
IdsAreUnique ==
  \A p \in Points, i \in 1..MaxId : Given(p, i) =>
    /\ i < nextId
    /\ \A j \in 1..MaxId : Given(p, j) => j = i
    /\ \A q \in Points : Given(q, i) => q = p

\* An id that is in the cache is that of a point of the name, if it is still
\* of any; and a point that alone has its name finds its own id there.
CacheIsRight ==
  /\ \A n \in DOMAIN cache : cache[n] \in 1..MaxId
  /\ \A n \in DOMAIN cache, i \in 1..MaxId : cache[n] = i =>
       /\ i < nextId
       /\ \A p \in Points : Given(p, i) => p[2] = n
  /\ \A p \in Points, i \in 1..MaxId :
       Sole(p) /\ p[2] \in DOMAIN cache /\ Given(p, i) => cache[p[2]] = i

ReadingIsRight ==
  \A r \in reading : /\ r.point \in Points /\ r.id \in 1..MaxId /\ r.id < nextId
                     /\ \A p \in Points : Given(p, r.id) => p[2] = r.point[2]

NamedIn(name, id) == \E p \in DOMAIN table : p[2] = name /\ table[p] = id

ForecastIsRight ==
  /\ forecast \subseteq [name : {p[2] : p \in Points}, from : 0..MaxId, to : 0..MaxId]
  /\ \A f \in forecast : /\ f.from # None => NamedIn(f.name, f.from)
                         /\ f.to # None => NamedIn(f.name, f.to)

StoreInv == Types /\ IdsAreUnique /\ CacheIsRight /\ ReadingIsRight /\ ForecastIsRight

\* Ids in use belong to points and are within the bound.
LEMMA GivenTypes ==
  ASSUME Types, NEW p, NEW i, Given(p, i)
  PROVE  p \in Points /\ i \in 1..MaxId
<1>1. \A t \in Tasks : Rows(t) \in Maps
  BY DEF Types, Transaction, Rows
<1> QED BY <1>1, MapFacts DEF Given, Types

\* What an upsert does to the ids.
LEMMA UpsertFacts ==
  ASSUME StoreAssumption, StoreInv, NEW t \in Tasks, UpsertPoint(t)
  PROVE  \E p \in Points, i \in 1..MaxId :
           /\ Given(p, i) \/ i = nextId
           /\ \A j \in 1..MaxId : Given(p, j) => j = i
           /\ \A q, j : Given(q, j)' => Given(q, j) \/ (q = p /\ j = i)
           /\ nextId' = IF i = nextId THEN nextId + 1 ELSE nextId
           /\ cache' = Over(Single(p[2], i), cache)
           /\ UNCHANGED <<table, reading, forecast>>
<1> DEFINE p == NextPoint(t)
           i == IdFor(t, p)
           x == [Left(t) EXCEPT !.rows = Over(@, Single(p, i))]
<1>1. /\ open[t].todo # <<>> /\ i <= MaxId /\ ~Locked(t, p)
      /\ open' = [open EXCEPT ![t] = x]
      /\ nextId' = IF i = nextId THEN nextId + 1 ELSE nextId
      /\ cache' = Over(Single(p[2], i), cache)
      /\ UNCHANGED <<table, reading, forecast>>
  BY DEF UpsertPoint, Inserted, used
<1>2. p \in Points
  BY <1>1, NextPointType DEF StoreInv
<1>3. Rows(t) \in Maps /\ table \in Maps /\ nextId \in Nat \ {0}
  BY DEF StoreInv, Types, Transaction, Rows
<1>4. i \in 1..MaxId
  BY <1>1, <1>3, MapFacts DEF StoreAssumption, IdFor
<1>5. Given(p, i) \/ i = nextId
  BY DEF Given, IdFor
<1>6. ASSUME NEW j \in 1..MaxId, Given(p, j) PROVE j = i
  <2>1. CASE i = nextId /\ ~Given(p, i)
    <3>1. p \notin DOMAIN Rows(t) /\ p \notin DOMAIN table
      BY <2>1 DEF Given, IdFor
    <3>2. \A u \in Tasks : p \notin DOMAIN Rows(u)
      BY <1>1, <3>1 DEF Locked
    <3> QED BY <1>6, <3>1, <3>2 DEF Given
  <2>2. CASE Given(p, i)
    BY <1>2, <1>4, <1>6, <2>2 DEF StoreInv, IdsAreUnique
  <2> QED BY <1>5, <2>1, <2>2
<1>7. ASSUME NEW q, NEW j, Given(q, j)' PROVE Given(q, j) \/ (q = p /\ j = i)
  <2>1. Left(t) \in Transaction /\ Left(t).rows = Rows(t)
    BY <1>1, LeftFacts DEF StoreInv
  <2> HIDE DEF p, i
  <2>2. x.rows = Over(Rows(t), Single(p, i))
    BY <2>1 DEF Transaction
  <2>3. \A u \in Tasks : Rows(u)' = IF u = t THEN Over(Rows(t), Single(p, i)) ELSE Rows(u)
    <3> HIDE DEF x
    <3> QED BY <1>1, <2>2 DEF StoreInv, Types, Rows
  <2>4. CASE q \in DOMAIN table' /\ table'[q] = j
    BY <1>1, <2>4 DEF Given
  <2>5. ASSUME NEW u \in Tasks, q \in DOMAIN Rows(u)', Rows(u)'[q] = j
        PROVE  Given(q, j) \/ (q = p /\ j = i)
    <3>1. CASE u # t
      BY <2>3, <2>5, <3>1 DEF Given
    <3>2. CASE u = t
      <4>1. q \in DOMAIN Over(Rows(t), Single(p, i)) /\ Over(Rows(t), Single(p, i))[q] = j
        BY <2>3, <2>5, <3>2
      <4>2. \/ q \in DOMAIN Rows(t) /\ Rows(t)[q] = j
            \/ q = p /\ j = i
        BY <4>1 DEF Over, Single
      <4> QED BY <4>2 DEF Given
    <3> QED BY <3>1, <3>2
  <2> QED BY <1>7, <2>4, <2>5 DEF Given
<1> HIDE DEF p, i, x
<1> QED BY <1>1, <1>2, <1>4, <1>5, <1>6, <1>7

LEMMA UpsertStep ==
  ASSUME StoreAssumption, StoreInv, NEW t \in Tasks, UpsertPoint(t)
  PROVE  (IdsAreUnique /\ CacheIsRight /\ ReadingIsRight /\ ForecastIsRight)'
<1>1. PICK p \in Points, i \in 1..MaxId :
        /\ Given(p, i) \/ i = nextId
        /\ \A j \in 1..MaxId : Given(p, j) => j = i
        /\ \A q, j : Given(q, j)' => Given(q, j) \/ (q = p /\ j = i)
        /\ nextId' = IF i = nextId THEN nextId + 1 ELSE nextId
        /\ cache' = Over(Single(p[2], i), cache)
        /\ UNCHANGED <<table, reading, forecast>>
  BY UpsertFacts
<1>2. nextId \in Nat \ {0} /\ MaxId \in Nat
  BY DEF StoreInv, Types, StoreAssumption
<1>3. nextId' \in Nat /\ i < nextId' /\ nextId <= nextId' /\ i <= nextId
  BY <1>1, <1>2 DEF StoreInv, IdsAreUnique
\* The point has the id it had, or one that nobody and nothing has.
<1>4. ASSUME NEW q \in Points, Given(q, i) PROVE q = p
  BY <1>1, <1>2, <1>4 DEF StoreInv, IdsAreUnique
<1>5. IdsAreUnique'
  <2>1. ASSUME NEW q \in Points, NEW j \in 1..MaxId, Given(q, j)'
        PROVE  /\ j < nextId'
               /\ \A k \in 1..MaxId : Given(q, k)' => k = j
               /\ \A s \in Points : Given(s, j)' => s = q
    <3>1. Given(q, j) \/ (q = p /\ j = i)
      BY <1>1, <2>1
    <3>2. j < nextId'
      BY <1>2, <1>3, <3>1 DEF StoreInv, IdsAreUnique
    <3>3. ASSUME NEW k \in 1..MaxId, Given(q, k)' PROVE k = j
      <4>1. Given(q, k) \/ (q = p /\ k = i)
        BY <1>1, <3>3
      <4> QED BY <1>1, <3>1, <4>1 DEF StoreInv, IdsAreUnique
    <3>4. ASSUME NEW s \in Points, Given(s, j)' PROVE s = q
      <4>1. Given(s, j) \/ (s = p /\ j = i)
        BY <1>1, <3>4
      <4> QED BY <1>4, <3>1, <4>1 DEF StoreInv, IdsAreUnique
    <3> QED BY <3>2, <3>3, <3>4
  <2> QED BY <2>1 DEF IdsAreUnique
\* An id that was in use stays with points of its name.
<1>6. ASSUME NEW k \in 1..MaxId, k < nextId, NEW name, \A q \in Points : Given(q, k) => q[2] = name,
             NEW q \in Points, Given(q, k)'
      PROVE  q[2] = name
  BY <1>1, <1>2, <1>6
<1>7. CacheIsRight'
  <2>1. /\ DOMAIN cache' = DOMAIN cache \cup {p[2]}
        /\ cache'[p[2]] = i
        /\ \A n \in DOMAIN cache : n # p[2] => cache'[n] = cache[n]
    BY <1>1 DEF Over, Single
  <2>2. ASSUME NEW n \in DOMAIN cache', NEW k \in 1..MaxId, cache'[n] = k
        PROVE  k < nextId' /\ \A q \in Points : Given(q, k)' => q[2] = n
    <3>1. CASE n = p[2]
      <4>1. k = i
        BY <2>1, <2>2, <3>1
      <4>2. \A q \in Points : Given(q, i)' => q = p
        BY <1>1, <1>4
      <4> QED BY <1>3, <3>1, <4>1, <4>2
    <3>2. CASE n # p[2]
      <4>1. k < nextId /\ \A q \in Points : Given(q, k) => q[2] = n
        BY <2>1, <2>2, <3>2 DEF StoreInv, CacheIsRight
      <4>2. \A q \in Points : Given(q, k)' => q[2] = n
        BY <1>6, <4>1
      <4> QED BY <1>2, <1>3, <4>1, <4>2
    <3> QED BY <3>1, <3>2
  <2>4. \A n \in DOMAIN cache' : cache'[n] \in 1..MaxId
    BY <2>1 DEF StoreInv, CacheIsRight
  <2>3. ASSUME NEW q \in Points, NEW j \in 1..MaxId, Sole(q), q[2] \in DOMAIN cache', Given(q, j)'
        PROVE  cache'[q[2]] = j
    <3>1. Given(q, j) \/ (q = p /\ j = i)
      BY <1>1, <2>3
    <3>2. CASE q[2] = p[2]
      <4>1. q = p
        BY <2>3, <3>2 DEF Sole
      <4> QED BY <1>1, <2>1, <3>1, <4>1
    <3>3. CASE q[2] # p[2]
      BY <2>1, <2>3, <3>1, <3>3 DEF StoreInv, CacheIsRight
    <3> QED BY <3>2, <3>3
  <2> QED BY <2>2, <2>3, <2>4 DEF CacheIsRight, Sole
<1>8. ReadingIsRight'
  <2>1. ASSUME NEW r \in reading
        PROVE  /\ r.point \in Points /\ r.id \in 1..MaxId /\ r.id < nextId'
               /\ \A q \in Points : Given(q, r.id)' => q[2] = r.point[2]
    <3>1. /\ r.point \in Points /\ r.id \in 1..MaxId /\ r.id < nextId
          /\ \A q \in Points : Given(q, r.id) => q[2] = r.point[2]
      BY DEF StoreInv, ReadingIsRight
    <3>2. r.id < nextId'
      BY <1>2, <1>3, <3>1
    <3>3. ASSUME NEW k \in 1..MaxId, k = r.id, NEW q \in Points, Given(q, k)'
          PROVE  q[2] = r.point[2]
      <4>1. k < nextId /\ \A s \in Points : Given(s, k) => s[2] = r.point[2]
        BY <3>1, <3>3
      <4> QED BY <1>6, <3>3, <4>1
    <3> QED BY <3>1, <3>2, <3>3
  <2> QED BY <1>1, <2>1 DEF ReadingIsRight
<1>9. ForecastIsRight'
  BY <1>1 DEF StoreInv, ForecastIsRight, NamedIn
<1> QED BY <1>5, <1>7, <1>8, <1>9

\* Any other step makes no id: what it leaves in use was in use, and what is
\* in the table stays there.
LEMMA NoNewIds ==
  ASSUME StoreInv,
         \A p, i : Given(p, i)' => Given(p, i),
         nextId' = nextId,
         cache' = cache \/ cache' = <<>>,
         \A p \in DOMAIN table : p \in DOMAIN table' /\ table'[p] = table[p]
  PROVE  /\ IdsAreUnique' /\ CacheIsRight'
         /\ reading' = reading => ReadingIsRight'
         /\ forecast' \subseteq forecast => ForecastIsRight'
<1>1. IdsAreUnique'
  BY DEF StoreInv, IdsAreUnique
<1>2. CacheIsRight'
  BY DEF StoreInv, CacheIsRight, Sole
<1>3. reading' = reading => ReadingIsRight'
  BY DEF StoreInv, ReadingIsRight
<1>4. forecast' \subseteq forecast => ForecastIsRight'
  BY DEF StoreInv, ForecastIsRight, NamedIn
<1> QED BY <1>1, <1>2, <1>3, <1>4

LEMMA StoreStep == StoreAssumption /\ StoreInv /\ [HistorianNext]_history => StoreInv'
<1> SUFFICES ASSUME StoreAssumption, StoreInv, [HistorianNext]_history
             PROVE  (IdsAreUnique /\ CacheIsRight /\ ReadingIsRight /\ ForecastIsRight)'
  BY TypesStep DEF StoreInv
<1> USE DEF used
<1>0. Types
  BY DEF StoreInv
<1>a. ASSUME \A t \in Tasks : Rows(t)' = Rows(t) \/ Rows(t)' = <<>>, table' = table
      PROVE  \A p, i : Given(p, i)' => Given(p, i)
  BY <1>a DEF Given
<1>b. ASSUME NEW t \in Tasks, NEW connected, NEW devs \in SUBSET Devices,
             Registering(t, connected, devs), UNCHANGED <<table, nextId, cache, used>>
      PROVE  (IdsAreUnique /\ CacheIsRight /\ ReadingIsRight /\ ForecastIsRight)'
  <2>1. \A u \in Tasks : Rows(u)' = Rows(u) \/ Rows(u)' = <<>>
    BY <1>0, <1>b, RegisteringFacts DEF Rows
  <2> QED BY <1>a, <1>b, <2>1, NoNewIds
<1>1. CASE Start
  BY <1>0, <1>1, <1>b DEF Start, StoreAssumption, Types
<1>2. ASSUME NEW t \in Tasks, NEW d \in Devices, Add(t, d)
      PROVE  (IdsAreUnique /\ CacheIsRight /\ ReadingIsRight /\ ForecastIsRight)'
  <2>1. Registering(t, ready, {d}) /\ UNCHANGED <<ready, table, nextId, cache, used>>
    BY <1>2 DEF Add
  <2> QED BY <1>b, <2>1 DEF StoreInv, Types
<1>3. ASSUME NEW t \in Tasks, UpsertPoint(t)
      PROVE  (IdsAreUnique /\ CacheIsRight /\ ReadingIsRight /\ ForecastIsRight)'
  BY <1>3, UpsertStep
<1>4. ASSUME NEW t \in Tasks, Rollback(t)
      PROVE  (IdsAreUnique /\ CacheIsRight /\ ReadingIsRight /\ ForecastIsRight)'
  <2>1. open' = [open EXCEPT ![t] = Idle] /\ UNCHANGED <<table, nextId, cache, used>>
    BY <1>4 DEF Rollback, Ends
  <2>2. \A u \in Tasks : Rows(u)' = Rows(u) \/ Rows(u)' = <<>>
    BY <1>0, <2>1, IdleTypes DEF Types, Rows
  <2> QED BY <1>a, <2>1, <2>2, NoNewIds
<1>5. ASSUME NEW t \in Tasks, Commit(t)
      PROVE  (IdsAreUnique /\ CacheIsRight /\ ReadingIsRight /\ ForecastIsRight)'
  <2>1. /\ open' = [open EXCEPT ![t] = Idle] /\ table' = Over(Rows(t), table)
        /\ UNCHANGED <<nextId, cache, used>>
    BY <1>5 DEF Commit, Ends
  <2>2. \A u \in Tasks : Rows(u)' = IF u = t THEN <<>> ELSE Rows(u)
    BY <1>0, <2>1, IdleTypes DEF Types, Rows
  <2>3. ASSUME NEW p, NEW i, Given(p, i)' PROVE Given(p, i)
    <3>1. CASE p \in DOMAIN table' /\ table'[p] = i
      BY <2>1, <3>1 DEF Over, Given
    <3>2. CASE \E u \in Tasks : p \in DOMAIN Rows(u)' /\ Rows(u)'[p] = i
      BY <2>2, <3>2 DEF Given
    <3> QED BY <2>3, <3>1, <3>2 DEF Given
  <2>4. ASSUME NEW p \in DOMAIN table PROVE p \in DOMAIN table' /\ table'[p] = table[p]
    <3>1. CASE p \in DOMAIN Rows(t)
      <4>1. Given(p, Rows(t)[p]) /\ Given(p, table[p])
        BY <3>1 DEF Given
      <4>2. Rows(t)[p] = table[p]
        BY <1>0, <4>1, GivenTypes DEF StoreInv, IdsAreUnique
      <4> QED BY <2>1, <3>1, <4>2 DEF Over
    <3>2. CASE p \notin DOMAIN Rows(t)
      BY <2>1, <3>2 DEF Over
    <3> QED BY <3>1, <3>2
  <2> QED BY <2>1, <2>3, <2>4, NoNewIds
<1>6. CASE Sample
  <2>1. UNCHANGED <<open, table, nextId, cache, forecast>>
    BY <1>6 DEF Sample
  <2>2. IdsAreUnique' /\ CacheIsRight' /\ ForecastIsRight'
    BY <1>a, <2>1, NoNewIds DEF Rows
  <2>3. PICK p \in Points : p[2] \in DOMAIN cache /\ reading' = {[point |-> p, id |-> cache[p[2]]]}
    BY <1>6 DEF Sample
  <2>4. PICK i \in 1..MaxId : cache[p[2]] = i
    BY <2>3 DEF StoreInv, CacheIsRight
  <2>5. i < nextId /\ \A q \in Points : Given(q, i) => q[2] = p[2]
    BY <2>3, <2>4 DEF StoreInv, CacheIsRight
  <2>6. \A q \in Points : Given(q, i)' => Given(q, i)
    BY <2>1 DEF Given, Rows
  <2>7. reading' = {[point |-> p, id |-> i]}
    BY <2>3, <2>4
  <2>8. ReadingIsRight'
    <3>1. ASSUME NEW r \in reading' PROVE r.point = p /\ r.id = i
      BY <2>7
    <3> QED BY <2>1, <2>5, <2>6, <3>1 DEF ReadingIsRight
  <2> QED BY <2>2, <2>8
<1>7. CASE StoreForecast \/ (\E p \in Points : FetchSeries(p[2]))
  <2>1. UNCHANGED <<open, table, nextId, cache, reading>>
    BY <1>7 DEF StoreForecast, FetchSeries
  <2>2. IdsAreUnique' /\ CacheIsRight' /\ ReadingIsRight'
    BY <1>a, <2>1, NoNewIds DEF Rows
  <2>3. \A name, id : id \in Resolved(name) => NamedIn(name, id) /\ id \in 1..MaxId
    BY <1>0, MapFacts DEF Resolved, NamedIn, Types
  <2>4. ASSUME NEW f \in forecast, NEW id \in Resolved(f.name), forecast' = {[f EXCEPT !.to = id]}
        PROVE  ForecastIsRight'
    <3>1. /\ f \in [name : {p[2] : p \in Points}, from : 0..MaxId, to : 0..MaxId]
          /\ f.from # None => NamedIn(f.name, f.from)
      BY DEF StoreInv, ForecastIsRight
    <3>2. id \in 0..MaxId /\ NamedIn(f.name, id)
      BY <2>3
    <3> DEFINE g == [f EXCEPT !.to = id]
    <3>3. /\ g \in [name : {p[2] : p \in Points}, from : 0..MaxId, to : 0..MaxId]
          /\ g.name = f.name /\ g.from = f.from /\ g.to = id
      BY <3>1, <3>2
    <3>4. forecast' = {g}
      BY <2>4
    <3> HIDE DEF g
    <3> QED BY <2>1, <3>1, <3>2, <3>3, <3>4 DEF ForecastIsRight, NamedIn
  <2>5. ASSUME NEW p \in Points, NEW id \in Resolved(p[2]) \cup {None},
               forecast' = {[name |-> p[2], from |-> id, to |-> None]}
        PROVE  ForecastIsRight'
    <3> DEFINE name == p[2]
               g == [name |-> name, from |-> id, to |-> None]
    <3>1. id \in 0..MaxId /\ (id # None => NamedIn(name, id))
      BY <2>3 DEF None, StoreAssumption
    <3>2. /\ g \in [name : {q[2] : q \in Points}, from : 0..MaxId, to : 0..MaxId]
          /\ g.name = name /\ g.from = id /\ g.to = None
      BY <3>1 DEF None, StoreAssumption
    <3>3. forecast' = {g}
      BY <2>5
    <3> HIDE DEF g, name
    <3> QED BY <2>1, <3>1, <3>2, <3>3 DEF ForecastIsRight, NamedIn
  <2> QED BY <1>7, <2>2, <2>4, <2>5 DEF StoreForecast, FetchSeries
<1>8. CASE Restart
  <2>1. /\ open' = [t \in Tasks |-> Idle] /\ cache' = <<>> /\ forecast' \subseteq forecast
        /\ UNCHANGED <<table, nextId, reading>>
    BY <1>8 DEF Restart
  <2>2. \A u \in Tasks : Rows(u)' = <<>>
    BY <2>1, IdleTypes DEF Rows
  <2> QED BY <1>a, <2>1, <2>2, NoNewIds
<1>9. CASE UNCHANGED history
  BY <1>9, <1>a, NoNewIds DEF history, Rows
<1> QED BY <1>1, <1>2, <1>3, <1>4, <1>5, <1>6, <1>7, <1>8, <1>9 DEF HistorianNext

-----------------------------------------------------------------------------
LEMMA StoreInit == StoreAssumption /\ HistorianInit => StoreInv
<1> SUFFICES ASSUME StoreAssumption, HistorianInit PROVE StoreInv
  OBVIOUS
<1>1. /\ known \subseteq Devices /\ open = [t \in Tasks |-> Idle] /\ table = <<>> /\ nextId = 1
      /\ cache = <<>> /\ reading = {} /\ forecast = {}
  BY DEF HistorianInit
<1>2. Types
  BY <1>1, IdleTypes, MapFacts DEF Types
<1>3. \A p, i : ~Given(p, i)
  BY <1>1, IdleTypes DEF Given, Rows
<1>4. IdsAreUnique /\ CacheIsRight
  BY <1>1, <1>3 DEF IdsAreUnique, CacheIsRight
<1> QED BY <1>1, <1>2, <1>4 DEF StoreInv, ReadingIsRight, ForecastIsRight

\* The device and the name under which the point of an id is stored.
LEMMA NamedFacts ==
  ASSUME StoreInv, NEW p \in DOMAIN table
  PROVE  Named(table[p]) = p
<1>1. \A q \in DOMAIN table : table[q] = table[p] => q = p
  <2>1. \A q \in DOMAIN table : Given(q, table[q])
    BY DEF Given
  <2>2. Types
    BY DEF StoreInv
  <2> QED BY <2>1, <2>2, GivenTypes DEF StoreInv, IdsAreUnique
<1> QED BY <1>1 DEF Named

\* The store writes every value and every forecast into the series of its
\* point, or of a point of the same name on another device, whichever
\* transactions fail after the cache took their ids.
THEOREM SamplesAreRight == HistorianSpec => []SamplesOfOwnPoint
<1>1. HistorianInit => StoreInv
  BY HistorianAssumption, StoreInit
<1>2. StoreInv /\ [HistorianNext]_history => StoreInv'
  BY HistorianAssumption, StoreStep
<1>3. StoreInv => SamplesOfOwnPoint
  <2> SUFFICES ASSUME StoreInv PROVE SamplesOfOwnPoint
    OBVIOUS
  <2>0. /\ \A p \in DOMAIN table : p \in Points /\ table[p] \in 1..MaxId /\ Given(p, table[p])
        /\ \A id \in Ids : \E p \in DOMAIN table : table[p] = id /\ Named(id) = p
    <3>1. \A p \in DOMAIN table : Given(p, table[p])
      BY DEF Given
    <3>2. \A p \in DOMAIN table : p \in Points /\ table[p] \in 1..MaxId
      BY <3>1, GivenTypes DEF StoreInv
    <3> QED BY <3>1, <3>2, NamedFacts DEF Ids
  <2>1. ASSUME NEW p \in DOMAIN table, Sole(p), p[2] \in DOMAIN cache PROVE cache[p[2]] = table[p]
    BY <2>0, <2>1 DEF StoreInv, CacheIsRight
  <2>2. ASSUME NEW r \in reading, r.id \in Ids
        PROVE  Named(r.id)[2] = r.point[2] /\ (Sole(r.point) => Named(r.id) = r.point)
    <3>1. PICK p \in DOMAIN table : table[p] = r.id /\ Named(r.id) = p
      BY <2>0, <2>2
    <3>2. p \in Points /\ p[2] = r.point[2]
      BY <2>0, <3>1 DEF StoreInv, ReadingIsRight
    <3> QED BY <3>1, <3>2 DEF Sole
  <2>3. ASSUME NEW f \in forecast, f.to # None
        PROVE  Named(f.to)[2] = f.name /\ (Sole(Named(f.to)) => f.from \in {f.to, None})
    <3>1. PICK p \in DOMAIN table : p[2] = f.name /\ table[p] = f.to
      BY <2>3 DEF StoreInv, ForecastIsRight, NamedIn
    <3>2. Named(f.to) = p
      BY <3>1, NamedFacts
    <3>3. ASSUME Sole(p), f.from # None PROVE f.from = f.to
      <4>1. PICK q \in DOMAIN table : q[2] = f.name /\ table[q] = f.from
        BY <3>3 DEF StoreInv, ForecastIsRight, NamedIn
      <4> QED BY <2>0, <3>1, <3>3, <4>1 DEF Sole
    <3> QED BY <3>1, <3>2, <3>3
  <2> QED BY <2>1, <2>2, <2>3 DEF SamplesOfOwnPoint
<1> QED BY <1>1, <1>2, <1>3, PTL DEF HistorianSpec

-----------------------------------------------------------------------------
(***************************************************************************)
(* The fan-out: who is told                                                *)
(***************************************************************************)

Stages == {"idle", "broadcast", "webhook", "answer", "cancelled"}
Loops == [size : Nat, turns : SUBSET Clients, dead : SUBSET Clients, churned : BOOLEAN]

AudienceTypes ==
  /\ stage \in Stages /\ number \in Nat
  /\ clients \subseteq Clients /\ awaited \subseteq Clients /\ audience \subseteq Clients
  /\ loop \in Loops
  /\ told \in [Clients -> Seq(Nat)]

\* Nobody is told of a message before it is published, and a send is awaited
\* in a broadcast only.
Numbered ==
  /\ \A c \in Clients : \A i \in DOMAIN told[c] : told[c][i] <= number
  /\ disturbed \subseteq 1..number
  /\ stage # "idle" => number # 0
  /\ awaited # {} => stage = "broadcast"
  /\ \A c, d \in awaited : c = d

ToldInOrder ==
  \A c \in Clients : \A i, j \in DOMAIN told[c] : i < j =>
    told[c][i] < told[c][j] \/ (told[c][i] = told[c][j] /\ told[c][i] \in disturbed)

\* While nobody comes or goes, who has had a turn was told, is being told, or
\* its socket broke.
Undisturbed ==
  stage = "broadcast" /\ number \notin disturbed =>
    /\ clients = audience /\ loop.size = Cardinality(audience) /\ ~loop.churned
    /\ awaited \subseteq loop.turns /\ loop.dead \subseteq broken
    /\ \A c \in Clients : Had(c, number) => c \in loop.turns /\ c \notin awaited
    /\ \A c \in loop.turns : Had(c, number) \/ c \in awaited \/ c \in loop.dead

\* A broken socket does not come back.
AudienceTold ==
  stage # "broadcast" /\ number \notin disturbed =>
    \A c \in audience : Had(c, number) \/ (c \notin clients /\ c \in broken)

AudienceInv == AudienceTypes /\ Numbered /\ ToldInOrder /\ Undisturbed /\ AudienceTold

\* At the start nobody was told anything.
LEMMA AudienceInit == FanoutInit => AudienceInv
<1> SUFFICES ASSUME FanoutInit PROVE AudienceInv
  OBVIOUS
<1>1. /\ clients = {} /\ awaited = {} /\ audience = {} /\ told = [c \in Clients |-> <<>>]
      /\ stage = "idle" /\ number = 0 /\ loop = NoLoop /\ disturbed = {}
  BY DEF FanoutInit
<1>2. NoLoop \in Loops
  BY DEF NoLoop, Loops
<1>3. told \in [Clients -> Seq(Nat)] /\ \A c \in Clients : told[c] = <<>>
  BY <1>1, EmptySeq
<1>4. \A c \in Clients : DOMAIN told[c] = {}
  BY <1>3, EmptySeq
<1> QED BY <1>1, <1>2, <1>3, <1>4
        DEF AudienceInv, AudienceTypes, Numbered, ToldInOrder, Undisturbed, AudienceTold, Stages

\* The steps of the webhook leave the audience alone.
LEMMA AudienceKept ==
  ASSUME AudienceInv, UNCHANGED <<clientVars, number>>, stage' \in Stages,
         stage' = stage \/ (stage \notin {"broadcast", "idle"} /\ stage' # "broadcast")
  PROVE  AudienceInv'
<1>1. AudienceTypes' /\ Numbered'
  BY DEF AudienceInv, AudienceTypes, Numbered, clientVars
<1>2. ToldInOrder' /\ Undisturbed' /\ AudienceTold'
  BY DEF AudienceInv, ToldInOrder, Undisturbed, AudienceTold, Had, clientVars
<1> QED BY <1>1, <1>2 DEF AudienceInv

\* What is told to a client is told after the rest.
LEMMA HadFacts ==
  ASSUME AudienceInv, NEW c \in Clients, told' = [told EXCEPT ![c] = Append(@, number)]
  PROVE  /\ told' \in [Clients -> Seq(Nat)]
         /\ \A a \in Clients : a # c => told'[a] = told[a]
         /\ DOMAIN told'[c] = 1..Len(told[c]) + 1 /\ DOMAIN told[c] = 1..Len(told[c])
         /\ Len(told[c]) \in Nat
         /\ \A i \in DOMAIN told[c] : told'[c][i] = told[c][i]
         /\ told'[c][Len(told[c]) + 1] = number
         /\ \A a \in Clients : \A n : Had(a, n)' <=> Had(a, n) \/ (a = c /\ n = number)
<1>1. told \in [Clients -> Seq(Nat)] /\ number \in Nat
  BY DEF AudienceInv, AudienceTypes
<1> DEFINE more == Append(told[c], number)
<1>2. /\ more \in Seq(Nat) /\ Len(more) = Len(told[c]) + 1
      /\ \A i \in 1..Len(told[c]) : more[i] = told[c][i]
      /\ more[Len(told[c]) + 1] = number
  BY <1>1, AppendProperties
<1> HIDE DEF more
<1>3. /\ told' \in [Clients -> Seq(Nat)] /\ told'[c] = more
      /\ \A a \in Clients : a # c => told'[a] = told[a]
  BY <1>1, <1>2 DEF more
<1>4. DOMAIN told[c] = 1..Len(told[c]) /\ Len(told[c]) \in Nat /\ DOMAIN more = 1..Len(told[c]) + 1
  BY <1>1, <1>2
<1>5. \A i \in DOMAIN more : i \in DOMAIN told[c] \/ i = Len(told[c]) + 1
  BY <1>4
<1>6. ASSUME NEW n
      PROVE  (\E i \in DOMAIN more : more[i] = n) <=> Had(c, n) \/ n = number
  <2>1. ASSUME NEW i \in DOMAIN more, more[i] = n PROVE Had(c, n) \/ n = number
    BY <1>2, <1>4, <1>5, <2>1 DEF Had
  <2>2. ASSUME Had(c, n) PROVE \E i \in DOMAIN more : more[i] = n
    <3>1. PICK i \in DOMAIN told[c] : told[c][i] = n
      BY <2>2 DEF Had
    <3>2. i \in DOMAIN more /\ more[i] = n
      BY <1>2, <1>4, <3>1
    <3> QED BY <3>2
  <2>3. ASSUME n = number PROVE \E i \in DOMAIN more : more[i] = n
    <3>1. Len(told[c]) + 1 \in DOMAIN more
      BY <1>4
    <3> QED BY <1>2, <2>3, <3>1
  <2> QED BY <2>1, <2>2, <2>3
<1>7. ASSUME NEW a \in Clients, NEW n PROVE Had(a, n)' <=> Had(a, n) \/ (a = c /\ n = number)
  <2>1. CASE a = c
    BY <1>3, <1>6, <2>1 DEF Had
  <2>2. CASE a # c
    BY <1>3, <2>2 DEF Had
  <2> QED BY <2>1, <2>2
<1> QED BY <1>2, <1>3, <1>4, <1>7

\* A message that is published is new to everybody.
LEMMA PublishTold ==
  ASSUME AudienceInv, Publish
  PROVE  AudienceInv'
<1>1. /\ stage = "idle" /\ number' = number + 1 /\ stage' = "broadcast"
      /\ loop' = [NoLoop EXCEPT !.size = Cardinality(clients)]
      /\ audience' = clients
      /\ UNCHANGED <<clients, broken, awaited, told, disturbed>>
  BY DEF Publish
<1>2. AudienceTypes /\ Numbered /\ ToldInOrder
  BY DEF AudienceInv
<1>3. Cardinality(clients) \in Nat
  BY <1>2, FanoutAssumption, FS_Subset, FS_CardinalityType DEF AudienceTypes
<1>4. loop' = [size |-> Cardinality(clients), turns |-> {}, dead |-> {}, churned |-> FALSE]
  BY <1>1 DEF NoLoop
<1>5. loop' \in Loops
  BY <1>3, <1>4 DEF Loops
<1>6. AudienceTypes'
  BY <1>1, <1>2, <1>5 DEF AudienceTypes, Stages
<1>7. number \in Nat /\ number' # 0 /\ 1..number \subseteq 1..number'
  BY <1>1, <1>2 DEF AudienceTypes
<1>8. \A c \in Clients : \A i \in DOMAIN told[c] : told[c][i] \in Nat /\ told[c][i] < number'
  <2>1. \A c \in Clients : told[c] \in Seq(Nat)
    BY <1>2 DEF AudienceTypes
  <2>2. \A c \in Clients : \A i \in DOMAIN told[c] : told[c][i] \in Nat
    BY <2>1, ElementOfSeq
  <2> QED BY <1>1, <1>2, <1>7, <2>2 DEF Numbered
<1>9. Numbered'
  BY <1>1, <1>2, <1>7, <1>8 DEF Numbered
<1>10. \A c \in Clients : ~Had(c, number')
  BY <1>7, <1>8, <1>1 DEF Had
<1>11. ToldInOrder'
  BY <1>1, <1>2 DEF ToldInOrder
<1>12. \A c \in Clients : ~Had(c, number)'
  BY <1>1, <1>10 DEF Had
<1>13. Undisturbed'
  <2>1. awaited = {}
    BY <1>1, <1>2 DEF Numbered
  <2> QED BY <1>1, <1>4, <1>12, <2>1 DEF Undisturbed
<1>14. AudienceTold'
  BY <1>1 DEF AudienceTold
<1> QED BY <1>6, <1>9, <1>11, <1>13, <1>14 DEF AudienceInv

\* The next client is one that was not told yet, if nobody came or went.
LEMMA TurnTold ==
  ASSUME AudienceInv, NEW c \in Clients, Turn(c)
  PROVE  AudienceInv'
<1>1. /\ stage = "broadcast" /\ awaited = {} /\ c \in clients \ loop.turns
      /\ awaited' = {c} /\ loop' = [loop EXCEPT !.turns = loop.turns \cup {c}]
      /\ UNCHANGED <<stage, number, clients, broken, audience, told, disturbed>>
  BY DEF Turn
<1>2. AudienceTypes /\ Numbered /\ ToldInOrder /\ Undisturbed
  BY DEF AudienceInv
<1>3. /\ loop' \in Loops /\ loop'.turns = loop.turns \cup {c}
      /\ loop'.size = loop.size /\ loop'.dead = loop.dead /\ loop'.churned = loop.churned
  BY <1>1, <1>2 DEF AudienceTypes, Loops
<1>4. AudienceTypes' /\ Numbered' /\ ToldInOrder' /\ AudienceTold'
  BY <1>1, <1>2, <1>3 DEF AudienceTypes, Numbered, ToldInOrder, AudienceTold
<1>5. Undisturbed'
  BY <1>1, <1>2, <1>3 DEF Undisturbed, Had
<1> QED BY <1>4, <1>5 DEF AudienceInv

\* A send ends with the client told, or dead.
LEMMA SendTold ==
  ASSUME AudienceInv, NEW c \in Clients, NEW ok \in BOOLEAN, SendEnds(c, ok)
  PROVE  AudienceInv'
<1>1. /\ c \in awaited /\ awaited' = {}
      /\ UNCHANGED <<stage, number, clients, audience, disturbed>>
  BY DEF SendEnds
<1>2. AudienceTypes /\ Numbered /\ ToldInOrder /\ Undisturbed
  BY DEF AudienceInv
<1>3. stage = "broadcast"
  BY <1>1, <1>2 DEF Numbered
<1>4. AudienceTold'
  BY <1>1, <1>3 DEF AudienceTold
<1>5. CASE ok
  <2>1. /\ told' = [told EXCEPT ![c] = Append(@, number)]
        /\ UNCHANGED <<loop, broken>>
    BY <1>5 DEF SendEnds
  <2>2. /\ told' \in [Clients -> Seq(Nat)]
        /\ \A a \in Clients : a # c => told'[a] = told[a]
        /\ DOMAIN told'[c] = 1..Len(told[c]) + 1 /\ DOMAIN told[c] = 1..Len(told[c])
        /\ Len(told[c]) \in Nat
        /\ \A i \in DOMAIN told[c] : told'[c][i] = told[c][i]
        /\ told'[c][Len(told[c]) + 1] = number
        /\ \A a \in Clients : \A n : Had(a, n)' <=> Had(a, n) \/ (a = c /\ n = number)
    BY <2>1, HadFacts
  <2>3. AudienceTypes'
    BY <1>1, <1>2, <2>1, <2>2 DEF AudienceTypes
  <2>4. number \in Nat /\ \A i \in DOMAIN told[c] : told[c][i] \in Nat /\ told[c][i] <= number
    <3>1. told[c] \in Seq(Nat)
      BY <1>2 DEF AudienceTypes
    <3> QED BY <1>2, <3>1, ElementOfSeq DEF Numbered, AudienceTypes
  <2>5. \A i \in DOMAIN told'[c] : i \in DOMAIN told[c] \/ i = Len(told[c]) + 1
    BY <2>2
  <2>6. Numbered'
    <3>1. \A i \in DOMAIN told'[c] : told'[c][i] <= number
      BY <2>2, <2>4, <2>5
    <3> QED BY <1>1, <1>2, <2>2, <3>1 DEF Numbered
  <2>7. ToldInOrder'
    <3>1. ASSUME NEW i \in DOMAIN told'[c], NEW j \in DOMAIN told'[c], i < j
          PROVE  \/ told'[c][i] < told'[c][j]
                 \/ told'[c][i] = told'[c][j] /\ told'[c][i] \in disturbed
      <4>1. i \in DOMAIN told[c]
        BY <2>2, <2>5, <3>1
      <4>2. CASE j \in DOMAIN told[c]
        BY <1>2, <2>2, <3>1, <4>1, <4>2 DEF ToldInOrder
      <4>3. CASE j = Len(told[c]) + 1
        <5>1. told'[c][j] = number /\ told'[c][i] = told[c][i] /\ told[c][i] <= number
          BY <2>2, <2>4, <4>1, <4>3
        <5>2. CASE told[c][i] = number
          <6>1. Had(c, number)
            BY <4>1, <5>2 DEF Had
          <6>2. number \in disturbed
            BY <1>1, <1>2, <1>3, <6>1 DEF Undisturbed
          <6> QED BY <5>1, <5>2, <6>2
        <5>3. CASE told[c][i] # number
          BY <2>4, <4>1, <5>1, <5>3
        <5> QED BY <5>2, <5>3
      <4> QED BY <2>5, <4>2, <4>3
    <3>2. ASSUME NEW a \in Clients, NEW i \in DOMAIN told'[a], NEW j \in DOMAIN told'[a], i < j
          PROVE  \/ told'[a][i] < told'[a][j]
                 \/ told'[a][i] = told'[a][j] /\ told'[a][i] \in disturbed
      <4>1. CASE a = c
        BY <3>1, <3>2, <4>1
      <4>2. CASE a # c
        <5>1. told'[a] = told[a]
          BY <2>2, <4>2
        <5>2. i \in DOMAIN told[a] /\ j \in DOMAIN told[a]
          BY <3>2, <5>1
        <5> QED BY <1>2, <3>2, <5>1, <5>2 DEF ToldInOrder
      <4> QED BY <4>1, <4>2
    <3> QED BY <1>1, <3>2 DEF ToldInOrder
  <2>8. Undisturbed'
    <3> SUFFICES ASSUME number \notin disturbed
                 PROVE  /\ clients = audience /\ loop.size = Cardinality(audience) /\ ~loop.churned
                        /\ loop.dead \subseteq broken
                        /\ \A a \in Clients : Had(a, number)' => a \in loop.turns
                        /\ \A a \in loop.turns : Had(a, number)' \/ a \in loop.dead
      BY <1>1, <2>1 DEF Undisturbed
    <3>1. loop.turns \subseteq Clients
      BY <1>2 DEF AudienceTypes, Loops
    <3>2. \A a \in Clients : Had(a, number)' <=> Had(a, number) \/ a = c
      BY <1>1, <2>2
    <3>3. \A a \in awaited : a = c
      BY <1>1, <1>2 DEF Numbered
    <3> QED BY <1>1, <1>2, <1>3, <3>1, <3>2, <3>3 DEF Undisturbed
  <2> QED BY <1>4, <2>3, <2>6, <2>7, <2>8 DEF AudienceInv
<1>6. CASE ~ok
  <2>1. /\ told' = told /\ loop' = [loop EXCEPT !.dead = loop.dead \cup {c}]
        /\ broken' = broken \cup {c}
    BY <1>6 DEF SendEnds
  <2>2. /\ loop' \in Loops /\ loop'.turns = loop.turns /\ loop'.dead = loop.dead \cup {c}
        /\ loop'.size = loop.size /\ loop'.churned = loop.churned
    BY <1>2, <2>1 DEF AudienceTypes, Loops
  <2>3. AudienceTypes' /\ Numbered' /\ ToldInOrder'
    BY <1>1, <1>2, <2>1, <2>2 DEF AudienceTypes, Numbered, ToldInOrder
  <2>4. Undisturbed'
    <3> SUFFICES ASSUME number \notin disturbed
                 PROVE  /\ clients = audience
                        /\ loop'.size = Cardinality(audience) /\ ~loop'.churned
                        /\ loop'.dead \subseteq broken'
                        /\ \A a \in Clients : Had(a, number) => a \in loop'.turns
                        /\ \A a \in loop'.turns : Had(a, number) \/ a \in loop'.dead
      BY <1>1, <2>1 DEF Undisturbed, Had
    <3>1. \A a \in awaited : a = c
      BY <1>1, <1>2 DEF Numbered
    <3> QED BY <1>1, <1>2, <1>3, <2>1, <2>2, <3>1 DEF Undisturbed
  <2> QED BY <1>4, <2>3, <2>4 DEF AudienceInv
<1> QED BY <1>5, <1>6

\* The loop is left when all had their turn, or somebody came or went.
LEMMA LoopTold ==
  ASSUME AudienceInv, LoopEnds \/ LoopRaises
  PROVE  AudienceInv'
<1>1. /\ stage = "broadcast" /\ awaited = {} /\ stage' = "webhook" /\ loop' = NoLoop
      /\ UNCHANGED <<number, broken, awaited, audience, told, disturbed>>
      /\ clients' \subseteq clients
  BY DEF LoopEnds, LoopRaises
<1>2. AudienceTypes /\ Numbered /\ ToldInOrder /\ Undisturbed
  BY DEF AudienceInv
<1>3. NoLoop \in Loops
  BY DEF NoLoop, Loops
<1>4. AudienceTypes' /\ Numbered' /\ ToldInOrder'
  BY <1>1, <1>2, <1>3 DEF AudienceTypes, Numbered, ToldInOrder, Stages
<1>5. Undisturbed'
  BY <1>1 DEF Undisturbed
<1>6. AudienceTold'
  <2> SUFFICES ASSUME number \notin disturbed, NEW c \in audience
               PROVE  Had(c, number) \/ (c \notin clients' /\ c \in broken)
    BY <1>1 DEF AudienceTold, Had
  <2>1. /\ clients = audience /\ loop.size = Cardinality(audience) /\ ~loop.churned
        /\ loop.dead \subseteq broken
        /\ \A a \in loop.turns : Had(a, number) \/ a \in loop.dead
    BY <1>1, <1>2 DEF Undisturbed
  <2>2. clients \subseteq loop.turns /\ clients' = clients \ loop.dead
    BY <2>1 DEF LoopEnds, LoopRaises
  <2> QED BY <2>1, <2>2
<1> QED BY <1>4, <1>5, <1>6 DEF AudienceInv

\* A client enters or leaves: the message is disturbed, or the broadcast over.
LEMMA ChurnTold ==
  ASSUME AudienceInv, NEW c \in Clients, Connect(c) \/ Disconnect(c)
  PROVE  AudienceInv'
<1>1. /\ Churn /\ UNCHANGED <<stage, number, awaited, audience, told>>
      /\ clients' \subseteq Clients
      /\ broken \subseteq broken'
      /\ \A a \in Clients : a \notin clients /\ a \in broken => a \notin clients'
  BY DEF Connect, Disconnect, AudienceInv, AudienceTypes
<1>2. AudienceTypes /\ Numbered /\ ToldInOrder /\ Undisturbed /\ AudienceTold
  BY DEF AudienceInv
<1>3. PICK had \in SUBSET loop.turns :
        loop' = [loop EXCEPT !.churned = loop.churned \/ stage = "broadcast", !.turns = had]
  BY <1>1 DEF Churn
<1>4. disturbed' = IF stage = "broadcast" THEN disturbed \cup {number} ELSE disturbed
  BY <1>1 DEF Churn
<1>5. loop' \in Loops
  <2> DEFINE churned == loop.churned \/ stage = "broadcast"
  <2>1. churned \in BOOLEAN
    BY <1>2 DEF AudienceTypes, Loops
  <2>2. loop' = [loop EXCEPT !.churned = churned, !.turns = had]
    BY <1>3
  <2> HIDE DEF churned
  <2> QED BY <1>2, <2>1, <2>2 DEF AudienceTypes, Loops
<1>6. AudienceTypes'
  BY <1>1, <1>2, <1>5 DEF AudienceTypes
<1>7. Numbered'
  <2>1. stage = "broadcast" => number \in 1..number
    BY <1>2 DEF AudienceTypes, Numbered
  <2> QED BY <1>1, <1>2, <1>4, <2>1 DEF Numbered
<1>8. ToldInOrder'
  BY <1>1, <1>2, <1>4 DEF ToldInOrder
<1>9. Undisturbed'
  BY <1>1, <1>4 DEF Undisturbed
<1>10. AudienceTold'
  <2> SUFFICES ASSUME stage # "broadcast", number \notin disturbed, NEW a \in audience
               PROVE  Had(a, number) \/ (a \notin clients' /\ a \in broken')
    BY <1>1, <1>4 DEF AudienceTold, Had
  <2>1. a \in Clients /\ (Had(a, number) \/ (a \notin clients /\ a \in broken))
    BY <1>2 DEF AudienceTold, AudienceTypes
  <2> QED BY <1>1, <2>1
<1> QED BY <1>6, <1>7, <1>8, <1>9, <1>10 DEF AudienceInv

\* A broadcast that is cancelled counts as disturbed.
LEMMA CancelTold ==
  ASSUME AudienceInv, Cancel
  PROVE  AudienceInv'
<1>1. /\ stage \in {"broadcast", "webhook", "answer"} /\ stage' = "cancelled"
      /\ awaited' = {} /\ loop' = NoLoop
      /\ disturbed' = IF stage = "broadcast" THEN disturbed \cup {number} ELSE disturbed
      /\ UNCHANGED <<number, clients, broken, audience, told>>
  BY DEF Cancel
<1>2. AudienceTypes /\ Numbered /\ ToldInOrder /\ Undisturbed /\ AudienceTold
  BY DEF AudienceInv
<1>3. NoLoop \in Loops
  BY DEF NoLoop, Loops
<1>4. AudienceTypes'
  BY <1>1, <1>2, <1>3 DEF AudienceTypes, Stages
<1>5. Numbered'
  <2>1. number \in 1..number
    BY <1>1, <1>2 DEF AudienceTypes, Numbered
  <2> QED BY <1>1, <1>2, <2>1 DEF Numbered
<1>6. ToldInOrder' /\ Undisturbed'
  BY <1>1, <1>2 DEF ToldInOrder, Undisturbed
<1>7. AudienceTold'
  BY <1>1, <1>2 DEF AudienceTold, Had
<1> QED BY <1>4, <1>5, <1>6, <1>7 DEF AudienceInv

\* Every step keeps the invariant of the broadcast.
LEMMA AudienceStep == AudienceInv /\ [FanoutNext]_fanout => AudienceInv'
<1> SUFFICES ASSUME AudienceInv, [FanoutNext]_fanout PROVE AudienceInv'
  OBVIOUS
<1>0. stage \in Stages
  BY DEF AudienceInv, AudienceTypes
<1>1. CASE Publish
  BY <1>1, PublishTold
<1>2. ASSUME NEW c \in Clients, Turn(c) PROVE AudienceInv'
  BY <1>2, TurnTold
<1>3. ASSUME NEW c \in Clients, SendEnds(c, TRUE) \/ SendEnds(c, FALSE) PROVE AudienceInv'
  BY <1>3, SendTold
<1>4. CASE LoopEnds \/ LoopRaises
  BY <1>4, LoopTold
<1>5. CASE Post \/ Answered \/ Fails
  <2>1. stage \in {"webhook", "answer"} /\ stage' \in {"webhook", "answer", "idle"}
    BY <1>5 DEF Post, Answered, Fails, Done
  <2>2. UNCHANGED <<clientVars, number>>
    BY <1>5 DEF Post, Answered, Fails
  <2> QED BY <2>1, <2>2, AudienceKept DEF Stages
<1>6. CASE Cancel
  BY <1>6, CancelTold
<1>7. ASSUME NEW c \in Clients, Connect(c) \/ Disconnect(c) PROVE AudienceInv'
  BY <1>7, ChurnTold
<1>8. CASE (\E post \in flying : Receive(post)) \/ UNCHANGED fanout
  <2>1. UNCHANGED <<clientVars, number, stage>>
    BY <1>8 DEF Receive, fanout, clientVars
  <2> QED BY <1>0, <2>1, AudienceKept
<1> QED BY <1>1, <1>2, <1>3, <1>4, <1>5, <1>6, <1>7, <1>8 DEF FanoutNext, Publishing, Send

-----------------------------------------------------------------------------
(***************************************************************************)
(* The fan-out: the webhook                                                *)
(***************************************************************************)

Posts == Nat \X Nat
Verdicts == {"delivered", "given up"}
HookTypes ==
  /\ stage \in Stages /\ number \in Nat
  /\ attempt \in 0..2
  /\ flying \subseteq Posts /\ received \in Seq(Posts)
  /\ outcome \in Seq(Verdicts)

\* Where the worker is says which attempt it is and how many messages have an outcome.
Attempts ==
  /\ stage \in {"idle", "broadcast"} => attempt = 0
  /\ stage = "webhook" => attempt < 2
  /\ stage = "answer" => attempt # 0
  /\ stage = "idle" => Len(outcome) = number
  /\ stage \in {"broadcast", "webhook", "answer"} => Len(outcome) + 1 = number

Sent(s) == s \in flying \/ Taken(s)
Current == <<number, attempt>>

\* A post is made once, and nobody waits for one that is not the current one.
PostsAreRight ==
  /\ \A s \in Posts : Sent(s) => s[1] <= number
  /\ \A s \in Posts : Sent(s) /\ s[1] = number => s[2] <= attempt \/ stage = "idle"
  /\ \A s \in Posts : Sent(s) => stage # "broadcast" \/ s[1] # number
  /\ \A s \in flying : ~Taken(s)
  /\ \A s \in flying : s \in late \/ (stage \in {"answer", "cancelled"} /\ s = Current)
  /\ stage \in {"webhook", "answer", "cancelled"} =>
       \A s \in Posts : Sent(s) /\ s[1] = number =>
         s \in late \/ (stage \in {"answer", "cancelled"} /\ s = Current)

ReceivedInOrder ==
  \A i, j \in DOMAIN received : i < j =>
    \/ received[i][1] < received[j][1]
    \/ received[i] # received[j] /\ {received[i], received[j]} \cap late # {}

DeliveredWasTaken ==
  \A n \in DOMAIN outcome : outcome[n] = "delivered" => \E k \in 1..2 : Taken(<<n, k>>)

HookInv == HookTypes /\ Attempts /\ PostsAreRight /\ ReceivedInOrder /\ DeliveredWasTaken

\* At the start nothing was posted.
LEMMA HookInit == FanoutInit => HookInv
<1> SUFFICES ASSUME FanoutInit PROVE HookInv
  OBVIOUS
<1>1. /\ stage = "idle" /\ number = 0 /\ attempt = 0 /\ flying = {} /\ received = <<>>
      /\ outcome = <<>> /\ DOMAIN received = {} /\ DOMAIN outcome = {} /\ Len(outcome) = 0
  BY EmptySeq DEF FanoutInit
<1>2. \A s : ~Sent(s)
  BY <1>1 DEF Sent, Taken
<1>3. received \in Seq(Posts) /\ outcome \in Seq(Verdicts)
  BY <1>1, EmptySeq
<1> QED BY <1>1, <1>2, <1>3
        DEF HookInv, HookTypes, Attempts, PostsAreRight, ReceivedInOrder, DeliveredWasTaken, Stages

\* The steps of the broadcast leave the webhook alone.
LEMMA HookKept ==
  ASSUME HookInv, UNCHANGED <<hookVars, number>>,
         \/ stage' = stage
         \/ stage = "broadcast" /\ stage' = "webhook"
         \/ stage \in {"broadcast", "webhook", "answer"} /\ stage' = "cancelled"
  PROVE  HookInv'
<1>1. HookTypes' /\ Attempts'
  BY DEF HookInv, HookTypes, Attempts, hookVars, Stages
<1>2. \A s : Sent(s)' <=> Sent(s)
  BY DEF Sent, Taken, hookVars
<1>3. PostsAreRight'
  BY <1>2 DEF HookInv, HookTypes, Attempts, PostsAreRight, Current, Taken, hookVars
<1>4. ReceivedInOrder' /\ DeliveredWasTaken'
  BY DEF HookInv, ReceivedInOrder, DeliveredWasTaken, Taken, hookVars
<1> QED BY <1>1, <1>3, <1>4 DEF HookInv

\* A new message has no posts.
LEMMA PublishHook ==
  ASSUME HookInv, Publish
  PROVE  HookInv'
<1>1. stage = "idle" /\ stage' = "broadcast" /\ number' = number + 1 /\ UNCHANGED hookVars
  BY DEF Publish
<1>2. HookTypes /\ Attempts /\ PostsAreRight
  BY DEF HookInv
<1>3. HookTypes' /\ Attempts'
  BY <1>1, <1>2 DEF HookTypes, Attempts, hookVars, Stages
<1>4. \A s : Sent(s)' <=> Sent(s)
  BY <1>1 DEF Sent, Taken, hookVars
<1>5. PostsAreRight'
  <2>1. \A s \in Posts : Sent(s) => s[1] < number + 1
    BY <1>2 DEF PostsAreRight, Posts, HookTypes
  <2> QED BY <1>1, <1>2, <1>4, <2>1 DEF PostsAreRight, HookTypes, Posts, Taken, hookVars
<1>6. ReceivedInOrder' /\ DeliveredWasTaken'
  BY <1>1 DEF HookInv, ReceivedInOrder, DeliveredWasTaken, Taken, hookVars
<1> QED BY <1>3, <1>5, <1>6 DEF HookInv

\* A post is a new one.
LEMMA PostHook ==
  ASSUME HookInv, Post
  PROVE  HookInv'
<1>1. /\ stage = "webhook" /\ attempt' = attempt + 1 /\ stage' = "answer"
      /\ flying' = flying \cup {<<number, attempt'>>}
      /\ UNCHANGED <<number, received, late, outcome>>
  BY DEF Post
<1>2. HookTypes /\ Attempts /\ PostsAreRight
  BY DEF HookInv
<1> DEFINE new == <<number, attempt'>>
<1>3. new \in Posts /\ new[1] = number /\ new[2] = attempt + 1 /\ attempt \in Nat
  BY <1>1, <1>2 DEF HookTypes, Posts
<1>4. HookTypes' /\ Attempts'
  BY <1>1, <1>2, <1>3 DEF HookTypes, Attempts, Stages
<1>5. ~Sent(new)
  BY <1>1, <1>2, <1>3 DEF PostsAreRight
<1>6. /\ \A s : Sent(s)' <=> Sent(s) \/ s = new
      /\ \A s : Taken(s)' <=> Taken(s)
  BY <1>1 DEF Sent, Taken
<1>7. Current' = new /\ flying' = flying \cup {new}
  BY <1>1 DEF Current
<1> HIDE DEF new
<1>8. PostsAreRight'
  <2>1. \A s \in Posts : Sent(s)' => s[1] <= number
    BY <1>2, <1>3, <1>6 DEF PostsAreRight, HookTypes
  <2>2. \A s \in Posts : Sent(s)' /\ s[1] = number => s[2] <= attempt'
    <3>1. \A s \in Posts : Sent(s) /\ s[1] = number => s[2] <= attempt
      BY <1>1, <1>2 DEF PostsAreRight
    <3>2. \A s \in Posts : s[2] \in Nat
      BY DEF Posts
    <3> QED BY <1>1, <1>3, <1>6, <3>1, <3>2
  <2>3. \A s \in flying' : ~Taken(s)'
    BY <1>2, <1>5, <1>6, <1>7 DEF PostsAreRight, Sent
  <2>4. \A s \in flying' : s \in late \/ s = new
    BY <1>1, <1>2, <1>7 DEF PostsAreRight
  <2>5. \A s \in Posts : Sent(s)' /\ s[1] = number => s \in late \/ s = new
    BY <1>1, <1>2, <1>6 DEF PostsAreRight
  <2> QED BY <1>1, <1>7, <2>1, <2>2, <2>3, <2>4, <2>5 DEF PostsAreRight
<1>9. ReceivedInOrder' /\ DeliveredWasTaken'
  BY <1>1 DEF HookInv, ReceivedInOrder, DeliveredWasTaken, Taken
<1> QED BY <1>4, <1>8, <1>9 DEF HookInv

\* A post that is received comes after all of the messages before, and
\* after the others of its own one of which nobody waits for.
LEMMA ReceiveHook ==
  ASSUME HookInv, NEW post \in flying, Receive(post)
  PROVE  HookInv'
<1>1. /\ flying' = flying \ {post} /\ received' = Append(received, post)
      /\ UNCHANGED <<stage, number, attempt, late, outcome>>
  BY DEF Receive
<1>2. HookTypes /\ Attempts /\ PostsAreRight /\ ReceivedInOrder /\ DeliveredWasTaken
  BY DEF HookInv
<1>3. post \in Posts /\ received \in Seq(Posts)
  BY <1>2 DEF HookTypes
<1>4. /\ received' \in Seq(Posts) /\ Len(received') = Len(received) + 1
      /\ \A i \in 1..Len(received) : received'[i] = received[i]
      /\ received'[Len(received) + 1] = post
  BY <1>1, <1>3, AppendProperties
<1>5. /\ DOMAIN received = 1..Len(received) /\ Len(received) \in Nat
      /\ DOMAIN received' = 1..Len(received) + 1
  BY <1>3, <1>4
<1>6. /\ \A i \in DOMAIN received : i \in DOMAIN received' /\ received'[i] = received[i]
      /\ Len(received) + 1 \in DOMAIN received'
      /\ \A i \in DOMAIN received' : i \in DOMAIN received \/ i = Len(received) + 1
  BY <1>4, <1>5
<1>7. \A s : Taken(s)' <=> Taken(s) \/ s = post
  BY <1>4, <1>6 DEF Taken
<1>8. \A s : Sent(s)' <=> Sent(s)
  BY <1>1, <1>7 DEF Sent
<1>9. HookTypes' /\ Attempts'
  BY <1>1, <1>2, <1>4 DEF HookTypes, Attempts
<1>10. PostsAreRight'
  BY <1>1, <1>2, <1>7, <1>8 DEF PostsAreRight, Current
<1>11. DeliveredWasTaken'
  BY <1>1, <1>2, <1>7 DEF DeliveredWasTaken
<1>12. ReceivedInOrder'
  <2>1. ASSUME NEW i \in DOMAIN received
        PROVE  \/ received[i][1] < post[1]
               \/ received[i] # post /\ {received[i], post} \cap late # {}
    <3>1. Sent(received[i]) /\ Taken(received[i]) /\ received[i] \in Posts
      BY <1>3, ElementOfSeq DEF Sent, Taken
    <3>2. received[i] # post
      BY <1>2, <3>1 DEF PostsAreRight
    <3>3. CASE post \in late
      BY <3>2, <3>3
    <3>4. CASE post \notin late
      <4>1. stage \in {"answer", "cancelled"} /\ post = <<number, attempt>>
        BY <1>2, <3>4 DEF PostsAreRight, Current
      <4>2. CASE received[i][1] = number
        BY <1>2, <3>1, <3>2, <4>1, <4>2 DEF PostsAreRight, Current
      <4>3. CASE received[i][1] # number
        <5>1. /\ received[i][1] <= number /\ received[i][1] \in Nat
              /\ number \in Nat /\ post[1] = number
          BY <1>2, <3>1, <4>1 DEF PostsAreRight, Posts, HookTypes
        <5> QED BY <4>3, <5>1
      <4> QED BY <4>2, <4>3
    <3> QED BY <3>3, <3>4
  <2>2. ASSUME NEW i \in DOMAIN received', NEW j \in DOMAIN received', i < j
        PROVE  \/ received'[i][1] < received'[j][1]
               \/ received'[i] # received'[j] /\ {received'[i], received'[j]} \cap late # {}
    <3>1. i \in DOMAIN received /\ received'[i] = received[i]
      BY <1>5, <1>6, <2>2
    <3>2. CASE j \in DOMAIN received
      BY <1>2, <1>6, <2>2, <3>1, <3>2 DEF ReceivedInOrder
    <3>3. CASE j = Len(received) + 1
      BY <1>4, <2>1, <3>1, <3>3
    <3> QED BY <1>6, <3>2, <3>3
  <2> QED BY <1>1, <2>2 DEF ReceivedInOrder
<1> QED BY <1>9, <1>10, <1>11, <1>12 DEF HookInv

\* A publication ends with its outcome.
LEMMA DoneFacts ==
  ASSUME HookInv, stage = "answer", NEW verdict \in Verdicts, Done(verdict)
  PROVE  /\ stage' = "idle" /\ attempt' = 0
         /\ outcome' \in Seq(Verdicts) /\ Len(outcome') = number
         /\ \A n \in DOMAIN outcome' :
              \/ n \in DOMAIN outcome /\ outcome'[n] = outcome[n]
              \/ n = number /\ outcome'[n] = verdict
<1>1. stage' = "idle" /\ attempt' = 0 /\ outcome' = Append(outcome, verdict)
  BY DEF Done
<1>2. outcome \in Seq(Verdicts) /\ Len(outcome) + 1 = number
  BY DEF HookInv, HookTypes, Attempts
<1>3. /\ outcome' \in Seq(Verdicts) /\ Len(outcome') = Len(outcome) + 1
      /\ \A i \in 1..Len(outcome) : outcome'[i] = outcome[i]
      /\ outcome'[Len(outcome) + 1] = verdict
  BY <1>1, <1>2, AppendProperties
<1>4. /\ DOMAIN outcome = 1..Len(outcome) /\ Len(outcome) \in Nat
      /\ DOMAIN outcome' = 1..Len(outcome) + 1
  BY <1>2, <1>3
<1> QED BY <1>1, <1>2, <1>3, <1>4

\* Who is answered has a post that was received.
LEMMA AnsweredHook ==
  ASSUME HookInv, Answered
  PROVE  HookInv'
<1>1. /\ stage = "answer" /\ Taken(<<number, attempt>>) /\ Done("delivered")
      /\ UNCHANGED <<number, flying, received, late>>
  BY DEF Answered
<1>2. HookTypes /\ Attempts /\ PostsAreRight /\ ReceivedInOrder /\ DeliveredWasTaken
  BY DEF HookInv
<1>3. /\ stage' = "idle" /\ attempt' = 0
      /\ outcome' \in Seq(Verdicts) /\ Len(outcome') = number
      /\ \A n \in DOMAIN outcome' :
           \/ n \in DOMAIN outcome /\ outcome'[n] = outcome[n]
           \/ n = number /\ outcome'[n] = "delivered"
  BY <1>1, DoneFacts DEF Verdicts
<1>4. HookTypes' /\ Attempts'
  BY <1>1, <1>2, <1>3 DEF HookTypes, Attempts, Stages
<1>5. \A s : (Taken(s)' <=> Taken(s)) /\ (Sent(s)' <=> Sent(s))
  BY <1>1 DEF Sent, Taken
<1>6. PostsAreRight'
  <2>1. \A s \in flying : s \in late
    BY <1>1, <1>2 DEF PostsAreRight, Current
  <2> QED BY <1>1, <1>2, <1>3, <1>5, <2>1 DEF PostsAreRight
<1>7. DeliveredWasTaken'
  <2>1. attempt \in 1..2
    BY <1>1, <1>2 DEF HookTypes, Attempts
  <2> QED BY <1>1, <1>2, <1>3, <1>5, <2>1 DEF DeliveredWasTaken
<1>8. ReceivedInOrder'
  BY <1>1, <1>2 DEF ReceivedInOrder
<1> QED BY <1>4, <1>6, <1>7, <1>8 DEF HookInv

\* Nobody waits for a post that failed.
LEMMA FailsHook ==
  ASSUME HookInv, Fails
  PROVE  HookInv'
<1>1. /\ stage = "answer" /\ late' = late \cup {<<number, attempt>>}
      /\ flying' \subseteq flying
      /\ UNCHANGED <<number, received>>
  BY DEF Fails
<1>2. HookTypes /\ Attempts /\ PostsAreRight /\ ReceivedInOrder /\ DeliveredWasTaken
  BY DEF HookInv
<1>3. \/ attempt = 1 /\ stage' = "webhook" /\ UNCHANGED <<attempt, outcome>>
      \/ attempt # 1 /\ Done("given up")
  BY DEF Fails
<1>4. \/ attempt = 1 /\ stage' = "webhook" /\ UNCHANGED <<attempt, outcome>>
      \/ /\ stage' = "idle" /\ attempt' = 0
         /\ outcome' \in Seq(Verdicts) /\ Len(outcome') = number
         /\ \A n \in DOMAIN outcome' :
              \/ n \in DOMAIN outcome /\ outcome'[n] = outcome[n]
              \/ n = number /\ outcome'[n] = "given up"
  BY <1>1, <1>3, DoneFacts DEF Verdicts
<1>5. HookTypes' /\ Attempts'
  <2>0. number \in Nat /\ attempt \in 0..2 /\ flying' \subseteq Posts /\ received' \in Seq(Posts)
    BY <1>1, <1>2 DEF HookTypes
  <2>1. CASE attempt = 1 /\ stage' = "webhook" /\ UNCHANGED <<attempt, outcome>>
    <3>1. outcome' \in Seq(Verdicts) /\ Len(outcome') + 1 = number
      BY <1>1, <1>2, <2>1 DEF HookTypes, Attempts
    <3> QED BY <1>1, <2>0, <2>1, <3>1 DEF HookTypes, Attempts, Stages
  <2>2. CASE stage' = "idle" /\ attempt' = 0 /\ outcome' \in Seq(Verdicts) /\ Len(outcome') = number
    BY <1>1, <2>0, <2>2 DEF HookTypes, Attempts, Stages
  <2> QED BY <1>4, <2>1, <2>2
<1>6. \A s : (Taken(s)' <=> Taken(s)) /\ (Sent(s)' => Sent(s))
  BY <1>1 DEF Sent, Taken
<1>7. PostsAreRight'
  <2>1. \A s \in flying' : s \in late'
    BY <1>1, <1>2 DEF PostsAreRight, Current
  <2>2. \A s \in Posts : Sent(s) /\ s[1] = number => s \in late'
    BY <1>1, <1>2 DEF PostsAreRight, Current
  <2>3. \A s \in Posts : Sent(s) /\ s[1] = number => s[2] <= attempt
    BY <1>1, <1>2 DEF PostsAreRight
  <2> QED BY <1>1, <1>2, <1>4, <1>6, <2>1, <2>2, <2>3 DEF PostsAreRight
<1>8. DeliveredWasTaken'
  BY <1>2, <1>4, <1>6 DEF DeliveredWasTaken
<1>9. ReceivedInOrder'
  BY <1>1, <1>2 DEF ReceivedInOrder
<1> QED BY <1>5, <1>7, <1>8, <1>9 DEF HookInv

\* Every step keeps the invariant of the webhook.
LEMMA HookStep == HookInv /\ [FanoutNext]_fanout => HookInv'
<1> SUFFICES ASSUME HookInv, [FanoutNext]_fanout PROVE HookInv'
  OBVIOUS
<1>1. CASE Publish
  BY <1>1, PublishHook
<1>2. ASSUME NEW c \in Clients, Turn(c) \/ SendEnds(c, TRUE) \/ SendEnds(c, FALSE) PROVE HookInv'
  BY <1>2, HookKept DEF Turn, SendEnds
<1>3. CASE LoopEnds \/ LoopRaises \/ Cancel
  BY <1>3, HookKept DEF LoopEnds, LoopRaises, Cancel
<1>4. CASE Post
  BY <1>4, PostHook
<1>5. CASE Answered
  BY <1>5, AnsweredHook
<1>6. CASE Fails
  BY <1>6, FailsHook
<1>7. ASSUME NEW c \in Clients, Connect(c) \/ Disconnect(c) PROVE HookInv'
  BY <1>7, HookKept DEF Connect, Disconnect
<1>8. ASSUME NEW post \in flying, Receive(post) PROVE HookInv'
  BY <1>8, ReceiveHook
<1>9. CASE UNCHANGED fanout
  BY <1>9, HookKept DEF fanout, hookVars
<1> QED BY <1>1, <1>2, <1>3, <1>4, <1>5, <1>6, <1>7, <1>8, <1>9 DEF FanoutNext, Publishing, Send

\* The two invariants together are the property.
LEMMA Watched == AudienceInv /\ HookInv => WatchersTold
BY DEF AudienceInv, ToldInOrder, AudienceTold, HookInv, DeliveredWasTaken,
         ReceivedInOrder, WatchersTold

\* Whoever is connected while a message goes round is told it, once and in
\* order, or its socket broke; the webhook reports only what was received,
\* and only a post nobody waits for comes twice or late: for any clients and
\* any number of messages.
THEOREM WatchersAreTold == FanoutSpec => []WatchersTold
<1>1. FanoutInit => AudienceInv /\ HookInv
  BY AudienceInit, HookInit
<1>2. AudienceInv /\ HookInv /\ [FanoutNext]_fanout => AudienceInv' /\ HookInv'
  BY AudienceStep, HookStep
<1> QED BY <1>1, <1>2, Watched, PTL DEF FanoutSpec

-----------------------------------------------------------------------------
(***************************************************************************)
(* The KNX bus                                                             *)
(***************************************************************************)

Telegram == [address : Addresses, value : Values]

KnxTypes ==
  /\ memory \in [KnxPoints -> Values \cup {Text}]
  /\ bus \in [Addresses -> Values]
  /\ devices \subseteq KnxDevices /\ connecting \subseteq KnxDevices
  /\ alive \subseteq Links /\ link \in alive \cup {0}
  /\ outbox \in [Links -> Seq(Telegram)] /\ inbox \in [Links -> Seq(Telegram)]

\* A stopped connection has no telegrams, and a device needs a connection.
Wired ==
  /\ \A l \in Links \ alive : outbox[l] = <<>> /\ inbox[l] = <<>>
  /\ devices # {} => link # 0

Key(p) == <<p[1], NameOf(p)>>
Shown(p) == Own(p) /\ AddressOf(p) # NoAddress

Directory ==
  /\ \A n \in DOMAIN ga : \E q \in KnxPoints :
       n = Key(q) /\ ga[n] = AddressOf(q) /\ AddressOf(q) # NoAddress
  /\ \A g \in DOMAIN rev : \E q \in KnxPoints : AddressOf(q) = g /\ rev[g] = Key(q)
  /\ \A p \in KnxPoints : p[1] \in devices /\ Shown(p) =>
       /\ AddressOf(p) \in DOMAIN rev /\ rev[AddressOf(p)] = Key(p)
       /\ Key(p) \in DOMAIN ga /\ ga[Key(p)] = AddressOf(p)

EndsWith(box, g, v) ==
  \E i \in DOMAIN box :
    /\ box[i].address = g /\ box[i].value = v
    /\ \A j \in DOMAIN box : box[j].address = g => j <= i

OneWay ==
  \A g \in Addresses \ crossed :
    /\ \A l, k \in Links : Carries(outbox[l], g) /\ Carries(outbox[k], g) => l = k
    /\ \A l, k \in Links : Carries(outbox[l], g) /\ Carries(inbox[k], g) => l # k
    /\ \A k \in Links : Carries(inbox[k], g) => EndsWith(inbox[k], g, bus[g])

Agreeing(p) ==
  LET g == AddressOf(p) IN
  /\ \A l \in Links, w \in Values : EndsWith(outbox[l], g, w) =>
       memory[p] \in {w, Text} \/ alive \ {l} # {}
  /\ (\A l \in Links : ~Carries(outbox[l], g)) =>
       memory[p] \in {bus[g], Text} \/ \E k \in Links : Carries(inbox[k], g)

Agreement ==
  \A p \in KnxPoints : p[1] \in devices /\ Shown(p) /\ AddressOf(p) \notin crossed => Agreeing(p)

KnxInv == KnxTypes /\ Wired /\ Directory /\ OneWay /\ Agreement

\* What a box carries, and which value it has last for an address, when a
\* telegram is put behind the others.
LEMMA AppendBox ==
  ASSUME NEW box \in Seq(Telegram), NEW t \in Telegram, NEW g
  PROVE  /\ Carries(Append(box, t), g) <=> Carries(box, g) \/ t.address = g
         /\ \A v : EndsWith(box, g, v) /\ t.address # g => EndsWith(Append(box, t), g, v)
         /\ t.address = g => EndsWith(Append(box, t), g, t.value)
<1>1. /\ Append(box, t) \in Seq(Telegram) /\ Len(Append(box, t)) = Len(box) + 1
      /\ \A i \in 1..Len(box) : Append(box, t)[i] = box[i]
      /\ Append(box, t)[Len(box) + 1] = t
  BY AppendProperties
<1>2. /\ DOMAIN box = 1..Len(box) /\ Len(box) \in Nat
      /\ DOMAIN Append(box, t) = 1..Len(box) + 1
  BY <1>1
<1>3. \A i \in DOMAIN Append(box, t) : i \in DOMAIN box \/ i = Len(box) + 1
  BY <1>2
<1>4. Carries(Append(box, t), g) <=> Carries(box, g) \/ t.address = g
  BY <1>1, <1>2, <1>3 DEF Carries
<1>5. ASSUME NEW v, EndsWith(box, g, v), t.address # g PROVE EndsWith(Append(box, t), g, v)
  BY <1>1, <1>2, <1>3, <1>5 DEF EndsWith
<1>6. ASSUME t.address = g PROVE EndsWith(Append(box, t), g, t.value)
  BY <1>1, <1>2, <1>3, <1>6 DEF EndsWith
<1> QED BY <1>4, <1>5, <1>6

\* The same, when several telegrams are put behind the others.
LEMMA JoinBoxes ==
  ASSUME NEW box \in Seq(Telegram), NEW more \in Seq(Telegram), NEW g
  PROVE  /\ box \o more \in Seq(Telegram)
         /\ Carries(box \o more, g) <=> Carries(box, g) \/ Carries(more, g)
         /\ \A v : EndsWith(box \o more, g, v) =>
              EndsWith(more, g, v) \/ (~Carries(more, g) /\ EndsWith(box, g, v))
<1> DEFINE both == box \o more
<1>1. /\ both \in Seq(Telegram) /\ Len(both) = Len(box) + Len(more)
      /\ \A i \in 1..Len(both) : both[i] = IF i <= Len(box) THEN box[i] ELSE more[i - Len(box)]
  BY ConcatProperties
<1>2. /\ DOMAIN box = 1..Len(box) /\ Len(box) \in Nat
      /\ DOMAIN more = 1..Len(more) /\ Len(more) \in Nat
      /\ DOMAIN both = 1..Len(box) + Len(more)
  BY <1>1
<1> HIDE DEF both
<1>3. /\ \A i \in DOMAIN box : i \in DOMAIN both /\ both[i] = box[i]
      /\ \A i \in DOMAIN more : Len(box) + i \in DOMAIN both /\ both[Len(box) + i] = more[i]
  BY <1>1, <1>2
<1>4. \A i \in DOMAIN both :
        \/ i \in DOMAIN box /\ both[i] = box[i]
        \/ i > Len(box) /\ i - Len(box) \in DOMAIN more /\ both[i] = more[i - Len(box)]
  BY <1>1, <1>2
<1>5. Carries(both, g) <=> Carries(box, g) \/ Carries(more, g)
  BY <1>3, <1>4 DEF Carries
<1>6. ASSUME NEW v, EndsWith(both, g, v)
      PROVE  EndsWith(more, g, v) \/ (~Carries(more, g) /\ EndsWith(box, g, v))
  <2>1. PICK i \in DOMAIN both : /\ both[i].address = g /\ both[i].value = v
                                 /\ \A j \in DOMAIN both : both[j].address = g => j <= i
    BY <1>6 DEF EndsWith
  <2>2. CASE i \in DOMAIN box
    <3>1. ~Carries(more, g)
      BY <1>2, <1>3, <2>1, <2>2 DEF Carries
    <3>2. EndsWith(box, g, v)
      BY <1>3, <2>1, <2>2 DEF EndsWith
    <3> QED BY <3>1, <3>2
  <2>3. CASE i \notin DOMAIN box
    <3> DEFINE k == i - Len(box)
    <3>1. k \in DOMAIN more /\ both[i] = more[k]
      BY <1>4, <2>3
    <3>2. \A j \in DOMAIN more : more[j].address = g => Len(box) + j <= i
      BY <1>3, <2>1
    <3>3. \A j \in DOMAIN more : more[j].address = g => j <= k
      BY <1>2, <3>2, <2>1, <1>1
    <3> HIDE DEF k
    <3> QED BY <2>1, <3>1, <3>3 DEF EndsWith
  <2> QED BY <2>2, <2>3
<1> QED BY <1>1, <1>5, <1>6 DEF both

\* The same, when the first telegram is taken away.
LEMMA FirstAndRest ==
  ASSUME NEW box \in Seq(Telegram), box # <<>>, NEW g
  PROVE  /\ Head(box) \in Telegram /\ Tail(box) \in Seq(Telegram)
         /\ Carries(box, g) <=> Head(box).address = g \/ Carries(Tail(box), g)
         /\ \A v : EndsWith(Tail(box), g, v) => EndsWith(box, g, v)
         /\ Head(box).address = g /\ ~Carries(Tail(box), g) => EndsWith(box, g, Head(box).value)
         /\ \A v : EndsWith(box, g, v) /\ Carries(Tail(box), g) => EndsWith(Tail(box), g, v)
         /\ \A v : EndsWith(box, g, v) /\ ~Carries(Tail(box), g) => Head(box).value = v
<1> DEFINE rest == Tail(box)
<1>1. /\ Head(box) \in Telegram /\ rest \in Seq(Telegram) /\ Head(box) = box[1]
      /\ Len(rest) = Len(box) - 1 /\ \A i \in 1..Len(rest) : rest[i] = box[i + 1]
  BY HeadTailProperties
<1>2. /\ DOMAIN box = 1..Len(box) /\ Len(box) \in Nat \ {0}
      /\ DOMAIN rest = 1..Len(rest)
  BY <1>1, EmptySeq
<1> HIDE DEF rest
<1>3. /\ 1 \in DOMAIN box
      /\ \A i \in DOMAIN rest : i + 1 \in DOMAIN box /\ box[i + 1] = rest[i]
  BY <1>1, <1>2
<1>4. \A i \in DOMAIN box : i = 1 \/ (i > 1 /\ i - 1 \in DOMAIN rest /\ box[i] = rest[i - 1])
  BY <1>1, <1>2
<1>5. Carries(box, g) <=> Head(box).address = g \/ Carries(rest, g)
  BY <1>1, <1>3, <1>4 DEF Carries
<1>6. ASSUME NEW v, EndsWith(rest, g, v) PROVE EndsWith(box, g, v)
  <2>1. PICK i \in DOMAIN rest : /\ rest[i].address = g /\ rest[i].value = v
                                 /\ \A j \in DOMAIN rest : rest[j].address = g => j <= i
    BY <1>6 DEF EndsWith
  <2>2. \A j \in DOMAIN box : box[j].address = g => j <= i + 1
    BY <1>1, <1>2, <1>4, <2>1
  <2> QED BY <1>3, <2>1, <2>2 DEF EndsWith
<1>7. ASSUME Head(box).address = g, ~Carries(rest, g) PROVE EndsWith(box, g, Head(box).value)
  BY <1>1, <1>2, <1>3, <1>4, <1>7 DEF EndsWith, Carries
<1>8. ASSUME NEW v, EndsWith(box, g, v), Carries(rest, g) PROVE EndsWith(rest, g, v)
  <2>1. PICK i \in DOMAIN box : /\ box[i].address = g /\ box[i].value = v
                                /\ \A j \in DOMAIN box : box[j].address = g => j <= i
    BY <1>8 DEF EndsWith
  <2>2. PICK k \in DOMAIN rest : rest[k].address = g
    BY <1>8 DEF Carries
  <2>3. k + 1 <= i
    BY <1>3, <2>1, <2>2
  <2>4. i - 1 \in DOMAIN rest /\ box[i] = rest[i - 1]
    BY <1>1, <1>2, <1>4, <2>2, <2>3
  <2>5. \A j \in DOMAIN rest : rest[j].address = g => j <= i - 1
    BY <1>1, <1>2, <1>3, <2>1
  <2> QED BY <2>1, <2>4, <2>5 DEF EndsWith
<1>9. ASSUME NEW v, EndsWith(box, g, v), ~Carries(rest, g) PROVE Head(box).value = v
  BY <1>1, <1>4, <1>9 DEF EndsWith, Carries
<1> QED BY <1>1, <1>5, <1>6, <1>7, <1>8, <1>9 DEF rest

\* A set of numbers with a bound has a largest one: its least bound.
LEMMA MaxIsThere ==
  ASSUME NEW S, S \subseteq Nat, S # {}, NEW b \in Nat, \A x \in S : x <= b
  PROVE  Max(S) \in S
<1> DEFINE Bound == {k \in Nat : \A x \in S : x <= k}
<1>1. PICK k \in Bound : \A y \in Bound : ~(y < k)
  <2>1. Bound \subseteq Nat /\ Bound # {}
    OBVIOUS
  <2>2. PICK k \in Bound : \A y \in Bound : <<y, k>> \notin OpToRel(<, Nat)
    <3> HIDE DEF Bound
    <3> QED BY <2>1, NatLessThanWellFounded, WFMin
  <2>3. \A y \in Nat : y < k => <<y, k>> \in OpToRel(<, Nat)
    BY <2>1 DEF OpToRel
  <2> QED BY <2>1, <2>2, <2>3
<1>2. k \in S
  <2>1. CASE k = 0
    <3>1. PICK x \in S : TRUE
      OBVIOUS
    <3>2. x <= 0
      BY <1>1, <2>1
    <3> QED BY <2>1, <3>1, <3>2
  <2>2. CASE k # 0
    <3>1. k - 1 \in Nat /\ k - 1 < k
      BY <1>1, <2>2
    <3>2. PICK x \in S : ~(x <= k - 1)
      BY <1>1, <3>1
    <3> QED BY <1>1, <3>1, <3>2
  <2> QED BY <2>1, <2>2
<1>3. \A x \in S : k >= x
  BY <1>1
<1> HIDE DEF Bound
<1>4. \E m \in S : \A x \in S : m >= x
  BY <1>2, <1>3
<1> QED BY <1>4 DEF Max

\* Points and the indices of their devices.
LEMMA PointFacts ==
  /\ \A d \in KnxDevices : \A i \in DOMAIN PointsOf[d] : <<d, i>> \in KnxPoints
  /\ \A p \in KnxPoints : /\ p[1] \in KnxDevices /\ p[2] \in DOMAIN PointsOf[p[1]]
                          /\ p = <<p[1], p[2]>>
BY DEF KnxPoints

\* The last point of a name has that name, the last one at an address that address.
LEMMA LastFacts ==
  ASSUME NEW d \in KnxDevices, NEW i \in Exposed(d)
  PROVE  /\ \E k \in Exposed(d) : /\ PointsOf[d][k].name = PointsOf[d][i].name
                                  /\ LastNamed(d, PointsOf[d][i].name) = PointsOf[d][k]
         /\ \E k \in Exposed(d) : /\ PointsOf[d][k].address = PointsOf[d][i].address
                                  /\ LastAt(d, PointsOf[d][i].address) = PointsOf[d][k]
<1>1. Exposed(d) \subseteq Nat /\ Len(PointsOf[d]) \in Nat
      /\ \A k \in Exposed(d) : k <= Len(PointsOf[d])
  BY KnxAssumption DEF Exposed
<1>2. ASSUME NEW S, S \subseteq Exposed(d), i \in S PROVE Max(S) \in S
  BY <1>1, <1>2, MaxIsThere
<1> DEFINE S == {k \in Exposed(d) : PointsOf[d][k].name = PointsOf[d][i].name}
           T == {k \in Exposed(d) : PointsOf[d][k].address = PointsOf[d][i].address}
<1>3. Max(S) \in S /\ LastNamed(d, PointsOf[d][i].name) = PointsOf[d][Max(S)]
  <2>1. S \subseteq Exposed(d) /\ i \in S
    OBVIOUS
  <2> QED BY <1>2, <2>1 DEF LastNamed
<1>4. Max(T) \in T /\ LastAt(d, PointsOf[d][i].address) = PointsOf[d][Max(T)]
  <2>1. T \subseteq Exposed(d) /\ i \in T
    OBVIOUS
  <2> QED BY <1>2, <2>1 DEF LastAt
<1> QED BY <1>3, <1>4

\* The directory is right again when a device is put into it.
LEMMA MapStep ==
  ASSUME Directory, NEW d \in KnxDevices, Map(d)
  PROVE  Directory'
<1> DEFINE names == {PointsOf[d][i].name : i \in Exposed(d)}
           groups == {PointsOf[d][i].address : i \in Exposed(d)}
<1>1. /\ devices' = devices \cup {d}
      /\ DOMAIN ga' = ({d} \X names) \cup DOMAIN ga
      /\ \A n \in {d} \X names : ga'[n] = LastNamed(d, n[2]).address
      /\ \A n \in DOMAIN ga \ ({d} \X names) : ga'[n] = ga[n]
      /\ DOMAIN rev' = groups \cup DOMAIN rev
      /\ \A g \in groups : rev'[g] = <<d, LastAt(d, g).name>>
      /\ \A g \in DOMAIN rev \ groups : rev'[g] = rev[g]
  BY DEF Map, Over
<1>2. \A i \in Exposed(d) : /\ <<d, i>> \in KnxPoints /\ Key(<<d, i>>) = <<d, PointsOf[d][i].name>>
                            /\ AddressOf(<<d, i>>) = PointsOf[d][i].address
                            /\ PointsOf[d][i].address # NoAddress
  BY PointFacts DEF Exposed, Key, NameOf, AddressOf
<1>3. ASSUME NEW i \in Exposed(d)
      PROVE  \E k \in Exposed(d) : /\ PointsOf[d][k].name = PointsOf[d][i].name
                                   /\ ga'[<<d, PointsOf[d][i].name>>] = PointsOf[d][k].address
  <2>1. ga'[<<d, PointsOf[d][i].name>>] = LastNamed(d, PointsOf[d][i].name).address
    BY <1>1
  <2> QED BY <2>1, LastFacts
<1>4. ASSUME NEW i \in Exposed(d)
      PROVE  \E k \in Exposed(d) : /\ PointsOf[d][k].address = PointsOf[d][i].address
                                   /\ rev'[PointsOf[d][i].address] = <<d, PointsOf[d][k].name>>
  <2>1. rev'[PointsOf[d][i].address] = <<d, LastAt(d, PointsOf[d][i].address).name>>
    BY <1>1
  <2> QED BY <2>1, LastFacts
<1>5. ASSUME NEW n \in DOMAIN ga'
      PROVE  \E q \in KnxPoints : n = Key(q) /\ ga'[n] = AddressOf(q) /\ AddressOf(q) # NoAddress
  <2>1. CASE n \in {d} \X names
    <3>1. PICK i \in Exposed(d) : n = <<d, PointsOf[d][i].name>>
      BY <2>1
    <3>2. PICK k \in Exposed(d) : /\ PointsOf[d][k].name = PointsOf[d][i].name
                                  /\ ga'[n] = PointsOf[d][k].address
      BY <1>3, <3>1
    <3> QED BY <1>2, <3>1, <3>2
  <2>2. CASE n \notin {d} \X names
    BY <1>1, <1>5, <2>2 DEF Directory
  <2> QED BY <2>1, <2>2
<1>6. ASSUME NEW g \in DOMAIN rev' PROVE \E q \in KnxPoints : AddressOf(q) = g /\ rev'[g] = Key(q)
  <2>1. CASE g \in groups
    <3>1. PICK i \in Exposed(d) : g = PointsOf[d][i].address
      BY <2>1
    <3>2. PICK k \in Exposed(d) : /\ PointsOf[d][k].address = g
                                  /\ rev'[g] = <<d, PointsOf[d][k].name>>
      BY <1>4, <3>1
    <3> QED BY <1>2, <3>1, <3>2
  <2>2. CASE g \notin groups
    BY <1>1, <1>6, <2>2 DEF Directory
  <2> QED BY <2>1, <2>2
<1>7. ASSUME NEW p \in KnxPoints, p[1] \in devices', Shown(p)
      PROVE  /\ AddressOf(p) \in DOMAIN rev' /\ rev'[AddressOf(p)] = Key(p)
             /\ Key(p) \in DOMAIN ga' /\ ga'[Key(p)] = AddressOf(p)
  <2>1. CASE p[1] = d
    <3>1. p[2] \in Exposed(d) /\ p = <<d, p[2]>>
      BY <1>7, <2>1, PointFacts DEF Exposed, Shown, AddressOf
    <3>2. \A k \in Exposed(d) : /\ PointsOf[d][k].name = PointsOf[d][p[2]].name => k = p[2]
                                /\ PointsOf[d][k].address = PointsOf[d][p[2]].address => k = p[2]
      <4>1. ASSUME NEW k \in Exposed(d), k # p[2]
            PROVE  AddressOf(<<d, k>>) # AddressOf(p) /\ NameOf(<<d, k>>) # NameOf(p)
        <5>1. <<d, k>> \in KnxPoints \ {p} /\ <<d, k>>[1] = p[1]
          BY <1>2, <2>1, <3>1, <4>1
        <5> QED BY <1>7, <5>1 DEF Shown, Own
      <4> QED BY <3>1, <4>1 DEF AddressOf, NameOf
    <3>3. Key(p) = <<d, PointsOf[d][p[2]].name>> /\ AddressOf(p) = PointsOf[d][p[2]].address
      BY <1>2, <3>1
    <3>4. Key(p) \in DOMAIN ga' /\ ga'[Key(p)] = AddressOf(p)
      <4>1. PICK k \in Exposed(d) : /\ PointsOf[d][k].name = PointsOf[d][p[2]].name
                                    /\ ga'[Key(p)] = PointsOf[d][k].address
        BY <1>3, <3>1, <3>3
      <4>2. k = p[2]
        BY <3>2, <4>1
      <4>3. Key(p) \in {d} \X names
        BY <3>1, <3>3
      <4> QED BY <1>1, <3>3, <4>1, <4>2, <4>3
    <3>5. AddressOf(p) \in DOMAIN rev' /\ rev'[AddressOf(p)] = Key(p)
      <4>1. PICK k \in Exposed(d) : /\ PointsOf[d][k].address = PointsOf[d][p[2]].address
                                    /\ rev'[AddressOf(p)] = <<d, PointsOf[d][k].name>>
        BY <1>4, <3>1, <3>3
      <4>2. k = p[2]
        BY <3>2, <4>1
      <4>3. AddressOf(p) \in groups
        BY <3>1, <3>3
      <4> QED BY <1>1, <3>3, <4>1, <4>2, <4>3
    <3> QED BY <3>4, <3>5
  <2>2. CASE p[1] # d
    <3>1. p[1] \in devices
      BY <1>1, <1>7, <2>2
    <3>2. AddressOf(p) \notin groups
      <4>1. ASSUME NEW i \in Exposed(d) PROVE AddressOf(<<d, i>>) # AddressOf(p)
        <5>1. <<d, i>> \in KnxPoints \ {p}
          BY <1>2, <2>2, <4>1
        <5> QED BY <1>7, <5>1 DEF Shown, Own
      <4> QED BY <1>2, <4>1
    <3>3. Key(p) \notin {d} \X names
      BY <2>2 DEF Key
    <3> QED BY <1>1, <1>7, <3>1, <3>2, <3>3 DEF Directory
  <2> QED BY <2>1, <2>2
<1> QED BY <1>5, <1>6, <1>7 DEF Directory, Shown, Own, Key, NameOf, AddressOf

\* What reaches the engine under an address or a name that a point alone has
\* is meant for that point.
LEMMA DirectoryFacts ==
  ASSUME Directory, NEW p \in KnxPoints, Shown(p)
  PROVE  /\ \A g \in DOMAIN rev : rev[g] = Key(p) => g = AddressOf(p)
         /\ \A q \in KnxPoints : Key(q) = Key(p) => q = p
         /\ \A q \in KnxPoints : AddressOf(q) = AddressOf(p) => q = p
         /\ \A n \in DOMAIN ga : ga[n] = AddressOf(p) => n = Key(p)
<1>1. \A q \in KnxPoints : Key(q) = Key(p) => q = p
  BY DEF Shown, Own, Key
<1>2. \A q \in KnxPoints : AddressOf(q) = AddressOf(p) => q = p
  BY DEF Shown, Own
<1> QED BY <1>1, <1>2 DEF Directory

\* What is put into the queue of a connection is behind what was there, and
\* tells apart the groups that are told by who else is telling them.
LEMMA PutFacts ==
  ASSUME KnxTypes, NEW l \in Links, NEW ts \in Seq(Telegram), Put(l, ts)
  PROVE  /\ outbox' \in [Links -> Seq(Telegram)]
         /\ \A k \in Links : k # l => outbox'[k] = outbox[k]
         /\ \A g : /\ Carries(outbox'[l], g) <=> Carries(outbox[l], g) \/ Carries(ts, g)
                   /\ \A v : EndsWith(outbox'[l], g, v) =>
                        EndsWith(ts, g, v) \/ (~Carries(ts, g) /\ EndsWith(outbox[l], g, v))
         /\ \A g \in Addresses : g \notin crossed' =>
              IF Carries(ts, g) THEN ~Crossing(l, g) ELSE g \notin crossed
<1>1. /\ outbox' = [outbox EXCEPT ![l] = outbox[l] \o ts]
      /\ \A g \in Addresses :
           g \in crossed' <=> IF Carries(ts, g) THEN Crossing(l, g) ELSE g \in crossed
  BY DEF Put, Carries
<1>2. outbox[l] \in Seq(Telegram) /\ outbox \in [Links -> Seq(Telegram)]
  BY DEF KnxTypes
<1>3. outbox[l] \o ts \in Seq(Telegram)
  BY <1>2, JoinBoxes
<1>4. /\ outbox' \in [Links -> Seq(Telegram)] /\ outbox'[l] = outbox[l] \o ts
      /\ \A k \in Links : k # l => outbox'[k] = outbox[k]
  BY <1>1, <1>2, <1>3
<1> QED BY <1>1, <1>2, <1>4, JoinBoxes

\* Putting telegrams into a queue keeps the groups one way or marks them.
LEMMA PutOneWay ==
  ASSUME KnxTypes, OneWay, NEW l \in Links, NEW ts \in Seq(Telegram), Put(l, ts),
         UNCHANGED <<inbox, bus>>
  PROVE  OneWay'
<1>1. /\ \A k \in Links : k # l => outbox'[k] = outbox[k]
      /\ \A g : Carries(outbox'[l], g) <=> Carries(outbox[l], g) \/ Carries(ts, g)
      /\ \A g \in Addresses : g \notin crossed' =>
           IF Carries(ts, g) THEN ~Crossing(l, g) ELSE g \notin crossed
  BY PutFacts
<1>2. ASSUME NEW g \in Addresses, g \notin crossed'
      PROVE  /\ \A i, k \in Links : Carries(outbox'[i], g) /\ Carries(outbox'[k], g) => i = k
             /\ \A i, k \in Links : Carries(outbox'[i], g) /\ Carries(inbox[k], g) => i # k
             /\ \A k \in Links : Carries(inbox[k], g) => EndsWith(inbox[k], g, bus[g])
  <2>1. CASE Carries(ts, g)
    <3>1. /\ \A k \in Links : ~Carries(inbox[k], g)
          /\ \A k \in Links : k # l => ~Carries(outbox'[k], g)
      BY <1>1, <1>2, <2>1 DEF Crossing
    <3> QED BY <3>1
  <2>2. CASE ~Carries(ts, g)
    <3>1. g \notin crossed /\ \A k \in Links : Carries(outbox'[k], g) <=> Carries(outbox[k], g)
      BY <1>1, <1>2, <2>2
    <3> QED BY <3>1 DEF OneWay
  <2> QED BY <2>1, <2>2
<1>3. inbox' = inbox /\ bus' = bus
  OBVIOUS
<1> QED BY <1>2, <1>3 DEF OneWay, Carries, EndsWith

\* A point agrees with the queues after a put, if what was put is its value,
\* or if it was not about the point and its value stayed.
LEMMA PutAgreeing ==
  ASSUME KnxTypes, NEW l \in Links, NEW ts \in Seq(Telegram), Put(l, ts),
         UNCHANGED <<inbox, bus>>, alive \subseteq alive',
         NEW p \in KnxPoints, Shown(p), AddressOf(p) \notin crossed',
         \A w : EndsWith(ts, AddressOf(p), w) => memory'[p] \in {w, Text},
         ~Carries(ts, AddressOf(p)) =>
           \/ memory'[p] = Text
           \/ memory'[p] = memory[p] /\ (AddressOf(p) \notin crossed => Agreeing(p))
  PROVE  Agreeing(p)'
<1> DEFINE g == AddressOf(p)
<1>0. g \in Addresses
  BY KnxAssumption DEF Shown
<1>1. /\ \A k \in Links : k # l => outbox'[k] = outbox[k]
      /\ Carries(outbox'[l], g) <=> Carries(outbox[l], g) \/ Carries(ts, g)
      /\ \A v : EndsWith(outbox'[l], g, v) =>
           EndsWith(ts, g, v) \/ (~Carries(ts, g) /\ EndsWith(outbox[l], g, v))
      /\ IF Carries(ts, g) THEN ~Crossing(l, g) ELSE g \notin crossed
  BY <1>0, PutFacts
<1>2. \A k \in Links : \A w : EndsWith(outbox[k], g, w) => Carries(outbox[k], g)
  BY DEF EndsWith, Carries
<1> HIDE DEF g
<1>3. ASSUME NEW k \in Links, NEW w \in Values, EndsWith(outbox'[k], g, w)
      PROVE  memory'[p] \in {w, Text} \/ alive' \ {k} # {}
  <2>1. CASE Carries(ts, g)
    <3>1. k = l
      BY <1>1, <1>2, <1>3, <2>1 DEF Crossing
    <3> QED BY <1>1, <1>3, <2>1, <3>1 DEF g
  <2>2. CASE ~Carries(ts, g)
    <3>1. EndsWith(outbox[k], g, w) /\ g \notin crossed
      <4>1. ~EndsWith(ts, g, w)
        BY <2>2 DEF EndsWith, Carries
      <4> QED BY <1>1, <1>3, <2>2, <4>1
    <3> QED BY <2>2, <3>1 DEF g, Agreeing
  <2> QED BY <2>1, <2>2
<1>4. ASSUME \A k \in Links : ~Carries(outbox'[k], g)
      PROVE  memory'[p] \in {bus[g], Text} \/ \E k \in Links : Carries(inbox[k], g)
  <2>1. ~Carries(ts, g) /\ g \notin crossed /\ \A k \in Links : ~Carries(outbox[k], g)
    BY <1>1, <1>4
  <2> QED BY <2>1 DEF g, Agreeing
<1> QED BY <1>3, <1>4 DEF g, Agreeing, Carries, EndsWith

\* A device has finitely many points with an address.
LEMMA ExposedFinite == \A d \in KnxDevices : IsFiniteSet(Exposed(d))
<1> SUFFICES ASSUME NEW d \in KnxDevices PROVE IsFiniteSet(Exposed(d))
  OBVIOUS
<1> DEFINE n == Len(PointsOf[d])
<1>1. n \in Nat /\ DOMAIN PointsOf[d] = 1..n
  BY KnxAssumption
<1>2. Exposed(d) \subseteq 1..n
  BY <1>1 DEF Exposed
<1> HIDE DEF n
<1>3. 1 \in Int /\ n \in Int
  BY <1>1
<1>4. IsFiniteSet(1..n)
  BY <1>3, FS_Interval
<1> QED BY <1>2, <1>4, FS_Subset

\* A device that starts sends the values of all its points.
LEMMA ExposeStep ==
  ASSUME KnxInv, NEW d \in KnxDevices, NEW l \in Links, Expose(d, l),
         alive' = alive \cup {l}, link' = l
  PROVE  KnxInv'
<1> DEFINE sent == {i \in Exposed(d) : memory[<<d, i>>] # Text}
<1>0. KnxTypes /\ Wired /\ Directory /\ OneWay /\ Agreement
  BY DEF KnxInv
<1>1. /\ Map(d)
      /\ devices' = devices \cup {d} /\ connecting' = connecting \ {d}
      /\ UNCHANGED <<memory, inbox, bus>>
  BY DEF Expose, Map
<1>2. PICK order \in [1..Cardinality(sent) -> sent] :
        /\ Range(order) = sent
        /\ Put(l, [n \in DOMAIN order |->
                    [address |-> PointsOf[d][order[n]].address, value |-> memory[<<d, order[n]>>]]])
  BY DEF Expose
<1> DEFINE ts == [n \in DOMAIN order |->
                   [address |-> PointsOf[d][order[n]].address, value |-> memory[<<d, order[n]>>]]]
<1>3. \A i \in Exposed(d) : /\ <<d, i>> \in KnxPoints
                            /\ AddressOf(<<d, i>>) = PointsOf[d][i].address
                            /\ PointsOf[d][i].address \in Addresses
  BY PointFacts, KnxAssumption DEF Exposed, AddressOf
<1>4. ts \in Seq(Telegram)
  <2>1. sent \subseteq Exposed(d)
    OBVIOUS
  <2>2. Cardinality(sent) \in Nat
    <3> HIDE DEF sent, ts
    <3>1. IsFiniteSet(Exposed(d))
      BY ExposedFinite
    <3>2. IsFiniteSet(sent)
      BY <2>1, <3>1, FS_Subset
    <3> QED BY <3>2, FS_CardinalityType
  <2>3. \A i \in sent :
          [address |-> PointsOf[d][i].address, value |-> memory[<<d, i>>]] \in Telegram
    BY <1>0, <1>3 DEF KnxTypes, Telegram
  <2> DEFINE c == Cardinality(sent)
  <2>4. order \in [1..c -> sent]
    OBVIOUS
  <2> HIDE DEF sent, c
  <2>5. ts \in [1..c -> Telegram]
    BY <2>3, <2>4
  <2>6. c \in Nat
    BY <2>2 DEF c
  <2> HIDE DEF ts
  <2> QED BY <2>5, <2>6
<1>5. \A n \in DOMAIN ts : /\ order[n] \in sent /\ ts[n].address = AddressOf(<<d, order[n]>>)
                           /\ ts[n].value = memory[<<d, order[n]>>]
  BY <1>3
<1>6. \A i \in sent : \E n \in DOMAIN ts : order[n] = i
  BY <1>2 DEF Range
<1>7. Put(l, ts)
  BY <1>2
<1> HIDE DEF ts
<1>8. KnxTypes'
  <2>1. outbox' \in [Links -> Seq(Telegram)]
    BY <1>0, <1>4, <1>7, PutFacts
  <2> QED BY <1>0, <1>1, <2>1 DEF KnxTypes
<1>9. Wired'
  <2>1. \A k \in Links : k # l => outbox'[k] = outbox[k]
    BY <1>0, <1>4, <1>7, PutFacts
  <2>2. l # 0
    BY KnxAssumption
  <2> QED BY <1>0, <1>1, <2>1, <2>2 DEF Wired
<1>10. Directory'
  BY <1>0, <1>1, MapStep
<1>11. OneWay'
  BY <1>0, <1>1, <1>4, <1>7, PutOneWay
<1>12. ASSUME NEW p \in KnxPoints, p[1] \in devices', Shown(p), AddressOf(p) \notin crossed'
       PROVE  Agreeing(p)'
  <2>1. \A i \in sent : AddressOf(<<d, i>>) = AddressOf(p) => <<d, i>> = p
    <3>1. \A q \in KnxPoints : AddressOf(q) = AddressOf(p) => q = p
      BY <1>0, <1>12, DirectoryFacts
    <3> QED BY <1>3, <3>1
  <2>2. \A w : EndsWith(ts, AddressOf(p), w) => memory'[p] \in {w, Text}
    <3>1. ASSUME NEW n \in DOMAIN ts, ts[n].address = AddressOf(p) PROVE ts[n].value = memory[p]
      BY <1>5, <2>1, <3>1
    <3> QED BY <1>1, <3>1 DEF EndsWith
  <2>3. CASE p[1] = d
    <3>1. p[2] \in Exposed(d) /\ p = <<d, p[2]>>
      BY <1>12, <2>3, PointFacts DEF Exposed, Shown, AddressOf
    <3>2. ~Carries(ts, AddressOf(p)) => memory'[p] = Text
      <4>1. ASSUME memory[p] # Text PROVE Carries(ts, AddressOf(p))
        <5>1. p[2] \in sent
          BY <3>1, <4>1
        <5>2. PICK n \in DOMAIN ts : order[n] = p[2]
          BY <1>6, <5>1
        <5>3. ts[n].address = AddressOf(<<d, p[2]>>)
          BY <1>5, <5>2
        <5> QED BY <3>1, <5>3 DEF Carries
      <4> QED BY <1>1, <4>1
    <3> QED BY <1>0, <1>1, <1>4, <1>7, <1>12, <2>2, <3>2, PutAgreeing
  <2>4. CASE p[1] # d
    <3>1. AddressOf(p) \notin crossed => Agreeing(p)
      BY <1>0, <1>1, <1>12, <2>4 DEF Agreement
    <3>2. memory'[p] = memory[p]
      BY <1>1
    <3> QED BY <1>0, <1>1, <1>4, <1>7, <1>12, <2>2, <3>1, <3>2, PutAgreeing
  <2> QED BY <2>3, <2>4
<1> HIDE DEF sent
<1>13. Agreement'
  BY <1>12 DEF Agreement, Shown, Own, AddressOf, NameOf
<1> QED BY <1>8, <1>9, <1>10, <1>11, <1>13 DEF KnxInv

\* A write sends the value, or the point has one that cannot be sent.
LEMMA WriteStep ==
  ASSUME KnxInv, NEW q \in KnxPoints, NEW value \in Values \cup {Text}, Write(q, value)
  PROVE  KnxInv'
<1>0. KnxTypes /\ Wired /\ Directory /\ OneWay /\ Agreement
  BY DEF KnxInv
<1>1. /\ memory' = [memory EXCEPT ![q] = value]
      /\ UNCHANGED <<devices, connecting, ga, rev, link, alive, inbox, bus>>
  BY DEF Write
<1>2. memory' \in [KnxPoints -> Values \cup {Text}] /\ memory'[q] = value
      /\ \A p \in KnxPoints : p # q => memory'[p] = memory[p]
  BY <1>0, <1>1 DEF KnxTypes
<1>3. Directory'
  BY <1>0, <1>1 DEF Directory, Shown, Own, Key, NameOf, AddressOf
<1>4. CASE link # 0 /\ Key(q) \in DOMAIN ga /\ value # Text
  <2> DEFINE t == [address |-> ga[Key(q)], value |-> value]
  <2>1. Put(link, <<t>>) /\ link \in Links
    BY <1>0, <1>4 DEF Write, Key, KnxTypes
  <2>2. t \in Telegram /\ t.address = ga[Key(q)] /\ t.value = value
    <3>1. ga[Key(q)] \in Addresses
      BY <1>0, <1>4, KnxAssumption DEF Directory
    <3> QED BY <1>4, <3>1 DEF Telegram
  <2> HIDE DEF t
  <2> DEFINE ts == <<t>>
  <2>3. ts \in Seq(Telegram) /\ DOMAIN ts = {1} /\ ts[1] = t
    BY <2>2
  <2>4. Put(link, ts)
    BY <2>1
  <2> HIDE DEF ts
  <2>5. /\ \A g : Carries(ts, g) <=> g = ga[Key(q)]
        /\ \A g, w : EndsWith(ts, g, w) => g = ga[Key(q)] /\ w = value
    BY <2>2, <2>3 DEF Carries, EndsWith
  <2>6. KnxTypes' /\ Wired'
    <3>1. /\ outbox' \in [Links -> Seq(Telegram)]
          /\ \A k \in Links : k # link => outbox'[k] = outbox[k]
      BY <1>0, <2>1, <2>3, <2>4, PutFacts
    <3>2. KnxTypes'
      BY <1>0, <1>1, <1>2, <3>1 DEF KnxTypes
    <3>3. link \in alive
      BY <1>0, <1>4 DEF KnxTypes
    <3> QED BY <1>0, <1>1, <3>1, <3>2, <3>3 DEF Wired
  <2>7. OneWay'
    BY <1>0, <1>1, <2>1, <2>3, <2>4, PutOneWay
  <2>8. ASSUME NEW p \in KnxPoints, p[1] \in devices, Shown(p), AddressOf(p) \notin crossed'
        PROVE  Agreeing(p)'
    <3>1. AddressOf(p) = ga[Key(q)] => p = q
      BY <1>0, <1>4, <2>8, DirectoryFacts
    <3>2. Key(p) \in DOMAIN ga /\ ga[Key(p)] = AddressOf(p)
      BY <1>0, <2>8 DEF Directory
    <3>3. \A w : EndsWith(ts, AddressOf(p), w) => memory'[p] \in {w, Text}
      BY <1>2, <2>5, <3>1
    <3>4. ~Carries(ts, AddressOf(p)) =>
            memory'[p] = memory[p] /\ (AddressOf(p) \notin crossed => Agreeing(p))
      BY <1>0, <1>2, <2>5, <2>8, <3>2 DEF Agreement
    <3> QED BY <1>0, <1>1, <2>1, <2>3, <2>4, <2>8, <3>3, <3>4, PutAgreeing
  <2>9. Agreement'
    BY <1>1, <2>8 DEF Agreement, Shown, Own, AddressOf, NameOf
  <2> QED BY <1>3, <2>6, <2>7, <2>9 DEF KnxInv
<1>5. CASE ~(link # 0 /\ Key(q) \in DOMAIN ga /\ value # Text)
  <2>1. UNCHANGED <<outbox, crossed>>
    BY <1>5 DEF Write, Key
  <2>2. KnxTypes' /\ Wired' /\ OneWay'
    BY <1>0, <1>1, <1>2, <2>1 DEF KnxTypes, Wired, OneWay, Carries, EndsWith
  <2>3. ASSUME NEW p \in KnxPoints, p[1] \in devices, Shown(p), AddressOf(p) \notin crossed
        PROVE  Agreeing(p)'
    <3>1. Agreeing(p)
      BY <1>0, <2>3 DEF Agreement
    <3>2. p = q => value = Text
      BY <1>0, <1>5, <2>3 DEF Wired, Directory
    <3>3. memory'[p] = memory[p] \/ memory'[p] = Text
      BY <1>2, <3>2
    <3>4. UNCHANGED <<outbox, inbox, alive, bus>>
      BY <1>1, <2>1
    <3> QED BY <3>1, <3>3, <3>4 DEF Agreeing, Carries, EndsWith, AddressOf
  <2>4. Agreement'
    BY <1>1, <2>1, <2>3 DEF Agreement, Shown, Own, AddressOf, NameOf
  <2> QED BY <1>3, <2>2, <2>4 DEF KnxInv
<1> QED BY <1>4, <1>5

\* A telegram goes to the bus and to the connections that are listening.
LEMMA ToldFacts ==
  ASSUME KnxTypes, NEW t \in Telegram, NEW listeners, Told(t, listeners)
  PROVE  /\ inbox' \in [Links -> Seq(Telegram)]
         /\ bus' \in [Addresses -> Values]
         /\ bus'[t.address] = t.value
         /\ \A g \in Addresses : g # t.address => bus'[g] = bus[g]
         /\ \A l \in Links : l \notin listeners => inbox'[l] = inbox[l]
         /\ \A l \in Links : \A g : Carries(inbox'[l], g) <=>
              Carries(inbox[l], g) \/ (l \in listeners /\ g = t.address)
         /\ \A l \in listeners \cap Links : EndsWith(inbox'[l], t.address, t.value)
         /\ \A l \in Links : \A g, v :
              g # t.address /\ EndsWith(inbox[l], g, v) => EndsWith(inbox'[l], g, v)
         /\ UNCHANGED <<memory, devices, connecting, ga, rev, link, alive>>
<1>1. /\ inbox' = [l \in Links |-> IF l \in listeners THEN Append(inbox[l], t) ELSE inbox[l]]
      /\ bus' = [bus EXCEPT ![t.address] = t.value]
      /\ UNCHANGED <<memory, devices, connecting, ga, rev, link, alive>>
  BY DEF Told
<1>2. \A l \in Links : inbox[l] \in Seq(Telegram) /\ Append(inbox[l], t) \in Seq(Telegram)
  BY AppendProperties DEF KnxTypes
<1>3. inbox' \in [Links -> Seq(Telegram)]
  BY <1>1, <1>2
<1>4. /\ bus' \in [Addresses -> Values] /\ bus'[t.address] = t.value
      /\ \A g \in Addresses : g # t.address => bus'[g] = bus[g]
  BY <1>1 DEF KnxTypes, Telegram
<1>5. \A l \in Links : \A g : Carries(inbox'[l], g) <=>
        Carries(inbox[l], g) \/ (l \in listeners /\ g = t.address)
  BY <1>1, <1>2, AppendBox
<1>6. \A l \in listeners \cap Links : EndsWith(inbox'[l], t.address, t.value)
  BY <1>1, <1>2, AppendBox
<1>7. \A l \in Links : \A g, v :
        g # t.address /\ EndsWith(inbox[l], g, v) => EndsWith(inbox'[l], g, v)
  BY <1>1, <1>2, AppendBox
<1> QED BY <1>1, <1>3, <1>4, <1>5, <1>6, <1>7

\* A telegram that leaves a queue changes the bus, and is heard by the others.
LEMMA SendStep ==
  ASSUME KnxInv, NEW l \in Links, SendTelegram(l)
  PROVE  KnxInv'
<1> DEFINE t == Head(outbox[l])
<1>0. KnxTypes /\ Wired /\ Directory /\ OneWay /\ Agreement
  BY DEF KnxInv
<1>1. /\ outbox[l] # <<>> /\ outbox' = [outbox EXCEPT ![l] = Tail(outbox[l])]
      /\ Told(t, alive \ {l}) /\ crossed' = crossed
  BY DEF SendTelegram
<1>2. outbox[l] \in Seq(Telegram) /\ l \in alive
  BY <1>0, <1>1 DEF KnxTypes, Wired
<1>3. t \in Telegram /\ Tail(outbox[l]) \in Seq(Telegram)
  BY <1>1, <1>2, FirstAndRest
<1> HIDE DEF t
<1>4. /\ inbox' \in [Links -> Seq(Telegram)]
      /\ bus' \in [Addresses -> Values]
      /\ bus'[t.address] = t.value
      /\ \A g \in Addresses : g # t.address => bus'[g] = bus[g]
      /\ \A k \in Links : k \notin alive \ {l} => inbox'[k] = inbox[k]
      /\ \A k \in Links : \A g : Carries(inbox'[k], g) <=>
           Carries(inbox[k], g) \/ (k \in alive \ {l} /\ g = t.address)
      /\ \A k \in (alive \ {l}) \cap Links : EndsWith(inbox'[k], t.address, t.value)
      /\ \A k \in Links : \A g, v :
           g # t.address /\ EndsWith(inbox[k], g, v) => EndsWith(inbox'[k], g, v)
      /\ UNCHANGED <<memory, devices, connecting, ga, rev, link, alive>>
  BY <1>0, <1>1, <1>3, ToldFacts
<1>5. /\ outbox' \in [Links -> Seq(Telegram)]
      /\ \A k \in Links : k # l => outbox'[k] = outbox[k]
      /\ \A g : Carries(outbox[l], g) <=> t.address = g \/ Carries(outbox'[l], g)
      /\ \A g, v : EndsWith(outbox'[l], g, v) => EndsWith(outbox[l], g, v)
      /\ \A g : t.address = g /\ ~Carries(outbox'[l], g) => EndsWith(outbox[l], g, t.value)
  <2>1. /\ outbox' \in [Links -> Seq(Telegram)] /\ outbox'[l] = Tail(outbox[l])
        /\ \A k \in Links : k # l => outbox'[k] = outbox[k]
    BY <1>0, <1>1, <1>3 DEF KnxTypes
  <2> QED BY <1>1, <1>2, <2>1, FirstAndRest DEF t
<1>6. KnxTypes'
  BY <1>0, <1>4, <1>5 DEF KnxTypes
<1>7. Wired'
  BY <1>0, <1>2, <1>4, <1>5 DEF Wired
<1>8. Directory'
  BY <1>0, <1>4 DEF Directory, Shown, Own, Key, NameOf, AddressOf
<1>9. t.address \in Addresses
  BY <1>3 DEF Telegram
<1>10. ASSUME NEW g \in Addresses, g \notin crossed
       PROVE  /\ \A i, k \in Links : Carries(outbox'[i], g) /\ Carries(outbox'[k], g) => i = k
              /\ \A i, k \in Links : Carries(outbox'[i], g) /\ Carries(inbox'[k], g) => i # k
              /\ \A k \in Links : Carries(inbox'[k], g) => EndsWith(inbox'[k], g, bus'[g])
  <2>1. \A k \in Links : Carries(outbox'[k], g) => Carries(outbox[k], g)
    BY <1>5
  <2>2. /\ \A i, k \in Links : Carries(outbox[i], g) /\ Carries(outbox[k], g) => i = k
        /\ \A i, k \in Links : Carries(outbox[i], g) /\ Carries(inbox[k], g) => i # k
        /\ \A k \in Links : Carries(inbox[k], g) => EndsWith(inbox[k], g, bus[g])
    BY <1>0, <1>10 DEF OneWay
  <2>3. CASE g # t.address
    BY <1>4, <2>1, <2>2, <2>3
  <2>4. CASE g = t.address
    <3>1. Carries(outbox[l], g)
      BY <1>5, <2>4
    <3>2. \A i \in Links : Carries(outbox'[i], g) => i = l
      BY <2>1, <2>2, <3>1
    <3>3. ~Carries(inbox[l], g)
      BY <2>2, <3>1
    <3>4. \A k \in Links : Carries(inbox[k], g) => k \in alive \ {l}
      BY <1>0, <3>3 DEF Wired, Carries
    <3>5. \A k \in Links : Carries(inbox'[k], g) => k \in alive \ {l}
      BY <1>4, <3>4
    <3> QED BY <1>4, <2>4, <3>2, <3>5
  <2> QED BY <2>3, <2>4
<1>11. OneWay'
  BY <1>1, <1>10 DEF OneWay, Carries, EndsWith
<1>12. ASSUME NEW p \in KnxPoints, p[1] \in devices, Shown(p), AddressOf(p) \notin crossed
       PROVE  Agreeing(p)'
  <2> DEFINE g == AddressOf(p)
  <2>0. g \in Addresses
    BY <1>12, KnxAssumption DEF Shown
  <2>1. Agreeing(p)
    BY <1>0, <1>12 DEF Agreement
  <2> HIDE DEF g
  <2>2. ASSUME NEW k \in Links, NEW w \in Values, EndsWith(outbox'[k], g, w)
        PROVE  memory[p] \in {w, Text} \/ alive \ {k} # {}
    <3>1. EndsWith(outbox[k], g, w)
      BY <1>5, <2>2
    <3> QED BY <2>1, <3>1 DEF Agreeing, g
  <2>3. ASSUME \A k \in Links : ~Carries(outbox'[k], g)
        PROVE  memory[p] \in {bus'[g], Text} \/ \E k \in Links : Carries(inbox'[k], g)
    <3>1. CASE g # t.address
      <4>1. \A k \in Links : ~Carries(outbox[k], g)
        BY <1>5, <2>3, <3>1
      <4> QED BY <1>4, <2>0, <2>1, <3>1, <4>1 DEF Agreeing, g
    <3>2. CASE g = t.address
      <4>1. EndsWith(outbox[l], g, t.value) /\ t.value \in Values
        BY <1>3, <1>5, <2>3, <3>2 DEF Telegram
      <4>2. memory[p] \in {t.value, Text} \/ alive \ {l} # {}
        BY <2>1, <4>1 DEF Agreeing, g
      <4>3. alive \subseteq Links
        BY <1>0 DEF KnxTypes
      <4> QED BY <1>4, <3>2, <4>2, <4>3
    <3> QED BY <3>1, <3>2
  <2> QED BY <1>4, <2>2, <2>3 DEF Agreeing, g, Carries, EndsWith, AddressOf
<1>13. Agreement'
  BY <1>1, <1>4, <1>12 DEF Agreement, Shown, Own, AddressOf, NameOf
<1> QED BY <1>6, <1>7, <1>8, <1>11, <1>13 DEF KnxInv

\* Another member of the group tells all connections.
LEMMA OthersStep ==
  ASSUME KnxInv, NEW g \in Addresses, NEW value \in Values, OthersSend(g, value)
  PROVE  KnxInv'
<1> DEFINE t == [address |-> g, value |-> value]
<1>0. KnxTypes /\ Wired /\ Directory /\ OneWay /\ Agreement
  BY DEF KnxInv
<1>1. /\ Told(t, alive) /\ outbox' = outbox
      /\ crossed' = IF \E l \in Links : Carries(outbox[l], g)
                      THEN crossed \cup {g} ELSE crossed \ {g}
  BY DEF OthersSend
<1>2. t \in Telegram /\ t.address = g /\ t.value = value
  BY DEF Telegram
<1> HIDE DEF t
<1>3. /\ inbox' \in [Links -> Seq(Telegram)]
      /\ bus' \in [Addresses -> Values]
      /\ bus'[g] = value
      /\ \A h \in Addresses : h # g => bus'[h] = bus[h]
      /\ \A k \in Links : k \notin alive => inbox'[k] = inbox[k]
      /\ \A k \in Links : \A h :
           Carries(inbox'[k], h) <=> Carries(inbox[k], h) \/ (k \in alive /\ h = g)
      /\ \A k \in alive \cap Links : EndsWith(inbox'[k], g, value)
      /\ \A k \in Links : \A h, v : h # g /\ EndsWith(inbox[k], h, v) => EndsWith(inbox'[k], h, v)
      /\ UNCHANGED <<memory, devices, connecting, ga, rev, link, alive>>
  BY <1>0, <1>1, <1>2, ToldFacts
<1>4. KnxTypes' /\ Wired'
  BY <1>0, <1>1, <1>3 DEF KnxTypes, Wired
<1>5. Directory'
  BY <1>0, <1>3 DEF Directory, Shown, Own, Key, NameOf, AddressOf
<1>6. \A h : h \notin crossed' =>
        IF h = g THEN \A l \in Links : ~Carries(outbox[l], g) ELSE h \notin crossed
  BY <1>1
<1>7. ASSUME NEW h \in Addresses, h \notin crossed'
      PROVE  /\ \A i, k \in Links : Carries(outbox[i], h) /\ Carries(outbox[k], h) => i = k
             /\ \A i, k \in Links : Carries(outbox[i], h) /\ Carries(inbox'[k], h) => i # k
             /\ \A k \in Links : Carries(inbox'[k], h) => EndsWith(inbox'[k], h, bus'[h])
  <2>1. CASE h # g
    BY <1>0, <1>3, <1>6, <1>7, <2>1 DEF OneWay
  <2>2. CASE h = g
    <3>1. \A l \in Links : ~Carries(outbox[l], g)
      BY <1>6, <1>7, <2>2
    <3>2. \A k \in Links : Carries(inbox[k], g) => k \in alive
      BY <1>0 DEF Wired, Carries
    <3>3. \A k \in Links : Carries(inbox'[k], g) => k \in alive
      BY <1>3, <3>2
    <3> QED BY <1>3, <2>2, <3>1, <3>3
  <2> QED BY <2>1, <2>2
<1>8. OneWay'
  BY <1>1, <1>7 DEF OneWay, Carries, EndsWith
<1>9. ASSUME NEW p \in KnxPoints, p[1] \in devices, Shown(p), AddressOf(p) \notin crossed'
      PROVE  Agreeing(p)'
  <2> DEFINE h == AddressOf(p)
  <2>0. h \in Addresses
    BY <1>9, KnxAssumption DEF Shown
  <2>1. CASE h # g
    <3>1. Agreeing(p)
      BY <1>0, <1>6, <1>9, <2>1 DEF Agreement
    <3>2. bus'[h] = bus[h] /\ \A k \in Links : Carries(inbox[k], h) => Carries(inbox'[k], h)
      BY <1>3, <2>0, <2>1
    <3>3. /\ \A l \in Links, w \in Values : EndsWith(outbox[l], h, w) =>
               memory[p] \in {w, Text} \/ alive \ {l} # {}
          /\ (\A l \in Links : ~Carries(outbox[l], h)) =>
               memory[p] \in {bus[h], Text} \/ \E k \in Links : Carries(inbox[k], h)
      BY <3>1 DEF Agreeing
    <3> HIDE DEF h
    <3>4. (\A l \in Links : ~Carries(outbox[l], h)) =>
            memory[p] \in {bus'[h], Text} \/ \E k \in Links : Carries(inbox'[k], h)
      BY <3>2, <3>3
    <3> QED BY <1>1, <1>3, <3>3, <3>4 DEF Agreeing, Carries, EndsWith, AddressOf, h
  <2>2. CASE h = g
    <3>1. link \in alive \cap Links
      BY <1>0, <1>9 DEF Wired, KnxTypes
    <3>2. Carries(inbox'[link], h)
      BY <1>3, <2>2, <3>1
    <3>3. \A k \in Links : ~Carries(outbox[k], h)
      BY <1>6, <1>9, <2>2
    <3>4. \A k \in Links : \A w : ~EndsWith(outbox[k], h, w)
      BY <3>3 DEF EndsWith, Carries
    <3> QED BY <1>1, <1>3, <3>1, <3>2, <3>4 DEF Agreeing, Carries, EndsWith, AddressOf
  <2> QED BY <2>1, <2>2
<1>10. Agreement'
  BY <1>3, <1>9 DEF Agreement, Shown, Own, AddressOf, NameOf
<1> QED BY <1>4, <1>5, <1>8, <1>10 DEF KnxInv

\* A telegram that is handled last leaves the point with what the bus has.
LEMMA OnTelegramStep ==
  ASSUME KnxInv, NEW k \in Links, OnTelegram(k)
  PROVE  KnxInv'
<1> DEFINE t == Head(inbox[k])
<1>0. KnxTypes /\ Wired /\ Directory /\ OneWay /\ Agreement
  BY DEF KnxInv
<1>1. /\ inbox[k] # <<>> /\ inbox' = [inbox EXCEPT ![k] = Tail(inbox[k])]
      /\ UNCHANGED <<devices, connecting, ga, rev, link, alive, outbox, bus, crossed>>
  BY DEF OnTelegram
<1>2. inbox[k] \in Seq(Telegram) /\ k \in alive
  BY <1>0, <1>1 DEF KnxTypes, Wired
<1>3. t \in Telegram /\ Tail(inbox[k]) \in Seq(Telegram)
  BY <1>1, <1>2, FirstAndRest
<1>4. /\ inbox' \in [Links -> Seq(Telegram)]
      /\ \A l \in Links : l # k => inbox'[l] = inbox[l]
      /\ \A g : Carries(inbox[k], g) <=> t.address = g \/ Carries(inbox'[k], g)
      /\ \A g : ~Carries(inbox'[k], g) => \A v : EndsWith(inbox[k], g, v) => t.value = v
      /\ \A g, v : Carries(inbox'[k], g) /\ EndsWith(inbox[k], g, v) => EndsWith(inbox'[k], g, v)
  <2>1. /\ inbox' \in [Links -> Seq(Telegram)] /\ inbox'[k] = Tail(inbox[k])
        /\ \A l \in Links : l # k => inbox'[l] = inbox[l]
    BY <1>0, <1>1, <1>3 DEF KnxTypes
  <2> QED BY <1>1, <1>2, <2>1, FirstAndRest
<1> DEFINE heard == {p \in KnxPoints : /\ t.address \in DOMAIN rev /\ p[1] \in devices
                                       /\ rev[t.address] = Key(p)}
           first == {p \in heard : \A q \in heard : p[2] <= q[2]}
<1>5. memory' = [p \in KnxPoints |-> IF p \in first THEN t.value ELSE memory[p]]
  BY DEF OnTelegram, Key
<1>6. ASSUME NEW p \in KnxPoints, p[1] \in devices, Shown(p)
      PROVE  memory'[p] = IF AddressOf(p) = t.address THEN t.value ELSE memory[p]
  <2>1. /\ p \in heard <=> AddressOf(p) = t.address
        /\ p \in heard => heard = {p}
    BY <1>0, <1>6, DirectoryFacts DEF Directory
  <2>2. p[2] <= p[2]
    <3>1. p[2] \in DOMAIN PointsOf[p[1]] /\ p[1] \in KnxDevices
      BY PointFacts
    <3>2. p[2] \in Nat
      BY <3>1, KnxAssumption
    <3> QED BY <3>2
  <2>3. p \in first <=> p \in heard
    BY <2>1, <2>2
  <2> HIDE DEF heard, first, t
  <2> QED BY <1>5, <2>1, <2>3
<1>7. KnxTypes'
  <2>1. t.value \in Values
    BY <1>3 DEF Telegram
  <2> HIDE DEF first, t
  <2> QED BY <1>0, <1>1, <1>4, <1>5, <2>1 DEF KnxTypes
<1> HIDE DEF first, heard, t
<1>8. Wired'
  BY <1>0, <1>1, <1>2, <1>4 DEF Wired
<1>9. Directory'
  BY <1>0, <1>1 DEF Directory, Shown, Own, Key, NameOf, AddressOf
<1>10. OneWay'
  <2>1. ASSUME NEW g \in Addresses, g \notin crossed
        PROVE  /\ \A l, i \in Links : Carries(outbox[l], g) /\ Carries(outbox[i], g) => l = i
               /\ \A l, i \in Links : Carries(outbox[l], g) /\ Carries(inbox'[i], g) => l # i
               /\ \A i \in Links : Carries(inbox'[i], g) => EndsWith(inbox'[i], g, bus[g])
    <3>1. \A i \in Links : Carries(inbox'[i], g) => Carries(inbox[i], g)
      BY <1>4
    <3> QED BY <1>0, <1>4, <2>1, <3>1 DEF OneWay
  <2> QED BY <1>1, <2>1 DEF OneWay, Carries, EndsWith
<1>11. ASSUME NEW p \in KnxPoints, p[1] \in devices, Shown(p), AddressOf(p) \notin crossed
       PROVE  Agreeing(p)'
  <2> DEFINE g == AddressOf(p)
  <2>0. g \in Addresses
    BY <1>11, KnxAssumption DEF Shown
  <2>1. Agreeing(p)
    BY <1>0, <1>11 DEF Agreement
  <2>2. /\ \A l \in Links, w \in Values : EndsWith(outbox[l], g, w) =>
             memory[p] \in {w, Text} \/ alive \ {l} # {}
        /\ (\A l \in Links : ~Carries(outbox[l], g)) =>
             memory[p] \in {bus[g], Text} \/ \E i \in Links : Carries(inbox[i], g)
    BY <2>1 DEF Agreeing
  <2>3. memory'[p] = IF g = t.address THEN t.value ELSE memory[p]
    BY <1>6, <1>11
  <2>4. /\ \A l \in Links : Carries(outbox[l], g) /\ Carries(inbox[k], g) => l # k
        /\ Carries(inbox[k], g) => EndsWith(inbox[k], g, bus[g])
    BY <1>0, <1>11, <2>0 DEF OneWay
  <2>5. \A l \in Links : \A w : EndsWith(outbox[l], g, w) => Carries(outbox[l], g)
    BY DEF EndsWith, Carries
  <2> HIDE DEF g
  <2>6. \A l \in Links, w \in Values : EndsWith(outbox[l], g, w) =>
          memory'[p] \in {w, Text} \/ alive \ {l} # {}
    BY <1>2, <1>4, <2>2, <2>3, <2>4, <2>5
  <2>7. ASSUME \A l \in Links : ~Carries(outbox[l], g), \A i \in Links : ~Carries(inbox'[i], g)
        PROVE  memory'[p] \in {bus[g], Text}
    <3>1. CASE g = t.address
      BY <1>4, <2>3, <2>4, <2>7, <3>1
    <3>2. CASE g # t.address
      BY <1>4, <2>2, <2>3, <2>7, <3>2
    <3> QED BY <3>1, <3>2
  <2> QED BY <1>1, <2>6, <2>7 DEF Agreeing, g, Carries, EndsWith, AddressOf
<1>12. Agreement'
  BY <1>1, <1>11 DEF Agreement, Shown, Own, AddressOf, NameOf
<1> QED BY <1>7, <1>8, <1>9, <1>10, <1>12 DEF KnxInv

\* A device that stops is forgotten, the others stay.
LEMMA StopDeviceStep ==
  ASSUME KnxInv, NEW d \in KnxDevices, StopDevice(d)
  PROVE  KnxInv'
<1>0. KnxTypes /\ Wired /\ Directory /\ OneWay /\ Agreement
  BY DEF KnxInv
<1>1. /\ devices' = devices \ {d}
      /\ DOMAIN ga' = {n \in DOMAIN ga : n[1] # d} /\ \A n \in DOMAIN ga' : ga'[n] = ga[n]
      /\ DOMAIN rev' = {g \in DOMAIN rev : rev[g][1] # d} /\ \A g \in DOMAIN rev' : rev'[g] = rev[g]
      /\ UNCHANGED <<memory, connecting, link, alive, outbox, inbox, bus, crossed>>
  BY DEF StopDevice, Restrict
<1>2. KnxTypes' /\ Wired' /\ OneWay'
  BY <1>0, <1>1 DEF KnxTypes, Wired, OneWay, Carries, EndsWith
<1>3. Directory'
  <2>1. \A p \in KnxPoints : Key(p)[1] = p[1]
    BY DEF Key
  <2>2. /\ \A n \in DOMAIN ga' : \E q \in KnxPoints :
             n = Key(q) /\ ga'[n] = AddressOf(q) /\ AddressOf(q) # NoAddress
        /\ \A g \in DOMAIN rev' : \E q \in KnxPoints : AddressOf(q) = g /\ rev'[g] = Key(q)
        /\ \A p \in KnxPoints : p[1] \in devices' /\ Shown(p) =>
             /\ AddressOf(p) \in DOMAIN rev' /\ rev'[AddressOf(p)] = Key(p)
             /\ Key(p) \in DOMAIN ga' /\ ga'[Key(p)] = AddressOf(p)
    BY <1>0, <1>1, <2>1 DEF Directory
  <2> QED BY <2>2 DEF Directory, Shown, Own, Key, NameOf, AddressOf
<1>4. Agreement'
  <2>1. ASSUME NEW p \in KnxPoints, Agreeing(p) PROVE Agreeing(p)'
    BY <1>1, <2>1 DEF Agreeing, Carries, EndsWith, AddressOf
  <2>2. \A p \in KnxPoints :
          p[1] \in devices' /\ Shown(p) /\ AddressOf(p) \notin crossed' => Agreeing(p)
    BY <1>0, <1>1 DEF Agreement
  <2> QED BY <2>1, <2>2 DEF Agreement, Shown, Own, AddressOf, NameOf
<1> QED BY <1>2, <1>3, <1>4 DEF KnxInv

\* A stopped connection takes its telegrams along, when no device is left.
LEMMA StopAllStep ==
  ASSUME KnxInv, StopAll
  PROVE  KnxInv'
<1>0. KnxTypes /\ Wired /\ Directory /\ OneWay /\ Agreement
  BY DEF KnxInv
<1>1. /\ devices' = {} /\ ga' = <<>> /\ rev' = <<>>
      /\ link' = 0 /\ alive' = alive \ {link}
      /\ outbox' = [outbox EXCEPT ![link] = <<>>] /\ inbox' = [inbox EXCEPT ![link] = <<>>]
      /\ UNCHANGED <<memory, connecting, bus, crossed>>
  BY DEF StopAll
<1>2. /\ outbox' \in [Links -> Seq(Telegram)] /\ inbox' \in [Links -> Seq(Telegram)]
      /\ \A l \in Links : l # link => outbox'[l] = outbox[l] /\ inbox'[l] = inbox[l]
      /\ \A l \in Links : l = link => outbox'[l] = <<>> /\ inbox'[l] = <<>>
  <2>1. outbox \in [Links -> Seq(Telegram)] /\ inbox \in [Links -> Seq(Telegram)]
    BY <1>0 DEF KnxTypes
  <2>2. <<>> \in Seq(Telegram)
    BY EmptySeq
  <2> QED BY <1>1, <2>1, <2>2
<1>3. KnxTypes' /\ Wired'
  BY <1>0, <1>1, <1>2 DEF KnxTypes, Wired
<1>4. Directory' /\ Agreement'
  BY <1>1 DEF Directory, Agreement
<1>5. \A g : ~Carries(<<>>, g)
  BY DEF Carries
<1>6. \A l \in Links : \A g : /\ Carries(outbox'[l], g) => Carries(outbox[l], g) /\ l # link
                              /\ Carries(inbox'[l], g) => Carries(inbox[l], g) /\ l # link
  BY <1>2, <1>5
<1>7. OneWay'
  <2>1. ASSUME NEW g \in Addresses, g \notin crossed
        PROVE  /\ \A l, i \in Links : Carries(outbox'[l], g) /\ Carries(outbox'[i], g) => l = i
               /\ \A l, i \in Links : Carries(outbox'[l], g) /\ Carries(inbox'[i], g) => l # i
               /\ \A i \in Links : Carries(inbox'[i], g) => EndsWith(inbox'[i], g, bus[g])
    <3>1. \A l \in Links : /\ Carries(outbox'[l], g) => Carries(outbox[l], g) /\ l # link
                           /\ Carries(inbox'[l], g) => Carries(inbox[l], g) /\ l # link
      BY <1>6
    <3>2. /\ \A l, i \in Links : Carries(outbox[l], g) /\ Carries(outbox[i], g) => l = i
          /\ \A l, i \in Links : Carries(outbox[l], g) /\ Carries(inbox[i], g) => l # i
          /\ \A i \in Links : Carries(inbox[i], g) => EndsWith(inbox[i], g, bus[g])
      BY <1>0, <2>1 DEF OneWay
    <3>3. \A i \in Links : i # link => inbox'[i] = inbox[i]
      BY <1>2
    <3>4. \A l, i \in Links : Carries(outbox'[l], g) /\ Carries(outbox'[i], g) => l = i
      BY <3>1, <3>2
    <3>5. \A l, i \in Links : Carries(outbox'[l], g) /\ Carries(inbox'[i], g) => l # i
      BY <3>1, <3>2
    <3>6. ASSUME NEW i \in Links, Carries(inbox'[i], g)
          PROVE  EndsWith(inbox'[i], g, bus[g])
      <4>1. inbox'[i] = inbox[i] /\ Carries(inbox[i], g)
        BY <3>1, <3>3, <3>6
      <4> QED BY <3>2, <4>1
    <3> QED BY <3>4, <3>5, <3>6
  <2> QED BY <1>1, <2>1 DEF OneWay, Carries, EndsWith
<1> QED BY <1>3, <1>4, <1>7 DEF KnxInv

\* At the start nothing is on its way.
LEMMA KnxInitInv == KnxInit => KnxInv
<1> SUFFICES ASSUME KnxInit PROVE KnxInv
  OBVIOUS
<1>1. /\ memory \in [KnxPoints -> Values] /\ bus \in [Addresses -> Values]
      /\ devices = {} /\ connecting = {} /\ ga = <<>> /\ rev = <<>> /\ link = 0 /\ alive = {}
      /\ outbox = [l \in Links |-> <<>>] /\ inbox = [l \in Links |-> <<>>]
  BY DEF KnxInit
<1>2. <<>> \in Seq(Telegram)
  BY EmptySeq
<1>3. \A l \in Links : outbox[l] = <<>> /\ inbox[l] = <<>>
  BY <1>1
<1>4. \A l \in Links : \A g : ~Carries(outbox[l], g) /\ ~Carries(inbox[l], g)
  BY <1>3 DEF Carries
<1>5. KnxTypes /\ Wired
  BY <1>1, <1>2 DEF KnxTypes, Wired
<1>6. Directory /\ Agreement
  BY <1>1 DEF Directory, Agreement
<1> QED BY <1>4, <1>5, <1>6 DEF KnxInv, OneWay

\* Every step of the engine and the bus keeps the invariant.
LEMMA KnxStep == KnxInv /\ [KnxNext]_wires => KnxInv'
<1> SUFFICES ASSUME KnxInv, [KnxNext]_wires PROVE KnxInv'
  OBVIOUS
<1>a. ASSUME UNCHANGED <<memory, devices, ga, rev, link, alive, outbox, inbox, bus, crossed>>,
             connecting' \subseteq KnxDevices
      PROVE  KnxInv'
  <2>0. KnxTypes /\ Wired /\ Directory /\ OneWay /\ Agreement
    BY DEF KnxInv
  <2>1. KnxTypes' /\ Wired' /\ OneWay'
    BY <1>a, <2>0 DEF KnxTypes, Wired, OneWay, Carries, EndsWith
  <2>2. Directory'
    BY <1>a, <2>0 DEF Directory, Shown, Own, Key, NameOf, AddressOf
  <2>3. Agreement'
    BY <1>a, <2>0 DEF Agreement, Agreeing, Carries, EndsWith, Shown, Own, AddressOf, NameOf
  <2> QED BY <2>1, <2>2, <2>3 DEF KnxInv
<1>1. ASSUME NEW d \in KnxDevices, StartDevice(d) PROVE KnxInv'
  <2>1. CASE link # 0
    <3>1. Expose(d, link) /\ link' = link /\ alive' = alive
      BY <1>1, <2>1 DEF StartDevice
    <3>2. link \in Links /\ alive' = alive \cup {link}
      BY <2>1, <3>1 DEF KnxInv, KnxTypes
    <3> QED BY <3>1, <3>2, ExposeStep
  <2>2. CASE link = 0
    BY <1>1, <1>a, <2>2 DEF StartDevice, KnxInv, KnxTypes
  <2> QED BY <2>1, <2>2
<1>2. ASSUME NEW d \in KnxDevices, Connected(d) PROVE KnxInv'
  <2>1. PICK l \in Links : alive' = alive \cup {l} /\ link' = l /\ Expose(d, l)
    BY <1>2 DEF Connected
  <2> QED BY <2>1, ExposeStep
<1>3. ASSUME NEW d \in KnxDevices, ConnectFails(d) PROVE KnxInv'
  BY <1>3, <1>a DEF ConnectFails, KnxInv, KnxTypes
<1>4. ASSUME NEW d \in KnxDevices, StopDevice(d) PROVE KnxInv'
  BY <1>4, StopDeviceStep
<1>5. CASE StopAll
  BY <1>5, StopAllStep
<1>6. ASSUME NEW p \in KnxPoints, NEW value \in Values \cup {Text}, Write(p, value) PROVE KnxInv'
  BY <1>6, WriteStep
<1>7. ASSUME NEW g \in Addresses, NEW value \in Values, OthersSend(g, value) PROVE KnxInv'
  BY <1>7, OthersStep
<1>8. ASSUME NEW l \in Links, SendTelegram(l) PROVE KnxInv'
  BY <1>8, SendStep
<1>9. ASSUME NEW l \in Links, OnTelegram(l) PROVE KnxInv'
  BY <1>9, OnTelegramStep
<1>10. CASE UNCHANGED wires
  BY <1>10, <1>a DEF wires, KnxInv, KnxTypes
<1> QED BY <1>1, <1>2, <1>3, <1>4, <1>5, <1>6, <1>7, <1>8, <1>9, <1>10 DEF KnxNext

\* With nothing on its way the invariant is the property.
LEMMA Agrees == KnxInv => GroupValueAgrees
BY DEF KnxInv, Agreement, Agreeing, Shown, GroupValueAgrees, InFlight

\* The value of a point and the one its group was told last are the same
\* when no telegram of the group is on its way, whoever writes, starts and
\* stops, over any number of connections: but for telegrams that crossed,
\* addresses and names that are shared, and values the bus cannot carry.
THEOREM BusAgrees == KnxSpec => []GroupValueAgrees
<1> QED BY KnxInitInv, KnxStep, Agrees, PTL DEF KnxSpec

-----------------------------------------------------------------------------
(***************************************************************************)
(* The three parts together                                                *)
(***************************************************************************)

\* A behaviour of Observers is one of each part: a step is one of the subject,
\* and leaves the others as they are.
THEOREM PartsBehave == Spec => HistorianSpec /\ FanoutSpec /\ KnxSpec
<1>1. Init => HistorianInit /\ FanoutInit /\ KnxInit
  BY DEF Init
<1>2. [Next]_<<subject, fanout, history, wires>> =>
        [HistorianNext]_history /\ [FanoutNext]_fanout /\ [KnxNext]_wires
  BY DEF Next
<1> QED BY <1>1, <1>2, PTL DEF Spec, HistorianSpec, FanoutSpec, KnxSpec

\* What is shown of each part holds in every behaviour of Observers.
THEOREM ObserversAreRight == Spec => [](WatchersTold /\ SamplesOfOwnPoint /\ GroupValueAgrees)
<1> QED BY PartsBehave, SamplesAreRight, WatchersAreTold, BusAgrees, PTL
=================================================================================
