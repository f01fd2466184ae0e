------------------------ MODULE DeviceRegistry_proofs ------------------------
(***************************************************************************)
(* What holds of ids and devices for any number of devices, requests, ids, *)
(* failures and restarts: the types, that the tables, the memory and the   *)
(* poller agree, and what may take over the id of a stored device.         *)
(*                                                                         *)
(* After that, where devices come from: what the imports, the scans and    *)
(* the device files make, for any archive, table, answers and templates,   *)
(* and that no question about them has a wrong answer.                     *)
(***************************************************************************)
EXTENDS DeviceRegistry, Calculations, FiniteSetTheorems, SequenceTheorems, WellFoundedInduction,
        TLAPS

Replacement ==
  [by : Device, id : Id, alone : BOOLEAN, blind : BOOLEAN, restarted : BOOLEAN]

\* A request goes on with the id i.
Takes(q, i) ==
  \E skips \in BOOLEAN, old \in BOOLEAN : Take(q, i, skips) /\ Race(q, i, old)

\* TypeOK in three parts.
CopyTypes ==
  /\ row \in [Id -> Holder] /\ memory \in [Id -> Holder] /\ polled \in [Id -> Holder]
  /\ points \in [Id -> [Slot -> Holder]]
  /\ rowStatus \in [Id -> Status] /\ status \in [Id -> Status]
  /\ connected \in BOOLEAN
RequestTypes ==
  /\ pc \in [Request -> Stage]
  /\ todo \in [Request -> Seq(Device)] /\ id \in [Request -> 0..MaxId]
  /\ next \in [Request -> Status]
  /\ \A q \in Request :
       /\ pc[q] \notin {"idle", "status"} => todo[q] # <<>>
       /\ pc[q] \in {"save", "saved", "activate", "status"} => id[q] \in Id
HistoryTypes ==
  /\ seen \in [Request -> SUBSET Id]
  /\ alone \in [Request -> BOOLEAN] /\ blind \in [Request -> BOOLEAN]
  /\ added \subseteq Id /\ replaced \subseteq Replacement
  /\ raced \subseteq Id /\ unsaved \subseteq Id
  /\ requests \in Nat /\ failures \in Nat /\ restarts \in Nat

LEMMA TypeParts ==
  /\ TypeOK => CopyTypes /\ RequestTypes /\ HistoryTypes
  /\ CopyTypes' /\ RequestTypes' /\ HistoryTypes' => TypeOK'
<1> USE DEF TypeOK, CopyTypes, RequestTypes, HistoryTypes, Replacement
<1>1. TypeOK => CopyTypes /\ RequestTypes /\ HistoryTypes
  OBVIOUS
<1>2. CopyTypes' /\ RequestTypes' /\ HistoryTypes' => TypeOK'
  OBVIOUS
<1> QED BY <1>1, <1>2

-----------------------------------------------------------------------------
(***************************************************************************)
(* The next id is free                                                     *)
(***************************************************************************)

\* A set of numbers with a bound has a largest one: its least bound.
LEMMA MaxIsLargest ==
  ASSUME NEW S, S \subseteq Nat, S # {}, NEW b \in Nat, \A x \in S : x <= b
  PROVE  Max(S) \in S /\ \A x \in S : x <= Max(S)
<1> DEFINE Bound == {k \in Nat : \A x \in S : x <= k}
<1>1. PICK k \in Bound : \A y \in Bound : ~(y < k)
  <2>1. Bound \subseteq Nat /\ Bound # {}
    OBVIOUS
  <2>2. PICK k \in Bound : \A y \in Bound : <<y, k>> \notin OpToRel(<, Nat)
    <3> HIDE DEF Bound
    <3> QED BY <2>1, NatLessThanWellFounded, WFMin
  <2>3. \A y \in Nat : y < k => <<y, k>> \in OpToRel(<, Nat)
    BY <2>1 DEF OpToRel
  <2> QED BY <2>1, <2>2, <2>3
<1>2. k \in S
  <2>1. CASE k = 0
    <3>1. PICK x \in S : TRUE
      OBVIOUS
    <3>2. x <= 0
      BY <1>1, <2>1
    <3> QED BY <2>1, <3>1, <3>2
  <2>2. CASE k # 0
    <3>1. k - 1 \in Nat /\ k - 1 < k
      BY <1>1, <2>2
    <3>2. PICK x \in S : ~(x <= k - 1)
      BY <1>1, <3>1
    <3> QED BY <1>1, <3>1, <3>2
  <2> QED BY <2>1, <2>2
<1>3. \A x \in S : k >= x
  BY <1>1
<1> HIDE DEF Bound
<1>4. \E m \in S : \A x \in S : m >= x
  BY <1>2, <1>3
<1> QED BY <1>4 DEF Max

\* next_device_id gives none of the ids it has read.
LEMMA NextIsNew ==
  ASSUME MaxId \in Nat, NEW read \in SUBSET Id
  PROVE  NextDeviceId(read) \notin read
<1> DEFINE S == read \cup {0}
<1>1. S \subseteq Nat /\ S # {} /\ \A x \in S : x <= MaxId
  BY DEF Id
<1>2. Max(S) \in S /\ \A x \in S : x <= Max(S)
  <2> HIDE DEF S
  <2> QED BY <1>1, MaxIsLargest
<1>3. NextDeviceId(read) = 1 + Max(S) /\ Max(S) \in Nat
  BY <1>1, <1>2 DEF NextDeviceId
<1>4. NextDeviceId(read) \notin S
  <2> HIDE DEF S
  <2> QED BY <1>2, <1>3
<1> QED BY <1>4

-----------------------------------------------------------------------------
(***************************************************************************)
(* What a boot makes of the tables                                         *)
(***************************************************************************)

\* A device that is stored has its own points and no others.
OwnPoints(rows, table, i) ==
  \A s \in Slot : table[i][s] =
    IF rows[i] # NoDevice /\ s \in SlotsOf[rows[i]] THEN rows[i] ELSE NoDevice

LEMMA BringingTypes ==
  ASSUME NEW set, NEW i
  PROVE  Bringing(set, i) \in set \cup {NoDevice}
BY DEF Bringing

LEMMA SaveTypes ==
  ASSUME NEW set \in SUBSET Device
  PROVE  /\ \A table \in [Id -> Holder] : SaveAll(table, set) \in [Id -> Holder]
         /\ \A table \in [Id -> [Slot -> Holder]] :
              SavePoints(table, set) \in [Id -> [Slot -> Holder]]
<1>1. \A i : Bringing(set, i) \in Holder
  BY BringingTypes DEF Holder
<1>2. ASSUME NEW table \in [Id -> Holder] PROVE SaveAll(table, set) \in [Id -> Holder]
  BY <1>1 DEF SaveAll
<1>3. ASSUME NEW table \in [Id -> [Slot -> Holder]]
      PROVE  SavePoints(table, set) \in [Id -> [Slot -> Holder]]
  BY <1>1 DEF SavePoints, WithPoints
<1> QED BY <1>2, <1>3

\* A boot stores what it enters, touches nothing else, and reads what it enters.
BootCopies(b, oldRow) ==
  /\ \A i \in Id : b.memory[i] # NoDevice =>
       b.row[i] = b.memory[i] /\ b.rowStatus[i] = b.status[i]
  /\ \A i \in Id : b.memory[i] = NoDevice => b.row[i] = oldRow[i]
  /\ \A i \in Id : b.polled[i] # NoDevice => b.memory[i] = b.polled[i]

LEMMA BootFacts ==
  ASSUME RegistryAssumption,
         NEW oldRow \in [Id -> Holder], NEW oldPoints \in [Id -> [Slot -> Holder]],
         NEW oldStatus \in [Id -> Status],
         NEW b \in BootStates(oldRow, oldPoints, oldStatus)
  PROVE  /\ b.row \in [Id -> Holder] /\ b.memory \in [Id -> Holder]
         /\ b.polled \in [Id -> Holder] /\ b.points \in [Id -> [Slot -> Holder]]
         /\ b.rowStatus \in [Id -> Status] /\ b.status \in [Id -> Status]
         /\ b.replaced \subseteq Replacement
         /\ \A x \in b.replaced : x.by \in Seeded \cup Configured
         /\ BootCopies(b, oldRow)
         /\ \A i \in Id : (\A x \in b.replaced : x.id # i) /\ OwnPoints(oldRow, oldPoints, i)
              => OwnPoints(b.row, b.points, i)
<1> DEFINE Nobody == [i \in Id |-> NoDevice]
<1>1. PICK real \in SUBSET Configured, failed \in SUBSET Seeded :
        b = Booted(oldRow, oldPoints, oldStatus, real, failed)
  BY DEF BootStates
<1>a. /\ b.memory = BootMemory(real) /\ b.status = BootStatus(BootMemory(real), failed \ real)
      /\ b.polled = SaveAll(Nobody, real)
      /\ b.row = SaveAll(SaveAll(oldRow, Seeded), real)
      /\ b.replaced = BootReplaced(BootMemory(real), oldRow)
      /\ b.points = SavePoints(SavePoints(oldPoints, Seeded), real)
      /\ b.rowStatus = [i \in Id |-> IF BootMemory(real)[i] = NoDevice THEN oldStatus[i]
                                     ELSE BootStatus(BootMemory(real), failed \ real)[i]]
  BY <1>1 DEF Booted
<1> DEFINE BR(i) == Bringing(real, i)
           BS(i) == Bringing(Seeded, i)
           mem == BootMemory(real)
<1>2. real \subseteq Device /\ Seeded \subseteq Device /\ NoDevice \notin Device
  BY DEF RegistryAssumption
<1>3. \A i : BR(i) \in real \cup {NoDevice} /\ BS(i) \in Seeded \cup {NoDevice}
  BY BringingTypes
<1>4. Nobody \in [Id -> Holder]
  BY DEF Holder
<1>5. /\ b.row \in [Id -> Holder] /\ b.memory \in [Id -> Holder]
      /\ b.polled \in [Id -> Holder] /\ b.points \in [Id -> [Slot -> Holder]]
  <2>1. real \in SUBSET Device /\ Seeded \in SUBSET Device
    BY <1>2
  <2>2. SaveAll(Nobody, Seeded) \in [Id -> Holder] /\ SaveAll(Nobody, real) \in [Id -> Holder]
    BY <2>1, <1>4, SaveTypes
  <2>3. BootMemory(real) \in [Id -> Holder]
    BY <2>1, <2>2, SaveTypes DEF BootMemory
  <2>4. SaveAll(oldRow, Seeded) \in [Id -> Holder]
    BY <2>1, SaveTypes
  <2>5. SaveAll(SaveAll(oldRow, Seeded), real) \in [Id -> Holder]
    BY <2>1, <2>4, SaveTypes
  <2>6. SavePoints(oldPoints, Seeded) \in [Id -> [Slot -> Holder]]
    BY <2>1, SaveTypes
  <2>7. SavePoints(SavePoints(oldPoints, Seeded), real) \in [Id -> [Slot -> Holder]]
    BY <2>1, <2>6, SaveTypes
  <2> QED BY <1>a, <2>2, <2>3, <2>5, <2>7
<1>6. b.rowStatus \in [Id -> Status] /\ b.status \in [Id -> Status]
  <2>1. BootStatus(BootMemory(real), failed \ real) \in [Id -> Status]
    BY DEF BootStatus, Status
  <2>2. b.rowStatus \in [Id -> Status]
    BY <1>a, <2>1
  <2> QED BY <1>a, <2>1, <2>2
<1>7. \A i \in Id : /\ mem[i] = IF BR(i) # NoDevice THEN BR(i) ELSE BS(i)
                   /\ b.polled[i] = BR(i)
                   /\ b.row[i] = IF BR(i) # NoDevice THEN BR(i)
                                 ELSE IF BS(i) # NoDevice THEN BS(i) ELSE oldRow[i]
  BY <1>a DEF SaveAll, BootMemory
<1>8. ASSUME NEW i \in Id
      PROVE  b.points[i] = LET t == IF BS(i) = NoDevice THEN oldPoints[i]
                                    ELSE WithPoints(oldPoints[i], BS(i))
                           IN IF BR(i) = NoDevice THEN t ELSE WithPoints(t, BR(i))
  BY <1>a DEF SavePoints
<1> HIDE DEF BR, BS, mem, Nobody
<1>9. \A x \in b.replaced : x \in Replacement /\ x.by \in Seeded \cup Configured
  <2>1. \A i \in Id : mem[i] # NoDevice => mem[i] \in Seeded \cup Configured
    BY <1>3, <1>7
  <2>2. \A x \in b.replaced : \E i \in Id :
          /\ mem[i] # NoDevice
          /\ x = [by |-> mem[i], id |-> i, alone |-> TRUE, blind |-> FALSE,
                  restarted |-> TRUE]
    BY <1>a DEF mem, BootReplaced
  <2>3. Seeded \cup Configured \subseteq Device
    BY DEF RegistryAssumption
  <2>4. ASSUME NEW i \in Id, NEW x, mem[i] \in Seeded \cup Configured,
               x = [by |-> mem[i], id |-> i, alone |-> TRUE, blind |-> FALSE,
                    restarted |-> TRUE]
        PROVE  x \in Replacement /\ x.by \in Seeded \cup Configured
    BY <2>3, <2>4 DEF Replacement
  <2> QED BY <2>1, <2>2, <2>4
<1>10. ASSUME NEW i \in Id, \A x \in b.replaced : x.id # i
       PROVE  mem[i] # NoDevice => oldRow[i] \in {NoDevice, mem[i]} /\ BS(i) \in {NoDevice, mem[i]}
  <2>1. mem[i] # NoDevice /\ {oldRow[i], BS(i)} \ {NoDevice, mem[i]} # {}
        => [by |-> mem[i], id |-> i, alone |-> TRUE, blind |-> FALSE,
            restarted |-> TRUE] \in b.replaced
    BY <1>a DEF mem, BS, BootReplaced
  <2> QED BY <1>10, <2>1
<1>11. ASSUME NEW i \in Id, \A x \in b.replaced : x.id # i, OwnPoints(oldRow, oldPoints, i)
       PROVE  OwnPoints(b.row, b.points, i)
  <2>1. \A t, d : \A s \in Slot : WithPoints(t, d)[s] = IF s \in SlotsOf[d] THEN d ELSE t[s]
    BY DEF WithPoints
  <2>2. CASE BR(i) = NoDevice /\ BS(i) = NoDevice
    BY <1>7, <1>8, <1>11, <2>2 DEF OwnPoints
  <2>3. CASE BR(i) = NoDevice /\ BS(i) # NoDevice
    BY <1>7, <1>8, <1>10, <1>11, <2>1, <2>3 DEF OwnPoints
  <2>4. CASE BR(i) # NoDevice
    <3>1. /\ mem[i] = BR(i) /\ b.row[i] = BR(i)
          /\ oldRow[i] \in {NoDevice, BR(i)} /\ BS(i) \in {NoDevice, BR(i)}
      BY <1>7, <1>10, <1>11, <2>4
    <3>2. CASE BS(i) = NoDevice
      <4>1. b.points[i] = WithPoints(oldPoints[i], BR(i))
        BY <1>8, <2>4, <3>2
      <4> QED BY <1>11, <2>1, <2>4, <3>1, <4>1 DEF OwnPoints
    <3>3. CASE BS(i) = BR(i)
      <4>1. b.points[i] = WithPoints(WithPoints(oldPoints[i], BR(i)), BR(i))
        BY <1>8, <2>4, <3>3
      <4>2. \A s \in Slot : b.points[i][s] = IF s \in SlotsOf[BR(i)] THEN BR(i) ELSE oldPoints[i][s]
        BY <2>1, <4>1
      <4> QED BY <1>11, <2>4, <3>1, <4>2 DEF OwnPoints
    <3> QED BY <3>1, <3>2, <3>3
  <2> QED BY <2>2, <2>3, <2>4
<1>12. \A i \in Id : b.memory[i] # NoDevice =>
         b.row[i] = b.memory[i] /\ b.rowStatus[i] = b.status[i]
  <2>1. b.memory = mem
    BY <1>a DEF mem
  <2>2. \A i \in Id : mem[i] # NoDevice => b.row[i] = mem[i]
    BY <1>7
  <2>3. \A i \in Id : mem[i] # NoDevice => b.rowStatus[i] = b.status[i]
    BY <1>a DEF mem
  <2> QED BY <2>1, <2>2, <2>3
<1>13. /\ \A i \in Id : b.memory[i] = NoDevice => b.row[i] = oldRow[i]
       /\ \A i \in Id : b.polled[i] # NoDevice => b.memory[i] = b.polled[i]
  <2>1. b.memory = mem
    BY <1>a DEF mem
  <2> QED BY <1>7, <2>1
<1> QED BY <1>5, <1>6, <1>9, <1>11, <1>12, <1>13 DEF BootCopies

-----------------------------------------------------------------------------
(***************************************************************************)
(* Types                                                                   *)
(***************************************************************************)

LEMMA BatchFacts ==
  ASSUME NEW batch \in Seq(Device), batch # <<>>
  PROVE  Head(batch) \in Device /\ Tail(batch) \in Seq(Device)
BY HeadTailProperties

\* The device in work.
Current(q) == Head(todo[q])

LEMMA AdvanceTypes ==
  ASSUME RequestTypes, NEW q \in Request, pc[q] \notin {"idle", "status"}, Advance(q),
         UNCHANGED <<id, next>>
  PROVE  RequestTypes'
<1>1. Tail(todo[q]) \in Seq(Device)
  BY BatchFacts DEF RequestTypes
<1>2. todo' \in [Request -> Seq(Device)] /\ pc' \in [Request -> Stage]
  <2>1. todo' = [todo EXCEPT ![q] = Tail(todo[q])]
    BY DEF Advance, RequestTypes
  <2>2. \E s \in Stage : pc' = [pc EXCEPT ![q] = s]
    BY DEF Advance, Goto, Stage
  <2> QED BY <1>1, <2>1, <2>2 DEF RequestTypes
<1>3. pc'[q] \in {"choose", "idle"} /\ (pc'[q] = "choose" => todo'[q] # <<>>)
  BY <1>1 DEF Advance, Goto, RequestTypes
<1>4. \A r \in Request : r # q => pc'[r] = pc[r] /\ todo'[r] = todo[r]
  BY DEF Advance, Goto, RequestTypes
<1> QED BY <1>2, <1>3, <1>4 DEF RequestTypes

\* A request that goes on without a change of its batch, or ends with an empty one.
LEMMA GoneOnTypes ==
  ASSUME RequestTypes, NEW q \in Request, NEW s \in Stage, Goto(q, s),
         id' = id \/ \E i \in Id : id' = [id EXCEPT ![q] = i], next' \in [Request -> Status],
         \/ s = "idle" /\ (todo' = todo \/ todo' = [todo EXCEPT ![q] = <<>>])
         \/ s = "status" /\ todo' = todo
         \/ todo' = todo /\ todo[q] # <<>>
         \/ s = "choose" /\ \E batch \in Batch : batch # <<>> /\ todo' = [todo EXCEPT ![q] = batch],
         s \in {"save", "saved", "activate", "status"} => id'[q] \in Id,
         RegistryAssumption
  PROVE  RequestTypes'
<1>1. pc' \in [Request -> Stage] /\ pc'[q] = s /\ \A r \in Request : r # q => pc'[r] = pc[r]
  BY DEF Goto, RequestTypes
<1>2. /\ id' \in [Request -> 0..MaxId]
      /\ \A r \in Request : r # q => id'[r] = id[r]
  BY DEF RequestTypes, Id
<1>3. /\ todo' \in [Request -> Seq(Device)]
      /\ \A r \in Request : r # q => todo'[r] = todo[r]
      /\ s \notin {"idle", "status"} => todo'[q] # <<>>
  <2>1. Batch \subseteq Seq(Device) /\ <<>> \in Seq(Device)
    BY EmptySeq DEF RegistryAssumption
  <2>2. todo \in [Request -> Seq(Device)]
    BY DEF RequestTypes
  <2>3. CASE todo' = todo
    BY <2>2, <2>3
  <2>4. CASE s = "idle" /\ todo' = [todo EXCEPT ![q] = <<>>]
    BY <2>1, <2>2, <2>4
  <2>5. ASSUME NEW batch \in Batch, batch # <<>>, todo' = [todo EXCEPT ![q] = batch]
        PROVE  /\ todo' \in [Request -> Seq(Device)]
               /\ \A r \in Request : r # q => todo'[r] = todo[r]
               /\ todo'[q] # <<>>
    BY <2>1, <2>2, <2>5
  <2> QED BY <2>3, <2>4, <2>5
<1> QED BY <1>1, <1>2, <1>3 DEF RequestTypes

LEMMA RaceTypes ==
  ASSUME HistoryTypes, NEW q, NEW i \in Id, Takes(q, i)
  PROVE  raced' \subseteq Id /\ raced \subseteq raced'
BY DEF HistoryTypes, Takes, Race

LEMMA InitTypes == RegistryAssumption /\ Init => TypeOK
<1> SUFFICES ASSUME RegistryAssumption, Init PROVE TypeOK
  OBVIOUS
<1> DEFINE noRow == [i \in Id |-> NoDevice]
           noPoints == [i \in Id |-> [s \in Slot |-> NoDevice]]
           allOn == [i \in Id |-> "online"]
<1>1. PICK b \in BootStates(noRow, noPoints, allOn) :
        /\ row = b.row /\ points = b.points /\ rowStatus = b.rowStatus
        /\ memory = b.memory /\ status = b.status /\ polled = b.polled
        /\ replaced = b.replaced
  BY DEF Init
<1>2. noRow \in [Id -> Holder] /\ noPoints \in [Id -> [Slot -> Holder]] /\ allOn \in [Id -> Status]
  BY DEF Holder, Status
<1> HIDE DEF noRow, noPoints, allOn
<1>3. /\ row \in [Id -> Holder] /\ memory \in [Id -> Holder] /\ polled \in [Id -> Holder]
      /\ points \in [Id -> [Slot -> Holder]]
      /\ rowStatus \in [Id -> Status] /\ status \in [Id -> Status]
      /\ replaced \subseteq Replacement
  BY <1>1, <1>2, BootFacts
<1>4. /\ pc = [q \in Request |-> "idle"] /\ todo = [q \in Request |-> <<>>]
      /\ id = [q \in Request |-> 0] /\ next = [q \in Request |-> "online"]
      /\ seen = [q \in Request |-> {}] /\ blind = [q \in Request |-> FALSE]
      /\ added = {} /\ alone = [q \in Request |-> TRUE] /\ raced = {} /\ unsaved = {}
      /\ requests = 0 /\ failures = 0 /\ restarts = 0 /\ connected \in BOOLEAN
  BY DEF Init
<1>5. 0 \in 0..MaxId /\ <<>> \in Seq(Device)
  BY DEF RegistryAssumption
<1>6. /\ pc \in [Request -> Stage] /\ todo \in [Request -> Seq(Device)]
      /\ id \in [Request -> 0..MaxId] /\ next \in [Request -> Status]
      /\ \A q \in Request : pc[q] = "idle"
  BY <1>4, <1>5 DEF Stage, Status
<1>7. alone \in [Request -> BOOLEAN] /\ blind \in [Request -> BOOLEAN]
      /\ seen \in [Request -> SUBSET Id]
  BY <1>4
<1> QED BY <1>3, <1>4, <1>6, <1>7 DEF TypeOK, Replacement

-----------------------------------------------------------------------------
(***************************************************************************)
(* The steps of a request concern its own place, batch and id              *)
(***************************************************************************)

OthersStay(q) ==
  \A r \in Request : r # q =>
    /\ pc'[r] = pc[r] /\ id'[r] = id[r] /\ todo'[r] = todo[r] /\ next'[r] = next[r]
    /\ seen'[r] = seen[r] /\ blind'[r] = blind[r]

\* Steps that neither store nor enter a device.
Asks(q) ==
  \/ \E batch \in Batch : Add(q, batch)
  \/ \E i \in Id, s \in {"online", "offline"} : SetStatus(q, i, s)
  \/ StoreStatus(q) \/ StoreStatusFails(q) \/ StatusCancelled(q)

LEMMA OneRequest ==
  ASSUME RequestTypes, HistoryTypes, NEW q \in Request, Asks(q) \/ Step(q)
  PROVE  OthersStay(q)
<1> USE DEF request, tables, live, history, bounds, Goto
<1>1. ASSUME NEW batch, Add(q, batch) PROVE OthersStay(q)
  BY <1>1 DEF Add, OthersStay, RequestTypes, HistoryTypes
<1>2. ASSUME NEW i, NEW s, SetStatus(q, i, s) PROVE OthersStay(q)
  BY <1>2 DEF SetStatus, OthersStay, RequestTypes, HistoryTypes
<1>3. CASE StoreStatus(q) \/ StoreStatusFails(q) \/ StatusCancelled(q)
  BY <1>3 DEF StoreStatus, StoreStatusFails, StatusCancelled, OthersStay, RequestTypes, HistoryTypes
<1>4. CASE Choose(q)
  BY <1>4 DEF Choose, Take, OthersStay, RequestTypes, HistoryTypes
<1>5. CASE Look(q) \/ Pick(q)
  BY <1>5 DEF Look, Pick, Take, OthersStay, RequestTypes, HistoryTypes
<1>6. CASE Save(q) \/ SaveFails(q)
  BY <1>6 DEF Save, SaveFails, OthersStay, RequestTypes, HistoryTypes
<1>7. CASE Enter(q)
  BY <1>7 DEF Enter, Advance, OthersStay, RequestTypes, HistoryTypes
<1>8. CASE Activate(q)
  BY <1>8 DEF Activate, Advance, OthersStay, RequestTypes, HistoryTypes
<1> QED BY <1>1, <1>2, <1>3, <1>4, <1>5, <1>6, <1>7, <1>8 DEF Asks, Step

-----------------------------------------------------------------------------
LEMMA TypeStep == RegistryAssumption /\ TypeOK /\ [Next]_vars => TypeOK'
<1> SUFFICES ASSUME RegistryAssumption, TypeOK, [Next]_vars PROVE TypeOK'
  OBVIOUS
<1> USE DEF request, tables, live, history, bounds
<1>0. CopyTypes /\ RequestTypes /\ HistoryTypes
  BY TypeParts
<1>a. ASSUME UNCHANGED <<tables, live>> PROVE CopyTypes'
  BY <1>0, <1>a DEF CopyTypes
<1>b. \A q \in Request : pc[q] \notin {"idle", "status"} => Current(q) \in Device
  BY <1>0, BatchFacts DEF RequestTypes, Current
<1>1. ASSUME NEW q \in Request, NEW batch \in Batch, Add(q, batch) PROVE TypeOK'
  <2>1. RequestTypes'
    BY <1>0, <1>1, GoneOnTypes DEF Add, Stage, RequestTypes
  <2>2. HistoryTypes'
    BY <1>0, <1>1 DEF Add, HistoryTypes
  <2> QED BY <1>a, <1>1, <2>1, <2>2, TypeParts DEF Add
<1>2. ASSUME NEW q \in Request, NEW i \in Id, NEW s \in {"online", "offline"}, SetStatus(q, i, s)
      PROVE  TypeOK'
  <2>1. next' \in [Request -> Status] /\ id'[q] = i /\ i \in 0..MaxId
    BY <1>0, <1>2 DEF SetStatus, RequestTypes, Status, Id
  <2>2. RequestTypes'
    BY <1>0, <1>2, <2>1, GoneOnTypes DEF SetStatus, Stage
  <2>3. CopyTypes'
    BY <1>0, <1>2 DEF SetStatus, CopyTypes, Status
  <2>4. HistoryTypes'
    BY <1>0, <1>2 DEF SetStatus, HistoryTypes
  <2> QED BY <2>2, <2>3, <2>4, TypeParts
\* A request that takes an id keeps its batch.
<1>13. ASSUME NEW q \in Request, NEW j \in Id, Takes(q, j), UNCHANGED <<todo, next>>,
              todo[q] # <<>>
       PROVE  /\ RequestTypes' /\ raced' \subseteq Id
              /\ seen' \in [Request -> SUBSET Id] /\ blind' \in [Request -> BOOLEAN]
  <2>1. id' = [id EXCEPT ![q] = j] /\ Goto(q, "save")
    BY <1>13 DEF Takes, Take
  <2>2. next' \in [Request -> Status] /\ id'[q] = j
    BY <1>0, <1>13, <2>1 DEF RequestTypes
  <2>3. RequestTypes'
    BY <1>0, <1>13, <2>1, <2>2, GoneOnTypes DEF Stage
  <2>4. seen' \in [Request -> SUBSET Id] /\ blind' \in [Request -> BOOLEAN]
    BY <1>0, <1>13 DEF Takes, Take, HistoryTypes
  <2> QED BY <1>0, <1>13, <2>3, <2>4, RaceTypes
<1>3. ASSUME NEW q \in Request, Choose(q) PROVE TypeOK'
  <2>1. alone' \in [Request -> BOOLEAN]
    BY <1>0, <1>3, Zenon DEF Choose, NotAlone, HistoryTypes
  <2>2. CASE KeepsId(Current(q))
    <3>1. OwnId[Current(q)] \in Id
      BY <1>b, <1>3, <2>2 DEF Choose, KeepsId, RegistryAssumption, Id
    <3>2. Takes(q, OwnId[Current(q)]) /\ todo[q] # <<>> /\ UNCHANGED <<todo, next>>
      BY <1>0, <1>3, <2>2 DEF Choose, Current, Takes, RequestTypes
    <3>3. /\ RequestTypes' /\ raced' \subseteq Id
          /\ seen' \in [Request -> SUBSET Id] /\ blind' \in [Request -> BOOLEAN]
      BY <1>13, <3>1, <3>2
    <3>4. HistoryTypes'
      BY <1>0, <1>3, <2>1, <3>3 DEF Choose, HistoryTypes
    <3> QED BY <1>a, <1>3, <3>3, <3>4, TypeParts DEF Choose
  <2>3. CASE ~KeepsId(Current(q))
    <3>1. Goto(q, "query") /\ UNCHANGED <<id, blind, seen, raced, todo, next>>
      BY <1>3, <2>3 DEF Choose, Current
    <3>2. RequestTypes'
      <4>1. todo[q] # <<>> /\ next' \in [Request -> Status] /\ "query" \in Stage
        BY <1>0, <1>3, <3>1 DEF Choose, RequestTypes, Stage
      <4> QED BY <1>0, <3>1, <4>1, GoneOnTypes
    <3>3. HistoryTypes'
      BY <1>0, <1>3, <2>1, <3>1 DEF Choose, HistoryTypes
    <3> QED BY <1>a, <1>3, <3>2, <3>3, TypeParts DEF Choose
  <2> QED BY <2>2, <2>3
<1>4. ASSUME NEW q \in Request, Pick(q) PROVE TypeOK'
  <2>1. PICK j \in Id : Takes(q, j)
    BY <1>4 DEF Pick, Takes
  <2>2. todo[q] # <<>> /\ UNCHANGED <<todo, next>>
    BY <1>0, <1>4 DEF Pick, RequestTypes
  <2>3. /\ RequestTypes' /\ raced' \subseteq Id
        /\ seen' \in [Request -> SUBSET Id] /\ blind' \in [Request -> BOOLEAN]
    BY <1>13, <2>1, <2>2
  <2>4. failures' \in Nat
    BY <1>0, <1>4 DEF Pick, HistoryTypes
  <2>5. HistoryTypes'
    BY <1>0, <1>4, <2>3, <2>4 DEF Pick, HistoryTypes
  <2> QED BY <1>a, <1>4, <2>3, <2>5, TypeParts DEF Pick
<1>14. ASSUME NEW q \in Request, Look(q) PROVE TypeOK'
  <2>1. Goto(q, "read") /\ UNCHANGED <<id, todo, next>> /\ todo[q] # <<>>
    BY <1>0, <1>14 DEF Look, RequestTypes
  <2>2. RequestTypes'
    <3>1. next' \in [Request -> Status] /\ "read" \in Stage
      BY <1>0, <2>1 DEF RequestTypes, Stage
    <3> QED BY <1>0, <2>1, <3>1, GoneOnTypes
  <2>3. Stored \subseteq Id
    BY DEF Stored
  <2>4. seen' \in [Request -> SUBSET Id]
    BY <1>0, <1>14, <2>3 DEF Look, HistoryTypes
  <2>5. HistoryTypes'
    BY <1>0, <1>14, <2>4 DEF Look, HistoryTypes
  <2> QED BY <1>a, <1>14, <2>2, <2>5, TypeParts DEF Look
<1>5. ASSUME NEW q \in Request, Save(q) PROVE TypeOK'
  <2>1. id[q] \in Id /\ Current(q) \in Device /\ todo[q] # <<>>
    BY <1>0, <1>b, <1>5 DEF Save, RequestTypes
  <2>2. RequestTypes'
    BY <1>0, <1>5, <2>1, GoneOnTypes DEF Save, Stage, RequestTypes
  <2>3. /\ row' = [row EXCEPT ![id[q]] = Current(q)]
        /\ points' = [points EXCEPT ![id[q]] = WithPoints(points[id[q]], Current(q))]
        /\ rowStatus' = [rowStatus EXCEPT ![id[q]] = "online"] /\ UNCHANGED live
    BY <1>0, <1>5, <2>1 DEF Save, Current, CopyTypes
  <2>4. WithPoints(points[id[q]], Current(q)) \in [Slot -> Holder]
    BY <1>0, <2>1 DEF WithPoints, CopyTypes, Holder
  <2>5. CopyTypes'
    BY <1>0, <2>1, <2>3, <2>4 DEF CopyTypes, Holder, Status
  <2>6. [by |-> Current(q), id |-> id[q],
         alone |-> alone[q], blind |-> blind[q], restarted |-> restarts > 0] \in Replacement
    BY <1>0, <2>1 DEF HistoryTypes, Replacement
  <2>7. replaced' \subseteq Replacement
    BY <1>0, <1>5, <2>6 DEF Save, HistoryTypes, Current
  <2>8. HistoryTypes'
    BY <1>0, <1>5, <2>7 DEF Save, HistoryTypes
  <2> QED BY <2>2, <2>5, <2>8, TypeParts
<1>6. ASSUME NEW q \in Request, SaveFails(q) PROVE TypeOK'
  <2>1. RequestTypes'
    BY <1>0, <1>6, GoneOnTypes DEF SaveFails, Stage, RequestTypes
  <2>2. HistoryTypes'
    BY <1>0, <1>6 DEF SaveFails, HistoryTypes
  <2> QED BY <1>a, <1>6, <2>1, <2>2, TypeParts DEF SaveFails
<1>7. ASSUME NEW q \in Request, Enter(q) PROVE TypeOK'
  <2>1. id[q] \in Id /\ Current(q) \in Device /\ todo[q] # <<>>
    BY <1>0, <1>b, <1>7 DEF Enter, RequestTypes
  <2>2. /\ memory' = [memory EXCEPT ![id[q]] = Current(q)]
        /\ status' = [status EXCEPT ![id[q]] = "online"]
        /\ polled' = polled \/ polled' = [polled EXCEPT ![id[q]] = Current(q)]
        /\ UNCHANGED <<tables, connected>>
    BY <1>7 DEF Enter, Current
  <2>3. CopyTypes'
    <3>1. memory' \in [Id -> Holder] /\ polled' \in [Id -> Holder] /\ status' \in [Id -> Status]
      BY <1>0, <2>1, <2>2 DEF CopyTypes, Holder, Status
    <3> QED BY <1>0, <2>2, <3>1 DEF CopyTypes
  <2>4. RequestTypes'
    <3>1. UNCHANGED <<id, next>> /\ pc[q] = "saved"
      BY <1>7 DEF Enter
    <3>2. \/ Advance(q)
          \/ todo' = [todo EXCEPT ![q] = <<>>] /\ Goto(q, "idle")
          \/ Goto(q, "activate") /\ UNCHANGED todo
      BY <1>7 DEF Enter
    <3>3. CASE Advance(q)
      BY <1>0, <3>1, <3>3, AdvanceTypes
    <3>4. CASE todo' = [todo EXCEPT ![q] = <<>>] /\ Goto(q, "idle")
      BY <1>0, <3>1, <3>4, GoneOnTypes DEF Stage, RequestTypes
    <3>5. CASE Goto(q, "activate") /\ UNCHANGED todo
      BY <1>0, <2>1, <3>1, <3>5, GoneOnTypes DEF Stage, RequestTypes
    <3> QED BY <3>2, <3>3, <3>4, <3>5
  <2>5. added' \subseteq added \cup {id[q]}
    BY <1>7 DEF Enter
  <2>6. HistoryTypes'
    BY <1>0, <1>7, <2>1, <2>5 DEF Enter, HistoryTypes
  <2> QED BY <2>3, <2>4, <2>6, TypeParts
<1>8. ASSUME NEW q \in Request, Activate(q) PROVE TypeOK'
  <2>1. id[q] \in Id /\ Current(q) \in Device
    BY <1>0, <1>b, <1>8 DEF Activate, RequestTypes
  <2>2. /\ memory' = [memory EXCEPT ![id[q]] = Current(q)]
        /\ \E s \in {"online", "error"} : status' = [status EXCEPT ![id[q]] = s]
        /\ UNCHANGED <<tables, polled, connected>>
    BY <1>8 DEF Activate, Current
  <2>3. CopyTypes'
    BY <1>0, <2>1, <2>2 DEF CopyTypes, Holder, Status
  <2>4. RequestTypes'
    BY <1>0, <1>8, AdvanceTypes DEF Activate
  <2>5. HistoryTypes'
    BY <1>0, <1>8, <2>1 DEF Activate, HistoryTypes
  <2> QED BY <2>3, <2>4, <2>5, TypeParts
<1>9. ASSUME NEW q \in Request, StoreStatus(q) PROVE TypeOK'
  <2>1. id[q] \in Id /\ next[q] \in Status
    BY <1>0, <1>9 DEF StoreStatus, RequestTypes
  <2>2. CopyTypes'
    BY <1>0, <1>9, <2>1 DEF StoreStatus, CopyTypes
  <2>3. RequestTypes'
    BY <1>0, <1>9, GoneOnTypes DEF StoreStatus, Stage, RequestTypes
  <2>4. HistoryTypes'
    BY <1>0, <1>9 DEF StoreStatus, HistoryTypes
  <2> QED BY <2>2, <2>3, <2>4, TypeParts
<1>10. ASSUME NEW q \in Request, StoreStatusFails(q) PROVE TypeOK'
  <2>1. id[q] \in Id
    BY <1>0, <1>10 DEF StoreStatusFails, RequestTypes
  <2>2. RequestTypes'
    BY <1>0, <1>10, GoneOnTypes DEF StoreStatusFails, Stage, RequestTypes
  <2>3. HistoryTypes'
    BY <1>0, <1>10, <2>1 DEF StoreStatusFails, HistoryTypes
  <2> QED BY <1>a, <1>10, <2>2, <2>3, TypeParts DEF StoreStatusFails
<1>15. ASSUME NEW q \in Request, StatusCancelled(q) PROVE TypeOK'
  <2>1. id[q] \in Id
    BY <1>0, <1>15 DEF StatusCancelled, RequestTypes
  <2>2. RequestTypes'
    BY <1>0, <1>15, GoneOnTypes DEF StatusCancelled, Stage, RequestTypes
  <2>3. HistoryTypes'
    BY <1>0, <1>15, <2>1 DEF StatusCancelled, HistoryTypes
  <2> QED BY <1>a, <1>15, <2>2, <2>3, TypeParts DEF StatusCancelled
<1>11. CASE Restart
  <2>1. PICK b \in BootStates(row, points, rowStatus) :
          /\ row' = b.row /\ points' = b.points /\ rowStatus' = b.rowStatus
          /\ memory' = b.memory /\ status' = b.status /\ polled' = b.polled
          /\ replaced' = replaced \cup b.replaced
    BY <1>11 DEF Restart
  <2>2. /\ row \in [Id -> Holder] /\ points \in [Id -> [Slot -> Holder]]
        /\ rowStatus \in [Id -> Status]
    BY <1>0 DEF CopyTypes
  <2>3. /\ b.row \in [Id -> Holder] /\ b.memory \in [Id -> Holder]
        /\ b.polled \in [Id -> Holder] /\ b.points \in [Id -> [Slot -> Holder]]
        /\ b.rowStatus \in [Id -> Status] /\ b.status \in [Id -> Status]
        /\ b.replaced \subseteq Replacement
    BY <2>2, BootFacts
  <2>4. CopyTypes'
    BY <1>11, <2>1, <2>3 DEF CopyTypes, Restart
  <2>5. RequestTypes'
    <3>1. /\ pc' = [q \in Request |-> "idle"] /\ todo' = [q \in Request |-> <<>>]
          /\ UNCHANGED <<id, next>>
      BY <1>11 DEF Restart
    <3>2. <<>> \in Seq(Device)
      BY EmptySeq
    <3> QED BY <1>0, <3>1, <3>2 DEF RequestTypes, Stage
  <2>6. HistoryTypes'
    BY <1>0, <1>11, <2>1, <2>3 DEF Restart, HistoryTypes
  <2> QED BY <2>4, <2>5, <2>6, TypeParts
<1>12. CASE UNCHANGED vars
  BY <1>0, <1>12, TypeParts DEF vars, CopyTypes, RequestTypes, HistoryTypes
<1> QED BY <1>1, <1>2, <1>3, <1>4, <1>5, <1>6, <1>7, <1>8, <1>9, <1>10, <1>11, <1>12,
           <1>14, <1>15
        DEF Next, Step

-----------------------------------------------------------------------------
(***************************************************************************)
(* The copies of one id agree, also while a request works on it            *)
(***************************************************************************)

Holding == {"save", "saved", "activate"}

At(q, i, stages) == pc[q] \in stages /\ id[q] = i

\* Of an id that no two requests have worked on at a time: one request at most
\* adds a device under it; what is in memory is stored, but between the save
\* and the entry; what is read is in memory; and a device that is not a
\* controller gets an id under which nothing is read.
CopiesAgree(i) ==
  /\ \A q, r \in Request : At(q, i, Holding) /\ At(r, i, Holding) => q = r
  /\ memory[i] # NoDevice /\ (\A q \in Request : ~At(q, i, {"saved"})) => row[i] = memory[i]
  /\ \A q \in Request : At(q, i, {"saved", "activate"}) => row[i] = Current(q)
  /\ polled[i] # NoDevice => memory[i] = polled[i]
  /\ \A q \in Request : At(q, i, Holding) /\ Current(q) \notin BACnet => polled[i] = NoDevice

\* The poller reads with a client, and reads what was reported as added.
PollerReads ==
  /\ \A i \in Id : polled[i] # NoDevice => connected
  /\ \A q \in Request : pc[q] = "activate" => Current(q) \notin BACnet
  /\ \A i \in added : polled[i] # NoDevice

LEMMA AgreeElsewhere ==
  ASSUME NEW i \in Id, CopiesAgree(i), NEW q \in Request, OthersStay(q),
         ~At(q, i, Holding), ~At(q, i, Holding)',
         row'[i] = row[i], memory'[i] = memory[i], polled'[i] = polled[i]
  PROVE  CopiesAgree(i)'
<1>1. \A S : \A r \in Request : S \subseteq Holding =>
        (At(r, i, S)' <=> At(r, i, S)) /\ (At(r, i, S) => r # q)
  BY DEF At, OthersStay
<1>2. {"saved"} \subseteq Holding /\ {"saved", "activate"} \subseteq Holding
  BY DEF Holding
<1>3. \A r \in Request : r # q => Current(r)' = Current(r)
  BY DEF OthersStay, Current
<1> QED BY <1>1, <1>2, <1>3 DEF CopiesAgree

LEMMA AgreeStep ==
  /\ RegistryAssumption /\ TypeOK /\ PollerReads
  /\ (\A i \in Id \ raced : CopiesAgree(i)) /\ [Next]_vars
  => (\A i \in Id \ raced : CopiesAgree(i))'
<1> SUFFICES ASSUME RegistryAssumption, TypeOK, PollerReads, \A i \in Id \ raced : CopiesAgree(i),
                    [Next]_vars
             PROVE  (\A i \in Id \ raced : CopiesAgree(i))'
  OBVIOUS
<1> USE DEF request, tables, live, history, bounds
<1>0. CopyTypes /\ RequestTypes /\ HistoryTypes
  BY TypeParts
<1>1. ASSUME NEW q \in Request, Asks(q) PROVE (\A i \in Id \ raced : CopiesAgree(i))'
  <2>1. /\ pc[q] \notin Holding /\ pc'[q] \notin Holding
        /\ UNCHANGED <<row, memory, polled, raced>>
    <3>1. CASE \E batch \in Batch : Add(q, batch)
      BY <1>0, <3>1 DEF Add, Goto, Holding, RequestTypes
    <3>2. CASE \E i \in Id, s \in {"online", "offline"} : SetStatus(q, i, s)
      BY <1>0, <3>2 DEF SetStatus, Goto, Holding, RequestTypes
    <3>3. CASE StoreStatus(q) \/ StoreStatusFails(q) \/ StatusCancelled(q)
      BY <1>0, <3>3
      DEF StoreStatus, StoreStatusFails, StatusCancelled, Goto, Holding, RequestTypes
    <3> QED BY <1>1, <3>1, <3>2, <3>3 DEF Asks
  <2>2. OthersStay(q)
    BY <1>0, <1>1, OneRequest
  <2> QED BY <2>1, <2>2, AgreeElsewhere DEF At
<1>2. ASSUME NEW q \in Request, NEW j \in Id, Takes(q, j), OthersStay(q), pc[q] \notin Holding,
             UNCHANGED <<tables, live, todo>>,
             j \notin raced' /\ Current(q) \notin BACnet => polled[j] = NoDevice
      PROVE  (\A i \in Id \ raced : CopiesAgree(i))'
  <2>1. /\ pc'[q] = "save" /\ id'[q] = j /\ raced \subseteq raced'
        /\ j \notin raced' => \A r \in Request \ {q} : ~At(r, j, Holding)
    BY <1>0, <1>2 DEF Takes, Take, Race, Unbound, Goto, RequestTypes, At, Holding
  <2>2. ASSUME NEW i \in Id \ raced', i # j PROVE CopiesAgree(i)'
    BY <1>2, <2>1, <2>2, AgreeElsewhere DEF At
  <2>3. ASSUME j \notin raced' PROVE CopiesAgree(j)'
    <3>1. \A r \in Request : ~At(r, j, Holding)
      BY <1>2, <2>1, <2>3 DEF At
    <3>2. \A r \in Request : At(r, j, Holding)' => r = q
      BY <1>2, <3>1 DEF At, OthersStay
    <3>3. \A r \in Request : ~At(r, j, {"saved"}) /\ ~At(r, j, {"saved", "activate"})'
      BY <2>1, <3>1, <3>2 DEF At, Holding
    <3>4. CopiesAgree(j) /\ Current(q)' = Current(q)
      BY <1>2, <2>1, <2>3 DEF Current
    <3> QED BY <1>2, <2>3, <3>2, <3>3, <3>4 DEF CopiesAgree
  <2> QED BY <2>2, <2>3
<1>3. ASSUME NEW q \in Request, Choose(q) PROVE (\A i \in Id \ raced : CopiesAgree(i))'
  <2>1. OthersStay(q) /\ pc[q] = "choose" /\ UNCHANGED <<tables, live, todo>>
    BY <1>0, <1>3, OneRequest DEF Choose, Step
  <2>2. CASE KeepsId(Current(q))
    <3>1. Current(q) \in Device
      BY <1>0, <2>1, BatchFacts DEF RequestTypes, Current
    <3> DEFINE j == OwnId[Current(q)]
    <3>2. j \in Id /\ (Current(q) \in BACnet \/ memory[j] = NoDevice)
      BY <3>1, <2>2 DEF KeepsId, RegistryAssumption, Id
    <3>3. Takes(q, j)
      BY <1>3, <2>2 DEF Choose, Current, Takes
    <3>4. raced \subseteq raced'
      BY <1>0, <3>2, <3>3, RaceTypes
    <3>5. j \notin raced' /\ Current(q) \notin BACnet => polled[j] = NoDevice
      BY <3>2, <3>4 DEF CopiesAgree
    <3> QED BY <1>2, <2>1, <3>2, <3>3, <3>5 DEF Holding
  <2>3. CASE ~KeepsId(Current(q))
    <3>1. pc'[q] = "query" /\ UNCHANGED raced
      BY <1>0, <1>3, <2>3 DEF Choose, Current, Goto, RequestTypes
    <3> QED BY <2>1, <3>1, AgreeElsewhere DEF At, Holding
  <2> QED BY <2>2, <2>3
<1>4. ASSUME NEW q \in Request, Pick(q) PROVE (\A i \in Id \ raced : CopiesAgree(i))'
  <2>1. OthersStay(q) /\ pc[q] = "read" /\ UNCHANGED <<tables, live, todo>>
    BY <1>0, <1>4, OneRequest DEF Pick, Step
  <2>2. PICK j \in Id : Takes(q, j) /\ Race(q, j, row[j] # NoDevice)
    BY <1>4 DEF Pick, Takes
  <2>3. j \notin raced' => row[j] = NoDevice
    BY <2>2 DEF Race
  <2>4. raced \subseteq raced'
    BY <1>0, <2>2, RaceTypes
  <2>5. j \notin raced' => \A r \in Request : ~At(r, j, {"saved"})
    BY <2>1, <2>2 DEF Race, Unbound, At
  <2>6. j \notin raced' => polled[j] = NoDevice
    BY <2>2, <2>3, <2>4, <2>5 DEF CopiesAgree
  <2> QED BY <1>2, <2>1, <2>2, <2>6 DEF Holding
<1>12. ASSUME NEW q \in Request, Look(q) PROVE (\A i \in Id \ raced : CopiesAgree(i))'
  <2>1. /\ OthersStay(q) /\ UNCHANGED <<row, memory, polled, raced>>
        /\ pc[q] = "query" /\ pc'[q] = "read"
    BY <1>0, <1>12, OneRequest DEF Look, Step, Goto, RequestTypes
  <2> QED BY <2>1, AgreeElsewhere DEF At, Holding
<1>5. ASSUME NEW q \in Request, Save(q) PROVE (\A i \in Id \ raced : CopiesAgree(i))'
  <2>1. /\ OthersStay(q) /\ id[q] \in Id /\ UNCHANGED <<memory, polled, raced, id, todo>>
        /\ pc[q] = "save" /\ pc'[q] = "saved"
        /\ row' = [row EXCEPT ![id[q]] = Current(q)]
    BY <1>0, <1>5, OneRequest DEF Save, Step, Goto, RequestTypes, Current
  <2>2. ASSUME NEW i \in Id \ raced, i # id[q] PROVE CopiesAgree(i)'
    BY <1>0, <2>1, <2>2, AgreeElsewhere DEF At, CopyTypes
  <2>3. ASSUME NEW i \in Id \ raced, i = id[q] PROVE CopiesAgree(i)'
    <3>1. CopiesAgree(i) /\ row'[i] = Current(q) /\ At(q, i, Holding) /\ At(q, i, {"saved"})'
      BY <1>0, <2>1, <2>3 DEF CopyTypes, At, Holding
    <3>2. \A r \in Request : At(r, i, Holding)' => At(r, i, Holding)
      BY <2>1, <3>1 DEF At, OthersStay
    <3>3. \A r \in Request : At(r, i, {"saved", "activate"})' => r = q
      BY <3>1, <3>2 DEF CopiesAgree, At, Holding
    <3>4. \A r \in Request : Current(r)' = Current(r)
      BY <2>1 DEF Current
    <3> QED BY <2>1, <3>1, <3>2, <3>3, <3>4 DEF CopiesAgree
  <2> QED BY <2>1, <2>2, <2>3
<1>6. ASSUME NEW q \in Request, SaveFails(q) PROVE (\A i \in Id \ raced : CopiesAgree(i))'
  <2>1. /\ OthersStay(q) /\ UNCHANGED <<row, memory, polled, raced, id>>
        /\ pc[q] = "save" /\ pc'[q] = "idle"
    BY <1>0, <1>6, OneRequest DEF SaveFails, Step, Goto, RequestTypes
  <2>2. ASSUME NEW i \in Id \ raced, i # id[q] PROVE CopiesAgree(i)'
    BY <2>1, <2>2, AgreeElsewhere DEF At
  <2>3. ASSUME NEW i \in Id \ raced, i = id[q] PROVE CopiesAgree(i)'
    <3>1. CopiesAgree(i) /\ At(q, i, Holding)
      BY <2>1, <2>3 DEF At, Holding
    <3>2. \A r \in Request : r # q => ~At(r, i, Holding)
      BY <3>1 DEF CopiesAgree
    <3>3. \A r \in Request : ~At(r, i, Holding)'
      BY <2>1, <3>2 DEF At, OthersStay, Holding
    <3>4. \A r \in Request : ~At(r, i, {"saved"}) /\ ~At(r, i, {"saved", "activate"})'
      BY <2>1, <3>2, <3>3 DEF At, Holding
    <3> QED BY <2>1, <3>1, <3>3, <3>4 DEF CopiesAgree
  <2> QED BY <2>1, <2>2, <2>3
\* The device that is stored enters memory, and the poller if it is read.
<1>7. ASSUME NEW q \in Request, OthersStay(q), id[q] \in Id, pc[q] \in {"saved", "activate"},
             UNCHANGED <<row, raced, id>>, memory' = [memory EXCEPT ![id[q]] = Current(q)],
             \/ polled' = [polled EXCEPT ![id[q]] = Current(q)]
             \/ polled' = polled /\ (polled[id[q]] # NoDevice => Current(q) \notin BACnet),
             pc'[q] \in Holding => /\ pc'[q] = "activate" /\ UNCHANGED <<todo, polled>>
      PROVE  (\A i \in Id \ raced : CopiesAgree(i))'
  <2>2. ASSUME NEW i \in Id \ raced, i # id[q] PROVE CopiesAgree(i)'
    <3>1. row'[i] = row[i] /\ memory'[i] = memory[i] /\ polled'[i] = polled[i]
      BY <1>0, <1>7, <2>2 DEF CopyTypes
    <3> QED BY <1>7, <2>2, <3>1, AgreeElsewhere DEF At
  <2>3. ASSUME NEW i \in Id \ raced, i = id[q] PROVE CopiesAgree(i)'
    <3>1. CopiesAgree(i) /\ At(q, i, Holding) /\ At(q, i, {"saved", "activate"})
      BY <1>7, <2>3 DEF At, Holding
    <3>2. \A r \in Request : r # q => ~At(r, i, Holding)
      BY <3>1 DEF CopiesAgree
    <3>3. \A r \in Request : At(r, i, Holding)' => r = q /\ pc'[q] \in Holding
      BY <1>7, <3>2 DEF At, OthersStay
    <3>4. \A r \in Request : At(r, i, {"saved", "activate"})' => r = q /\ pc'[q] \in Holding
      BY <3>3 DEF At, Holding
    <3>5. memory'[i] = Current(q) /\ row'[i] = Current(q)
      BY <1>0, <1>7, <2>3, <3>1 DEF CopyTypes, CopiesAgree
    <3>6. polled'[i] # NoDevice => polled'[i] = Current(q)
      <4>1. CASE polled' = [polled EXCEPT ![id[q]] = Current(q)]
        BY <1>0, <2>3, <4>1 DEF CopyTypes
      <4>2. CASE polled' = polled /\ (polled[id[q]] # NoDevice => Current(q) \notin BACnet)
        BY <2>3, <3>1, <4>2 DEF CopiesAgree
      <4> QED BY <1>7, <4>1, <4>2
    <3>7. pc'[q] \in Holding => Current(q)' = Current(q) /\ polled'[i] = polled[i]
      BY <1>7 DEF Current
    <3>8. pc'[q] \in Holding /\ Current(q) \notin BACnet => polled[i] = NoDevice
      BY <3>1 DEF CopiesAgree
    <3> QED BY <3>3, <3>4, <3>5, <3>6, <3>7, <3>8 DEF CopiesAgree
  <2> QED BY <1>7, <2>2, <2>3
<1>8. ASSUME NEW q \in Request, Enter(q) PROVE (\A i \in Id \ raced : CopiesAgree(i))'
  <2>1. /\ OthersStay(q) /\ id[q] \in Id /\ pc[q] = "saved" /\ UNCHANGED <<row, raced, id>>
        /\ memory' = [memory EXCEPT ![id[q]] = Current(q)]
    BY <1>0, <1>8, OneRequest DEF Enter, Step, RequestTypes, Current
  <2>2. CASE Current(q) \in BACnet /\ connected
    <3>1. polled' = [polled EXCEPT ![id[q]] = Current(q)] /\ pc'[q] \notin Holding
      BY <1>0, <1>8, <2>2 DEF Enter, Current, Advance, Goto, Holding, RequestTypes
    <3> QED BY <1>7, <2>1, <3>1
  <2>3. CASE Current(q) \in BACnet /\ ~connected
    <3>1. polled' = polled /\ pc'[q] \notin Holding /\ polled[id[q]] = NoDevice
      BY <1>0, <1>8, <2>1, <2>3 DEF Enter, Current, Goto, Holding, RequestTypes, PollerReads
    <3> QED BY <1>7, <2>1, <3>1
  <2>4. CASE Current(q) \notin BACnet
    <3>1. UNCHANGED <<polled, todo>> /\ pc'[q] = "activate"
      BY <1>0, <1>8, <2>4 DEF Enter, Current, Goto, RequestTypes
    <3> QED BY <1>7, <2>1, <2>4, <3>1
  <2> QED BY <2>2, <2>3, <2>4
<1>9. ASSUME NEW q \in Request, Activate(q) PROVE (\A i \in Id \ raced : CopiesAgree(i))'
  <2>1. /\ OthersStay(q) /\ id[q] \in Id /\ pc[q] = "activate"
        /\ UNCHANGED <<row, raced, id, polled>>
        /\ memory' = [memory EXCEPT ![id[q]] = Current(q)]
    BY <1>0, <1>9, OneRequest DEF Activate, Step, RequestTypes, Current
  <2>2. pc'[q] \notin Holding
    BY <1>0, <1>9 DEF Activate, Advance, Goto, Holding, RequestTypes
  <2>3. Current(q) \notin BACnet
    BY <2>1 DEF PollerReads
  <2> QED BY <1>7, <2>1, <2>2, <2>3
<1>10. CASE Restart
  <2>1. PICK b \in BootStates(row, points, rowStatus) :
          row' = b.row /\ memory' = b.memory /\ polled' = b.polled
    BY <1>10 DEF Restart
  <2>2. /\ \A i \in Id : b.memory[i] # NoDevice => b.row[i] = b.memory[i]
        /\ \A i \in Id : b.polled[i] # NoDevice => b.memory[i] = b.polled[i]
    <3>1. /\ row \in [Id -> Holder] /\ points \in [Id -> [Slot -> Holder]]
          /\ rowStatus \in [Id -> Status]
      BY <1>0 DEF CopyTypes
    <3>2. BootCopies(b, row)
      BY <3>1, BootFacts
    <3> QED BY <3>2 DEF BootCopies
  <2>3. \A q \in Request : pc'[q] = "idle"
    BY <1>10 DEF Restart
  <2>4. \A q \in Request, i \in Id : /\ ~At(q, i, Holding)' /\ ~At(q, i, {"saved"})'
                                    /\ ~At(q, i, {"saved", "activate"})'
    BY <2>3 DEF At, Holding
  <2> QED BY <2>1, <2>2, <2>4 DEF CopiesAgree
<1>11. CASE UNCHANGED vars
  BY <1>11 DEF vars, CopiesAgree, At, Current
<1> QED BY <1>1, <1>3, <1>4, <1>5, <1>6, <1>8, <1>9, <1>10, <1>11, <1>12 DEF Next, Step, Asks

LEMMA PollerStep == RegistryAssumption /\ TypeOK /\ PollerReads /\ [Next]_vars => PollerReads'
<1> SUFFICES ASSUME RegistryAssumption, TypeOK, PollerReads, [Next]_vars PROVE PollerReads'
  OBVIOUS
<1> USE DEF request, tables, live, history, bounds
<1>0. CopyTypes /\ RequestTypes /\ HistoryTypes
  BY TypeParts
<1>1. ASSUME NEW q \in Request, OthersStay(q), pc'[q] # "activate",
            UNCHANGED <<polled, connected, added>>
      PROVE  PollerReads'
  BY <1>1 DEF PollerReads, OthersStay, Current
<1>2. ASSUME NEW q \in Request, Asks(q) PROVE PollerReads'
  <2>1. OthersStay(q)
    BY <1>0, <1>2, OneRequest
  <2>2. CASE \E batch \in Batch : Add(q, batch)
    BY <1>0, <1>1, <2>1, <2>2 DEF Add, Goto, RequestTypes
  <2>3. CASE \E i \in Id, s \in {"online", "offline"} : SetStatus(q, i, s)
    BY <1>0, <1>1, <2>1, <2>3 DEF SetStatus, Goto, RequestTypes
  <2>4. CASE StoreStatus(q) \/ StoreStatusFails(q) \/ StatusCancelled(q)
    BY <1>0, <1>1, <2>1, <2>4
    DEF StoreStatus, StoreStatusFails, StatusCancelled, Goto, RequestTypes
  <2> QED BY <1>2, <2>2, <2>3, <2>4 DEF Asks
<1>3. ASSUME NEW q \in Request,
             Choose(q) \/ Look(q) \/ Pick(q) \/ Save(q) \/ SaveFails(q)
      PROVE  PollerReads'
  <2>1. OthersStay(q)
    BY <1>0, <1>3, OneRequest DEF Step
  <2>2. UNCHANGED <<polled, connected, added>>
    BY <1>3 DEF Choose, Look, Pick, Save, SaveFails
  <2>3. pc'[q] # "activate"
    BY <1>0, <1>3 DEF Choose, Look, Pick, Take, Save, SaveFails, Goto, RequestTypes
  <2> QED BY <1>1, <2>1, <2>2, <2>3
<1>4. ASSUME NEW q \in Request, OthersStay(q), id[q] \in Id, UNCHANGED connected,
             polled' = polled \/ (connected /\ polled' = [polled EXCEPT ![id[q]] = Current(q)]),
             Current(q) \in Device, NoDevice \notin Device,
             \/ added' = added
             \/ added' = added \cup {id[q]} /\ polled'[id[q]] # NoDevice,
             pc'[q] = "activate" => Current(q)' \notin BACnet
      PROVE  PollerReads'
  <2>1. \A i \in Id : polled'[i] # NoDevice => connected'
    BY <1>4 DEF PollerReads
  <2>2. \A r \in Request : pc'[r] = "activate" => Current(r)' \notin BACnet
    BY <1>4 DEF PollerReads, OthersStay, Current
  <2>3. ASSUME NEW a \in added' PROVE polled'[a] # NoDevice
    <3>1. CASE a \in added
      <4>1. a \in Id /\ polled[a] # NoDevice
        BY <1>0, <2>3, <3>1 DEF HistoryTypes, PollerReads
      <4> QED BY <1>0, <1>4, <4>1 DEF CopyTypes
    <3>2. CASE a \notin added
      BY <1>4, <2>3, <3>2
    <3> QED BY <3>1, <3>2
  <2> QED BY <2>1, <2>2, <2>3 DEF PollerReads
<1>5. ASSUME NEW q \in Request, pc[q] \notin {"idle", "status"} PROVE Current(q) \in Device
  BY <1>0, <1>5, BatchFacts DEF RequestTypes, Current
<1>6. ASSUME NEW q \in Request, Enter(q) PROVE PollerReads'
  <2>1. /\ OthersStay(q) /\ id[q] \in Id /\ pc[q] = "saved" /\ UNCHANGED connected
        /\ Current(q) \in Device /\ NoDevice \notin Device
    BY <1>0, <1>5, <1>6, OneRequest DEF Enter, Step, RequestTypes, RegistryAssumption
  <2>2. CASE Current(q) \in BACnet /\ connected
    <3>1. /\ polled' = [polled EXCEPT ![id[q]] = Current(q)] /\ pc'[q] # "activate"
          /\ added' = added \cup {id[q]}
      BY <1>0, <1>6, <2>2 DEF Enter, Current, Advance, Goto, RequestTypes
    <3>2. polled'[id[q]] # NoDevice
      BY <1>0, <2>1, <3>1 DEF CopyTypes
    <3> QED BY <1>4, <2>1, <2>2, <3>1, <3>2
  <2>3. CASE Current(q) \in BACnet /\ ~connected
    <3>1. UNCHANGED <<polled, added>> /\ pc'[q] # "activate"
      BY <1>0, <1>6, <2>3 DEF Enter, Current, Goto, RequestTypes
    <3> QED BY <1>1, <2>1, <3>1
  <2>4. CASE Current(q) \notin BACnet
    <3>1. UNCHANGED <<polled, added, todo>>
      BY <1>6, <2>4 DEF Enter, Current
    <3> QED BY <1>4, <2>1, <2>4, <3>1 DEF Current
  <2> QED BY <2>2, <2>3, <2>4
<1>7. ASSUME NEW q \in Request, Activate(q) PROVE PollerReads'
  <2>1. /\ OthersStay(q) /\ id[q] \in Id /\ pc[q] = "activate" /\ UNCHANGED <<polled, connected>>
        /\ Current(q) \in Device /\ NoDevice \notin Device /\ UNCHANGED added
    BY <1>0, <1>5, <1>7, OneRequest DEF Activate, Step, RequestTypes, RegistryAssumption, Current
  <2>2. pc'[q] # "activate"
    BY <1>0, <1>7 DEF Activate, Advance, Goto, RequestTypes
  <2>3. Current(q) \notin BACnet
    BY <2>1 DEF PollerReads
  <2> QED BY <1>4, <2>1, <2>2, <2>3
<1>8. CASE Restart
  <2>1. (\A i \in Id : polled'[i] # NoDevice => connected') /\ added' = {}
        /\ \A q \in Request : pc'[q] = "idle"
    BY <1>8 DEF Restart
  <2> QED BY <2>1 DEF PollerReads
<1>9. CASE UNCHANGED vars
  BY <1>9 DEF vars, PollerReads, Current
<1> QED BY <1>2, <1>3, <1>6, <1>7, <1>8, <1>9 DEF Next, Step, Asks

-----------------------------------------------------------------------------
(***************************************************************************)
(* The stored status follows the one in memory                             *)
(***************************************************************************)

Working == Holding \cup {"status"}

\* Of an id that no two requests have worked on at a time, and whose status no
\* failure has kept from the table: the two statuses agree when no request is
\* between its two writes, which then knows what it is going to write.
StatusAgrees(i) ==
  /\ \A q, r \in Request : At(q, i, Working) /\ At(r, i, Working) => q = r
  /\ memory[i] # NoDevice /\ (\A q \in Request : ~At(q, i, {"saved", "activate", "status"}))
       => rowStatus[i] = status[i]
  /\ \A q \in Request : At(q, i, {"saved", "activate"}) => rowStatus[i] = "online"
  /\ \A q \in Request : At(q, i, {"status"}) => status[i] = next[q]

Excused == raced \cup unsaved

LEMMA StatusElsewhere ==
  ASSUME NEW i \in Id, StatusAgrees(i), NEW q \in Request, OthersStay(q),
         ~At(q, i, Working), ~At(q, i, Working)',
         rowStatus'[i] = rowStatus[i], memory'[i] = memory[i], status'[i] = status[i]
  PROVE  StatusAgrees(i)'
<1>1. \A S : \A r \in Request : S \subseteq Working =>
        (At(r, i, S)' <=> At(r, i, S)) /\ (At(r, i, S) => r # q)
  BY DEF At, OthersStay
<1>2. /\ {"saved", "activate"} \subseteq Working /\ {"status"} \subseteq Working
      /\ {"saved", "activate", "status"} \subseteq Working
  BY DEF Working, Holding
<1>3. \A r \in Request : r # q => next'[r] = next[r]
  BY DEF OthersStay
<1> QED BY <1>1, <1>2, <1>3 DEF StatusAgrees

\* The request q alone works on the id i: the others do not matter.
LEMMA StatusHere ==
  ASSUME NEW i \in Id, NEW q \in Request, OthersStay(q),
         \A r \in Request \ {q} : ~At(r, i, Working),
         pc'[q] \in {"saved", "activate"} /\ id'[q] = i => rowStatus'[i] = "online",
         pc'[q] = "status" /\ id'[q] = i => status'[i] = next'[q],
         memory'[i] # NoDevice /\ ~(pc'[q] \in {"saved", "activate", "status"} /\ id'[q] = i)
           => rowStatus'[i] = status'[i]
  PROVE  StatusAgrees(i)'
<1>1. \A r \in Request : At(r, i, Working)' => r = q
  BY DEF At, OthersStay
<1>2. \A r \in Request : /\ At(r, i, {"saved", "activate"})' => r = q
                         /\ At(r, i, {"status"})' => r = q
  BY <1>1 DEF At, Working, Holding
<1>3. (\A r \in Request : ~At(r, i, {"saved", "activate", "status"})')
      => ~(pc'[q] \in {"saved", "activate", "status"} /\ id'[q] = i)
  BY DEF At
<1> QED BY <1>1, <1>2, <1>3 DEF StatusAgrees, At

LEMMA StatusStep ==
  /\ RegistryAssumption /\ TypeOK /\ (\A i \in Id \ Excused : StatusAgrees(i)) /\ [Next]_vars
  => (\A i \in Id \ Excused : StatusAgrees(i))'
<1> SUFFICES ASSUME RegistryAssumption, TypeOK, \A i \in Id \ Excused : StatusAgrees(i), [Next]_vars
             PROVE  (\A i \in Id \ Excused : StatusAgrees(i))'
  OBVIOUS
<1> USE DEF request, tables, live, history, bounds
<1>0. CopyTypes /\ RequestTypes /\ HistoryTypes
  BY TypeParts
<1>a. ASSUME NEW q \in Request, NEW i \in Id, i \notin Excused, At(q, i, Working)
      PROVE  \A r \in Request \ {q} : ~At(r, i, Working)
  BY <1>a DEF StatusAgrees
<1>b. ASSUME NEW q \in Request, OthersStay(q), Excused \subseteq Excused',
             NEW j \in Id, j \notin Excused' => StatusAgrees(j)',
             pc[q] \in Working => id[q] = j, pc'[q] \in Working => id'[q] = j,
             \A i \in Id \ {j} : /\ rowStatus'[i] = rowStatus[i] /\ memory'[i] = memory[i]
                               /\ status'[i] = status[i]
      PROVE  (\A i \in Id \ Excused : StatusAgrees(i))'
  <2>1. ASSUME NEW i \in Id \ Excused', i # j PROVE StatusAgrees(i)'
    BY <1>b, <2>1, StatusElsewhere DEF At
  <2> QED BY <1>b, <2>1
<1>1. ASSUME NEW q \in Request, NEW batch \in Batch, Add(q, batch)
      PROVE  (\A i \in Id \ Excused : StatusAgrees(i))'
  <2>1. OthersStay(q) /\ pc[q] = "idle" /\ pc'[q] = "choose"
        /\ UNCHANGED <<rowStatus, memory, status, raced, unsaved>>
    BY <1>0, <1>1, OneRequest DEF Add, Asks, Goto, RequestTypes
  <2> QED BY <2>1, StatusElsewhere DEF At, Working, Holding, Excused
<1>2. ASSUME NEW q \in Request, NEW i \in Id, NEW s \in {"online", "offline"}, SetStatus(q, i, s)
      PROVE  (\A j \in Id \ Excused : StatusAgrees(j))'
  <2>1. OthersStay(q)
    BY <1>0, <1>2, OneRequest DEF Asks
  <2>2. /\ pc[q] = "idle" /\ pc'[q] = "status" /\ id'[q] = i /\ next'[q] = s /\ status'[i] = s
        /\ UNCHANGED <<rowStatus, memory, raced>> /\ unsaved \subseteq unsaved'
        /\ \A j \in Id \ {i} : status'[j] = status[j]
    BY <1>0, <1>2 DEF SetStatus, Goto, RequestTypes, CopyTypes
  <2>3. ASSUME i \notin Excused' PROVE \A r \in Request \ {q} : ~At(r, i, Working)
    BY <1>2, <2>3 DEF SetStatus, At, Working, Holding, Excused
  <2>4. i \notin Excused' => StatusAgrees(i)'
    BY <2>1, <2>2, <2>3, StatusHere
  <2> QED BY <1>b, <2>1, <2>2, <2>4 DEF Excused, Working, Holding
<1>3. ASSUME NEW q \in Request, NEW j \in Id, Takes(q, j), OthersStay(q),
             pc[q] \in {"choose", "read"},
             UNCHANGED <<tables, live, unsaved>>
      PROVE  (\A i \in Id \ Excused : StatusAgrees(i))'
  <2>1. /\ pc'[q] = "save" /\ id'[q] = j /\ raced \subseteq raced'
        /\ j \notin raced' => \A r \in Request \ {q} : ~At(r, j, Working)
    BY <1>0, <1>3
    DEF Takes, Take, Race, Unbound, Goto, RequestTypes, At, Working, Holding
  <2>2. ASSUME j \notin Excused' PROVE StatusAgrees(j)'
    <3>1. StatusAgrees(j) /\ \A r \in Request \ {q} : ~At(r, j, Working)
      BY <1>3, <2>1, <2>2 DEF Excused
    <3>2. \A r \in Request : ~At(r, j, {"saved", "activate", "status"})
      BY <1>3, <3>1 DEF At, Working, Holding
    <3>3. memory[j] # NoDevice => rowStatus[j] = status[j]
      BY <3>1, <3>2 DEF StatusAgrees
    <3> QED BY <1>3, <2>1, <3>1, <3>3, StatusHere
  <2> QED BY <1>3, <1>b, <2>1, <2>2 DEF Excused, Working, Holding
<1>4. ASSUME NEW q \in Request, Choose(q) PROVE (\A i \in Id \ Excused : StatusAgrees(i))'
  <2>1. OthersStay(q) /\ pc[q] = "choose" /\ UNCHANGED <<tables, live, unsaved>>
    BY <1>0, <1>4, OneRequest DEF Choose, Step
  <2>2. CASE KeepsId(Current(q))
    <3>1. Current(q) \in Device
      BY <1>0, <2>1, BatchFacts DEF RequestTypes, Current
    <3>2. OwnId[Current(q)] \in Id
      BY <3>1, <2>2 DEF KeepsId, RegistryAssumption, Id
    <3>3. Takes(q, OwnId[Current(q)])
      BY <1>4, <2>2 DEF Choose, Current, Takes
    <3> QED BY <1>3, <2>1, <3>2, <3>3
  <2>3. CASE ~KeepsId(Current(q))
    <3>1. pc'[q] = "query" /\ UNCHANGED raced
      BY <1>0, <1>4, <2>3 DEF Choose, Current, Goto, RequestTypes
    <3> QED BY <2>1, <3>1, StatusElsewhere DEF At, Working, Holding, Excused
  <2> QED BY <2>2, <2>3
<1>5. ASSUME NEW q \in Request, Pick(q) PROVE (\A i \in Id \ Excused : StatusAgrees(i))'
  <2>1. OthersStay(q) /\ pc[q] = "read" /\ UNCHANGED <<tables, live, unsaved>>
    BY <1>0, <1>5, OneRequest DEF Pick, Step
  <2>2. PICK j \in Id : Takes(q, j)
    BY <1>5 DEF Pick, Takes
  <2> QED BY <1>3, <2>1, <2>2
<1>14. ASSUME NEW q \in Request, Look(q) PROVE (\A i \in Id \ Excused : StatusAgrees(i))'
  <2>1. /\ OthersStay(q) /\ UNCHANGED <<rowStatus, memory, status, raced, unsaved>>
        /\ pc[q] = "query" /\ pc'[q] = "read"
    BY <1>0, <1>14, OneRequest DEF Look, Step, Goto, RequestTypes
  <2> QED BY <2>1, StatusElsewhere DEF At, Working, Holding, Excused
<1>6. ASSUME NEW q \in Request, Save(q) PROVE (\A i \in Id \ Excused : StatusAgrees(i))'
  <2>1. /\ OthersStay(q) /\ id[q] \in Id /\ UNCHANGED <<memory, status, raced, unsaved, id>>
        /\ pc[q] = "save" /\ pc'[q] = "saved"
        /\ rowStatus' = [rowStatus EXCEPT ![id[q]] = "online"]
    BY <1>0, <1>6, OneRequest DEF Save, Step, Goto, RequestTypes
  <2>2. ASSUME id[q] \notin Excused PROVE StatusAgrees(id[q])'
    <3>1. \A r \in Request \ {q} : ~At(r, id[q], Working)
      BY <1>a, <2>1, <2>2 DEF At, Working, Holding
    <3>2. rowStatus'[id[q]] = "online"
      BY <1>0, <2>1 DEF CopyTypes
    <3> DEFINE i == id[q]
    <3>3. i' = i
      BY <2>1
    <3>4. ASSUME NEW k \in Id, k = id[q] PROVE StatusAgrees(k)'
      BY <2>1, <3>1, <3>2, <3>4, StatusHere
    <3> QED BY <2>1, <3>4
  <2> QED BY <1>0, <1>b, <2>1, <2>2 DEF Excused, CopyTypes
<1>7. ASSUME NEW q \in Request, SaveFails(q) PROVE (\A i \in Id \ Excused : StatusAgrees(i))'
  <2>1. /\ OthersStay(q) /\ id[q] \in Id /\ pc[q] = "save" /\ pc'[q] = "idle"
        /\ UNCHANGED <<memory, status, rowStatus, raced, unsaved, id>>
    BY <1>0, <1>7, OneRequest DEF SaveFails, Step, Goto, RequestTypes
  <2>2. ASSUME NEW i \in Id, i = id[q], i \notin Excused PROVE StatusAgrees(i)'
    <3>1. \A r \in Request \ {q} : ~At(r, i, Working)
      BY <1>a, <2>1, <2>2 DEF At, Working, Holding
    <3>2. \A r \in Request : ~At(r, i, {"saved", "activate", "status"})
      BY <2>1, <3>1 DEF At, Working, Holding
    <3>3. memory[i] # NoDevice => rowStatus[i] = status[i]
      BY <2>2, <3>2 DEF StatusAgrees
    <3> QED BY <2>1, <3>1, <3>3, StatusHere
  <2> QED BY <1>b, <2>1, <2>2 DEF Excused
<1>8. ASSUME NEW q \in Request, Enter(q) PROVE (\A i \in Id \ Excused : StatusAgrees(i))'
  <2>1. /\ OthersStay(q) /\ id[q] \in Id /\ pc[q] = "saved"
        /\ UNCHANGED <<rowStatus, raced, unsaved, id>>
        /\ memory' = [memory EXCEPT ![id[q]] = Current(q)]
        /\ status' = [status EXCEPT ![id[q]] = "online"]
    BY <1>0, <1>8, OneRequest DEF Enter, Step, RequestTypes, Current
  <2>2. pc'[q] \in {"choose", "idle", "activate"}
    BY <1>0, <1>8 DEF Enter, Advance, Goto, RequestTypes
  <2>3. ASSUME NEW i \in Id, i = id[q], i \notin Excused PROVE StatusAgrees(i)'
    <3>1. \A r \in Request \ {q} : ~At(r, i, Working)
      BY <1>a, <2>1, <2>3 DEF At, Working, Holding
    <3>2. rowStatus[i] = "online"
      BY <2>1, <2>3 DEF StatusAgrees, At
    <3>3. status'[i] = "online"
      BY <1>0, <2>1, <2>3 DEF CopyTypes
    <3> QED BY <2>1, <2>2, <3>1, <3>2, <3>3, StatusHere
  <2>4. \A i \in Id \ {id[q]} : memory'[i] = memory[i] /\ status'[i] = status[i]
    BY <1>0, <2>1 DEF CopyTypes
  <2> QED BY <1>b, <2>1, <2>3, <2>4 DEF Excused
<1>9. ASSUME NEW q \in Request, Activate(q) PROVE (\A i \in Id \ Excused : StatusAgrees(i))'
  <2>1. /\ OthersStay(q) /\ id[q] \in Id /\ pc[q] = "activate" /\ UNCHANGED <<rowStatus, raced, id>>
        /\ memory' = [memory EXCEPT ![id[q]] = Current(q)]
        /\ unsaved' = IF status'[id[q]] = "error" THEN unsaved \cup {id[q]} ELSE unsaved
    BY <1>0, <1>9, OneRequest DEF Activate, Step, RequestTypes, Current
  <2>2. PICK s \in {"online", "error"} : status' = [status EXCEPT ![id[q]] = s]
    BY <1>9 DEF Activate
  <2>3. pc'[q] \in {"choose", "idle"}
    BY <1>0, <1>9 DEF Activate, Advance, Goto, RequestTypes
  <2>4. ASSUME NEW i \in Id, i = id[q], i \notin Excused' PROVE StatusAgrees(i)'
    <3>0. i \notin Excused
      BY <2>1, <2>4 DEF Excused
    <3>1. \A r \in Request \ {q} : ~At(r, i, Working)
      BY <1>a, <2>1, <2>4, <3>0 DEF At, Working, Holding
    <3>2. rowStatus[i] = "online"
      BY <2>1, <2>4, <3>0 DEF StatusAgrees, At
    <3>3. status'[i] = "online"
      BY <1>0, <2>1, <2>2, <2>4 DEF CopyTypes, Excused
    <3> QED BY <2>1, <2>3, <3>1, <3>2, <3>3, StatusHere
  <2>5. \A i \in Id \ {id[q]} : memory'[i] = memory[i] /\ status'[i] = status[i]
    BY <1>0, <2>1, <2>2 DEF CopyTypes
  <2> QED BY <1>b, <2>1, <2>4, <2>5 DEF Excused
<1>10. ASSUME NEW q \in Request, StoreStatus(q) PROVE (\A i \in Id \ Excused : StatusAgrees(i))'
  <2>1. /\ OthersStay(q) /\ id[q] \in Id /\ pc[q] = "status" /\ pc'[q] = "idle"
        /\ UNCHANGED <<memory, status, raced, unsaved, id>>
        /\ rowStatus' = [rowStatus EXCEPT ![id[q]] = next[q]]
    BY <1>0, <1>10, OneRequest DEF StoreStatus, Asks, Goto, RequestTypes
  <2>2. ASSUME NEW i \in Id, i = id[q], i \notin Excused PROVE StatusAgrees(i)'
    <3>1. \A r \in Request \ {q} : ~At(r, i, Working)
      BY <1>a, <2>1, <2>2 DEF At, Working
    <3>2. status[i] = next[q]
      BY <2>1, <2>2 DEF StatusAgrees, At
    <3>3. rowStatus'[i] = next[q]
      BY <1>0, <2>1, <2>2 DEF CopyTypes
    <3> QED BY <2>1, <3>1, <3>2, <3>3, StatusHere
  <2>3. \A i \in Id \ {id[q]} : rowStatus'[i] = rowStatus[i]
    BY <1>0, <2>1 DEF CopyTypes
  <2> QED BY <1>b, <2>1, <2>2, <2>3 DEF Excused
<1>11. ASSUME NEW q \in Request, StoreStatusFails(q) \/ StatusCancelled(q)
       PROVE  (\A i \in Id \ Excused : StatusAgrees(i))'
  <2>1. /\ OthersStay(q) /\ id[q] \in Id /\ pc[q] = "status" /\ pc'[q] = "idle"
        /\ UNCHANGED <<memory, status, rowStatus, raced, id>> /\ unsaved' = unsaved \cup {id[q]}
    BY <1>0, <1>11, OneRequest
    DEF StoreStatusFails, StatusCancelled, Asks, Goto, RequestTypes
  <2> QED BY <1>b, <2>1 DEF Excused
<1>12. CASE Restart
  <2>1. PICK b \in BootStates(row, points, rowStatus) :
          rowStatus' = b.rowStatus /\ memory' = b.memory /\ status' = b.status
    BY <1>12 DEF Restart
  <2>2. BootCopies(b, row)
    <3>1. /\ row \in [Id -> Holder] /\ points \in [Id -> [Slot -> Holder]]
          /\ rowStatus \in [Id -> Status]
      BY <1>0 DEF CopyTypes
    <3> QED BY <3>1, BootFacts
  <2>3. \A q \in Request : pc'[q] = "idle"
    BY <1>12 DEF Restart
  <2>4. \A q \in Request, i \in Id : /\ ~At(q, i, Working)' /\ ~At(q, i, {"status"})'
                                    /\ ~At(q, i, {"saved", "activate"})'
    BY <2>3 DEF At, Working, Holding
  <2> QED BY <2>1, <2>2, <2>4 DEF StatusAgrees, BootCopies
<1>13. CASE UNCHANGED vars
  BY <1>13 DEF vars, StatusAgrees, At, Excused
<1> QED BY <1>1, <1>2, <1>4, <1>5, <1>6, <1>7, <1>8, <1>9, <1>10, <1>11, <1>12, <1>13, <1>14
        DEF Next, Step

-----------------------------------------------------------------------------
(***************************************************************************)
(* What may take over the id of a stored device                            *)
(***************************************************************************)

\* A request that is alone is the only one between its choice and its entry;
\* what it has selected is then what is stored, and the id of its device is
\* free, unless its query skipped a row or the device brought it after a
\* restart; and until a restart the memory forgets no stored device.
CausesKnown ==
  /\ \A q \in Choosing : alone[q] => Choosing = {q}
  /\ \A q \in Request : pc[q] = "read" /\ alone[q] => seen[q] = Stored
  /\ \A q \in Request :
       pc[q] = "save" /\ alone[q] /\ ~blind[q] /\ Current(q) \notin BACnet =>
       row[id[q]] = NoDevice \/ (OwnId[Current(q)] = id[q] /\ restarts > 0)
  /\ restarts = 0 => \A i \in Id : row[i] # NoDevice =>
       memory[i] # NoDevice \/ \E q \in Request : At(q, i, {"saved"})

ReplacementOk == CausesKnown /\ ReplacedForCause /\ PointsOfOneDevice

\* A step that stores nothing and chooses no id.
LEMMA CausesStay ==
  ASSUME RequestTypes, CausesKnown, NEW q \in Request, OthersStay(q),
         UNCHANGED <<row, alone, restarts>>,
         pc'[q] \notin {"query", "read", "save", "saved"},
         \A i \in Id : memory[i] # NoDevice => memory'[i] # NoDevice,
         \A i \in Id : At(q, i, {"saved"}) /\ ~At(q, i, {"saved"})' => memory'[i] # NoDevice
  PROVE  CausesKnown'
<1>1. Choosing' \subseteq Choosing
  BY DEF Choosing, OthersStay
<1>2. \A r \in Choosing' : alone'[r] => Choosing' = {r}
  BY <1>1 DEF CausesKnown
<1>3. ASSUME NEW r \in Request, pc'[r] = "save", alone'[r], ~blind'[r],
             Current(r)' \notin BACnet
      PROVE  row'[id'[r]] = NoDevice \/ (OwnId[Current(r)'] = id'[r] /\ restarts' > 0)
  BY <1>3 DEF CausesKnown, OthersStay, Current
<1>5. \A r \in Request : pc'[r] = "read" /\ alone'[r] => seen'[r] = Stored'
  BY DEF CausesKnown, OthersStay, Stored
<1>4. ASSUME NEW i \in Id, restarts' = 0, row'[i] # NoDevice
      PROVE  memory'[i] # NoDevice \/ \E r \in Request : At(r, i, {"saved"})'
  <2>1. memory[i] # NoDevice \/ \E r \in Request : At(r, i, {"saved"})
    BY <1>4 DEF CausesKnown
  <2>2. \A r \in Request : r # q => (At(r, i, {"saved"})' <=> At(r, i, {"saved"}))
    BY DEF At, OthersStay
  <2> QED BY <2>1, <2>2
<1> QED BY <1>2, <1>3, <1>4, <1>5 DEF CausesKnown

LEMMA CausesStep == RegistryAssumption /\ TypeOK /\ CausesKnown /\ [Next]_vars => CausesKnown'
<1> SUFFICES ASSUME RegistryAssumption, TypeOK, CausesKnown, [Next]_vars PROVE CausesKnown'
  OBVIOUS
<1> USE DEF request, tables, live, history, bounds
<1>0. CopyTypes /\ RequestTypes /\ HistoryTypes
  BY TypeParts
<1>1. ASSUME NEW q \in Request, Asks(q) PROVE CausesKnown'
  <2>1. /\ OthersStay(q) /\ UNCHANGED <<row, alone, restarts, memory>>
        /\ pc[q] \in {"idle", "status"} /\ pc'[q] \in {"choose", "status", "idle"}
    BY <1>0, <1>1, OneRequest
    DEF Asks, Add, SetStatus, StoreStatus, StoreStatusFails, StatusCancelled, Goto,
        RequestTypes
  <2> QED BY <1>0, <2>1, CausesStay DEF At
<1>2. ASSUME NEW q \in Request, SaveFails(q) PROVE CausesKnown'
  <2>1. /\ OthersStay(q) /\ UNCHANGED <<row, alone, restarts, memory>>
        /\ pc[q] = "save" /\ pc'[q] = "idle"
    BY <1>0, <1>2, OneRequest DEF SaveFails, Step, Goto, RequestTypes
  <2> QED BY <1>0, <2>1, CausesStay DEF At
<1>3. ASSUME NEW q \in Request, Enter(q) \/ Activate(q) PROVE CausesKnown'
  <2>1. /\ OthersStay(q) /\ UNCHANGED <<row, alone, restarts, id>>
        /\ memory' = [memory EXCEPT ![id[q]] = Current(q)]
    BY <1>0, <1>3, OneRequest DEF Enter, Activate, Step, Current
  <2>2. pc'[q] \in {"choose", "idle", "activate"}
    BY <1>0, <1>3 DEF Enter, Activate, Advance, Goto, RequestTypes
  <2>3. pc[q] \in {"saved", "activate"} /\ id[q] \in Id
    BY <1>0, <1>3 DEF Enter, Activate, RequestTypes
  <2>4. Current(q) \in Device /\ NoDevice \notin Device
    BY <1>0, <2>3, BatchFacts DEF RequestTypes, Current, RegistryAssumption
  <2>5. \A i \in Id : memory'[i] = IF i = id[q] THEN Current(q) ELSE memory[i]
    BY <1>0, <2>1 DEF CopyTypes
  <2> QED BY <1>0, <2>1, <2>2, <2>4, <2>5, CausesStay DEF At
<1>4. ASSUME NEW q \in Request, Save(q) PROVE CausesKnown'
  <2>1. /\ OthersStay(q) /\ UNCHANGED <<alone, restarts, id, memory, todo>>
        /\ pc[q] = "save" /\ pc'[q] = "saved" /\ id[q] \in Id
        /\ row' = [row EXCEPT ![id[q]] = Current(q)]
    BY <1>0, <1>4, OneRequest DEF Save, Step, Current, Goto, RequestTypes
  <2>2. Choosing' = Choosing /\ q \in Choosing
    BY <2>1 DEF Choosing, OthersStay
  <2>3. ASSUME NEW r \in Request, pc'[r] \in {"read", "save"}
        PROVE  r # q /\ r \in Choosing /\ ~alone[r]
    BY <2>1, <2>2, <2>3 DEF CausesKnown, Choosing
  <2>4. ASSUME NEW i \in Id, restarts = 0, row'[i] # NoDevice
        PROVE  memory'[i] # NoDevice \/ \E r \in Request : At(r, i, {"saved"})'
    <3>1. CASE i = id[q]
      BY <2>1, <3>1 DEF At
    <3>2. CASE i # id[q]
      <4>1. row[i] # NoDevice
        BY <1>0, <2>1, <2>4, <3>2 DEF CopyTypes
      <4>2. memory[i] # NoDevice \/ \E r \in Request : At(r, i, {"saved"})
        BY <2>4, <4>1 DEF CausesKnown
      <4>3. \A r \in Request : At(r, i, {"saved"}) => At(r, i, {"saved"})'
        BY <2>1 DEF At, OthersStay
      <4> QED BY <2>1, <4>2, <4>3
    <3> QED BY <3>1, <3>2
  <2> QED BY <2>1, <2>2, <2>3, <2>4 DEF CausesKnown
<1>5. ASSUME NEW q \in Request, Pick(q) PROVE CausesKnown'
  <2>1. /\ OthersStay(q) /\ UNCHANGED <<row, alone, restarts, memory, todo>>
        /\ pc[q] = "read" /\ pc'[q] = "save"
    BY <1>0, <1>5, OneRequest DEF Pick, Take, Step, Goto, RequestTypes
  <2>2. PICK unread \in SUBSET seen[q] :
          /\ NextDeviceId(seen[q] \ unread) \in Id
          /\ Take(q, NextDeviceId(seen[q] \ unread), unread # {})
    BY <1>5 DEF Pick
  <2>3. /\ id'[q] = NextDeviceId(seen[q] \ unread) /\ id'[q] \in Id
        /\ blind'[q] = (unread # {})
    BY <1>0, <2>2 DEF Take, RequestTypes, HistoryTypes
  <2>4. Choosing' = Choosing
    BY <2>1 DEF Choosing, OthersStay
  <2>5. ASSUME alone[q], ~blind'[q] PROVE row[id'[q]] = NoDevice
    <3>1. unread = {} /\ seen[q] = Stored /\ seen[q] \in SUBSET Id
      BY <1>0, <2>1, <2>3, <2>5 DEF CausesKnown, HistoryTypes
    <3>2. id'[q] = NextDeviceId(seen[q])
      BY <2>3, <3>1
    <3>3. id'[q] \notin Stored
      BY <3>1, <3>2, NextIsNew DEF RegistryAssumption
    <3> QED BY <2>3, <3>3 DEF Stored
  <2>6. ASSUME NEW r \in Request, pc'[r] = "save", alone'[r], ~blind'[r],
               Current(r)' \notin BACnet
        PROVE  row'[id'[r]] = NoDevice \/ (OwnId[Current(r)'] = id'[r] /\ restarts' > 0)
    <3>1. CASE r = q
      BY <2>1, <2>5, <2>6, <3>1
    <3>2. CASE r # q
      BY <2>1, <2>6, <3>2 DEF OthersStay, Current, CausesKnown
    <3> QED BY <3>1, <3>2
  <2>7. \A i \in Id, r \in Request : At(r, i, {"saved"}) => At(r, i, {"saved"})'
    BY <2>1 DEF At, OthersStay
  <2>8. \A r \in Request : pc'[r] = "read" /\ alone'[r] => seen'[r] = Stored'
    BY <2>1 DEF CausesKnown, OthersStay, Stored
  <2> QED BY <2>1, <2>4, <2>6, <2>7, <2>8 DEF CausesKnown
<1>9. ASSUME NEW q \in Request, Look(q) PROVE CausesKnown'
  <2>1. /\ OthersStay(q) /\ UNCHANGED <<row, alone, restarts, memory, todo>>
        /\ pc[q] = "query" /\ pc'[q] = "read" /\ seen'[q] = Stored
    BY <1>0, <1>9, OneRequest DEF Look, Step, Goto, RequestTypes, HistoryTypes
  <2>2. Choosing' = Choosing /\ Stored' = Stored
    BY <2>1 DEF Choosing, OthersStay, Stored
  <2>3. \A r \in Request : pc'[r] = "read" /\ alone'[r] => seen'[r] = Stored'
    BY <2>1, <2>2 DEF CausesKnown, OthersStay
  <2>4. ASSUME NEW r \in Request, pc'[r] = "save", alone'[r], ~blind'[r],
               Current(r)' \notin BACnet
        PROVE  row'[id'[r]] = NoDevice \/ (OwnId[Current(r)'] = id'[r] /\ restarts' > 0)
    BY <2>1, <2>4 DEF OthersStay, Current, CausesKnown
  <2>5. \A i \in Id, r \in Request : At(r, i, {"saved"}) => At(r, i, {"saved"})'
    BY <2>1 DEF At, OthersStay
  <2> QED BY <2>1, <2>2, <2>3, <2>4, <2>5 DEF CausesKnown
<1>6. ASSUME NEW q \in Request, Choose(q) PROVE CausesKnown'
  <2>1. /\ OthersStay(q) /\ UNCHANGED <<row, restarts, memory, todo>>
        /\ pc[q] = "choose" /\ pc'[q] \in {"query", "save"}
        /\ \A r \in Request : alone'[r] = IF r = q THEN Choosing \ {q} = {}
                                          ELSE alone[r] /\ r \notin Choosing
    BY <1>0, <1>6, OneRequest DEF Choose, NotAlone, Take, Step, Goto, RequestTypes
  <2>2. Choosing' = Choosing \cup {q}
    BY <2>1 DEF Choosing, OthersStay
  <2>3. \A r \in Choosing' : alone'[r] => r = q /\ Choosing \ {q} = {}
    BY <2>1, <2>2 DEF Choosing
  <2>4. \A r \in Choosing' : alone'[r] => Choosing' = {r}
    BY <2>2, <2>3
  <2>5. ASSUME pc'[q] = "save", alone'[q], Current(q)' \notin BACnet
        PROVE  row'[id'[q]] = NoDevice \/ (OwnId[Current(q)'] = id'[q] /\ restarts' > 0)
    <3>1. Current(q)' = Current(q) /\ KeepsId(Current(q)) /\ id'[q] = OwnId[Current(q)]
      BY <1>0, <1>6, <2>1, <2>5 DEF Choose, Take, Goto, Current, RequestTypes
    <3>2. Current(q) \in Device
      BY <1>0, <2>1, BatchFacts DEF RequestTypes, Current
    <3>3. OwnId[Current(q)] \in Id /\ memory[OwnId[Current(q)]] = NoDevice
      BY <2>5, <3>1, <3>2 DEF KeepsId, RegistryAssumption, Id
    <3>4. \A r \in Request : pc[r] # "saved"
      BY <2>1, <2>2, <2>3, <2>5 DEF Choosing
    <3>5. restarts = 0 => row[OwnId[Current(q)]] = NoDevice
      BY <3>3, <3>4 DEF CausesKnown, At
    <3>6. restarts \in Nat
      BY <1>0 DEF HistoryTypes
    <3> QED BY <2>1, <3>1, <3>5, <3>6
  <2>6. \A r \in Request : pc'[r] \in {"read", "save"} /\ alone'[r] => r = q
    BY <2>3 DEF Choosing
  <2>7. \A i \in Id, r \in Request : At(r, i, {"saved"}) => At(r, i, {"saved"})'
    BY <2>1 DEF At, OthersStay
  <2> QED BY <2>1, <2>4, <2>5, <2>6, <2>7 DEF CausesKnown
<1>7. CASE Restart
  <2>1. restarts' = restarts + 1 /\ restarts \in Nat /\ \A q \in Request : pc'[q] = "idle"
    BY <1>0, <1>7 DEF Restart, HistoryTypes
  <2> QED BY <2>1 DEF CausesKnown, Choosing
<1>8. CASE UNCHANGED vars
  BY <1>8 DEF vars, CausesKnown, Choosing, At, Current, Stored
<1> QED BY <1>1, <1>2, <1>3, <1>4, <1>5, <1>6, <1>7, <1>8, <1>9 DEF Next, Step, Asks

\* Only the saves of a request and of a boot replace a stored device.
LEMMA ReplacedStep ==
  RegistryAssumption /\ TypeOK /\ ReplacementOk /\ [Next]_vars
  => (ReplacedForCause /\ PointsOfOneDevice)'
<1> SUFFICES ASSUME RegistryAssumption, TypeOK, ReplacementOk, [Next]_vars
             PROVE  (ReplacedForCause /\ PointsOfOneDevice)'
  OBVIOUS
<1> USE DEF request, tables, live, history, bounds
<1>0. CopyTypes /\ RequestTypes /\ HistoryTypes
  BY TypeParts
<1>a. \A i \in Id : (\A r \in replaced : r.id # i) => OwnPoints(row, points, i)
  BY DEF ReplacementOk, PointsOfOneDevice, OwnPoints
<1>b. ASSUME \A i \in Id : (\A r \in replaced' : r.id # i) => OwnPoints(row', points', i)
      PROVE  PointsOfOneDevice'
  BY <1>b DEF PointsOfOneDevice, OwnPoints
<1>1. ASSUME NEW q \in Request, Save(q) PROVE (ReplacedForCause /\ PointsOfOneDevice)'
  <2>1. /\ pc[q] = "save" /\ id[q] \in Id /\ Current(q) \in Device /\ NoDevice \notin Device
    BY <1>0, <1>1, BatchFacts DEF Save, Current, RequestTypes, RegistryAssumption
  <2> DEFINE new == [by |-> Current(q), id |-> id[q],
                     alone |-> alone[q], blind |-> blind[q], restarted |-> restarts > 0]
  <2>2. replaced' = IF row[id[q]] \in {NoDevice, Current(q)} THEN replaced ELSE replaced \cup {new}
    BY <1>1 DEF Save, Current
  <2>3. row[id[q]] \notin {NoDevice, Current(q)} =>
          \/ new.by \in Seeded \cup Configured \cup BACnet
          \/ ~new.alone
          \/ new.blind
          \/ OwnId[new.by] = new.id /\ new.restarted
    BY <2>1 DEF ReplacementOk, CausesKnown
  <2>4. ReplacedForCause'
    <3> HIDE DEF new
    <3> QED BY <2>2, <2>3 DEF ReplacementOk, ReplacedForCause
  <2>5. /\ \A i \in Id : row'[i] = IF i = id[q] THEN Current(q) ELSE row[i]
        /\ \A i \in Id : points'[i] = IF i = id[q] THEN WithPoints(points[i], Current(q))
                                      ELSE points[i]
    BY <1>0, <1>1 DEF Save, Current, CopyTypes
  <2>6. ASSUME NEW i \in Id, \A r \in replaced' : r.id # i PROVE OwnPoints(row', points', i)
    <3>1. OwnPoints(row, points, i)
      BY <1>a, <2>2, <2>6
    <3>2. CASE i # id[q]
      BY <2>5, <3>1, <3>2 DEF OwnPoints
    <3>3. CASE i = id[q]
      <4>1. row[i] \in {NoDevice, Current(q)}
        <5>1. new.id = i
          BY <3>3
        <5> HIDE DEF new
        <5>2. new \notin replaced'
          BY <2>6, <5>1
        <5> QED BY <2>2, <3>3, <5>2
      <4>2. row'[i] = Current(q) /\ points'[i] = WithPoints(points[i], Current(q))
        BY <2>5, <3>3
      <4>3. \A s \in Slot : points'[i][s] = IF s \in SlotsOf[Current(q)] THEN Current(q)
                                           ELSE points[i][s]
        BY <4>2 DEF WithPoints
      <4> QED BY <2>1, <3>1, <4>1, <4>2, <4>3 DEF OwnPoints
    <3> QED BY <3>2, <3>3
  <2> QED BY <1>b, <2>4, <2>6
<1>2. CASE Restart
  <2>1. PICK b \in BootStates(row, points, rowStatus) :
          row' = b.row /\ points' = b.points /\ replaced' = replaced \cup b.replaced
    BY <1>2 DEF Restart
  <2>2. /\ row \in [Id -> Holder] /\ points \in [Id -> [Slot -> Holder]]
        /\ rowStatus \in [Id -> Status]
    BY <1>0 DEF CopyTypes
  <2>3. /\ \A x \in b.replaced : x.by \in Seeded \cup Configured
        /\ \A i \in Id : (\A x \in b.replaced : x.id # i) /\ OwnPoints(row, points, i)
             => OwnPoints(b.row, b.points, i)
    BY <2>2, BootFacts
  <2>4. ReplacedForCause'
    BY <2>1, <2>3 DEF ReplacementOk, ReplacedForCause
  <2> QED BY <1>a, <1>b, <2>1, <2>3, <2>4
<1>3. ASSUME UNCHANGED <<row, points, replaced>>
      PROVE  (ReplacedForCause /\ PointsOfOneDevice)'
  BY <1>3 DEF ReplacementOk, ReplacedForCause, PointsOfOneDevice
<1>4. ASSUME NEW q \in Request, Asks(q) PROVE UNCHANGED <<row, points, replaced>>
  BY <1>4 DEF Asks, Add, SetStatus, StoreStatus, StoreStatusFails, StatusCancelled
<1>5. ASSUME NEW q \in Request, Step(q), ~Save(q) PROVE UNCHANGED <<row, points, replaced>>
  BY <1>5
  DEF Step, Choose, Look, Pick, SaveFails, Enter, Activate, StoreStatus, StoreStatusFails,
      StatusCancelled
<1>6. UNCHANGED vars => UNCHANGED <<row, points, replaced>>
  BY DEF vars
<1> QED BY <1>1, <1>2, <1>3, <1>4, <1>5, <1>6 DEF Next, Asks

-----------------------------------------------------------------------------
(***************************************************************************)
(* The theorems                                                            *)
(***************************************************************************)

CopiesOk == \A i \in Id \ raced : CopiesAgree(i)
StatusOk == \A i \in Id \ Excused : StatusAgrees(i)

RegistryInv == TypeOK /\ PollerReads /\ CopiesOk /\ StatusOk /\ ReplacementOk

LEMMA InitInv == RegistryAssumption /\ Init => RegistryInv
<1> SUFFICES ASSUME RegistryAssumption, Init PROVE RegistryInv
  OBVIOUS
<1> DEFINE noRow == [i \in Id |-> NoDevice]
           noPoints == [i \in Id |-> [s \in Slot |-> NoDevice]]
           allOn == [i \in Id |-> "online"]
<1>1. PICK b \in BootStates(noRow, noPoints, allOn) :
        /\ row = b.row /\ points = b.points /\ rowStatus = b.rowStatus
        /\ memory = b.memory /\ status = b.status /\ polled = b.polled
        /\ replaced = b.replaced
        /\ (\E i \in Id : polled[i] # NoDevice) => connected
  BY DEF Init
<1>2. noRow \in [Id -> Holder] /\ noPoints \in [Id -> [Slot -> Holder]] /\ allOn \in [Id -> Status]
  BY DEF Holder, Status
<1>a. \A i \in Id : noRow[i] = NoDevice /\ OwnPoints(noRow, noPoints, i)
  BY DEF OwnPoints
<1> HIDE DEF noRow, noPoints, allOn
<1>3. /\ BootCopies(b, noRow)
      /\ \A x \in b.replaced : x.by \in Seeded \cup Configured
      /\ \A i \in Id : (\A x \in b.replaced : x.id # i) => OwnPoints(b.row, b.points, i)
  BY <1>1, <1>2, <1>a, BootFacts
<1>4. added = {} /\ \A q \in Request : pc[q] = "idle"
  BY DEF Init
<1>5. PollerReads
  BY <1>1, <1>4 DEF PollerReads
<1>6. \A q \in Request, i \in Id :
        /\ ~At(q, i, Holding) /\ ~At(q, i, {"saved"}) /\ ~At(q, i, {"saved", "activate"})
        /\ ~At(q, i, Working) /\ ~At(q, i, {"status"})
  BY <1>4 DEF At, Working, Holding
<1>7. CopiesOk
  BY <1>1, <1>3, <1>6 DEF CopiesOk, CopiesAgree, BootCopies
<1>8. StatusOk
  BY <1>1, <1>3, <1>6 DEF StatusOk, StatusAgrees, BootCopies
<1>9. CausesKnown
  BY <1>1, <1>3, <1>4, <1>a DEF CausesKnown, Choosing, BootCopies
<1>10. ReplacedForCause /\ PointsOfOneDevice
  BY <1>1, <1>3 DEF ReplacedForCause, PointsOfOneDevice, OwnPoints
<1> QED BY <1>5, <1>7, <1>8, <1>9, <1>10, InitTypes DEF RegistryInv, ReplacementOk

LEMMA StepInv == RegistryAssumption /\ RegistryInv /\ [Next]_vars => RegistryInv'
<1> SUFFICES ASSUME RegistryAssumption, RegistryInv, [Next]_vars PROVE RegistryInv'
  OBVIOUS
<1>1. TypeOK' /\ PollerReads'
  BY TypeStep, PollerStep DEF RegistryInv
<1>2. CopiesOk'
  BY AgreeStep DEF RegistryInv, CopiesOk
<1>3. StatusOk'
  BY StatusStep DEF RegistryInv, StatusOk
<1>4. ReplacementOk'
  BY CausesStep, ReplacedStep DEF RegistryInv, ReplacementOk
<1> QED BY <1>1, <1>2, <1>3, <1>4 DEF RegistryInv

LEMMA RegistryInvariant == Spec => []RegistryInv
<1> USE RegistryAssumption
<1>1. Init => RegistryInv
  BY InitInv
<1>2. RegistryInv /\ [Next]_vars => RegistryInv'
  BY StepInv
<1> QED BY <1>1, <1>2, PTL DEF Spec

\* Every variable of the registry keeps its type, and a request that is adding
\* devices has one in work with an id of the table, whatever fails or restarts.
THEOREM TypeCorrect == Spec => []TypeOK
<1>1. RegistryInv => TypeOK
  BY DEF RegistryInv
<1> QED BY <1>1, RegistryInvariant, PTL

\* What the API reads from the devices table is what the engine has in memory,
\* device and status, but for the exceptions the property names.
THEOREM StoredIsRight == Spec => []StoredAsInMemory
<1>1. RegistryInv => StoredAsInMemory
  <2> SUFFICES ASSUME RegistryInv PROVE StoredAsInMemory
    OBVIOUS
  <2>1. ASSUME NEW i \in Id \ raced, memory[i] # NoDevice, ~Busy(i) PROVE row[i] = memory[i]
    <3>1. CopiesAgree(i)
      BY DEF RegistryInv, CopiesOk
    <3>2. \A q \in Request : ~At(q, i, {"saved"})
      BY <2>1 DEF At, Busy, Unbound
    <3> QED BY <2>1, <3>1, <3>2 DEF CopiesAgree
  <2>2. ASSUME NEW i \in Id \ (unsaved \cup raced), memory[i] # NoDevice, ~Busy(i)
        PROVE  rowStatus[i] = status[i]
    <3>1. StatusAgrees(i)
      BY DEF RegistryInv, StatusOk, Excused
    <3>2. \A q \in Request : ~At(q, i, {"saved", "activate", "status"})
      BY <2>2 DEF At, Busy, Unbound
    <3> QED BY <2>2, <3>1, <3>2 DEF StatusAgrees
  <2> QED BY <2>1, <2>2 DEF StoredAsInMemory, MemoryIsStored, StatusIsStored
<1> QED BY <1>1, RegistryInvariant, PTL

\* The poller reads under an id the device the memory has there, and goes on
\* reading every controller that was reported as added, until the restart.
THEOREM PolledIsRight == Spec => []PolledIsInMemory
<1>1. RegistryInv => PolledIsInMemory
  BY DEF RegistryInv, CopiesOk, CopiesAgree, PollerReads, PolledIsInMemory
<1> QED BY <1>1, RegistryInvariant, PTL

\* A stored device loses its id to another for the four reasons the property
\* names, and for no other: an id that next_device_id gives to one request at a
\* time, after it has read every row, is never that of a stored device.
THEOREM ReplacedRightly == Spec => []ReplacedForCause
<1>1. RegistryInv => ReplacedForCause
  BY DEF RegistryInv, ReplacementOk
<1> QED BY <1>1, RegistryInvariant, PTL

\* No point of another device is left under an id unless a save replaced that
\* device: INSERT OR REPLACE then leaves the points of the old one behind.
THEOREM PointsAreOwn == Spec => []PointsOfOneDevice
<1>1. RegistryInv => PointsOfOneDevice
  BY DEF RegistryInv, ReplacementOk
<1> QED BY <1>1, RegistryInvariant, PTL

-----------------------------------------------------------------------------
(***************************************************************************)
(* Positions in a list.                                                    *)
(***************************************************************************)
\* A set of numbers has a least one.
LEMMA HasLeast ==
  ASSUME NEW S \in SUBSET Nat, S # {}
  PROVE  \E m \in S : \A y \in S : m <= y
<1>1. PICK m \in S : \A y \in S : <<y, m>> \notin OpToRel(<, Nat)
  BY NatLessThanWellFounded, WFMin
<1>2. \A y \in S : y \in Nat /\ m \in Nat /\ ~(y < m)
  BY <1>1 DEF OpToRel
<1> QED BY <1>2

\* Induction over the numbers, stated with a set instead of a predicate.
LEMMA AllNumbers ==
  ASSUME NEW S \in SUBSET Nat, 0 \in S, \A n \in S : n + 1 \in S
  PROVE  S = Nat
<1> SUFFICES ASSUME Nat \ S # {} PROVE FALSE
  OBVIOUS
<1>1. PICK m \in Nat \ S : \A y \in Nat \ S : m <= y
  BY HasLeast
<1>2. m # 0 /\ m - 1 \in Nat
  BY <1>1
<1>3. m - 1 \in S
  BY <1>1, <1>2
<1>4. (m - 1) + 1 \in S
  BY <1>3
<1> QED BY <1>1, <1>4

\* One member of n + 1 taken out leaves n, and n + 1 are not none.
LEMMA OneFewer ==
  ASSUME NEW T, IsFiniteSet(T), NEW n \in Nat, Cardinality(T) = n + 1
  PROVE  T # {} /\ \A z \in T : Cardinality(T \ {z}) = n
<1>1. T # {}
  BY FS_EmptySet
<1>2. ASSUME NEW z \in T PROVE Cardinality(T \ {z}) = n
  <2>1. Cardinality(T \ {z}) = Cardinality(T) - 1
    BY FS_RemoveElement
  <2> QED BY <2>1
<1> QED BY <1>1, <1>2

\* The modules count as the library does.
LEMMA SameSize ==
  /\ \A S : Scan!Cardinality(S) = Cardinality(S)
  /\ \A S : Fleets!Cardinality(S) = Cardinality(S)
  BY DEF Scan!Cardinality, Fleets!Cardinality, Cardinality

\* R puts the members of S in one line.
InLine(S, R) ==
  /\ \A x \in S : <<x, x>> \notin R
  /\ \A x, y \in S : x = y \/ <<x, y>> \in R \/ <<y, x>> \in R
  /\ \A x, y, z \in S : <<x, y>> \in R /\ <<y, z>> \in R => <<x, z>> \in R

\* In a line of finitely many, one is the last.
LEMMA HasLast ==
  ASSUME NEW S, IsFiniteSet(S), NEW R, InLine(S, R), S # {}
  PROVE  \E x \in S : \A y \in S : y = x \/ <<y, x>> \in R
<1> DEFINE Has(T) == T = {} \/ \E x \in T : \A y \in T : y = x \/ <<y, x>> \in R
           Good == {n \in Nat : \A T \in SUBSET S : Cardinality(T) = n => Has(T)}
<1>1. 0 \in Good
  <2>1. \A T \in SUBSET S : Cardinality(T) = 0 => T = {}
    BY FS_EmptySet, FS_Subset
  <2> QED BY <2>1
<1>2. ASSUME NEW n \in Good PROVE n + 1 \in Good
  <2> SUFFICES ASSUME NEW T \in SUBSET S, Cardinality(T) = n + 1, T # {} PROVE Has(T)
    OBVIOUS
  <2>1. PICK z \in T : TRUE
    OBVIOUS
  <2>2. IsFiniteSet(T) /\ n \in Nat
    BY FS_Subset
  <2>3. Cardinality(T \ {z}) = n
    BY <2>1, <2>2, OneFewer, Zenon
  <2>4. Has(T \ {z})
    BY <2>3
  <2>5. CASE T \ {z} = {}
    BY <2>1, <2>5
  <2>6. CASE T \ {z} # {}
    <3>1. PICK x \in T \ {z} : \A y \in T \ {z} : y = x \/ <<y, x>> \in R
      BY <2>4, <2>6
    <3>2. x \in S /\ z \in S /\ x # z /\ \A y \in T : y \in S
      BY <2>1
    <3>3. CASE <<x, z>> \in R
      <4>1. \A y \in T : y = z \/ <<y, z>> \in R
        BY <3>1, <3>2, <3>3 DEF InLine
      <4> QED BY <4>1
    <3>4. CASE <<z, x>> \in R
      <4>1. \A y \in T : y = x \/ <<y, x>> \in R
        BY <3>1, <3>4
      <4> QED BY <4>1
    <3> QED BY <3>2, <3>3, <3>4 DEF InLine
  <2> QED BY <2>5, <2>6
<1> HIDE DEF Has
<1>3. Good = Nat
  <2>1. Good \in SUBSET Nat
    OBVIOUS
  <2> HIDE DEF Good
  <2> QED BY <1>1, <1>2, <2>1, AllNumbers
<1>4. Cardinality(S) \in Nat
  BY FS_CardinalityType
<1>5. Has(S)
  BY <1>3, <1>4
<1> QED BY <1>5 DEF Has

\* Finitely many that are in one line can be numbered along it.
LEMMA CanBeNumbered ==
  ASSUME NEW S, IsFiniteSet(S), NEW R, InLine(S, R)
  PROVE  \E t \in [1..Cardinality(S) -> S] :
           \A i, j \in 1..Cardinality(S) : i < j => <<t[i], t[j]>> \in R
<1> DEFINE Along(T, n, t) == \A i, j \in 1..n : i < j => <<t[i], t[j]>> \in R
           Good == {n \in Nat : \A T \in SUBSET S : Cardinality(T) = n =>
                                  \E t \in [1..n -> T] : Along(T, n, t)}
<1>1. 0 \in Good
  <2> SUFFICES ASSUME NEW T \in SUBSET S
               PROVE  \E t \in [1..0 -> T] : Along(T, 0, t)
    OBVIOUS
  <2>1. [i \in 1..0 |-> i] \in [1..0 -> T]
    OBVIOUS
  <2>2. Along(T, 0, [i \in 1..0 |-> i])
    OBVIOUS
  <2> QED BY <2>1, <2>2
<1>2. ASSUME NEW n \in Good PROVE n + 1 \in Good
  <2> SUFFICES ASSUME NEW T \in SUBSET S, Cardinality(T) = n + 1
               PROVE  \E t \in [1..n + 1 -> T] : Along(T, n + 1, t)
    OBVIOUS
  <2>1. n \in Nat /\ IsFiniteSet(T)
    BY FS_Subset
  <2>2. T # {}
    BY <2>1, OneFewer, Zenon
  <2>3. InLine(T, R)
    BY DEF InLine
  <2>4. PICK x \in T : \A y \in T : y = x \/ <<y, x>> \in R
    BY <2>1, <2>2, <2>3, HasLast
  <2>5. Cardinality(T \ {x}) = n /\ T \ {x} \in SUBSET S
    BY <2>1, OneFewer, Zenon
  <2>6. PICK t \in [1..n -> T \ {x}] : Along(T \ {x}, n, t)
    BY <2>5
  <2> DEFINE u == [i \in 1..n + 1 |-> IF i = n + 1 THEN x ELSE t[i]]
  <2>7. \A i \in 1..n + 1 : i # n + 1 => i \in 1..n /\ t[i] \in T \ {x}
    BY <2>1, <2>6
  <2>8. u \in [1..n + 1 -> T]
    BY <2>4, <2>7
  <2>9. Along(T, n + 1, u)
    <3> SUFFICES ASSUME NEW i \in 1..n + 1, NEW j \in 1..n + 1, i < j
                 PROVE  <<u[i], u[j]>> \in R
      OBVIOUS
    <3>1. i \in 1..n /\ u[i] = t[i] /\ t[i] \in T \ {x}
      BY <2>1, <2>7
    <3>2. CASE j = n + 1
      BY <2>4, <3>1, <3>2
    <3>3. CASE j # n + 1
      BY <2>6, <2>7, <3>1, <3>3
    <3> QED BY <3>2, <3>3
  <2> QED BY <2>8, <2>9
<1>3. Good = Nat
  <2>1. Good \in SUBSET Nat
    OBVIOUS
  <2> HIDE DEF Good
  <2> QED BY <1>1, <1>2, <2>1, AllNumbers
<1>4. Cardinality(S) \in Nat
  BY FS_CardinalityType
<1>5. \E t \in [1..Cardinality(S) -> S] : Along(S, Cardinality(S), t)
  BY <1>3, <1>4
<1> QED BY <1>5

\* B compares, and what it leaves equal it leaves equal to the same others.
Compares(S, B) ==
  /\ \A x, y \in S : <<x, y>> \in B => <<y, x>> \notin B
  /\ \A x, y, z \in S : <<x, z>> \in B => <<x, y>> \in B \/ <<y, z>> \in B

\* The n numbers of S stand in t in the order of B, or in their own.
Numbered(S, B, n, t) ==
  /\ t \in [1..n -> S] /\ n = Cardinality(S) /\ Scan!InOrder(S, B) = t
  /\ \A x \in S : \E k \in 1..n : t[k] = x
  /\ \A i, j \in 1..n : t[i] = t[j] => i = j
  /\ \A i, j \in 1..n :
       i < j => <<t[i], t[j]>> \in B \/ (<<t[j], t[i]>> \notin B /\ t[i] < t[j])

\* A stable sort has a result: every position once, none after one it is before.
LEMMA SortedOut ==
  ASSUME NEW S \in SUBSET Nat, IsFiniteSet(S), NEW B, Compares(S, B)
  PROVE  \E n \in Nat : \E t : Numbered(S, B, n, t)
<1> DEFINE n == Cardinality(S)
           Then(a, b) == <<a, b>> \in B \/ (<<b, a>> \notin B /\ a < b)
           R == {e \in S \X S : Then(e[1], e[2])}
           Along(t) == \A i, j \in 1..n : i < j => Then(t[i], t[j])
<1>1. n \in Nat
  BY FS_CardinalityType
<1>2. \A a, b \in S : <<a, b>> \in R <=> Then(a, b)
  OBVIOUS
<1>3. InLine(S, R)
  <2>1. \A x \in S : ~Then(x, x)
    BY DEF Compares
  <2>2. \A x, y \in S : x = y \/ Then(x, y) \/ Then(y, x)
    OBVIOUS
  <2>3. ASSUME NEW x \in S, NEW y \in S, NEW z \in S, Then(x, y), Then(y, z)
        PROVE  Then(x, z)
    BY <2>3 DEF Compares
  <2> HIDE DEF R, Then
  <2> QED BY <1>2, <2>1, <2>2, <2>3 DEF InLine
<1> HIDE DEF R
<1>4. PICK t \in [1..n -> S] : \A i, j \in 1..n : i < j => <<t[i], t[j]>> \in R
  BY <1>3, CanBeNumbered
<1>5. Along(t)
  BY <1>2, <1>4
<1> DEFINE u == Scan!InOrder(S, B)
<1>6. u = CHOOSE w \in [1..n -> S] : Along(w)
  BY SameSize DEF Scan!InOrder
<1> HIDE DEF u
<1>7. u \in [1..n -> S] /\ Along(u)
  <2> HIDE DEF Along, n
  <2> QED BY <1>4, <1>5, <1>6
<1>8. \A i, j \in 1..n : i < j => u[i] # u[j]
  <2> SUFFICES ASSUME NEW i \in 1..n, NEW j \in 1..n, i < j PROVE u[i] # u[j]
    OBVIOUS
  <2>1. Then(u[i], u[j]) /\ u[i] \in S /\ u[j] \in S
    BY <1>7
  <2>2. ASSUME NEW a \in S, NEW b \in S, Then(a, b) PROVE a # b
    BY <2>2 DEF Compares
  <2> HIDE DEF Then
  <2> QED BY <2>1, <2>2, Zenon
<1>9. \A i, j \in 1..n : u[i] = u[j] => i = j
  <2>1. \A i, j \in 1..n : i < j \/ j < i \/ i = j
    BY <1>1
  <2> HIDE DEF n
  <2> QED BY <1>8, <2>1, Zenon
<1>10. \A x \in S : \E k \in 1..n : u[k] = x
  <2>1. DOMAIN u = 1..n
    BY <1>7
  <2>2. u \in Injection(1..n, S)
    BY <1>7, <1>9, <2>1, Zenon DEF Injection, IsInjective
  <2>3. Cardinality(1..n) = Cardinality(S)
    BY <1>1, FS_Interval
  <2>4. u \in Surjection(1..n, S)
    BY <2>2, <2>3, FS_Injection
  <2> QED BY <2>4, Zenon DEF Surjection
<1>11. \A i, j \in 1..n :
         i < j => <<u[i], u[j]>> \in B \/ (<<u[j], u[i]>> \notin B /\ u[i] < u[j])
  BY <1>7, Zenon
<1>12. n = Cardinality(S) /\ Scan!InOrder(S, B) = u
  BY DEF u
<1> HIDE DEF n, Along, Then
<1>13. Numbered(S, B, n, u)
  BY <1>7, <1>9, <1>10, <1>11, <1>12, Zenon DEF Numbered
<1> QED BY <1>1, <1>13, Zenon

\* The n numbers of S stand in t in ascending order.
Rising(S, n, t) ==
  /\ t \in [1..n -> S] /\ n = Cardinality(S) /\ Scan!InOrder(S, {}) = t
  /\ \A x \in S : \E k \in 1..n : t[k] = x
  /\ \A i, j \in 1..n : (i < j => t[i] < t[j]) /\ (t[i] = t[j] => i = j)

\* Without an order of their own, they are in ascending order.
LEMMA Ascending ==
  ASSUME NEW N \in Nat, NEW S \in SUBSET (1..N)
  PROVE  \E n \in Nat : \E t : Rising(S, n, t)
<1>1. S \in SUBSET Nat
  OBVIOUS
<1>2. IsFiniteSet(S)
  BY FS_Interval, FS_Subset, 1 \in Int, N \in Int, Zenon
<1>3. Compares(S, {})
  BY DEF Compares
<1>4. PICK n \in Nat : \E t : Numbered(S, {}, n, t)
  BY <1>1, <1>2, <1>3, SortedOut, Zenon
<1>5. PICK t : Numbered(S, {}, n, t)
  BY <1>4, Zenon
<1>6. \A i, j \in 1..n : i < j => t[i] < t[j]
  BY <1>5 DEF Numbered
<1>7. Rising(S, n, t)
  BY <1>5, <1>6, Zenon DEF Numbered, Rising
<1> QED BY <1>7, Zenon

\* A function on the first numbers is a list.
LEMMA IsList ==
  ASSUME NEW T, NEW n \in Nat, NEW s \in [1..n -> T]
  PROVE  s \in Seq(T) /\ Len(s) = n
OBVIOUS

\* What is kept of a list are its members at the n positions t of S.
KeptAt(E, seq, S, n, t) ==
  /\ t \in [1..n -> S]
  /\ Scan!Kept(seq, S) = [k \in 1..n |-> seq[t[k]]]
  /\ Scan!Kept(seq, S) \in Seq(E) /\ Len(Scan!Kept(seq, S)) = n
  /\ n = 0 <=> S = {}
  /\ \A x \in S : \E k \in 1..n : t[k] = x
  /\ \A i, j \in 1..n : (i < j => t[i] < t[j]) /\ (t[i] = t[j] => i = j)

\* Every part of a list has such positions, and what is kept of it is a list.
LEMMA KeptMembers ==
  ASSUME NEW E, NEW seq \in Seq(E), NEW S \in SUBSET DOMAIN seq
  PROVE  Scan!Kept(seq, S) \in Seq(E) /\ \E n \in Nat : \E t : KeptAt(E, seq, S, n, t)
<1>1. Len(seq) \in Nat /\ S \in SUBSET (1..Len(seq)) /\ \A x \in S : seq[x] \in E
  OBVIOUS
<1>2. PICK n \in Nat : \E t : Rising(S, n, t)
  BY <1>1, Ascending, Zenon
<1>3. PICK t : Rising(S, n, t)
  BY <1>2, Zenon
<1>4. /\ t \in [1..n -> S] /\ n = Cardinality(S) /\ Scan!InOrder(S, {}) = t
      /\ \A x \in S : \E k \in 1..n : t[k] = x
      /\ \A i, j \in 1..n : (i < j => t[i] < t[j]) /\ (t[i] = t[j] => i = j)
  BY <1>3, Zenon DEF Rising
<1> DEFINE r == [k \in 1..n |-> seq[t[k]]]
<1>5. Scan!Kept(seq, S) = r
  BY <1>4, SameSize, Zenon DEF Scan!Kept
<1>6. r \in [1..n -> E]
  BY <1>1, <1>4
<1> HIDE DEF r
<1>7. r \in Seq(E) /\ Len(r) = n
  BY <1>6, IsList, Zenon
<1>8. n = 0 <=> S = {}
  <2>1. n = 0 => S = {}
    BY <1>4
  <2>2. S = {} => n = 0
    BY <1>4
  <2> QED BY <2>1, <2>2
<1>9. KeptAt(E, seq, S, n, t)
  BY <1>4, <1>5, <1>7, <1>8, Zenon DEF KeptAt, r
<1> QED BY <1>5, <1>7, <1>9, Zenon

\* What is kept at all positions is the list.
LEMMA KeptAll ==
  ASSUME NEW E, NEW seq \in Seq(E)
  PROVE  Scan!Kept(seq, DOMAIN seq) = seq
<1> DEFINE N == Len(seq)
<1>1. N \in Nat /\ DOMAIN seq = 1..N
  OBVIOUS
<1>2. PICK n \in Nat : \E t : Rising(1..N, n, t)
  <2>1. 1..N \in SUBSET (1..N)
    OBVIOUS
  <2> HIDE DEF N
  <2> QED BY <1>1, <2>1, Ascending, Zenon
<1>3. PICK t : /\ t \in [1..n -> 1..N] /\ n = Cardinality(1..N) /\ Scan!InOrder(1..N, {}) = t
               /\ \A x \in 1..N : \E k \in 1..n : t[k] = x
               /\ \A i, j \in 1..n : (i < j => t[i] < t[j]) /\ (t[i] = t[j] => i = j)
  BY <1>2, Zenon DEF Rising
<1> HIDE DEF N
<1>4. n = N
  <2>1. 1 \in Int /\ N \in Int
    BY <1>1
  <2>2. Cardinality(1..N) = IF 1 > N THEN 0 ELSE N - 1 + 1
    BY <2>1, FS_Interval, Zenon
  <2> QED BY <1>1, <1>3, <2>2
<1>5. \A k \in 1..N : t[k] = k
  <2> DEFINE Off == {k \in 1..N : t[k] # k}
  <2> SUFFICES ASSUME Off # {} PROVE FALSE
    OBVIOUS
  <2>1. Off \in SUBSET Nat
    OBVIOUS
  <2>2. PICK k \in Off : \A y \in Off : k <= y
    BY <2>1, HasLeast
  <2>3. k \in 1..N /\ t[k] # k /\ t[k] \in 1..N
    BY <1>3, <1>4, <2>2
  <2>4. \A y \in 1..N : y < k => t[y] = y
    BY <2>2, <2>3
  <2>5. PICK m \in 1..N : t[m] = k
    BY <1>3, <1>4, <2>3
  <2>6. m > k
    BY <2>3, <2>4, <2>5
  <2>7. t[k] < k
    BY <1>3, <1>4, <2>3, <2>5, <2>6
  <2>8. t[t[k]] = t[k]
    BY <2>3, <2>4, <2>7
  <2> QED BY <1>3, <1>4, <2>3, <2>7, <2>8
<1>6. Scan!Kept(seq, 1..N) = [k \in 1..n |-> seq[t[k]]]
  BY <1>3, SameSize, Zenon DEF Scan!Kept
<1>7. [k \in 1..n |-> seq[t[k]]] = [k \in 1..N |-> seq[k]]
  BY <1>4, <1>5
<1>8. [k \in 1..N |-> seq[k]] = seq
  BY <1>1 DEF N
<1> QED BY <1>1, <1>6, <1>7, <1>8

\* Lists put one behind the other are a list.
LEMMA Flattened ==
  ASSUME NEW E, NEW seqs \in Seq(Seq(E))
  PROVE  Scan!FlattenSeq(seqs) \in Seq(E)
<1> DEFINE N == Len(seqs)
           Next1(f, i) == IF i = 1 THEN seqs[i] ELSE f[i - 1] \o seqs[i]
           Upto(n, f) == f \in [1..n -> Seq(E)] /\ \A i \in 1..n : f[i] = Next1(f, i)
           Good == {n \in Nat : n <= N => \E f : Upto(n, f)}
<1>1. N \in Nat /\ \A i \in 1..N : seqs[i] \in Seq(E)
  OBVIOUS
<1> HIDE DEF N
<1>2. 0 \in Good
  <2> DEFINE f == [i \in {} |-> <<>>]
  <2>1. 1..0 = {} /\ f \in [{} -> Seq(E)]
    OBVIOUS
  <2>2. Upto(0, f)
    BY <2>1, Zenon
  <2> HIDE DEF Upto
  <2> QED BY <2>2
<1>3. ASSUME NEW n \in Good PROVE n + 1 \in Good
  <2>0. n \in Nat /\ n + 1 \in Nat
    OBVIOUS
  <2> SUFFICES ASSUME n + 1 <= N PROVE \E f : Upto(n + 1, f)
    <3> HIDE DEF Upto
    <3> QED BY <2>0
  <2>1. n \in Nat /\ n <= N
    BY <1>1
  <2>2. PICK f : Upto(n, f)
    BY <2>1
  <2> DEFINE g == [i \in 1..n + 1 |-> IF i = n + 1 THEN Next1(f, i) ELSE f[i]]
  <2>3. Next1(f, n + 1) \in Seq(E)
    <3>1. seqs[n + 1] \in Seq(E)
      BY <1>1, <2>1
    <3>2. CASE n = 0
      BY <3>1, <3>2
    <3>3. CASE n # 0
      <4>1. n \in 1..n /\ (n + 1) - 1 = n /\ n + 1 # 1
        BY <2>1, <3>3
      <4>2. f[n] \in Seq(E)
        BY <2>2, <4>1
      <4>3. f[n] \o seqs[n + 1] \in Seq(E)
        BY <3>1, <4>2, ConcatProperties, Zenon
      <4> QED BY <4>1, <4>3
    <3> QED BY <3>2, <3>3
  <2>4. \A i \in 1..n + 1 : i # n + 1 => i \in 1..n
    BY <2>1
  <2>5. g \in [1..n + 1 -> Seq(E)]
    <3> HIDE DEF Next1
    <3> QED BY <2>2, <2>3, <2>4
  <2>6. \A i \in 1..n + 1 : g[i] = Next1(g, i)
    <3> SUFFICES ASSUME NEW i \in 1..n + 1 PROVE g[i] = Next1(g, i)
      OBVIOUS
    <3>1. CASE i = 1
      <4>1. Next1(g, 1) = seqs[1] /\ Next1(f, 1) = seqs[1]
        OBVIOUS
      <4>2. 1 # n + 1 => f[1] = seqs[1]
        BY <2>1, <2>2, <2>4, <3>1, <4>1
      <4> QED BY <3>1, <4>1, <4>2
    <3>2. CASE i # 1
      <4>1. i - 1 \in 1..n + 1 /\ i - 1 # n + 1 /\ i - 1 \in 1..n
        BY <2>1, <3>2
      <4>2. g[i - 1] = f[i - 1]
        BY <4>1
      <4>3. Next1(g, i) = Next1(f, i)
        <5> HIDE DEF g
        <5> QED BY <3>2, <4>2, Zenon
      <4>4. i # n + 1 => f[i] = Next1(f, i)
        BY <2>2, <2>4
      <4> HIDE DEF Next1
      <4> QED BY <4>3, <4>4
    <3> QED BY <3>1, <3>2
  <2> HIDE DEF g
  <2> QED BY <2>5, <2>6
<1>4. N \in Good
  <2>1. Good \in SUBSET Nat
    OBVIOUS
  <2> HIDE DEF Good
  <2>2. Good = Nat
    BY <1>2, <1>3, <2>1, AllNumbers
  <2> QED BY <1>1, <2>2
<1>5. PICK f : Upto(N, f)
  <2>1. N <= N => \E f : Upto(N, f)
    <3> HIDE DEF Upto
    <3> QED BY <1>4
  <2>2. N <= N
    BY <1>1
  <2> QED BY <2>1, <2>2, Zenon
<1>6. f = [i \in 1..N |-> Next1(f, i)]
  BY <1>5
<1> DEFINE w == CHOOSE h : h = [i \in 1..N |-> Next1(h, i)]
<1>7. w = [i \in 1..N |-> Next1(w, i)]
  <2> HIDE DEF Next1
  <2> QED BY <1>6
<1> HIDE DEF w
<1>8. \A i \in 1..N : w[i] = Next1(w, i)
  BY <1>7
<1> DEFINE Fine == {n \in Nat : n \in 1..N => w[n] \in Seq(E)}
<1>9. \A n \in Fine : n + 1 \in Fine
  <2> SUFFICES ASSUME NEW n \in Fine, n + 1 \in 1..N PROVE w[n + 1] \in Seq(E)
    OBVIOUS
  <2>1. n \in Nat /\ seqs[n + 1] \in Seq(E) /\ w[n + 1] = Next1(w, n + 1)
    BY <1>1, <1>8
  <2>2. CASE n = 0
    BY <2>1, <2>2
  <2>3. CASE n # 0
    <3>1. n \in 1..N /\ (n + 1) - 1 = n /\ n + 1 # 1
      BY <1>1, <2>1, <2>3
    <3>2. w[n] \in Seq(E)
      BY <3>1
    <3>3. w[n] \o seqs[n + 1] \in Seq(E)
      BY <2>1, <3>2
    <3> QED BY <2>1, <3>1, <3>3
  <2> QED BY <2>2, <2>3
<1>10. 0 \in Fine
  OBVIOUS
<1>11. Fine = Nat
  <2>1. Fine \in SUBSET Nat
    OBVIOUS
  <2> HIDE DEF Fine
  <2> QED BY <1>9, <1>10, <2>1, AllNumbers
<1>12. N # 0 => w[N] \in Seq(E)
  BY <1>1, <1>11
<1>13. N # 0 => Scan!FlattenSeq(seqs) = w[N]
  BY DEF Scan!FlattenSeq, w, N
<1>14. N = 0 => Scan!FlattenSeq(seqs) = <<>>
  BY DEF Scan!FlattenSeq, N
<1>15. <<>> \in Seq(E)
  OBVIOUS
<1> QED BY <1>12, <1>13, <1>14, <1>15, Zenon

-----------------------------------------------------------------------------
(***************************************************************************)
(* Imports                                                                 *)
(***************************************************************************)
\* An import takes a list of elements or of rows to a list of entries.
LEMMA AddressedList ==
  ASSUME NEW E, NEW entries \in Seq(E)
  PROVE  Scan!Addressed(entries) \in Seq(E)
<1> DEFINE S == {i \in DOMAIN entries : Scan!HasAddress(entries[i])}
<1>1. S \in SUBSET DOMAIN entries
  OBVIOUS
<1> HIDE DEF S
<1>2. Scan!Kept(entries, S) \in Seq(E)
  BY <1>1, KeptMembers
<1> QED BY <1>2 DEF Scan!Addressed, S

\* The entry of an element of a document.
ElementEntry(e) == Scan!Entry(e.name, Scan!CoerceGa(e.address), Scan!NormalizeDpt(e.types))

\* What is parsed of elements is a list of entries.
LEMMA ParsedList ==
  ASSUME NEW Node, NEW document \in Seq(Node)
  PROVE  Scan!ParseXml(document) \in Seq({ElementEntry(e) : e \in Node})
<1> DEFINE S == {i \in DOMAIN document : document[i].tag = "GroupAddress"}
           groups == Scan!Kept(document, S)
           E == {ElementEntry(e) : e \in Node}
           entries == [i \in DOMAIN groups |-> ElementEntry(groups[i])]
<1>1. S \in SUBSET DOMAIN document
  OBVIOUS
<1> HIDE DEF S
<1>2. groups \in Seq(Node)
  BY <1>1, KeptMembers
<1>3. Scan!ParseXml(document) = Scan!Addressed(entries)
  BY Zenon DEF Scan!ParseXml, ElementEntry, S
<1> HIDE DEF groups
<1>4. Len(groups) \in Nat /\ DOMAIN groups = 1..Len(groups)
      /\ \A i \in 1..Len(groups) : groups[i] \in Node
  BY <1>2
<1>5. entries \in [1..Len(groups) -> E]
  <2> HIDE DEF E
  <2>1. \A e \in Node : ElementEntry(e) \in E
    BY DEF E
  <2> QED BY <1>4, <2>1
<1> HIDE DEF entries
<1>6. entries \in Seq(E)
  <2> HIDE DEF E
  <2> QED BY <1>4, <1>5
<1> QED BY <1>3, <1>6, AddressedList

\* The members of an archive, each with its documents.
Archive(Node) ==
  [kind : {"document", "zip"}, lock : {"none", "password", "damaged"}, documents : Seq(Seq(Node))]

\* What can be read of an archive is a list of entries.
LEMMA ReadableList ==
  ASSUME NEW Node, NEW members \in Seq(Archive(Node)), NEW password
  PROVE  Scan!Readable(members, password) \in Seq({ElementEntry(e) : e \in Node})
<1> DEFINE E == {ElementEntry(e) : e \in Node}
           Parsed(m) == Scan!FlattenSeq([j \in DOMAIN m.documents |-> Scan!ParseXml(m.documents[j])])
           parts == [i \in DOMAIN members |->
                      IF Scan!Opens(members[i], password) THEN Parsed(members[i]) ELSE <<>>]
<1>1. ASSUME NEW m \in Archive(Node) PROVE Parsed(m) \in Seq(E)
  <2> DEFINE docs == [j \in DOMAIN m.documents |-> Scan!ParseXml(m.documents[j])]
  <2>1. /\ m.documents \in Seq(Seq(Node)) /\ Len(m.documents) \in Nat
        /\ DOMAIN m.documents = 1..Len(m.documents)
        /\ \A j \in 1..Len(m.documents) : m.documents[j] \in Seq(Node)
    BY DEF Archive
  <2>2. \A j \in 1..Len(m.documents) : Scan!ParseXml(m.documents[j]) \in Seq(E)
    BY <2>1, ParsedList
  <2> HIDE DEF E
  <2>3. docs \in [1..Len(m.documents) -> Seq(E)]
    BY <2>1, <2>2
  <2> HIDE DEF docs
  <2>4. docs \in Seq(Seq(E))
    BY <2>1, <2>3, IsList, Zenon
  <2>5. Scan!FlattenSeq(docs) \in Seq(E)
    BY <2>4, Flattened
  <2> QED BY <2>5 DEF docs
<1>2. /\ Len(members) \in Nat /\ DOMAIN members = 1..Len(members)
      /\ \A i \in 1..Len(members) : members[i] \in Archive(Node)
  OBVIOUS
<1> HIDE DEF E, Parsed
<1>3. parts \in [1..Len(members) -> Seq(E)]
  <2>1. <<>> \in Seq(E)
    OBVIOUS
  <2> QED BY <1>1, <1>2, <2>1
<1> HIDE DEF parts
<1>4. parts \in Seq(Seq(E))
  BY <1>2, <1>3
<1>5. Scan!FlattenSeq(parts) \in Seq(E)
  BY <1>4, Flattened
<1>6. Scan!Readable(members, password) = Scan!FlattenSeq(parts)
  BY Zenon DEF Scan!Readable, parts, Parsed
<1> QED BY <1>5, <1>6 DEF E

\* Of the entries with one address, the first is kept, and of every address one.
LEMMA DistinctFirst ==
  ASSUME NEW E, NEW all \in Seq(E)
  PROVE  LET found == Scan!Distinct(all)
         IN  /\ found \in Seq(E) /\ (found = <<>> <=> all = <<>>)
             /\ {found[i].ga : i \in DOMAIN found} = {all[i].ga : i \in DOMAIN all}
             /\ \A i, j \in DOMAIN found : i # j => found[i].ga # found[j].ga
             /\ \A i \in DOMAIN found :
                  \E j \in DOMAIN all : /\ found[i] = all[j]
                                        /\ \A k \in 1..(j - 1) : all[k].ga # found[i].ga
<1> DEFINE S == {i \in DOMAIN all : \A j \in 1..(i - 1) : all[j].ga # all[i].ga}
           found == Scan!Distinct(all)
<1>1. S \in SUBSET DOMAIN all /\ found = Scan!Kept(all, S)
  BY Zenon DEF Scan!Distinct
<1>2. \A i \in S : \A j \in 1..(i - 1) : all[j].ga # all[i].ga
  OBVIOUS
<1>3. Len(all) \in Nat /\ DOMAIN all = 1..Len(all)
  OBVIOUS
<1>4. \A x \in DOMAIN all : \E i \in S : all[i].ga = all[x].ga
  <2> SUFFICES ASSUME NEW x \in DOMAIN all PROVE \E i \in S : all[i].ga = all[x].ga
    OBVIOUS
  <2> DEFINE Same == {i \in DOMAIN all : all[i].ga = all[x].ga}
  <2>1. Same \in SUBSET Nat /\ x \in Same
    BY <1>3
  <2>2. PICK m \in Same : \A y \in Same : m <= y
    BY <2>1, HasLeast
  <2>3. ASSUME NEW j \in 1..(m - 1) PROVE all[j].ga # all[m].ga
    <3>1. j \in DOMAIN all /\ j < m /\ m \in DOMAIN all /\ all[m].ga = all[x].ga
      BY <1>3, <2>2
    <3> QED BY <1>3, <2>2, <3>1
  <2>4. m \in S /\ all[m].ga = all[x].ga
    BY <2>2, <2>3
  <2> QED BY <2>4
<1> HIDE DEF S, found
<1>5. PICK n \in Nat : \E t : KeptAt(E, all, S, n, t)
  BY <1>1, KeptMembers, Zenon
<1>6. PICK t : /\ t \in [1..n -> S] /\ found = [k \in 1..n |-> all[t[k]]]
               /\ found \in Seq(E) /\ Len(found) = n
               /\ n = 0 <=> S = {}
               /\ \A x \in S : \E k \in 1..n : t[k] = x
               /\ \A i, j \in 1..n : (i < j => t[i] < t[j]) /\ (t[i] = t[j] => i = j)
  BY <1>1, <1>5, Zenon DEF KeptAt
<1>7. DOMAIN found = 1..n /\ \A k \in 1..n : found[k] = all[t[k]] /\ t[k] \in S /\ t[k] \in DOMAIN all
  BY <1>1, <1>6
<1>8. found = <<>> <=> all = <<>>
  <2>1. found = <<>> <=> n = 0
    BY <1>6
  <2>2. S = {} <=> DOMAIN all = {}
    BY <1>1, <1>4
  <2>3. DOMAIN all = {} <=> all = <<>>
    <3>1. DOMAIN all = {} => Len(all) = 0
      BY <1>3
    <3>2. Len(all) = 0 => all = <<>>
      BY EmptySeq
    <3>3. DOMAIN <<>> = {}
      OBVIOUS
    <3> QED BY <3>1, <3>2, <3>3, Zenon
  <2> QED BY <1>6, <2>1, <2>2, <2>3
<1>9. {found[i].ga : i \in DOMAIN found} = {all[i].ga : i \in DOMAIN all}
  <2>1. ASSUME NEW i \in DOMAIN found PROVE \E j \in DOMAIN all : all[j].ga = found[i].ga
    BY <1>7
  <2>2. ASSUME NEW j \in DOMAIN all PROVE \E i \in DOMAIN found : found[i].ga = all[j].ga
    <3>1. PICK m \in S : all[m].ga = all[j].ga
      BY <1>4
    <3>2. PICK k \in 1..n : t[k] = m
      BY <1>6
    <3> QED BY <1>7, <3>1, <3>2
  <2> QED BY <2>1, <2>2
<1>10. \A i, j \in 1..n : i < j => found[i].ga # found[j].ga
  <2> SUFFICES ASSUME NEW i \in 1..n, NEW j \in 1..n, i < j PROVE found[i].ga # found[j].ga
    OBVIOUS
  <2>1. t[i] < t[j] /\ t[i] \in 1..Len(all) /\ t[j] \in 1..Len(all) /\ t[j] \in S
    BY <1>3, <1>6, <1>7
  <2>2. t[i] \in 1..(t[j] - 1)
    BY <1>3, <2>1
  <2>3. all[t[i]].ga # all[t[j]].ga
    BY <1>2, <2>1, <2>2
  <2> QED BY <1>7, <2>3
<1>11. \A i, j \in DOMAIN found : i # j => found[i].ga # found[j].ga
  <2>1. \A i, j \in 1..n : i # j => i < j \/ j < i
    OBVIOUS
  <2> QED BY <1>7, <1>10, <2>1
<1>12. \A i \in DOMAIN found :
         \E j \in DOMAIN all : /\ found[i] = all[j]
                               /\ \A k \in 1..(j - 1) : all[k].ga # found[i].ga
  BY <1>2, <1>7
<1> QED BY <1>6, <1>8, <1>9, <1>11, <1>12 DEF found

\* ParseKnxproj gives one entry for every address that can be read, the first
\* with it, and an error exactly when something is locked and nothing is read;
\* for any archive and password.
THEOREM ArchiveAsDescribed ==
  ASSUME NEW Node, NEW members \in Seq(Archive(Node)), NEW password
  PROVE  Scan!ProjectAsDescribed(members, password)
<1> DEFINE E == {ElementEntry(e) : e \in Node}
           all == Scan!Readable(members, password)
           results == Scan!Distinct(all)
           outcome == Scan!ParseKnxproj(members, password)
           Locked(kind) == \E i \in DOMAIN members :
                             members[i].kind = kind /\ members[i].lock = "password"
                             /\ ~Scan!Opens(members[i], password)
<1>1. all \in Seq(E)
  BY ReadableList
<1> HIDE DEF all, E
<1>2. /\ results \in Seq(E) /\ (results = <<>> <=> all = <<>>)
      /\ {results[i].ga : i \in DOMAIN results} = {all[i].ga : i \in DOMAIN all}
      /\ \A i, j \in DOMAIN results : i # j => results[i].ga # results[j].ga
      /\ \A i \in DOMAIN results :
           \E j \in DOMAIN all : /\ results[i] = all[j]
                                 /\ \A k \in 1..(j - 1) : all[k].ga # results[i].ga
  BY <1>1, DistinctFirst
<1> HIDE DEF results
<1>3. outcome =
        IF results # <<>> THEN Scan!Outcome("none", results)
        ELSE IF Locked("zip") /\ password = "wrong" THEN Scan!Outcome("wrong password", <<>>)
        ELSE IF Locked("zip") \/ Locked("document") THEN Scan!Outcome("password required", <<>>)
        ELSE Scan!Outcome("none", <<>>)
  BY Zenon DEF Scan!ParseKnxproj, results, all
<1>4. (Locked("zip") \/ Locked("document")) <=>
        ~\A i \in DOMAIN members : members[i].lock = "password" => Scan!Opens(members[i], password)
  <2>1. \A m \in Archive(Node) : m.kind \in {"document", "zip"}
    BY DEF Archive
  <2>2. \A i \in DOMAIN members : members[i] \in Archive(Node)
    OBVIOUS
  <2>3. \A i \in DOMAIN members : members[i].kind = "document" \/ members[i].kind = "zip"
    BY <2>1, <2>2
  <2> QED BY <2>3, Zenon
<1> HIDE DEF Locked, outcome
<1>5. outcome.entries = results
  BY <1>3 DEF Scan!Outcome
<1>6. (outcome.error = "none") <=> (results # <<>> \/ ~(Locked("zip") \/ Locked("document")))
  BY <1>3 DEF Scan!Outcome
<1>7. (outcome.error = "none") <=>
        \/ all # <<>>
        \/ \A i \in DOMAIN members : members[i].lock = "password" => Scan!Opens(members[i], password)
  BY <1>2, <1>4, <1>6, Zenon
<1> DEFINE Right(found) ==
             /\ {found[i].ga : i \in DOMAIN found} = {all[i].ga : i \in DOMAIN all}
             /\ \A i, j \in DOMAIN found : i # j => found[i].ga # found[j].ga
             /\ \A i \in DOMAIN found :
                  \E j \in DOMAIN all : /\ found[i] = all[j]
                                        /\ \A k \in 1..(j - 1) : all[k].ga # found[i].ga
<1>8. Right(results)
  BY <1>2, Zenon
<1>9. Right(outcome.entries)
  <2> HIDE DEF Right
  <2> QED BY <1>5, <1>8
<1> QED BY <1>7, <1>9, Zenon DEF Scan!ProjectAsDescribed, outcome, all

\* The two routes of an import make the same points, but for the types whose
\* main number begins with 1 and has more digits; for any entries.
THEOREM RoutesAlwaysAgree == \A entries : Scan!RoutesAgree(entries)
<1> SUFFICES ASSUME NEW entries PROVE Scan!RoutesAgree(entries)
  OBVIOUS
<1> DEFINE route == Scan!ImportedPoints(entries)
           wizard == Scan!Materialized(Scan!DiscoveredKnx(entries))
           Kind(i) == IF Scan!DptMain(entries[i].dpt) = 1 THEN "binary" ELSE "analog"
           Type(i) == IF Scan!BeginsWithOne(entries[i].dpt) THEN "binary" ELSE "analog"
           Made(kind, i) == Scan!Point(kind, i, Scan!NameOf(entries[i]), entries[i].ga, entries[i].dpt)
<1>1. DOMAIN route = DOMAIN entries /\ DOMAIN wizard = DOMAIN entries
  BY DEF Scan!ImportedPoints, Scan!Materialized, Scan!DiscoveredKnx
<1>2. ASSUME NEW i \in DOMAIN entries
      PROVE  route[i] = Made(Kind(i), i) /\ wizard[i] = Made(Type(i), i)
  <2>1. route[i] = Made(Kind(i), i)
    BY DEF Scan!ImportedPoints
  <2> DEFINE o == [type |-> IF Scan!BeginsWithOne(entries[i].dpt) THEN "1" ELSE "dpt",
                   instance |-> 0, name |-> Scan!NameOf(entries[i]),
                   ga |-> entries[i].ga, dpt |-> entries[i].dpt]
  <2>2. Scan!DiscoveredKnx(entries)[i] = o /\ i \in DOMAIN Scan!DiscoveredKnx(entries)
    BY Zenon DEF Scan!DiscoveredKnx
  <2>3. wizard[i] = Scan!Point(Scan!PointType(o.type), IF o.instance = 0 THEN i ELSE o.instance,
                               o.name, o.ga, o.dpt)
    BY <2>2, Zenon DEF Scan!Materialized
  <2>4. Scan!PointType("1") = "binary" /\ Scan!PointType("dpt") = "analog"
    BY DEF Scan!PointType
  <2>5. Scan!PointType(o.type) = Type(i)
    BY <2>4
  <2>6. o.instance = 0 /\ o.name = Scan!NameOf(entries[i]) /\ o.ga = entries[i].ga
        /\ o.dpt = entries[i].dpt
    OBVIOUS
  <2> QED BY <2>1, <2>3, <2>5, <2>6, Zenon
<1> HIDE DEF route, wizard
<1>3. ASSUME NEW i \in DOMAIN entries
      PROVE  (route[i] = wizard[i]) <=> Scan!DptMain(entries[i].dpt) \notin 10..19 \cup 100..199
  <2>1. (route[i] = wizard[i]) <=> Kind(i) = Type(i)
    <3>1. \A a : Made(a, i).kind = a
      BY DEF Scan!Point
    <3>2. route[i] = Made(Kind(i), i) /\ wizard[i] = Made(Type(i), i)
      BY <1>2
    <3>3. Made(Kind(i), i).kind = Kind(i) /\ Made(Type(i), i).kind = Type(i)
      <4> HIDE DEF Made, Kind, Type
      <4> QED BY <3>1
    <3> HIDE DEF Made, Kind, Type
    <3> QED BY <3>2, <3>3
  <2>2. Kind(i) = Type(i) <=> (Scan!DptMain(entries[i].dpt) = 1 <=> Scan!BeginsWithOne(entries[i].dpt))
    OBVIOUS
  <2>3. (Scan!DptMain(entries[i].dpt) = 1 <=> Scan!BeginsWithOne(entries[i].dpt))
          <=> Scan!DptMain(entries[i].dpt) \notin 10..19 \cup 100..199
    <3>1. 1 \notin 10..19 \cup 100..199
      OBVIOUS
    <3> QED BY <3>1 DEF Scan!BeginsWithOne
  <2> QED BY <2>1, <2>2, <2>3
<1> QED BY <1>1, <1>3, Zenon DEF Scan!RoutesAgree, route, wizard

\* The points of an import are told apart by their positions.
LEMMA ImportedToldApart == \A entries : Scan!ToldApart(Scan!ImportedPoints(entries))
<1> SUFFICES ASSUME NEW entries PROVE Scan!ToldApart(Scan!ImportedPoints(entries))
  OBVIOUS
<1> DEFINE route == Scan!ImportedPoints(entries)
<1>1. \A i \in DOMAIN route : route[i].instance = i
  BY DEF Scan!ImportedPoints, Scan!Point
<1> HIDE DEF route
<1>2. Scan!ToldApart(route)
  BY <1>1, Zenon DEF Scan!ToldApart
<1> QED BY <1>2 DEF route

\* Sequences of no, one and two members.
LEMMA ShortSequences ==
  ASSUME NEW S
  PROVE  /\ <<>> \in Seq(S)
         /\ \A a \in S : <<a>> \in Seq(S)
         /\ \A a, b \in S : <<a, b>> \in Seq(S)
OBVIOUS

\* The elements of the documents that are asked about.
AskedElements ==
  GroupElements \cup {[Element("g", Levels(<<9, 0, 0>>), <<>>) EXCEPT !.tag = "Group"],
                     Element("b", Levels(<<1, 2, 3>>), <<<<1>>>>)}

\* The archives that are asked about are among them.
LEMMA AskedArchives == Members \subseteq Archive(AskedElements)
<1> DEFINE G == [Element("g", Levels(<<9, 0, 0>>), <<>>) EXCEPT !.tag = "Group"]
           B == Element("b", Levels(<<1, 2, 3>>), <<<<1>>>>)
<1>1. GroupElements \subseteq AskedElements /\ G \in AskedElements /\ B \in AskedElements
  BY Zenon DEF AskedElements
<1>2. \A d \in Documents : \/ d = <<>> \/ \E e \in GroupElements : d \in {<<e>>, <<G, e>>, <<e, B>>}
  BY Zenon DEF Documents
<1> HIDE DEF G, B
<1>3. \A d \in Documents : d \in Seq(AskedElements)
  <2> SUFFICES ASSUME NEW d \in Documents PROVE d \in Seq(AskedElements)
    OBVIOUS
  <2>1. CASE d = <<>>
    BY <2>1, <1>1, ShortSequences, Zenon
  <2>2. ASSUME NEW e \in GroupElements, d \in {<<e>>, <<G, e>>, <<e, B>>}
        PROVE  d \in Seq(AskedElements)
    <3>1. e \in AskedElements
      BY <1>1
    <3>2. <<e>> \in Seq(AskedElements) /\ <<G, e>> \in Seq(AskedElements)
          /\ <<e, B>> \in Seq(AskedElements)
      BY <1>1, <3>1, ShortSequences, Zenon
    <3> QED BY <2>2, <3>2
  <2> QED BY <1>2, <2>1, <2>2
<1>4. ASSUME NEW kind \in {"document", "zip"}, NEW lock \in {"none", "password", "damaged"},
             NEW d \in Documents
      PROVE  [kind |-> kind, lock |-> lock, documents |-> <<d>>] \in Archive(AskedElements)
  <2>1. d \in Seq(AskedElements)
    BY <1>3
  <2>2. <<d>> \in Seq(Seq(AskedElements))
    BY <2>1, ShortSequences, Zenon
  <2> QED BY <2>2 DEF Archive
<1>5. \A m \in Members : \E kind \in {"document", "zip"}, lock \in {"none", "password", "damaged"},
                           d \in Documents :
        m = [kind |-> kind, lock |-> lock, documents |-> <<d>>]
  BY SMT DEF Members
<1> SUFFICES ASSUME NEW m \in Members PROVE m \in Archive(AskedElements)
  OBVIOUS
<1>6. PICK kind \in {"document", "zip"}, lock \in {"none", "password", "damaged"}, d \in Documents :
        m = [kind |-> kind, lock |-> lock, documents |-> <<d>>]
  BY <1>5, Zenon
<1> QED BY <1>4, <1>6, Zenon

\* What is asked of the import of a project is an archive.
LEMMA ProjectRight == ImportProject => DevicesAsDescribed'
<1> SUFFICES ASSUME ImportProject PROVE DevicesAsDescribed'
  OBVIOUS
<1> DEFINE A == Archive(AskedElements)
<1>1. PICK first \in Members,
           more \in {<<>>} \cup {<<m>> : m \in {n \in Members : Len(n.documents[1]) = 1}},
           password \in {"none", "right", "wrong"} :
        call' = <<<<first>> \o more, password>>
  BY Zenon DEF ImportProject
<1>2. topic' = "project"
  BY Zenon DEF ImportProject, Asked
<1>3. first \in A /\ (more = <<>> \/ \E m \in A : more = <<m>>)
  <2>1. first \in Members /\ (more = <<>> \/ \E m \in Members : more = <<m>>)
    BY <1>1, Zenon
  <2> QED BY <2>1, AskedArchives, Zenon
<1> HIDE DEF A
<1>4. <<first>> \o more \in Seq(A)
  <2>1. <<first>> \in Seq(A) /\ more \in Seq(A)
    BY <1>3, ShortSequences, Zenon
  <2> QED BY <2>1
<1> DEFINE members == <<first>> \o more
<1>5. call' = <<members, password>> /\ members \in Seq(A)
  BY <1>1, <1>4
<1> HIDE DEF members
<1>6. call'[1] = members /\ call'[2] = password
  BY <1>5
<1>7. Scan!ProjectAsDescribed(members, password)
  BY <1>5, ArchiveAsDescribed DEF A
<1>8. /\ Scan!ProjectAsDescribed(call'[1], call'[2])
      /\ Scan!RoutesAgree(Scan!Readable(call'[1], call'[2]))
      /\ LET made == Scan!ParseFile([extension |-> "knxproj", members |-> call'[1], password |-> call'[2]])
         IN  Scan!ToldApart(Scan!ImportedPoints(made.entries))
  BY <1>6, <1>7, RoutesAlwaysAgree, ImportedToldApart, Zenon
<1> QED BY <1>2, <1>8, Zenon DEF DevicesAsDescribed

-----------------------------------------------------------------------------
(***************************************************************************)
(* Tables                                                                  *)
(***************************************************************************)
\* The first of the columns with one of the words, or none.
LEMMA FindIs ==
  ASSUME NEW W, NEW header \in Seq(W), NEW words
  PROVE  LET f == Scan!Find(header, words)
         IN  \/ f \in DOMAIN header /\ header[f] \cap words # {}
             \/ f = 0 /\ \A c \in DOMAIN header : header[c] \cap words = {}
<1> DEFINE I == {i \in 1..Len(header) : header[i] \cap words # {}}
           f == Scan!Find(header, words)
<1>1. f = IF I # {} THEN Scan!Min(I) ELSE 0
  BY Zenon DEF Scan!Find, Scan!SelectInSeq
<1>2. DOMAIN header = 1..Len(header) /\ I \in SUBSET Nat
  OBVIOUS
<1>3. I # {} => Scan!Min(I) \in I
  <2> HIDE DEF I
  <2> SUFFICES ASSUME I # {} PROVE Scan!Min(I) \in I
    OBVIOUS
  <2>1. \E m \in I : \A y \in I : m <= y
    BY <1>2, HasLeast
  <2> QED BY <2>1, Zenon DEF Scan!Min
<1>4. \A i : i \in I => i \in 1..Len(header) /\ header[i] \cap words # {}
  OBVIOUS
<1>5. I = {} => \A c \in 1..Len(header) : header[c] \cap words = {}
  OBVIOUS
<1> HIDE DEF I, f
<1> QED BY <1>1, <1>2, <1>3, <1>4, <1>5, Zenon DEF f

\* A heading: a column for the name and one for the type, and for the address
\* one column or three; the word of a level stands alone among these.
LevelWords == {"address", "main", "middle", "sub"}

WellHeaded(header) ==
  /\ \E S : header \in Seq(S)
  /\ \E c \in DOMAIN header : "name" \in header[c]
  /\ \E c \in DOMAIN header : "datapoint" \in header[c]
  /\ \A c \in DOMAIN header :
       header[c] \cap {"datapoint", "dpt", "type"} # {} => "datapoint" \in header[c]
  /\ \A c \in DOMAIN header : \A v, w \in header[c] \cap LevelWords : v = w
  /\ \/ \E c \in DOMAIN header : "address" \in header[c]
     \/ \A w \in {"main", "middle", "sub"} : \E c \in DOMAIN header : w \in header[c]

\* The entries that a table can have, with the names N.
Written(N) == [name : N, ga : [1..3 -> Int], dpt : Seq(Int)]

\* What stands for the address ga in a column with the word w.
Shown(ga, w) ==
  CASE w = "main" -> [form |-> "number", n |-> ga[1]]
    [] w = "middle" -> [form |-> "number", n |-> ga[2]]
    [] w = "sub" -> [form |-> "number", n |-> ga[3]]
    [] w = "address" -> [form |-> "levels", ga |-> ga]

\* What stands under a heading, for each word.
CellsRight(header, entries, i) ==
  LET cells == Scan!Table(entries, header)[i]
      e == entries[i]
  IN  /\ Scan!CellOf(cells, Scan!Find(header, {"name"})).name = e.name
      /\ Scan!CellOf(cells, Scan!Find(header, {"datapoint", "dpt", "type"})).types = <<e.dpt>>
      /\ \A c \in DOMAIN header : \A w \in LevelWords : w \in header[c] =>
           Scan!CellOf(cells, c).address = Shown(e.ga, w)
      /\ Scan!CellOf(cells, 0).address = Scan!Blank

\* Each cell of a row says what its heading asks for.
LEMMA CellsOfRow ==
  ASSUME NEW N, NEW header, WellHeaded(header),
         NEW entries \in Seq(Written(N)), NEW i \in DOMAIN entries
  PROVE  CellsRight(header, entries, i)
<1> DEFINE cells == Scan!Table(entries, header)[i]
           e == entries[i]
           LevelIn(ga, column) ==
             CASE "main" \in column -> [form |-> "number", n |-> ga[1]]
               [] "middle" \in column -> [form |-> "number", n |-> ga[2]]
               [] "sub" \in column -> [form |-> "number", n |-> ga[3]]
               [] "address" \in column -> [form |-> "levels", ga |-> ga]
               [] OTHER -> Scan!Blank
           Cell(column) ==
             [address |-> LevelIn(e.ga, column),
              name |-> IF "name" \in column THEN e.name ELSE "another text",
              types |-> IF "datapoint" \in column THEN <<e.dpt>> ELSE <<<<>>>>]
<1>1. cells = [c \in DOMAIN header |-> Cell(header[c])]
  BY Zenon DEF Scan!Table
<1> HIDE DEF cells, e
<1>2. \A c \in DOMAIN header : Scan!CellOf(cells, c) = Cell(header[c])
  <2> HIDE DEF Cell
  <2> QED BY <1>1, Zenon DEF Scan!CellOf
<1>0. PICK S : header \in Seq(S)
  BY Zenon DEF WellHeaded
<1>3. header \in Seq(S) /\ DOMAIN header = 1..Len(header) /\ Len(header) \in Nat
  BY <1>0
<1>4. 0 \notin DOMAIN cells
  <2> HIDE DEF Cell
  <2>1. DOMAIN cells = DOMAIN header
    BY <1>1
  <2> QED BY <1>3, <2>1
<1>5. Scan!CellOf(cells, 0).address = Scan!Blank
  BY <1>4 DEF Scan!CellOf
<1>6. Scan!CellOf(cells, Scan!Find(header, {"name"})).name = e.name
  <2> DEFINE f == Scan!Find(header, {"name"})
  <2>1. \/ f \in DOMAIN header /\ header[f] \cap {"name"} # {}
        \/ f = 0 /\ \A c \in DOMAIN header : header[c] \cap {"name"} = {}
    BY <1>3, FindIs, Zenon
  <2> HIDE DEF f
  <2>2. f \in DOMAIN header /\ "name" \in header[f]
    BY <2>1 DEF WellHeaded
  <2>3. Cell(header[f]).name = e.name
    BY <2>2
  <2> QED BY <1>2, <2>2, <2>3, Zenon DEF f
<1>7. Scan!CellOf(cells, Scan!Find(header, {"datapoint", "dpt", "type"})).types = <<e.dpt>>
  <2> DEFINE f == Scan!Find(header, {"datapoint", "dpt", "type"})
  <2>1. \/ f \in DOMAIN header /\ header[f] \cap {"datapoint", "dpt", "type"} # {}
        \/ f = 0 /\ \A c \in DOMAIN header : header[c] \cap {"datapoint", "dpt", "type"} = {}
    BY <1>3, FindIs, Zenon
  <2> HIDE DEF f
  <2>2. f \in DOMAIN header /\ "datapoint" \in header[f]
    BY <2>1 DEF WellHeaded
  <2>3. Cell(header[f]).types = <<e.dpt>>
    BY <2>2
  <2> QED BY <1>2, <2>2, <2>3, Zenon DEF f
<1>8. ASSUME NEW c \in DOMAIN header, NEW w \in LevelWords, w \in header[c]
      PROVE  Scan!CellOf(cells, c).address = Shown(e.ga, w)
  <2>1. \A v \in LevelWords : v \in header[c] => v = w
    BY <1>8 DEF WellHeaded
  <2>2. /\ "main" \in header[c] <=> w = "main"
        /\ "middle" \in header[c] <=> w = "middle"
        /\ "sub" \in header[c] <=> w = "sub"
        /\ "address" \in header[c] <=> w = "address"
    BY <1>8, <2>1 DEF LevelWords
  <2>3. Scan!CellOf(cells, c).address = LevelIn(e.ga, header[c])
    <3>1. Cell(header[c]).address = LevelIn(e.ga, header[c])
      <4> HIDE DEF LevelIn
      <4> QED OBVIOUS
    <3> HIDE DEF Cell, LevelIn
    <3> QED BY <1>2, <3>1
  <2>4. w = "main" \/ w = "middle" \/ w = "sub" \/ w = "address"
    BY DEF LevelWords
  <2> QED BY <2>2, <2>3, <2>4 DEF Shown
<1> QED BY <1>5, <1>6, <1>7, <1>8, Zenon DEF CellsRight, cells, e

\* The address of a row is the one that was written.
LEMMA AddressOfRow ==
  ASSUME NEW N, NEW header, WellHeaded(header),
         NEW entries \in Seq(Written(N)), NEW i \in DOMAIN entries
  PROVE  Scan!RowAddress(header, Scan!Table(entries, header)[i]) = entries[i].ga
<1> DEFINE cells == Scan!Table(entries, header)[i]
           ga == entries[i].ga
           direct == Scan!Find(header, {"address"})
           own == Scan!CoerceGa(Scan!CellOf(cells, direct).address)
           place(w) == Scan!Find(header, {w})
           level(w) == Scan!CellOf(cells, place(w)).address
           levels == [k \in 1..3 |-> level(<<"main", "middle", "sub">>[k])]
<1>1. /\ \A c \in DOMAIN header : \A w \in LevelWords :
           w \in header[c] => Scan!CellOf(cells, c).address = Shown(ga, w)
      /\ Scan!CellOf(cells, 0).address = Scan!Blank
  <2>1. CellsRight(header, entries, i)
    BY CellsOfRow
  <2> QED BY <2>1, Zenon DEF CellsRight
<1>2. ga \in [1..3 -> Int] /\ ga # Scan!NoAddress
  <2>1. ga \in [1..3 -> Int]
    <3>1. \A e \in Written(N) : e.ga \in [1..3 -> Int]
      BY DEF Written
    <3>2. entries[i] \in Written(N)
      OBVIOUS
    <3> QED BY <3>1, <3>2
  <2>2. DOMAIN ga = 1..3 /\ DOMAIN <<>> = {} /\ 1 \in 1..3
    BY <2>1
  <2>3. ga # <<>>
    BY <2>2, Zenon
  <2> QED BY <2>1, <2>3 DEF Scan!NoAddress
<1>3. Scan!RowAddress(header, cells) =
        IF direct # 0 /\ own # Scan!NoAddress THEN own
        ELSE IF \A k \in 1..3 : levels[k].form = "number"
        THEN [k \in 1..3 |-> levels[k].n]
        ELSE Scan!NoAddress
  BY Zenon DEF Scan!RowAddress
<1>0. PICK S : header \in Seq(S)
  BY Zenon DEF WellHeaded
<1>4. header \in Seq(S) /\ DOMAIN header = 1..Len(header) /\ Len(header) \in Nat
  BY <1>0
<1>5. \A w \in LevelWords :
        \/ place(w) \in DOMAIN header /\ w \in header[place(w)]
        \/ place(w) = 0 /\ \A c \in DOMAIN header : w \notin header[c]
  <2> SUFFICES ASSUME NEW w \in LevelWords
               PROVE  \/ place(w) \in DOMAIN header /\ w \in header[place(w)]
                      \/ place(w) = 0 /\ \A c \in DOMAIN header : w \notin header[c]
    OBVIOUS
  <2>1. \/ place(w) \in DOMAIN header /\ header[place(w)] \cap {w} # {}
        \/ place(w) = 0 /\ \A c \in DOMAIN header : header[c] \cap {w} = {}
    BY <1>4, FindIs, Zenon
  <2> HIDE DEF place
  <2> QED BY <2>1
<1>6. /\ Shown(ga, "address") = [form |-> "levels", ga |-> ga]
      /\ Shown(ga, "main") = [form |-> "number", n |-> ga[1]]
      /\ Shown(ga, "middle") = [form |-> "number", n |-> ga[2]]
      /\ Shown(ga, "sub") = [form |-> "number", n |-> ga[3]]
  BY DEF Shown
<1>7. {"address", "main", "middle", "sub"} = LevelWords
  BY DEF LevelWords
<1>8. direct = place("address")
  OBVIOUS
<1> HIDE DEF cells, ga, place
<1>9. CASE direct # 0
  <2>1. Scan!CellOf(cells, direct).address = Shown(ga, "address")
    BY <1>1, <1>5, <1>7, <1>8, <1>9
  <2>2. own = ga
    BY <1>6, <2>1 DEF Scan!CoerceGa
  <2> HIDE DEF own, direct, levels
  <2> QED BY <1>2, <1>3, <1>9, <2>2, Zenon DEF cells, ga
<1>10. CASE direct = 0
  <2>1. \A w \in {"main", "middle", "sub"} : \E c \in DOMAIN header : w \in header[c]
    <3>1. \A c \in DOMAIN header : "address" \notin header[c]
      BY <1>4, <1>5, <1>7, <1>8, <1>10
    <3> QED BY <3>1 DEF WellHeaded
  <2>2. \A w \in {"main", "middle", "sub"} : level(w) = Shown(ga, w)
    <3> SUFFICES ASSUME NEW w \in {"main", "middle", "sub"} PROVE level(w) = Shown(ga, w)
      OBVIOUS
    <3>1. w \in LevelWords
      BY <1>7
    <3>2. place(w) \in DOMAIN header /\ w \in header[place(w)]
      BY <1>5, <2>1, <3>1
    <3> QED BY <1>1, <3>1, <3>2, Zenon
  <2> HIDE DEF level
  <2>3. /\ level("main") = Shown(ga, "main") /\ level("middle") = Shown(ga, "middle")
        /\ level("sub") = Shown(ga, "sub")
    BY <2>2
  <2>4. /\ levels[1] = level("main") /\ levels[2] = level("middle") /\ levels[3] = level("sub")
    OBVIOUS
  <2> HIDE DEF levels
  <2>5. /\ levels[1].form = "number" /\ levels[1].n = ga[1]
        /\ levels[2].form = "number" /\ levels[2].n = ga[2]
        /\ levels[3].form = "number" /\ levels[3].n = ga[3]
    BY <1>6, <2>3, <2>4
  <2>6. \A k \in 1..3 : k = 1 \/ k = 2 \/ k = 3
    OBVIOUS
  <2>7. \A k \in 1..3 : levels[k].form = "number" /\ levels[k].n = ga[k]
    BY <2>5, <2>6
  <2>8. [k \in 1..3 |-> levels[k].n] = ga
    BY <1>2, <2>7
  <2> HIDE DEF own, direct
  <2> QED BY <1>3, <1>10, <2>7, <2>8, Zenon DEF cells, ga
<1> QED BY <1>9, <1>10

\* A table is read as it was written, whatever the order of its columns and
\* whether its addresses stand in one column or in three.
THEOREM TableReadsBack ==
  ASSUME NEW header, WellHeaded(header), NEW N, NEW entries \in Seq(Written(N))
  PROVE  Scan!TableAsWritten(entries, header)
<1> DEFINE table == Scan!Table(entries, header)
           read == [i \in DOMAIN table |-> Scan!RowEntry(header, table[i])]
<1>1. DOMAIN table = DOMAIN entries
  BY Zenon DEF Scan!Table
<1> HIDE DEF table
<1>2. ASSUME NEW i \in DOMAIN entries
      PROVE  Scan!RowEntry(header, table[i]) = entries[i] /\ Scan!HasAddress(entries[i])
  <2> DEFINE e == entries[i]
  <2>1. e \in Written(N)
    OBVIOUS
  <2>2. Scan!RowAddress(header, table[i]) = e.ga
    <3>1. Scan!RowAddress(header, Scan!Table(entries, header)[i]) = entries[i].ga
      <4> HIDE DEF e, read
      <4> QED BY <1>2, AddressOfRow
    <3> QED BY <3>1, Zenon DEF table
  <2>3. CellsRight(header, entries, i)
    BY CellsOfRow
  <2>4. /\ Scan!CellOf(table[i], Scan!Find(header, {"name"})).name = e.name
        /\ Scan!CellOf(table[i], Scan!Find(header, {"datapoint", "dpt", "type"})).types = <<e.dpt>>
    BY <2>3, Zenon DEF table, CellsRight
  <2> HIDE DEF e
  <2>5. Scan!NormalizeDpt(<<e.dpt>>) = e.dpt
    <3>1. <<e.dpt>> # <<>> /\ <<e.dpt>>[1] = e.dpt
      OBVIOUS
    <3> QED BY <3>1, Zenon DEF Scan!NormalizeDpt
  <2>6. Scan!RowEntry(header, table[i]) = Scan!Entry(e.name, e.ga, e.dpt)
    BY <2>2, <2>4, <2>5, Zenon DEF Scan!RowEntry
  <2>7. Scan!Entry(e.name, e.ga, e.dpt) = e
    BY <2>1 DEF Scan!Entry, Written
  <2>8. e.ga # <<>>
    <3>1. e.ga \in [1..3 -> Int]
      BY <2>1 DEF Written
    <3>2. DOMAIN e.ga = 1..3 /\ DOMAIN <<>> = {} /\ 1 \in 1..3
      BY <3>1
    <3> QED BY <3>2, Zenon
  <2> QED BY <2>6, <2>7, <2>8, Zenon DEF Scan!HasAddress, Scan!NoAddress, e
<1>3. entries = [i \in DOMAIN entries |-> entries[i]]
  OBVIOUS
<1>4. read = entries
  BY <1>1, <1>2, <1>3, Zenon
<1>5. {i \in DOMAIN entries : Scan!HasAddress(entries[i])} = DOMAIN entries
  BY <1>2
<1>6. Scan!Kept(entries, DOMAIN entries) = entries
  BY KeptAll, Zenon
<1>7. Scan!Addressed(entries) = entries
  BY <1>5, <1>6, Zenon DEF Scan!Addressed
<1>8. Scan!ParseCsv(header, table) = entries
  BY <1>4, <1>7, Zenon DEF Scan!ParseCsv
<1> QED BY <1>8, Zenon DEF Scan!TableAsWritten, table

\* Some short lists.
LEMMA Triple ==
  ASSUME NEW S, NEW a \in S, NEW b \in S, NEW c \in S
  PROVE  <<a, b, c>> \in [1..3 -> S]
<1> DEFINE t == <<a, b, c>>
<1>1. t[1] = a /\ t[2] = b /\ t[3] = c
  OBVIOUS
<1>2. t = [i \in 1..3 |-> t[i]]
  OBVIOUS
<1>3. \A k \in 1..3 : k = 1 \/ k = 2 \/ k = 3
  OBVIOUS
<1> HIDE DEF t
<1>4. \A i \in 1..3 : t[i] \in S
  BY <1>1, <1>3, Zenon
<1>5. t \in [1..3 -> S]
  BY <1>2, <1>4, Zenon
<1> QED BY <1>5, Zenon DEF t

\* Some longer lists.
LEMMA LongerLists ==
  ASSUME NEW a, NEW b, NEW c, NEW d, NEW e
  PROVE  /\ \E S : <<a, b, c>> \in Seq(S)
         /\ \E S : <<a, b, c, d>> \in Seq(S)
         /\ \E S : <<a, b, c, d, e>> \in Seq(S)
<1> DEFINE S == {a, b, c, d, e}
<1>1. a \in S /\ b \in S /\ c \in S /\ d \in S /\ e \in S
  OBVIOUS
<1> HIDE DEF S
<1>2. <<a, b, c>> \in Seq(S)
  BY <1>1
<1>3. <<a, b, c, d>> \in Seq(S)
  BY <1>1
<1>4. <<a, b, c, d, e>> \in Seq(S)
  BY <1>1
<1> QED BY <1>2, <1>3, <1>4, Zenon

\* The entries and the headings that are asked about are such.
Names == {"a", "no name"}

\* The entries that are asked about are written out with those names.
LEMMA AskedEntries == Entries \subseteq Written(Names)
<1> DEFINE Gas == {<<0, 0, 1>>, <<31, 7, 255>>}
           Dpts == {<<>>, <<1>>, <<1, 8>>, <<14, 19>>, <<9, 1>>}
<1>1. \A ga \in Gas : ga \in [1..3 -> Int]
  <2>1. 0 \in Int /\ 1 \in Int /\ 31 \in Int /\ 7 \in Int /\ 255 \in Int
    OBVIOUS
  <2>2. <<0, 0, 1>> \in [1..3 -> Int] /\ <<31, 7, 255>> \in [1..3 -> Int]
    BY <2>1, Triple
  <2> QED BY <2>2
<1>2. \A dpt \in Dpts : dpt \in Seq(Int)
  <2>1. 1 \in Int /\ 8 \in Int /\ 14 \in Int /\ 19 \in Int /\ 9 \in Int
    OBVIOUS
  <2> QED BY <2>1, ShortSequences
<1>3. ASSUME NEW n \in Names, NEW ga \in [1..3 -> Int], NEW dpt \in Seq(Int)
      PROVE  Scan!Entry(n, ga, dpt) \in Written(Names)
  <2> HIDE DEF Names
  <2> QED BY DEF Scan!Entry, Written
<1>4. Entries = {Scan!Entry(n, ga, dpt) : n \in Names, ga \in Gas, dpt \in Dpts}
  BY DEF Entries, Names
<1> HIDE DEF Gas, Dpts
<1> SUFFICES ASSUME NEW e \in Entries PROVE e \in Written(Names)
  OBVIOUS
<1>5. \E n \in Names, ga \in Gas, dpt \in Dpts : e = Scan!Entry(n, ga, dpt)
  <2> HIDE DEF Names
  <2> QED BY <1>4
<1> HIDE DEF Names
<1>6. PICK n \in Names, ga \in Gas, dpt \in Dpts : e = Scan!Entry(n, ga, dpt)
  BY <1>5, Zenon
<1>7. ga \in [1..3 -> Int] /\ dpt \in Seq(Int)
  BY <1>1, <1>2, Zenon
<1> QED BY <1>3, <1>6, <1>7, Zenon

\* Every heading that is asked about is one that is understood.
LEMMA AskedHeadings == \A header \in Headings : WellHeaded(header)
<1> DEFINE First == <<{"group", "name"}, {"address"}, {"datapoint", "type"}>>
           Second == <<{"datapoint", "type"}, {"group", "address"}, {"central"}, {"name"}>>
           Third == <<{"main"}, {"middle"}, {"sub"}, {"name"}, {"datapoint", "type"}>>
           Fourth == <<{"name"}, {"sub"}, {"main"}, {"datapoint", "type"}, {"middle"}>>
           Words == {"datapoint", "dpt", "type"}
           Plain(column) == /\ column \cap Words # {} => "datapoint" \in column
                            /\ \A v, w \in column \cap LevelWords : v = w
<1>12. ASSUME NEW a, a \notin Words PROVE Plain({a})
  BY <1>12, Zenon
<1>13. ASSUME NEW a, NEW b, a \notin Words, b \notin Words,
              a \notin LevelWords \/ b \notin LevelWords
       PROVE  Plain({a, b})
  BY <1>13, Zenon
<1>17. "group" \notin Words /\ "name" \notin Words /\ "address" \notin Words /\ "central" \notin Words
  OBVIOUS
<1>18. "main" \notin Words /\ "middle" \notin Words /\ "sub" \notin Words
  OBVIOUS
<1>19. "group" \notin LevelWords
  BY DEF LevelWords
<1>20. "datapoint" \notin LevelWords
  BY DEF LevelWords
<1>1. /\ Plain({"group", "name"}) /\ Plain({"address"}) /\ Plain({"datapoint", "type"})
      /\ Plain({"group", "address"}) /\ Plain({"central"}) /\ Plain({"name"})
      /\ Plain({"main"}) /\ Plain({"middle"}) /\ Plain({"sub"})
  <2>1. Plain({"datapoint", "type"})
    <3>1. "datapoint" \in {"datapoint", "type"}
      OBVIOUS
    <3>2. \A v, w \in {"datapoint", "type"} \cap LevelWords : v = w
      BY <1>20
    <3> QED BY <3>1, <3>2
  <2> HIDE DEF Plain, Words
  <2>2. Plain({"group", "name"}) /\ Plain({"group", "address"})
    BY <1>13, <1>17, <1>19, Zenon
  <2>3. Plain({"address"}) /\ Plain({"central"}) /\ Plain({"name"})
    BY <1>12, <1>17, Zenon
  <2>4. Plain({"main"}) /\ Plain({"middle"}) /\ Plain({"sub"})
    BY <1>12, <1>18, Zenon
  <2> QED BY <2>1, <2>2, <2>3, <2>4, Zenon
<1>2. ASSUME NEW header,
             \E S : header \in Seq(S),
             \A c \in DOMAIN header : Plain(header[c]),
             \E c \in DOMAIN header : "name" \in header[c],
             \E c \in DOMAIN header : "datapoint" \in header[c],
             \/ \E c \in DOMAIN header : "address" \in header[c]
             \/ \A w \in {"main", "middle", "sub"} : \E c \in DOMAIN header : w \in header[c]
      PROVE  WellHeaded(header)
  BY <1>2, Zenon DEF WellHeaded
<1>3. \A k \in 1..3 : k = 1 \/ k = 2 \/ k = 3
  OBVIOUS
<1>4. \A k \in 1..4 : k = 1 \/ k = 2 \/ k = 3 \/ k = 4
  OBVIOUS
<1>5. \A k \in 1..5 : k = 1 \/ k = 2 \/ k = 3 \/ k = 4 \/ k = 5
  OBVIOUS
<1>6. WellHeaded(First)
  <2>1. /\ DOMAIN First = 1..3
        /\ First[1] = {"group", "name"} /\ First[2] = {"address"} /\ First[3] = {"datapoint", "type"}
    OBVIOUS
  <2>2. \A c \in DOMAIN First : Plain(First[c])
    <3> HIDE DEF Plain, First
    <3> QED BY <1>1, <1>3, <2>1
  <2>4. \E S : First \in Seq(S)
    BY LongerLists, Zenon
  <2>5. 1 \in 1..3 /\ 2 \in 1..3 /\ 3 \in 1..3
    OBVIOUS
  <2>6. "name" \in First[1] /\ "address" \in First[2] /\ "datapoint" \in First[3]
    OBVIOUS
  <2> HIDE DEF First, Plain
  <2> QED BY <1>2, <2>1, <2>2, <2>4, <2>5, <2>6, Zenon
<1>7. WellHeaded(Second)
  <2>1. /\ DOMAIN Second = 1..4
        /\ Second[1] = {"datapoint", "type"} /\ Second[2] = {"group", "address"}
        /\ Second[3] = {"central"} /\ Second[4] = {"name"}
    OBVIOUS
  <2>2. \A c \in DOMAIN Second : Plain(Second[c])
    <3> HIDE DEF Plain, Second
    <3> QED BY <1>1, <1>4, <2>1
  <2>4. \E S : Second \in Seq(S)
    BY LongerLists, Zenon
  <2>5. 1 \in 1..4 /\ 2 \in 1..4 /\ 4 \in 1..4
    OBVIOUS
  <2>6. "datapoint" \in Second[1] /\ "address" \in Second[2] /\ "name" \in Second[4]
    OBVIOUS
  <2> HIDE DEF Second, Plain
  <2> QED BY <1>2, <2>1, <2>2, <2>4, <2>5, <2>6, Zenon
<1>8. WellHeaded(Third)
  <2>1. /\ DOMAIN Third = 1..5
        /\ Third[1] = {"main"} /\ Third[2] = {"middle"} /\ Third[3] = {"sub"}
        /\ Third[4] = {"name"} /\ Third[5] = {"datapoint", "type"}
    OBVIOUS
  <2>2. \A c \in DOMAIN Third : Plain(Third[c])
    <3> HIDE DEF Plain, Third
    <3> QED BY <1>1, <1>5, <2>1
  <2>4. \E S : Third \in Seq(S)
    BY LongerLists, Zenon
  <2>5. 1 \in 1..5 /\ 2 \in 1..5 /\ 3 \in 1..5 /\ 4 \in 1..5 /\ 5 \in 1..5
    OBVIOUS
  <2>6. /\ "main" \in Third[1] /\ "middle" \in Third[2] /\ "sub" \in Third[3]
        /\ "name" \in Third[4] /\ "datapoint" \in Third[5]
    OBVIOUS
  <2> HIDE DEF Third, Plain
  <2>7. \A w \in {"main", "middle", "sub"} : \E c \in DOMAIN Third : w \in Third[c]
    BY <2>1, <2>5, <2>6, Zenon
  <2> QED BY <1>2, <2>1, <2>2, <2>4, <2>5, <2>6, <2>7, Zenon
<1>9. WellHeaded(Fourth)
  <2>1. /\ DOMAIN Fourth = 1..5
        /\ Fourth[1] = {"name"} /\ Fourth[2] = {"sub"} /\ Fourth[3] = {"main"}
        /\ Fourth[4] = {"datapoint", "type"} /\ Fourth[5] = {"middle"}
    OBVIOUS
  <2>2. \A c \in DOMAIN Fourth : Plain(Fourth[c])
    <3> HIDE DEF Plain, Fourth
    <3> QED BY <1>1, <1>5, <2>1
  <2>4. \E S : Fourth \in Seq(S)
    BY LongerLists, Zenon
  <2>5. 1 \in 1..5 /\ 2 \in 1..5 /\ 3 \in 1..5 /\ 4 \in 1..5 /\ 5 \in 1..5
    OBVIOUS
  <2>6. /\ "name" \in Fourth[1] /\ "sub" \in Fourth[2] /\ "main" \in Fourth[3]
        /\ "datapoint" \in Fourth[4] /\ "middle" \in Fourth[5]
    OBVIOUS
  <2> HIDE DEF Fourth, Plain
  <2>7. \A w \in {"main", "middle", "sub"} : \E c \in DOMAIN Fourth : w \in Fourth[c]
    BY <2>1, <2>5, <2>6, Zenon
  <2> QED BY <1>2, <2>1, <2>2, <2>4, <2>5, <2>6, <2>7, Zenon
<1> HIDE DEF First, Second, Third, Fourth
<1>10. Headings = {First, Second, Third, Fourth}
  BY Zenon DEF Headings, First, Second, Third, Fourth
<1> QED BY <1>6, <1>7, <1>8, <1>9, <1>10

\* A table that is asked about is read as described.
LEMMA TableRight == ImportTable => DevicesAsDescribed'
<1> SUFFICES ASSUME ImportTable PROVE DevicesAsDescribed'
  OBVIOUS
<1>1. PICK rows \in {<<>>} \cup {<<e>> : e \in Entries} \cup (Entries \X Entries), header \in Headings :
        call' = <<rows, header>>
  BY Zenon DEF ImportTable
<1>2. topic' = "table"
  BY Zenon DEF ImportTable, Asked
<1>3. call'[1] = rows /\ call'[2] = header
  BY <1>1
<1>4. rows \in Seq(Written(Names))
  <2>1. CASE rows = <<>>
    BY <2>1, ShortSequences, Zenon
  <2>2. ASSUME NEW e \in Entries, rows = <<e>> PROVE rows \in Seq(Written(Names))
    BY <2>2, AskedEntries, ShortSequences, Zenon
  <2>3. ASSUME NEW e \in Entries, NEW f \in Entries, rows = <<e, f>> PROVE rows \in Seq(Written(Names))
    BY <2>3, AskedEntries, ShortSequences, Zenon
  <2>4. rows \in Entries \X Entries => \E e, f \in Entries : rows = <<e, f>>
    OBVIOUS
  <2> QED BY <1>1, <2>1, <2>2, <2>3, <2>4, Zenon
<1>5. Scan!TableAsWritten(rows, header)
  BY <1>1, <1>4, AskedHeadings, TableReadsBack, Zenon
<1>6. Scan!TableAsWritten(call'[1], call'[2]) /\ Scan!RoutesAgree(call'[1])
  BY <1>3, <1>5, RoutesAlwaysAgree, Zenon
<1> QED BY <1>2, <1>6, Zenon DEF DevicesAsDescribed

-----------------------------------------------------------------------------
(***************************************************************************)
(* Scans                                                                   *)
(***************************************************************************)
\* A function on the first numbers is a list, whatever its values.
LEMMA SomeList ==
  ASSUME NEW n \in Nat, NEW s, s = [i \in 1..n |-> s[i]]
  PROVE  DOMAIN s = 1..n /\ Len(s) = n /\ \E T : s \in Seq(T)
<1> DEFINE T == {s[i] : i \in 1..n}
<1>1. s \in [1..n -> T]
  <2>1. \A i \in 1..n : s[i] \in T
    OBVIOUS
  <2> HIDE DEF T
  <2> QED BY <2>1
<1> HIDE DEF T
<1>2. s \in Seq(T) /\ Len(s) = n
  BY <1>1, IsList, Zenon
<1>3. DOMAIN s = 1..n
  BY <1>1, Zenon
<1> QED BY <1>2, <1>3, Zenon

\* Objects that are told apart before they become points, or one of which has
\* no instance of its own.
Listable(objects) ==
  /\ \E T : objects \in Seq(T)
  /\ \/ \E i \in DOMAIN objects : objects[i].instance = 0
     \/ \A i, j \in DOMAIN objects :
          /\ Scan!PointType(objects[i].type) = Scan!PointType(objects[j].type)
          /\ objects[i].instance = objects[j].instance
          => i = j

\* The objects of a device become its points.
LEMMA BecomesPoint ==
  ASSUME NEW device, Listable(device.objects)
  PROVE  Scan!ListedBecomesPoint(device)
<1> DEFINE objects == device.objects
           made == Scan!Materialized(objects)
           Instance(i) == IF objects[i].instance = 0 THEN i ELSE objects[i].instance
<1>1. \A i \in DOMAIN objects : i # 0
  BY DEF Listable
<1>2. /\ DOMAIN made = DOMAIN objects
      /\ \A i \in DOMAIN objects :
           made[i] = Scan!Point(Scan!PointType(objects[i].type), Instance(i), objects[i].name,
                                objects[i].ga, objects[i].dpt)
  BY Zenon DEF Scan!Materialized
<1> HIDE DEF made, objects
<1>3. ASSUME NEW i \in DOMAIN objects
      PROVE  /\ made[i].name = objects[i].name
             /\ made[i].kind = Scan!PointType(objects[i].type)
             /\ made[i].instance = Instance(i)
  <2> HIDE DEF Instance
  <2> QED BY <1>2 DEF Scan!Point
<1>4. ASSUME NEW i \in DOMAIN objects, objects[i].type \in Scan!Mapped
      PROVE  made[i].kind = objects[i].type
  <2>1. \A type \in Scan!Mapped : Scan!PointType(type) = type
    BY DEF Scan!Mapped, Scan!PointType
  <2> QED BY <1>3, <1>4, <2>1, Zenon
<1>5. ASSUME NEW i \in DOMAIN objects
      PROVE  made[i].instance = objects[i].instance <=> objects[i].instance # 0
  BY <1>1, <1>3
<1>6. ASSUME ~Scan!ToldApart(made) PROVE \E i \in DOMAIN made : objects[i].instance = 0
  <2> SUFFICES ASSUME \A i \in DOMAIN objects : objects[i].instance # 0 PROVE FALSE
    BY <1>2, Zenon
  <2>1. PICK i \in DOMAIN objects, j \in DOMAIN objects :
          made[i].kind = made[j].kind /\ made[i].instance = made[j].instance /\ i # j
    BY <1>2, <1>6, Zenon DEF Scan!ToldApart
  <2>2. /\ Scan!PointType(objects[i].type) = Scan!PointType(objects[j].type)
        /\ objects[i].instance = objects[j].instance
    BY <1>3, <2>1
  <2> QED BY <2>1, <2>2, Zenon DEF Listable, objects
<1> QED BY <1>2, <1>3, <1>4, <1>5, <1>6, Zenon DEF Scan!ListedBecomesPoint, made, objects

\* What is listed can be chosen by the handles, if these differ.
LEMMA ListIsRight ==
  ASSUME NEW n \in Nat, NEW devices, devices = [i \in 1..n |-> devices[i]],
         Scan!HandlesDiffer(devices),
         \A i \in 1..n : Listable(devices[i].objects)
  PROVE  ListedRight(devices)
<1> DEFINE refs == [i \in DOMAIN devices |-> devices[i].ref]
           rows == Scan!Chosen(devices, refs)
           Named(list, i) == {j \in DOMAIN list : list[j].ref = refs[i]}
           Match(list, i) == IF Named(list, i) = {} THEN Scan!NotFound
                           ELSE <<Scan!Materialized(list[Scan!Max(Named(list, i))].objects)>>
<1>1. DOMAIN devices = 1..n /\ Len(devices) = n
  BY SomeList, Zenon
<1>2. \A i \in DOMAIN devices : refs[i] = devices[i].ref
  OBVIOUS
<1>3. DOMAIN refs = DOMAIN devices
  OBVIOUS
<1> HIDE DEF refs
<1>4. \A list : \A i \in DOMAIN devices : Scan!Chosen(list, refs)[i] = Match(list, i)
  BY <1>3, Zenon DEF Scan!Chosen
<1>5. ASSUME NEW i \in DOMAIN devices
      PROVE  rows[i] = <<Scan!Materialized(devices[i].objects)>>
  <2>1. Named(devices, i) = {i}
    BY <1>2 DEF Scan!HandlesDiffer
  <2>2. i \in Int
    BY <1>1
  <2>3. Scan!Max({i}) = i
    BY <2>2 DEF Scan!Max
  <2>4. {i} # {}
    OBVIOUS
  <2> HIDE DEF Named
  <2>5. Match(devices, i) = <<Scan!Materialized(devices[Scan!Max({i})].objects)>>
    BY <2>1, <2>4, Zenon
  <2>6. rows[i] = Match(devices, i)
    BY <1>4, Zenon
  <2> HIDE DEF Match, rows
  <2>7. rows[i] = <<Scan!Materialized(devices[Scan!Max({i})].objects)>>
    BY <2>5, <2>6, Zenon
  <2> DEFINE m == Scan!Max({i})
  <2>8. m = i /\ rows[i] = <<Scan!Materialized(devices[m].objects)>>
    BY <2>3, <2>7, Zenon
  <2> HIDE DEF m
  <2> QED BY <2>8
<1>6. ASSUME devices # <<>> PROVE Scan!Chosen(Tail(devices), refs)[1] = Scan!NotFound
  <2>1. PICK T : devices \in Seq(T)
    BY SomeList, Zenon
  <2>2. n > 0 /\ 1 \in DOMAIN devices
    BY <1>1, <1>6, <2>1
  <2>3. /\ DOMAIN Tail(devices) = 1..(n - 1)
        /\ \A j \in 1..(n - 1) : Tail(devices)[j] = devices[j + 1] /\ j + 1 \in DOMAIN devices
    BY <1>1, <2>1, <2>2
  <2>4. ASSUME NEW j \in 1..(n - 1) PROVE Tail(devices)[j].ref # refs[1]
    <3>1. j + 1 # 1
      OBVIOUS
    <3> QED BY <1>2, <2>2, <2>3, <3>1, Zenon DEF Scan!HandlesDiffer
  <2>5. Named(Tail(devices), 1) = {}
    BY <2>3, <2>4, Zenon
  <2> HIDE DEF Named
  <2> QED BY <1>4, <2>2, <2>5, Zenon
<1>7. ChosenMatch(devices)
  BY <1>5, <1>6, Zenon DEF ChosenMatch, refs
<1>8. \A i \in DOMAIN devices : Scan!ListedBecomesPoint(devices[i])
  BY <1>1, BecomesPoint, Zenon
<1> QED BY <1>7, <1>8, Zenon DEF ListedRight

\* What is read of the objects of a controller is told apart as they are.
LEMMA ReadListable ==
  ASSUME NEW E, NEW list \in Seq(E), NEW max,
         \A i, j \in DOMAIN list :
           list[i].type = list[j].type /\ list[i].instance = list[j].instance => i = j
  PROVE  Listable(Scan!ReadObjects(list, max))
<1> DEFINE S == {i \in DOMAIN list : i <= max /\ list[i].type \in Scan!Mapped}
           read == Scan!Kept(list, S)
           objects == Scan!ReadObjects(list, max)
<1>1. PICK n \in Nat : \E t : KeptAt(E, list, S, n, t)
  <2>1. S \in SUBSET DOMAIN list
    OBVIOUS
  <2> HIDE DEF S
  <2> QED BY <2>1, KeptMembers, Zenon
<1>2. PICK t : KeptAt(E, list, S, n, t)
  BY <1>1, Zenon
<1>3. /\ t \in [1..n -> S]
      /\ read = [k \in 1..n |-> list[t[k]]]
      /\ \A i, j \in 1..n : t[i] = t[j] => i = j
  BY <1>2, Zenon DEF KeptAt
<1>4. /\ DOMAIN objects = DOMAIN read
      /\ objects = [i \in DOMAIN read |-> objects[i]]
      /\ \A i \in DOMAIN read :
           objects[i].type = read[i].type /\ objects[i].instance = read[i].instance
  <2>1. objects = [i \in DOMAIN read |->
          [type |-> read[i].type, instance |-> read[i].instance,
           name |-> Scan!OrElse(read[i].name, <<read[i].type, read[i].instance>>),
           value |-> read[i].value,
           ga |-> Scan!NoAddress, dpt |-> <<>>]]
    BY Zenon DEF Scan!ReadObjects
  <2> HIDE DEF objects, read
  <2> QED BY <2>1
<1>5. \A k \in 1..n : t[k] \in DOMAIN list /\ list[t[k]].type \in Scan!Mapped
  BY <1>3
<1> HIDE DEF S, read, objects
<1>6. DOMAIN read = 1..n /\ \A k \in 1..n : read[k] = list[t[k]]
  BY <1>3, Zenon
<1>7. \A type \in Scan!Mapped : Scan!PointType(type) = type
  BY DEF Scan!Mapped, Scan!PointType
<1>8. ASSUME NEW i \in 1..n, NEW j \in 1..n,
             Scan!PointType(objects[i].type) = Scan!PointType(objects[j].type),
             objects[i].instance = objects[j].instance
      PROVE  i = j
  <2>1. /\ objects[i].type = list[t[i]].type /\ objects[j].type = list[t[j]].type
        /\ objects[i].instance = list[t[i]].instance /\ objects[j].instance = list[t[j]].instance
    BY <1>4, <1>6, Zenon
  <2>2. list[t[i]].type = list[t[j]].type
    <3>1. Scan!PointType(list[t[i]].type) = Scan!PointType(list[t[j]].type)
      BY <1>8, <2>1, Zenon
    <3>2. /\ Scan!PointType(list[t[i]].type) = list[t[i]].type
          /\ Scan!PointType(list[t[j]].type) = list[t[j]].type
      BY <1>5, <1>7, Zenon
    <3> QED BY <3>1, <3>2, Zenon
  <2>3. t[i] = t[j]
    BY <1>5, <1>8, <2>1, <2>2, Zenon
  <2> QED BY <1>3, <2>3, Zenon
<1>9. \E T : objects \in Seq(T)
  BY <1>4, <1>6, SomeList, Zenon
<1> QED BY <1>4, <1>6, <1>8, <1>9, Zenon DEF Listable, objects

\* A sweep over hosts that are numbers, each with an answer, or none, and with
\* a list of different objects, or none.
Sweepable(config, answers, lists) ==
  /\ config.from \in Nat /\ config.to \in Nat
  /\ config.from - config.to < Scan!MaxRange /\ config.to - config.from < Scan!MaxRange
  /\ config.network \in SUBSET Nat /\ IsFiniteSet(config.network)
  /\ Scan!Targets(config) \subseteq DOMAIN answers
  /\ \A ip \in DOMAIN answers : ip \in Nat /\ (answers[ip] # NoAnswer => answers[ip] \in Int)
  /\ \A ip \in Scan!Targets(config) :
       lists[ip] # NoAnswer =>
         /\ \E T : lists[ip] \in Seq(T)
         /\ \A i, j \in DOMAIN lists[ip] :
              /\ lists[ip][i].type = lists[ip][j].type
              /\ lists[ip][i].instance = lists[ip][j].instance
              => i = j

\* The hosts that are asked are those of the range or of the network.
LEMMA TargetsAre ==
  ASSUME NEW config, NEW answers, NEW lists, Sweepable(config, answers, lists)
  PROVE  /\ Scan!Targets(config) \in SUBSET Nat /\ IsFiniteSet(Scan!Targets(config))
         /\ \A ip \in Nat : ip \in Scan!Targets(config) <=>
              IF config.mode = "ip_range"
              THEN (config.from <= ip /\ ip <= config.to) \/ (config.to <= ip /\ ip <= config.from)
              ELSE ip \in config.network /\ ip # config.me
<1> DEFINE a == config.from
           b == config.to
           first == IF a < b THEN a ELSE b
           last == IF a < b THEN b ELSE a
<1>1. a \in Nat /\ b \in Nat /\ a - b < Scan!MaxRange /\ b - a < Scan!MaxRange
  BY Zenon DEF Sweepable
<1>2. a # NoAnswer /\ b # NoAnswer
  BY <1>1, NoAnswerAssumption
<1>3. Scan!Targets(config) = IF config.mode = "ip_range" THEN Scan!ExpandRange(a, b)
                             ELSE config.network \ {config.me}
  BY <1>2, Zenon DEF Scan!Targets
<1> HIDE DEF a, b
<1>4. Scan!ExpandRange(a, b) = first..last
  BY <1>1 DEF Scan!ExpandRange, Scan!MaxRange
<1>5. first \in Nat /\ last \in Nat
  BY <1>1
<1>6. first..last \in SUBSET Nat /\ IsFiniteSet(first..last)
  <2>1. first..last \in SUBSET Nat
    BY <1>5
  <2>2. first \in Int /\ last \in Int
    BY <1>5
  <2> HIDE DEF first, last
  <2> QED BY <2>1, <2>2, FS_Interval, Zenon
<1>7. ASSUME NEW ip \in Nat
      PROVE  ip \in first..last <=> (a <= ip /\ ip <= b) \/ (b <= ip /\ ip <= a)
  BY <1>1
<1>8. /\ config.network \ {config.me} \in SUBSET Nat
      /\ IsFiniteSet(config.network \ {config.me})
  <2>1. config.network \in SUBSET Nat /\ IsFiniteSet(config.network)
    BY Zenon DEF Sweepable
  <2>2. config.network \ {config.me} \in SUBSET config.network
    OBVIOUS
  <2>3. IsFiniteSet(config.network \ {config.me})
    BY <2>1, <2>2, FS_Subset, Zenon
  <2> QED BY <2>1, <2>3
<1> HIDE DEF first, last
<1>9. CASE config.mode = "ip_range"
  <2>1. Scan!Targets(config) = first..last
    BY <1>3, <1>4, <1>9, Zenon
  <2> QED BY <1>6, <1>7, <1>9, <2>1, Zenon DEF a, b
<1>10. CASE config.mode # "ip_range"
  <2>1. Scan!Targets(config) = config.network \ {config.me}
    BY <1>3, <1>10, Zenon
  <2>2. \A ip \in Nat : ip \in Scan!Targets(config) <=> ip \in config.network /\ ip # config.me
    BY <2>1, Zenon
  <2> QED BY <1>8, <1>10, <2>1, <2>2, Zenon
<1> QED BY <1>9, <1>10, Zenon

\* A sweep lists every controller of its range that answers, in order, each
\* under a handle of its own, and its objects become points.
THEOREM SweepAsDescribed ==
  ASSUME NEW config, NEW answers, NEW lists, Sweepable(config, answers, lists)
  PROVE  LET found == Scan!DiscoverBacnet(config, answers, lists)
         IN  Scan!SweepFindsAll(config, answers, found) /\ ListedRight(found)
<1> DEFINE hosts == Scan!Responders(config, answers)
           before == {e \in hosts \X hosts : answers[e[1]] < answers[e[2]]}
           found == Scan!DiscoverBacnet(config, answers, lists)
           Objects1(ip) == IF lists[ip] = NoAnswer \/ ~config.deep THEN <<>>
                           ELSE Scan!ReadObjects(lists[ip], config.max)
           Unit(ip) == Scan!Listed(<<ip, answers[ip]>>, "bacnet", answers[ip], Objects1(ip))
           Wants(ip) == IF config.mode = "ip_range"
                       THEN \/ config.from <= ip /\ ip <= config.to
                            \/ config.to <= ip /\ ip <= config.from
                       ELSE ip \in config.network /\ ip # config.me
<1>1. /\ Scan!Targets(config) \in SUBSET Nat /\ IsFiniteSet(Scan!Targets(config))
      /\ \A ip \in Nat : ip \in Scan!Targets(config) <=> Wants(ip)
  BY TargetsAre, Zenon
<1>2. /\ Scan!Targets(config) \subseteq DOMAIN answers
      /\ \A ip \in DOMAIN answers : ip \in Nat /\ (answers[ip] # NoAnswer => answers[ip] \in Int)
  BY Zenon DEF Sweepable
<1>3. hosts = {ip \in Scan!Targets(config) : answers[ip] # NoAnswer}
  BY Zenon DEF Scan!Responders
<1>4. hosts \in SUBSET Nat /\ IsFiniteSet(hosts) /\ \A ip \in hosts : answers[ip] \in Int
  <2>1. hosts \in SUBSET Scan!Targets(config)
    BY <1>3, Zenon
  <2> HIDE DEF hosts
  <2>2. IsFiniteSet(hosts)
    BY <1>1, <2>1, FS_Subset, Zenon
  <2> QED BY <1>1, <1>2, <1>3, <2>1, <2>2, Zenon
<1> HIDE DEF hosts
<1>5. \A x, y \in hosts : <<x, y>> \in before <=> answers[x] < answers[y]
  OBVIOUS
<1>6. found = [i \in DOMAIN Scan!InOrder(hosts, before) |-> Unit(Scan!InOrder(hosts, before)[i])]
  BY Zenon DEF Scan!DiscoverBacnet, hosts
<1> HIDE DEF before, found
<1>7. Compares(hosts, before)
  BY <1>4, <1>5 DEF Compares
<1>8. PICK n \in Nat : \E t : Numbered(hosts, before, n, t)
  BY <1>4, <1>7, SortedOut, Zenon
<1>9. PICK t : Numbered(hosts, before, n, t)
  BY <1>8, Zenon
<1>10. /\ t \in [1..n -> hosts] /\ Scan!InOrder(hosts, before) = t
       /\ \A x \in hosts : \E k \in 1..n : t[k] = x
       /\ \A i, j \in 1..n : t[i] = t[j] => i = j
       /\ \A i, j \in 1..n : i < j => <<t[i], t[j]>> \in before \/ <<t[j], t[i]>> \notin before
  BY <1>9, Zenon DEF Numbered
<1>11. found = [i \in 1..n |-> Unit(t[i])] /\ found = [i \in 1..n |-> found[i]]
  <2>1. DOMAIN t = 1..n
    BY <1>10, Zenon
  <2>2. found = [i \in DOMAIN t |-> Unit(t[i])]
    BY <1>6, <1>10, Zenon
  <2> HIDE DEF Unit
  <2> QED BY <2>1, <2>2
<1>12. DOMAIN found = 1..n /\ Len(found) = n
  BY <1>11, SomeList, Zenon
<1>13. \A i \in 1..n : /\ found[i].ref = <<t[i], answers[t[i]]>>
                       /\ found[i].id = answers[t[i]]
                       /\ found[i].objects = Objects1(t[i])
  <2> HIDE DEF Objects1
  <2>1. \A i \in 1..n : found[i] = Unit(t[i])
    BY <1>11, Zenon
  <2>2. \A ip : /\ Unit(ip).ref = <<ip, answers[ip]>> /\ Unit(ip).id = answers[ip]
                /\ Unit(ip).objects = Objects1(ip)
    BY DEF Scan!Listed
  <2> HIDE DEF Unit
  <2> QED BY <2>1, <2>2, Zenon
<1>14. Scan!HandlesDiffer(found)
  <2> SUFFICES ASSUME NEW i \in 1..n, NEW j \in 1..n, found[i].ref = found[j].ref PROVE i = j
    BY <1>12, Zenon DEF Scan!HandlesDiffer
  <2>1. <<t[i], answers[t[i]]>> = <<t[j], answers[t[j]]>>
    BY <1>13, Zenon
  <2>2. t[i] = t[j]
    BY <2>1
  <2> QED BY <1>10, <2>2, Zenon
<1>15. ASSUME NEW ip \in DOMAIN answers
       PROVE  (\E i \in DOMAIN found : found[i].ref = <<ip, answers[ip]>>) <=>
                answers[ip] # NoAnswer /\ Wants(ip)
  <2>1. (\E i \in DOMAIN found : found[i].ref = <<ip, answers[ip]>>) <=> \E i \in 1..n : t[i] = ip
    <3>1. ASSUME NEW i \in 1..n PROVE found[i].ref = <<ip, answers[ip]>> <=> t[i] = ip
      <4>1. found[i].ref = <<t[i], answers[t[i]]>>
        BY <1>13, Zenon
      <4>2. found[i].ref = <<ip, answers[ip]>> => t[i] = ip
        BY <4>1
      <4>3. t[i] = ip => found[i].ref = <<ip, answers[ip]>>
        BY <4>1, Zenon
      <4> QED BY <4>2, <4>3
    <3> QED BY <1>12, <3>1, Zenon
  <2>2. (\E i \in 1..n : t[i] = ip) <=> ip \in hosts
    BY <1>10
  <2>3. ip \in hosts <=> ip \in Scan!Targets(config) /\ answers[ip] # NoAnswer
    BY <1>3, Zenon
  <2>4. ip \in Scan!Targets(config) <=> Wants(ip)
    BY <1>1, <1>2, Zenon
  <2> HIDE DEF Wants
  <2> QED BY <2>1, <2>2, <2>3, <2>4, Zenon
<1>16. ASSUME NEW i \in 1..(Len(found) - 1) PROVE found[i].id <= found[i + 1].id
  <2>1. i \in 1..n /\ i + 1 \in 1..n /\ i < i + 1
    BY <1>12
  <2>2. t[i] \in hosts /\ t[i + 1] \in hosts
    BY <1>10, <2>1, Zenon
  <2>3. <<t[i], t[i + 1]>> \in before \/ <<t[i + 1], t[i]>> \notin before
    BY <1>10, <2>1, Zenon
  <2>4. answers[t[i]] <= answers[t[i + 1]]
    <3>1. answers[t[i]] < answers[t[i + 1]] \/ ~(answers[t[i + 1]] < answers[t[i]])
      BY <1>5, <2>2, <2>3, Zenon
    <3>2. answers[t[i]] \in Int /\ answers[t[i + 1]] \in Int
      BY <1>4, <2>2, Zenon
    <3> QED BY <3>1, <3>2
  <2> QED BY <1>13, <2>1, <2>4, Zenon
<1>17. Scan!SweepFindsAll(config, answers, found)
  BY <1>14, <1>15, <1>16, Zenon DEF Scan!SweepFindsAll
<1>18. ASSUME NEW i \in 1..n PROVE Listable(found[i].objects)
  <2>1. t[i] \in hosts /\ found[i].objects = Objects1(t[i])
    BY <1>10, <1>13, Zenon
  <2>2. Listable(Objects1(t[i]))
    <3>1. CASE lists[t[i]] = NoAnswer \/ ~config.deep
      <4>1. Listable(<<>>)
        <5>1. <<>> \in Seq({}) /\ DOMAIN <<>> = {}
          OBVIOUS
        <5> QED BY <5>1, Zenon DEF Listable
      <4> QED BY <3>1, <4>1, Zenon
    <3>2. CASE ~(lists[t[i]] = NoAnswer \/ ~config.deep)
      <4> DEFINE list == lists[t[i]]
      <4>1. t[i] \in Scan!Targets(config)
        BY <1>3, <2>1, Zenon
      <4>2. /\ \E T : list \in Seq(T)
            /\ \A k, l \in DOMAIN list :
                 list[k].type = list[l].type /\ list[k].instance = list[l].instance => k = l
        BY <3>2, <4>1, Zenon DEF Sweepable
      <4> HIDE DEF list
      <4>3. PICK T : list \in Seq(T)
        BY <4>2, Zenon
      <4>4. Listable(Scan!ReadObjects(list, config.max))
        BY <4>2, <4>3, ReadListable, Zenon
      <4> QED BY <3>2, <4>4, Zenon DEF list
    <3> QED BY <3>1, <3>2, Zenon
  <2> HIDE DEF Objects1
  <2> QED BY <2>1, <2>2, Zenon
<1>19. ListedRight(found)
  BY <1>11, <1>14, <1>18, ListIsRight, Zenon
<1> QED BY <1>17, <1>19, Zenon DEF found

\* The objects of the controllers that are asked about are told apart.
LEMMA AskedObjects ==
  \A list \in ObjectLists :
    /\ \E T : list \in Seq(T)
    /\ \A i, j \in DOMAIN list :
         list[i].type = list[j].type /\ list[i].instance = list[j].instance => i = j
<1> SUFFICES ASSUME NEW list \in ObjectLists
             PROVE  /\ \E T : list \in Seq(T)
                    /\ \A i, j \in DOMAIN list :
                         /\ list[i].type = list[j].type /\ list[i].instance = list[j].instance
                         => i = j
  OBVIOUS
<1>1. CASE list = <<>>
  <2>1. <<>> \in Seq({}) /\ DOMAIN <<>> = {}
    OBVIOUS
  <2> QED BY <1>1, <2>1, Zenon
<1>2. ASSUME NEW o, list = <<o>>
      PROVE  /\ \E T : list \in Seq(T)
             /\ \A i, j \in DOMAIN list :
                  list[i].type = list[j].type /\ list[i].instance = list[j].instance => i = j
  <2>1. <<o>> \in Seq({o}) /\ \A i \in DOMAIN <<o>> : i = 1
    OBVIOUS
  <2> QED BY <1>2, <2>1, Zenon
<1>3. ASSUME NEW o, NEW p, list = <<o, p>>, <<o.type, o.instance>> # <<p.type, p.instance>>
      PROVE  /\ \E T : list \in Seq(T)
             /\ \A i, j \in DOMAIN list :
                  list[i].type = list[j].type /\ list[i].instance = list[j].instance => i = j
  <2>1. o \in {o, p} /\ p \in {o, p}
    OBVIOUS
  <2>2. <<o, p>> \in Seq({o, p})
    BY <2>1, ShortSequences, Zenon
  <2>3. (\A i \in DOMAIN <<o, p>> : i = 1 \/ i = 2) /\ <<o, p>>[1] = o /\ <<o, p>>[2] = p
    OBVIOUS
  <2>4. ~(o.type = p.type /\ o.instance = p.instance)
    BY <1>3
  <2> QED BY <1>3, <2>2, <2>3, <2>4, Zenon
<1>4. \/ list = <<>>
      \/ \E o \in Objects : list = <<o>>
      \/ /\ list \in Objects \X Objects
         /\ <<list[1].type, list[1].instance>> # <<list[2].type, list[2].instance>>
  BY Zenon DEF ObjectLists
<1>5. list \in Objects \X Objects => \E o, p : list = <<o, p>> /\ list[1] = o /\ list[2] = p
  <2> HIDE DEF Objects
  <2> QED OBVIOUS
<1> QED BY <1>1, <1>2, <1>3, <1>4, <1>5, Zenon

\* A sweep that is asked about finds what is described.
LEMMA SweepRight == Sweep => DevicesAsDescribed'
<1> SUFFICES ASSUME Sweep PROVE DevicesAsDescribed'
  OBVIOUS
<1> DEFINE Config(mode, from, to, max, deep) ==
             [mode |-> mode, from |-> from, to |-> to, network |-> 0..2, me |-> 1,
              deep |-> deep, max |-> max]
           All(answers) == [ip \in 0..3 |-> IF ip = 0 THEN NoAnswer ELSE answers[ip]]
           Lists(list) == [ip \in 0..3 |-> IF ip = 2 THEN NoAnswer ELSE list]
<1>1. PICK mode \in {"ip_range", "subnet"}, from, to \in 1..3, max \in {1, 300},
           deep \in BOOLEAN, answers \in [1..3 -> {NoAnswer, 7, 8}], list \in ObjectLists :
        /\ \/ list = <<>> \/ (from = 1 /\ to = 3 /\ answers[1] = 7 /\ answers[2] = NoAnswer)
        /\ call' = <<Scan!DiscoverBacnet(Config(mode, from, to, max, deep), All(answers), Lists(list)),
                     Config(mode, from, to, max, deep), All(answers)>>
  BY DEF Sweep
<1>2. topic' = "sweep"
  BY Zenon DEF Sweep, Asked
<1> DEFINE config == Config(mode, from, to, max, deep)
           all == All(answers)
           lists == Lists(list)
<1>3. /\ config.from = from /\ config.to = to /\ config.network = 0..2 /\ config.me = 1
      /\ config.mode = mode
  OBVIOUS
<1>4. DOMAIN all = 0..3 /\ \A ip \in 0..3 : all[ip] # NoAnswer => all[ip] \in Int
  OBVIOUS
<1>5. \A ip \in 0..3 : lists[ip] # NoAnswer => lists[ip] = list
  OBVIOUS
<1> HIDE DEF config, all, lists
<1>6. from \in Nat /\ to \in Nat /\ from <= 3 /\ to <= 3
  OBVIOUS
<1>7. 0..2 \in SUBSET Nat /\ IsFiniteSet(0..2)
  <2>1. 0..2 \in SUBSET Nat
    OBVIOUS
  <2>2. IsFiniteSet(0..2)
    <3>1. PICK N \in Int : N = 2
      OBVIOUS
    <3>2. IsFiniteSet(0..N)
      BY FS_Interval
    <3> QED BY <3>1, <3>2
  <2> QED BY <2>1, <2>2
<1>10. \A ip \in 0..3 : ip \in Nat
  OBVIOUS
<1> DEFINE Hosts == 0..3
<1>8. Scan!Targets(config) \subseteq Hosts
  <2>1. \A a \in 1..3 : \A b \in 1..3 : Scan!ExpandRange(a, b) \subseteq Hosts
    BY DEF Scan!ExpandRange, Scan!MaxRange
  <2>2. 0..2 \ {1} \subseteq Hosts
    OBVIOUS
  <2> HIDE DEF Hosts
  <2>3. \/ Scan!Targets(config) = Scan!ExpandRange(from, to)
        \/ Scan!Targets(config) = 0..2 \ {1}
    BY <1>3 DEF Scan!Targets
  <2> QED BY <2>1, <2>2, <2>3
<1>9. from - to < Scan!MaxRange /\ to - from < Scan!MaxRange
  BY <1>6 DEF Scan!MaxRange
<1>11. /\ \E T : list \in Seq(T)
       /\ \A i, j \in DOMAIN list :
            list[i].type = list[j].type /\ list[i].instance = list[j].instance => i = j
  BY AskedObjects, Zenon
<1>12. \A ip \in Scan!Targets(config) :
         lists[ip] # NoAnswer =>
           /\ \E T : lists[ip] \in Seq(T)
           /\ \A i, j \in DOMAIN lists[ip] :
                /\ lists[ip][i].type = lists[ip][j].type
                /\ lists[ip][i].instance = lists[ip][j].instance
                => i = j
  <2> SUFFICES ASSUME NEW ip \in Scan!Targets(config), lists[ip] # NoAnswer
               PROVE  /\ \E T : lists[ip] \in Seq(T)
                      /\ \A i, j \in DOMAIN lists[ip] :
                           /\ lists[ip][i].type = lists[ip][j].type
                           /\ lists[ip][i].instance = lists[ip][j].instance
                           => i = j
    OBVIOUS
  <2>1. lists[ip] = list
    BY <1>5, <1>8
  <2> QED BY <1>11, <2>1, Zenon
<1> HIDE DEF Hosts
<1>14. /\ DOMAIN all = Hosts
       /\ \A ip \in Hosts : ip \in Nat /\ (all[ip] # NoAnswer => all[ip] \in Int)
  BY <1>4, <1>10 DEF Hosts
<1>18. /\ config.from \in Nat /\ config.to \in Nat
       /\ config.from - config.to < Scan!MaxRange /\ config.to - config.from < Scan!MaxRange
       /\ config.network \in SUBSET Nat /\ IsFiniteSet(config.network)
  BY <1>3, <1>6, <1>7, <1>9
<1>13. Sweepable(config, all, lists)
  BY <1>8, <1>12, <1>14, <1>18, Zenon DEF Sweepable
<1> DEFINE found == Scan!DiscoverBacnet(config, all, lists)
<1>19. Scan!SweepFindsAll(config, all, found) /\ ListedRight(found)
  BY <1>13, SweepAsDescribed, Zenon
<1>15. call' = <<found, config, all>>
  BY <1>1, Zenon DEF config, all, lists
<1> HIDE DEF found
<1>16. call'[1] = found /\ call'[2] = config /\ call'[3] = all
  BY <1>15
<1>17. Scan!SweepFindsAll(call'[2], call'[3], call'[1]) /\ ListedRight(call'[1])
  BY <1>16, <1>19, Zenon
<1> QED BY <1>2, <1>17, Zenon DEF DevicesAsDescribed

\* The first members of their kind differ.
LEMMA FirstsDiffer ==
  ASSUME NEW E, NEW seq \in Seq(E)
  PROVE  LET firsts == Scan!Firsts(seq)
         IN  firsts \in Seq(E) /\ \A i, j \in DOMAIN firsts : firsts[i] = firsts[j] => i = j
<1> DEFINE S == {i \in DOMAIN seq : \A j \in 1..(i - 1) : seq[j] # seq[i]}
           firsts == Scan!Firsts(seq)
<1>1. firsts = Scan!Kept(seq, S)
  BY Zenon DEF Scan!Firsts
<1>2. S \in SUBSET DOMAIN seq
  OBVIOUS
<1>3. \A i, j \in S : i # j => seq[i] # seq[j]
  <2> SUFFICES ASSUME NEW i \in S, NEW j \in S, i < j PROVE seq[i] # seq[j]
    OBVIOUS
  <2> QED OBVIOUS
<1> HIDE DEF S, firsts
<1>4. firsts \in Seq(E) /\ \E n \in Nat : \E t : KeptAt(E, seq, S, n, t)
  BY <1>1, <1>2, KeptMembers, Zenon
<1>5. PICK n \in Nat : \E t : KeptAt(E, seq, S, n, t)
  BY <1>4, Zenon
<1>6. PICK t : KeptAt(E, seq, S, n, t)
  BY <1>5, Zenon
<1>7. /\ t \in [1..n -> S] /\ firsts = [k \in 1..n |-> seq[t[k]]]
      /\ \A i, j \in 1..n : t[i] = t[j] => i = j
  BY <1>1, <1>6, Zenon DEF KeptAt
<1>8. \A i, j \in DOMAIN firsts : firsts[i] = firsts[j] => i = j
  BY <1>3, <1>7
<1> QED BY <1>4, <1>8, Zenon DEF firsts

\* A scan of a Modbus line lists each unit that answers once, under its number,
\* and its register becomes one point; for any range and any answers.
THEOREM ModbusAsDescribed ==
  ASSUME NEW first \in Nat, NEW last \in Nat, NEW registers
  PROVE  ListedRight(Scan!DiscoverModbus(first, last, registers))
<1> DEFINE S == {u \in first..last : registers[u] # NoAnswer}
           found == Scan!DiscoverModbus(first, last, registers)
           Objects1(u) == <<Scan!HoldingRegister(registers[u])>>
           Unit(u) == Scan!Listed(u, "modbus", u, Objects1(u))
<1>1. S \in SUBSET Nat
  OBVIOUS
<1>2. IsFiniteSet(S)
  <2>1. first \in Int /\ last \in Int /\ S \in SUBSET (first..last)
    OBVIOUS
  <2> HIDE DEF S
  <2> QED BY <2>1, FS_Interval, FS_Subset, Zenon
<1>3. found = [i \in DOMAIN Scan!InOrder(S, {}) |-> Unit(Scan!InOrder(S, {})[i])]
  BY Zenon DEF Scan!DiscoverModbus
<1> HIDE DEF S, found
<1>4. Compares(S, {})
  BY DEF Compares
<1>5. PICK n \in Nat : \E t : Numbered(S, {}, n, t)
  BY <1>1, <1>2, <1>4, SortedOut, Zenon
<1>6. PICK t : Numbered(S, {}, n, t)
  BY <1>5, Zenon
<1>7. /\ t \in [1..n -> S] /\ Scan!InOrder(S, {}) = t
      /\ \A i, j \in 1..n : t[i] = t[j] => i = j
  BY <1>6, Zenon DEF Numbered
<1>8. found = [i \in 1..n |-> Unit(t[i])] /\ found = [i \in 1..n |-> found[i]]
  <2>1. DOMAIN t = 1..n
    BY <1>7, Zenon
  <2>2. found = [i \in DOMAIN t |-> Unit(t[i])]
    BY <1>3, <1>7, Zenon
  <2> HIDE DEF Unit
  <2> QED BY <2>1, <2>2
<1>9. \A i \in 1..n : found[i].ref = t[i] /\ found[i].objects = Objects1(t[i])
  <2> HIDE DEF Objects1
  <2>1. \A i \in 1..n : found[i] = Unit(t[i])
    BY <1>8, Zenon
  <2>2. \A u : Unit(u).ref = u /\ Unit(u).objects = Objects1(u)
    BY DEF Scan!Listed
  <2> HIDE DEF Unit
  <2> QED BY <2>1, <2>2, Zenon
<1>10. Scan!HandlesDiffer(found)
  <2> HIDE DEF Objects1, Unit
  <2>1. DOMAIN found = 1..n
    BY <1>8, SomeList, Zenon
  <2>2. ASSUME NEW i \in 1..n, NEW j \in 1..n, found[i].ref = found[j].ref PROVE i = j
    <3>1. t[i] = t[j]
      BY <1>9, <2>2, Zenon
    <3> QED BY <1>7, <3>1, Zenon
  <2> QED BY <2>1, <2>2, Zenon DEF Scan!HandlesDiffer
<1>11. \A u : Listable(Objects1(u))
  <2> SUFFICES ASSUME NEW u PROVE Listable(Objects1(u))
    OBVIOUS
  <2> DEFINE o == Scan!HoldingRegister(registers[u])
  <2>1. o.instance = 0
    BY DEF Scan!HoldingRegister
  <2> HIDE DEF o
  <2>2. <<o>> \in Seq({o}) /\ 1 \in DOMAIN <<o>> /\ <<o>>[1] = o
    OBVIOUS
  <2>3. Listable(<<o>>)
    BY <2>1, <2>2, Zenon DEF Listable
  <2> QED BY <2>3, Zenon DEF o
<1> HIDE DEF Objects1, Unit
<1>12. \A i \in 1..n : Listable(found[i].objects)
  BY <1>9, <1>11, Zenon
<1>13. found = [i \in 1..n |-> found[i]]
  BY <1>8, Zenon
<1>14. ListedRight(found)
  BY <1>10, <1>12, <1>13, ListIsRight, Zenon
<1> QED BY <1>14, Zenon DEF found

\* A list of objects without an instance of their own.
LEMMA WithoutInstance ==
  ASSUME NEW n \in Nat, NEW objects, objects = [i \in 1..n |-> objects[i]],
         \A i \in 1..n : objects[i].instance = 0
  PROVE  Listable(objects)
<1>1. DOMAIN objects = 1..n /\ \E T : objects \in Seq(T)
  BY SomeList, Zenon
<1>2. (\E i \in 1..n : objects[i].instance = 0) \/ \A i, j \in 1..n : FALSE
  BY Zenon
<1> QED BY <1>1, <1>2, Zenon DEF Listable

\* Of the MQTT topics that are heard every device is listed once, and its parts
\* become points it can tell apart; for any topics, heard as often as they are.
THEOREM MqttAsDescribed ==
  ASSUME NEW E, NEW heard \in Seq(E)
  PROVE  ListedRight(Scan!DiscoverMqtt(heard))
<1> DEFINE who == [i \in DOMAIN heard |-> heard[i].device]
           devices == Scan!Firsts(who)
           Of(d) == Scan!Kept(heard, {i \in DOMAIN heard : heard[i].device = d})
           Called(d) == [i \in DOMAIN Of(d) |-> Of(d)[i].name]
           Parts(d) == Scan!Firsts(Called(d))
           LastOf(d, m) ==
             heard[Scan!Max({i \in DOMAIN heard : heard[i].device = d /\ heard[i].name = m})].value
           Objects1(d) == [j \in DOMAIN Parts(d) |->
                             [type |-> "unknown", instance |-> 0, name |-> Parts(d)[j],
                              value |-> LastOf(d, Parts(d)[j]),
                              ga |-> Scan!NoAddress, dpt |-> <<>>]]
           Unit(d) == Scan!Listed(d, "mqtt", IF d \in Nat THEN d ELSE NoAnswer, Objects1(d))
           found == Scan!DiscoverMqtt(heard)
<1>1. found = [i \in DOMAIN devices |-> Unit(devices[i])]
  BY Zenon DEF Scan!DiscoverMqtt
<1>2. ASSUME NEW d PROVE Listable(Objects1(d))
  <2> DEFINE parts == Parts(d)
             calls == Called(d)
  <2>1. Of(d) \in Seq(E)
    <3>1. {i \in DOMAIN heard : heard[i].device = d} \in SUBSET DOMAIN heard
      OBVIOUS
    <3> QED BY <3>1, KeptMembers, Zenon
  <2>2. Len(Of(d)) \in Nat /\ DOMAIN calls = 1..Len(Of(d)) /\ calls = [i \in 1..Len(Of(d)) |-> calls[i]]
    <3> HIDE DEF Of
    <3> QED BY <2>1
  <2>3. PICK T : calls \in Seq(T)
    <3> HIDE DEF calls, Of
    <3> QED BY <2>2, SomeList, Zenon
  <2>4. parts \in Seq(T)
    BY <2>3, FirstsDiffer, Zenon
  <2>5. Objects1(d) = [j \in DOMAIN parts |->
                         [type |-> "unknown", instance |-> 0, name |-> parts[j],
                          value |-> LastOf(d, parts[j]), ga |-> Scan!NoAddress, dpt |-> <<>>]]
    BY Zenon
  <2> DEFINE objects == Objects1(d)
  <2> HIDE DEF parts, objects, LastOf
  <2>6. DOMAIN parts = 1..Len(parts) /\ Len(parts) \in Nat
    BY <2>4
  <2>7. /\ objects = [j \in 1..Len(parts) |-> objects[j]]
        /\ \A j \in 1..Len(parts) : objects[j].instance = 0
    BY <2>5, <2>6 DEF objects
  <2>8. Listable(objects)
    BY <2>6, <2>7, WithoutInstance, Zenon
  <2> QED BY <2>8, Zenon DEF objects
<1> HIDE DEF Objects1, found
<1>3. PICK T : who \in Seq(T)
  <2>1. Len(heard) \in Nat /\ who = [i \in 1..Len(heard) |-> who[i]]
    OBVIOUS
  <2> HIDE DEF who
  <2> QED BY <2>1, SomeList, Zenon
<1> HIDE DEF who
<1>4. devices \in Seq(T) /\ \A i, j \in DOMAIN devices : devices[i] = devices[j] => i = j
  BY <1>3, FirstsDiffer, Zenon
<1> DEFINE n == Len(devices)
<1> HIDE DEF devices
<1>5. n \in Nat /\ DOMAIN devices = 1..n
  BY <1>4
<1>6. found = [i \in 1..n |-> Unit(devices[i])] /\ found = [i \in 1..n |-> found[i]]
  <2> HIDE DEF Unit, n
  <2> QED BY <1>1, <1>5
<1> HIDE DEF n
<1>7. \A i \in 1..n : found[i].ref = devices[i] /\ found[i].objects = Objects1(devices[i])
  <2>1. \A i \in 1..n : found[i] = Unit(devices[i])
    BY <1>6, Zenon
  <2>2. \A d : Unit(d).ref = d /\ Unit(d).objects = Objects1(d)
    BY DEF Scan!Listed
  <2> HIDE DEF Unit
  <2> QED BY <2>1, <2>2, Zenon
<1>8. Scan!HandlesDiffer(found)
  <2>1. DOMAIN found = 1..n
    BY <1>5, <1>6, SomeList, Zenon
  <2> QED BY <1>4, <1>5, <1>7, <2>1, Zenon DEF Scan!HandlesDiffer
<1> QED BY <1>2, <1>5, <1>6, <1>7, <1>8, ListIsRight, Zenon DEF found

\* A KNX line is one device at most, whether its gateway or a file tells of it,
\* and its addresses become its points; for any entries.
THEOREM KnxAsDescribed ==
  ASSUME NEW mode, NEW E, NEW entries \in Seq(E)
  PROVE  ListedRight(Scan!DiscoverKnx(mode, entries))
<1>1. ASSUME NEW device, Listable(device.objects) PROVE ListedRight(<<device>>)
  <2> DEFINE list == <<device>>
  <2>1. list = [i \in 1..1 |-> list[i]] /\ DOMAIN list = 1..1 /\ list[1] = device
    OBVIOUS
  <2>2. \A i \in 1..1 : i = 1
    OBVIOUS
  <2>3. 1 \in Nat
    OBVIOUS
  <2> HIDE DEF list
  <2>4. Scan!HandlesDiffer(list)
    BY <2>1, <2>2, Zenon DEF Scan!HandlesDiffer
  <2>5. \A i \in 1..1 : Listable(list[i].objects)
    BY <1>1, <2>1, <2>2, Zenon
  <2>6. ListedRight(list)
    BY <2>1, <2>3, <2>4, <2>5, ListIsRight, Zenon
  <2> QED BY <2>6, Zenon DEF list
<1>2. ASSUME NEW ref, NEW objects, Listable(objects)
      PROVE  ListedRight(<<Scan!Listed(ref, "knx", NoAnswer, objects)>>)
  <2>1. Scan!Listed(ref, "knx", NoAnswer, objects).objects = objects
    BY DEF Scan!Listed
  <2> QED BY <1>1, <1>2, <2>1, Zenon
<1>3. Listable(<<>>)
  <2>1. <<>> \in Seq({}) /\ DOMAIN <<>> = {}
    OBVIOUS
  <2> QED BY <2>1, Zenon DEF Listable
<1>4. Listable(Scan!DiscoveredKnx(entries))
  <2> DEFINE objects == Scan!DiscoveredKnx(entries)
  <2>1. /\ Len(entries) \in Nat
        /\ objects = [i \in 1..Len(entries) |-> objects[i]]
        /\ \A i \in 1..Len(entries) : objects[i].instance = 0
    BY DEF Scan!DiscoveredKnx
  <2> HIDE DEF objects
  <2> QED BY <2>1, WithoutInstance, Zenon DEF objects
<1> QED BY <1>2, <1>3, <1>4, Zenon DEF Scan!DiscoverKnx

\* So does each of the other three scans.
LEMMA ProbeRight == Probe => DevicesAsDescribed'
<1> SUFFICES ASSUME Probe PROVE DevicesAsDescribed'
  OBVIOUS
<1>1. topic' = "units"
  BY Zenon DEF Probe, Asked
<1>2. ASSUME NEW list, call' = <<list>>, ListedRight(list) PROVE DevicesAsDescribed'
  <2>1. call'[1] = list
    BY <1>2
  <2> QED BY <1>1, <1>2, <2>1, Zenon DEF DevicesAsDescribed
<1>3. CASE \E registers \in [1..3 -> {NoAnswer, 5}] : call' = <<Scan!DiscoverModbus(1, 3, registers)>>
  <2>1. 1 \in Nat /\ 3 \in Nat
    OBVIOUS
  <2>2. \A first \in Nat : \A last \in Nat : \A registers :
          ListedRight(Scan!DiscoverModbus(first, last, registers))
    BY ModbusAsDescribed, Zenon
  <2> QED BY <1>2, <1>3, <2>1, <2>2
<1>4. CASE \E heard \in [1..3 -> [device : {1, NoAnswer}, name : {"a", "b"}, value : {1, 2}]] :
             call' = <<Scan!DiscoverMqtt(heard)>>
  <2> DEFINE Message == [device : {1, NoAnswer}, name : {"a", "b"}, value : {1, 2}]
  <2>1. PICK heard \in [1..3 -> Message] : call' = <<Scan!DiscoverMqtt(heard)>>
    BY <1>4
  <2> HIDE DEF Message
  <2>2. heard \in Seq(Message)
    <3>1. 3 \in Nat
      OBVIOUS
    <3> QED BY <3>1, IsList, Zenon
  <2> QED BY <1>2, <2>1, <2>2, MqttAsDescribed, Zenon
<1>5. CASE \E mode \in {"gateway", "ets_file"}, e \in Entries :
             call' = <<Scan!DiscoverKnx(mode, <<e>>)>>
  <2>1. PICK mode \in {"gateway", "ets_file"}, e \in Entries : call' = <<Scan!DiscoverKnx(mode, <<e>>)>>
    BY <1>5, Zenon
  <2>2. <<e>> \in Seq(Entries)
    BY ShortSequences, Zenon
  <2> QED BY <1>2, <2>1, <2>2, KnxAsDescribed, Zenon
<1> QED BY <1>3, <1>4, <1>5, Zenon DEF Probe

-----------------------------------------------------------------------------
(***************************************************************************)
(* The fleet                                                               *)
(***************************************************************************)
\* The greatest of finitely many numbers.
LEMMA GreatestIs ==
  ASSUME NEW S \in SUBSET Int, IsFiniteSet(S), S # {}
  PROVE  Fleets!Max(S) \in S /\ \A y \in S : y <= Fleets!Max(S)
<1> DEFINE R == {e \in S \X S : e[1] < e[2]}
<1>1. \A x, y \in S : <<x, y>> \in R <=> x < y
  OBVIOUS
<1> HIDE DEF R
<1>2. InLine(S, R)
  BY <1>1 DEF InLine
<1>3. PICK x \in S : \A y \in S : y = x \/ <<y, x>> \in R
  BY <1>2, HasLast
<1>4. \A y \in S : x >= y
  <2>1. \A y \in S : y = x \/ y < x
    BY <1>1, <1>3, Zenon
  <2> QED BY <2>1
<1> DEFINE m == Fleets!Max(S)
<1>5. m \in S /\ \A y \in S : m >= y
  BY <1>4, Zenon DEF Fleets!Max
<1> HIDE DEF m
<1>6. \A y \in S : y <= m
  BY <1>5
<1> QED BY <1>5, <1>6, Zenon DEF m

\* Of two, the greater, and the lesser.
LEMMA GreatestOfTwo ==
  ASSUME NEW a \in Int, NEW b \in Int
  PROVE  /\ Fleets!Max({a, b}) = IF a >= b THEN a ELSE b
         /\ Fleets!Min({a, b}) = IF a <= b THEN a ELSE b
<1>1. CASE a >= b
  <2>1. Fleets!Max({a, b}) = a
    BY <1>1 DEF Fleets!Max
  <2>2. Fleets!Min({a, b}) = b
    BY <1>1 DEF Fleets!Min
  <2> QED BY <1>1, <2>1, <2>2
<1>2. CASE a < b
  <2>1. Fleets!Max({a, b}) = b
    BY <1>2 DEF Fleets!Max
  <2>2. Fleets!Min({a, b}) = a
    BY <1>2 DEF Fleets!Min
  <2> QED BY <1>2, <2>1, <2>2
<1> QED BY <1>1, <1>2

\* At most eight devices of a fleet open a BACnet stack, at least two.
LEMMA QuotaIs == \A count \in Nat : Fleets!BacnetQuota(count) \in 2..8
<1> SUFFICES ASSUME NEW count \in Nat PROVE Fleets!BacnetQuota(count) \in 2..8
  OBVIOUS
<1> DEFINE q == count \div 20
           m == Fleets!Min({8, q})
<1>1. q \in Int
  OBVIOUS
<1> HIDE DEF q
<1>2. m = IF 8 <= q THEN 8 ELSE q
  BY <1>1, GreatestOfTwo
<1>3. m \in Int /\ m <= 8
  BY <1>1, <1>2
<1> HIDE DEF m
<1>4. Fleets!Max({2, m}) = IF 2 >= m THEN 2 ELSE m
  BY <1>3, GreatestOfTwo
<1>5. Fleets!BacnetQuota(count) = Fleets!Max({2, m})
  BY Zenon DEF Fleets!BacnetQuota, m, q
<1> QED BY <1>3, <1>4, <1>5

-----------------------------------------------------------------------------
\* The devices of the files, with words of W: points are told apart, and a
\* simulation has its centre within its bounds.
FullNames(W) == [device : W, local : W]

SimsWith(W) ==
  {s \in [model : W, low : Int, centre : Int, high : Int] : s.low <= s.centre /\ s.centre <= s.high}

PointsWith(W) ==
  [type : W, instance : Int, name : FullNames(W), refs : SUBSET FullNames(W), value : Int,
   unit : W, sim : SimsWith(W)]

DevicesWith(W) ==
  {d \in [id : Int, name : W, protocol : W, points : Seq(PointsWith(W))] : Fleets!TellApart(d.points)}

\* What a name becomes in a copy.
LEMMA RewriteIs ==
  ASSUME NEW W, NEW r \in FullNames(W), NEW old, NEW new
  PROVE  Fleets!Rewrite(r, old, new) =
           [device |-> IF r.device = old THEN new ELSE r.device, local |-> r.local]
BY DEF Fleets!Rewrite, FullNames

\* What a point becomes in a copy.
CopiedPoint(p, old, new, sim) ==
  [type |-> p.type, instance |-> p.instance, name |-> Fleets!Rewrite(p.name, old, new),
   refs |-> {Fleets!Rewrite(r, old, new) : r \in p.refs}, value |-> p.value, unit |-> p.unit,
   sim |-> sim]

\* A point becomes this when it is copied, and when it is given another
\* simulation after that.
LEMMA ClonePointIs ==
  ASSUME NEW W, NEW p \in PointsWith(W), NEW old, NEW new
  PROVE  /\ Fleets!ClonePoint(p, old, new) = CopiedPoint(p, old, new, p.sim)
         /\ \A sim : [Fleets!ClonePoint(p, old, new) EXCEPT !.sim = sim] = CopiedPoint(p, old, new, sim)
<1> DEFINE name == Fleets!Rewrite(p.name, old, new)
           refs == {Fleets!Rewrite(r, old, new) : r \in p.refs}
           q == [p EXCEPT !.name = name, !.refs = refs]
<1>1. Fleets!ClonePoint(p, old, new) = q
  BY Zenon DEF Fleets!ClonePoint
<1> HIDE DEF name, refs
<1>2. q = [type |-> p.type, instance |-> p.instance, name |-> name, refs |-> refs,
           value |-> p.value, unit |-> p.unit, sim |-> p.sim]
  <2>1. p = [type |-> p.type, instance |-> p.instance, name |-> p.name, refs |-> p.refs,
             value |-> p.value, unit |-> p.unit, sim |-> p.sim]
    BY DEF PointsWith
  <2> DEFINE whole == [type |-> p.type, instance |-> p.instance, name |-> p.name, refs |-> p.refs,
                       value |-> p.value, unit |-> p.unit, sim |-> p.sim]
             named == [type |-> p.type, instance |-> p.instance, name |-> name, refs |-> p.refs,
                       value |-> p.value, unit |-> p.unit, sim |-> p.sim]
  <2>2. [p EXCEPT !.name = name, !.refs = refs] = [[p EXCEPT !.name = name] EXCEPT !.refs = refs]
    OBVIOUS
  <2>3. [whole EXCEPT !.name = name] = named
    OBVIOUS
  <2>5. [named EXCEPT !.refs = refs] =
          [type |-> p.type, instance |-> p.instance, name |-> name, refs |-> refs,
           value |-> p.value, unit |-> p.unit, sim |-> p.sim]
    OBVIOUS
  <2>4. p = whole
    BY <2>1, Zenon
  <2> HIDE DEF whole, named
  <2> QED BY <2>2, <2>3, <2>4, <2>5, Zenon
<1>3. \A sim : [[type |-> p.type, instance |-> p.instance, name |-> name, refs |-> refs,
                 value |-> p.value, unit |-> p.unit, sim |-> p.sim] EXCEPT !.sim = sim] =
               [type |-> p.type, instance |-> p.instance, name |-> name, refs |-> refs,
                value |-> p.value, unit |-> p.unit, sim |-> sim]
  OBVIOUS
<1> QED BY <1>1, <1>2, <1>3, Zenon DEF CopiedPoint, name, refs

\* What a device becomes in a copy.
LEMMA CloneIs ==
  ASSUME NEW W, NEW base \in DevicesWith(W), NEW number, NEW new
  PROVE  Fleets!Clone(base, number, new) =
           [id |-> number, name |-> new, protocol |-> base.protocol,
            points |-> [i \in DOMAIN base.points |->
                          CopiedPoint(base.points[i], base.name, new, base.points[i].sim)]]
<1> DEFINE list == [i \in DOMAIN base.points |-> Fleets!ClonePoint(base.points[i], base.name, new)]
<1>1. Fleets!Clone(base, number, new) = [base EXCEPT !.id = number, !.name = new, !.points = list]
  BY Zenon DEF Fleets!Clone
<1>2. base.points \in Seq(PointsWith(W))
  BY DEF DevicesWith
<1>3. \A i \in DOMAIN base.points : base.points[i] \in PointsWith(W)
  <2> DEFINE P == PointsWith(W)
             seq == base.points
  <2>1. seq \in Seq(P)
    BY <1>2
  <2> HIDE DEF P, seq
  <2>2. \A i \in DOMAIN seq : seq[i] \in P
    BY <2>1
  <2> QED BY <2>2, Zenon DEF P, seq
<1>4. list = [i \in DOMAIN base.points |->
                  CopiedPoint(base.points[i], base.name, new, base.points[i].sim)]
  BY <1>3, ClonePointIs, Zenon
<1> HIDE DEF list
<1>5. [base EXCEPT !.id = number, !.name = new, !.points = list] =
        [id |-> number, name |-> new, protocol |-> base.protocol, points |-> list]
  <2> DEFINE whole == [id |-> base.id, name |-> base.name, protocol |-> base.protocol,
                       points |-> base.points]
  <2>1. base = whole
    BY DEF DevicesWith
  <2>2. [base EXCEPT !.id = number, !.name = new, !.points = list] =
          [[[base EXCEPT !.id = number] EXCEPT !.name = new] EXCEPT !.points = list]
    OBVIOUS
  <2> DEFINE second == [id |-> number, name |-> base.name, protocol |-> base.protocol,
                        points |-> base.points]
             third == [id |-> number, name |-> new, protocol |-> base.protocol, points |-> base.points]
  <2>3. [whole EXCEPT !.id = number] = second
    OBVIOUS
  <2>4. [second EXCEPT !.name = new] = third
    OBVIOUS
  <2>5. [third EXCEPT !.points = list] =
          [id |-> number, name |-> new, protocol |-> base.protocol, points |-> list]
    OBVIOUS
  <2> HIDE DEF whole, second, third
  <2> QED BY <2>1, <2>2, <2>3, <2>4, <2>5, Zenon
<1> QED BY <1>1, <1>4, <1>5, Zenon

\* A copy whose points are those of the template, and others without a
\* reference, stands alone.
LEMMA CopyStandsAlone ==
  ASSUME NEW W, NEW base \in DevicesWith(W), NEW copy, copy.name # base.name,
         DOMAIN base.points \subseteq DOMAIN copy.points,
         \A i \in DOMAIN base.points :
           /\ copy.points[i].name = Fleets!Rewrite(base.points[i].name, base.name, copy.name)
           /\ copy.points[i].refs =
                {Fleets!Rewrite(r, base.name, copy.name) : r \in base.points[i].refs},
         \A i \in DOMAIN copy.points \ DOMAIN base.points : copy.points[i].refs = {}
  PROVE  Fleets!StandsAlone(base, copy)
<1> DEFINE old == base.name
           new == copy.name
           from == base.points
           to == copy.points
<1>1. \A i \in DOMAIN from : from[i].name \in FullNames(W) /\ from[i].refs \in SUBSET FullNames(W)
  <2> DEFINE P == PointsWith(W)
  <2>1. from \in Seq(P)
    BY DEF DevicesWith
  <2>2. \A p \in P : p.name \in FullNames(W) /\ p.refs \in SUBSET FullNames(W)
    BY DEF PointsWith
  <2> HIDE DEF P, from
  <2> QED BY <2>1, <2>2
<1> HIDE DEF old, new, from, to
<1>2. /\ new # old /\ DOMAIN from \subseteq DOMAIN to
      /\ \A i \in DOMAIN from :
           /\ to[i].name = Fleets!Rewrite(from[i].name, old, new)
           /\ to[i].refs = {Fleets!Rewrite(r, old, new) : r \in from[i].refs}
      /\ \A i \in DOMAIN to \ DOMAIN from : to[i].refs = {}
  BY Zenon DEF old, new, from, to
<1>3. ASSUME NEW i \in DOMAIN from, NEW r \in from[i].refs, r \in Fleets!Names(base), r.device = old
      PROVE  [device |-> new, local |-> r.local] \in Fleets!Names(copy) \cap to[i].refs
  <2>1. r \in FullNames(W)
    BY <1>1
  <2>2. Fleets!Rewrite(r, old, new) = [device |-> new, local |-> r.local]
    BY <1>3, <2>1, RewriteIs, Zenon
  <2>3. PICK j \in DOMAIN from : r = from[j].name
    BY <1>3 DEF Fleets!Names, from
  <2>4. to[j].name = [device |-> new, local |-> r.local] /\ j \in DOMAIN to
    BY <1>2, <2>2, <2>3
  <2>5. [device |-> new, local |-> r.local] \in Fleets!Names(copy)
    <3> DEFINE q == [device |-> new, local |-> r.local]
    <3>1. q = to[j].name
      BY <2>4
    <3> HIDE DEF q
    <3>2. Fleets!Names(copy) = {to[k].name : k \in DOMAIN to}
      BY Zenon DEF Fleets!Names, to
    <3>3. q \in Fleets!Names(copy)
      BY <2>4, <3>1, <3>2
    <3> QED BY <3>3 DEF q
  <2>6. Fleets!Rewrite(r, old, new) \in to[i].refs
    BY <1>2
  <2> QED BY <2>2, <2>5, <2>6, Zenon
<1>4. ASSUME NEW i \in DOMAIN to, NEW r \in to[i].refs PROVE r.device # old
  <2>1. i \in DOMAIN from
    BY <1>2
  <2>2. PICK q \in from[i].refs : r = Fleets!Rewrite(q, old, new)
    BY <1>2, <2>1
  <2>3. q \in FullNames(W)
    BY <1>1, <2>1
  <2>4. r = [device |-> IF q.device = old THEN new ELSE q.device, local |-> q.local]
    <3>1. Fleets!Rewrite(q, old, new) =
            [device |-> IF q.device = old THEN new ELSE q.device, local |-> q.local]
      BY <2>3, RewriteIs
    <3> QED BY <2>2, <3>1, Zenon
  <2> QED BY <1>2, <2>4
<1> QED BY <1>3, <1>4, Zenon DEF Fleets!StandsAlone, old, new, from, to

\* A simulation that starts where it may be.
Within(sim) == sim.low <= sim.centre /\ sim.centre <= sim.high

\* The points of a device.
LEMMA PointsOfDevice ==
  ASSUME NEW V, NEW device \in DevicesWith(V)
  PROVE  /\ device.points \in Seq(PointsWith(V)) /\ Fleets!TellApart(device.points)
         /\ DOMAIN device.points = 1..Len(device.points) /\ Len(device.points) \in Nat
         /\ \A i \in DOMAIN device.points :
              device.points[i] \in PointsWith(V) /\ Within(device.points[i].sim)
<1> DEFINE P == PointsWith(V)
           seq == device.points
<1>1. seq \in Seq(P) /\ Fleets!TellApart(seq)
  BY DEF DevicesWith
<1>2. \A p \in P : Within(p.sim)
  BY DEF PointsWith, SimsWith, Within
<1> HIDE DEF P, seq
<1>3. DOMAIN seq = 1..Len(seq) /\ Len(seq) \in Nat /\ \A i \in DOMAIN seq : seq[i] \in P
  BY <1>1
<1> QED BY <1>1, <1>2, <1>3, Zenon DEF P, seq

\* A random walk keeps within its bounds, and is a dynamic model.
LEMMA RandomWalkIs ==
  ASSUME NEW centre \in Int
  PROVE  Within(Fleets!RandomWalk(centre)) /\ Fleets!RandomWalk(centre).model \in Fleets!Dynamic
<1> DEFINE walk == Fleets!RandomWalk(centre)
<1>1. /\ walk.model = "random_walk" /\ walk.low = centre - 2000 /\ walk.centre = centre
      /\ walk.high = centre + 2000
  BY DEF Fleets!RandomWalk
<1>2. "random_walk" \in Fleets!Dynamic
  BY DEF Fleets!Dynamic
<1> HIDE DEF walk
<1>3. Within(walk)
  BY <1>1 DEF Within
<1>4. walk.model \in Fleets!Dynamic
  BY <1>1, <1>2
<1> QED BY <1>3, <1>4, Zenon DEF walk

\* A point with a model and a unit of which there can be anomalies.
Capable(q) == Fleets!IsDynamicAnalog(q) /\ q.unit \in Fleets!HardLimitUnits

\* A promoted input is such a point.
LEMMA PromotedIs ==
  ASSUME NEW V, NEW p \in PointsWith(V), p.type = "analogInput"
  PROVE  LET q == Fleets!Promoted(p)
         IN  /\ q.type = p.type /\ q.instance = p.instance /\ q.name = p.name /\ q.refs = p.refs
             /\ Within(q.sim) /\ Capable(q)
<1> DEFINE sim == IF Fleets!IsDynamicAnalog(p) THEN p.sim ELSE Fleets!RandomWalk(p.value)
           unit == IF p.unit \in Fleets!HardLimitUnits THEN p.unit ELSE "degC"
           q == Fleets!Promoted(p)
<1>1. q = [p EXCEPT !.sim = sim, !.unit = unit]
  BY Zenon DEF Fleets!Promoted
<1>2. Within(sim) /\ sim.model \in Fleets!Dynamic
  <2>1. Within(p.sim) /\ p.value \in Int
    BY DEF PointsWith, SimsWith, Within
  <2>2. Fleets!IsDynamicAnalog(p) => p.sim.model \in Fleets!Dynamic
    BY Zenon DEF Fleets!IsDynamicAnalog
  <2> QED BY <2>1, <2>2, RandomWalkIs, Zenon
<1>3. unit \in Fleets!HardLimitUnits
  BY DEF Fleets!HardLimitUnits
<1>4. "analogInput" \in Fleets!Analog
  BY DEF Fleets!Analog
<1> HIDE DEF sim, unit, q
<1>5. /\ q.type = p.type /\ q.instance = p.instance /\ q.name = p.name /\ q.refs = p.refs
      /\ q.sim = sim /\ q.unit = unit
  BY <1>1 DEF PointsWith
<1>6. Capable(q)
  BY <1>2, <1>3, <1>4, <1>5, Zenon DEF Capable, Fleets!IsDynamicAnalog
<1> QED BY <1>2, <1>5, <1>6, Zenon DEF q

\* A device that can have an anomaly, with the points of d and at most others
\* that refer to nothing.
Ensured(d, e) ==
  /\ e.name = d.name /\ e.id = d.id /\ e.protocol = d.protocol
  /\ DOMAIN d.points \subseteq DOMAIN e.points
  /\ \A i \in DOMAIN d.points :
       e.points[i].name = d.points[i].name /\ e.points[i].refs = d.points[i].refs
  /\ \A i \in DOMAIN e.points \ DOMAIN d.points : e.points[i].refs = {}
  /\ Fleets!AnomalyCapable(e) /\ Fleets!TellApart(e.points)
  /\ \A i \in DOMAIN e.points : Within(e.points[i].sim)

\* The same device with other points.
LEMMA OtherPoints ==
  ASSUME NEW V, NEW d \in DevicesWith(V), NEW list
  PROVE  LET e == [d EXCEPT !.points = list]
         IN  e.name = d.name /\ e.id = d.id /\ e.protocol = d.protocol /\ e.points = list
BY DEF DevicesWith

\* An input that is promoted in its place.
LEMMA PromotedInPlace ==
  ASSUME NEW V, NEW d \in DevicesWith(V), NEW input \in DOMAIN d.points,
         d.points[input].type = "analogInput"
  PROVE  Ensured(d, [d EXCEPT !.points[input] = Fleets!Promoted(@)])
<1> DEFINE from == d.points
           q == Fleets!Promoted(from[input])
           to == [from EXCEPT ![input] = q]
           e == [d EXCEPT !.points[input] = Fleets!Promoted(@)]
<1>1. /\ from \in Seq(PointsWith(V)) /\ Fleets!TellApart(from)
      /\ \A i \in DOMAIN from : from[i] \in PointsWith(V) /\ Within(from[i].sim)
  BY PointsOfDevice, Zenon
<1>2. e = [d EXCEPT !.points = to]
  OBVIOUS
<1>3. e.name = d.name /\ e.id = d.id /\ e.protocol = d.protocol /\ e.points = to
  <2> HIDE DEF e, to
  <2> QED BY <1>2, OtherPoints, Zenon
<1>4. /\ q.type = from[input].type /\ q.instance = from[input].instance
      /\ q.name = from[input].name /\ q.refs = from[input].refs
      /\ Within(q.sim) /\ Capable(q)
  BY <1>1, PromotedIs, Zenon
<1> HIDE DEF from, q, e
<1>5. DOMAIN to = DOMAIN from /\ to[input] = q /\ \A i \in DOMAIN from : i # input => to[i] = from[i]
  BY <1>1 DEF from
<1> HIDE DEF to
<1>6. \A i \in DOMAIN from : /\ to[i].name = from[i].name /\ to[i].refs = from[i].refs
                             /\ to[i].type = from[i].type /\ to[i].instance = from[i].instance
                             /\ Within(to[i].sim)
  BY <1>1, <1>4, <1>5, Zenon
<1>7. Fleets!TellApart(to)
  BY <1>1, <1>5, <1>6, Zenon DEF Fleets!TellApart
<1>8. Fleets!AnomalyCapable(e)
  <2>1. input \in DOMAIN to /\ Capable(to[input])
    BY <1>4, <1>5, Zenon DEF from
  <2> QED BY <1>3, <2>1, Zenon DEF Fleets!AnomalyCapable, Capable
<1>9. Ensured(d, e)
  BY <1>3, <1>5, <1>6, <1>7, <1>8, Zenon DEF Ensured, from
<1> QED BY <1>9, Zenon DEF e

\* The points of d and one more, with an instance beyond theirs.
Extended(d, q) == [d EXCEPT !.points = Append(@, q)]

\* One more point that can have an anomaly is enough.
LEMMA OneMore ==
  ASSUME NEW V, NEW d \in DevicesWith(V), NEW q, NEW m \in Int, q.instance = m, q.refs = {},
         Within(q.sim), Capable(q),
         \A i \in DOMAIN d.points : d.points[i].instance < m
  PROVE  Ensured(d, Extended(d, q))
<1> DEFINE from == d.points
           to == Append(from, q)
           e == Extended(d, q)
           n == Len(from)
<1>1. /\ from \in Seq(PointsWith(V)) /\ Fleets!TellApart(from)
      /\ DOMAIN from = 1..n /\ n \in Nat
      /\ \A i \in DOMAIN from : from[i] \in PointsWith(V) /\ Within(from[i].sim)
  BY PointsOfDevice, Zenon
<1>2. e.name = d.name /\ e.id = d.id /\ e.protocol = d.protocol /\ e.points = to
  BY OtherPoints, Zenon DEF Extended
<1> HIDE DEF from, e
<1>3. DOMAIN to = 1..(n + 1) /\ to[n + 1] = q /\ \A i \in 1..n : to[i] = from[i]
  BY <1>1
<1> HIDE DEF to
<1>4. DOMAIN from \subseteq DOMAIN to /\ n + 1 \in DOMAIN to
  BY <1>1, <1>3
<1>5. \A i \in DOMAIN to : i \in DOMAIN from \/ i = n + 1
  BY <1>1, <1>3
<1>6. \A i \in DOMAIN from : from[i].instance # m
  <2>1. \A i \in DOMAIN from : from[i].instance \in Int
    <3>1. \A p \in PointsWith(V) : p.instance \in Int
      BY DEF PointsWith
    <3> QED BY <1>1, <3>1, Zenon
  <2> QED BY <2>1 DEF from
<1>7. \A i, j \in DOMAIN to :
        to[i].type = to[j].type /\ to[i].instance = to[j].instance => i = j
  BY <1>1, <1>3, <1>5, <1>6, Zenon DEF Fleets!TellApart
<1>8. \A i \in DOMAIN to : Within(to[i].sim)
  BY <1>1, <1>3, <1>5, Zenon
<1>9. Fleets!AnomalyCapable(e)
  BY <1>2, <1>3, <1>4, Zenon DEF Fleets!AnomalyCapable, Capable
<1>10. \A i \in DOMAIN from : to[i].name = from[i].name /\ to[i].refs = from[i].refs
  BY <1>1, <1>3, Zenon
<1>11. \A i \in DOMAIN to \ DOMAIN from : to[i].refs = {}
  BY <1>3, <1>5, Zenon
<1>12. Ensured(d, e)
  BY <1>2, <1>4, <1>7, <1>8, <1>9, <1>10, <1>11, Zenon DEF Ensured, Fleets!TellApart, from
<1> QED BY <1>12, Zenon DEF e

\* Every device of the fleet can have an anomaly.
LEMMA EnsureIs ==
  ASSUME NEW V, NEW d \in DevicesWith(V)
  PROVE  Ensured(d, Fleets!EnsureAnomalyCapable(d))
<1> DEFINE I == {i \in 1..Len(d.points) : d.points[i].type = "analogInput"}
           input == IF I # {} THEN Fleets!Min(I) ELSE 0
           instances == {d.points[i].instance : i \in DOMAIN d.points} \cup {0}
           m == Fleets!Max(instances)
           temperature ==
             [type |-> "analogInput", instance |-> m + 1,
              name |-> [device |-> d.name, local |-> "Temperature"], refs |-> {},
              value |-> 2200, unit |-> "degC", sim |-> Fleets!RandomWalk(2200)]
           result == Fleets!EnsureAnomalyCapable(d)
           promoted == [d EXCEPT !.points[input] = Fleets!Promoted(@)]
           extended == Extended(d, temperature)
<1>1. result = IF Fleets!AnomalyCapable(d) THEN d ELSE IF input # 0 THEN promoted ELSE extended
  BY Zenon DEF Fleets!EnsureAnomalyCapable, Fleets!SelectInSeq, Extended
<1> HIDE DEF result
<1>2. /\ d.points \in Seq(PointsWith(V)) /\ Fleets!TellApart(d.points)
      /\ DOMAIN d.points = 1..Len(d.points) /\ Len(d.points) \in Nat
      /\ \A i \in DOMAIN d.points : d.points[i] \in PointsWith(V) /\ Within(d.points[i].sim)
  BY PointsOfDevice, Zenon
<1>3. CASE Fleets!AnomalyCapable(d)
  <2>1. Ensured(d, d)
    BY <1>2, <1>3, Zenon DEF Ensured
  <2> HIDE DEF promoted, extended
  <2>2. result = d
    BY <1>1, <1>3, Zenon
  <2> QED BY <2>1, <2>2, Zenon DEF result
<1>4. CASE ~Fleets!AnomalyCapable(d) /\ input # 0
  <2>1. I # {}
    BY <1>4, Zenon
  <2>2. I \in SUBSET Nat
    OBVIOUS
  <2>3. \A i \in I : i \in DOMAIN d.points /\ d.points[i].type = "analogInput"
    BY <1>2
  <2> HIDE DEF I
  <2>4. \E x \in I : \A y \in I : x <= y
    BY <2>1, <2>2, HasLeast
  <2>5. Fleets!Min(I) \in I
    BY <2>4, Zenon DEF Fleets!Min
  <2>6. input \in I
    BY <2>1, <2>5, Zenon
  <2> HIDE DEF input
  <2>7. Ensured(d, promoted)
    BY <2>3, <2>6, PromotedInPlace, Zenon
  <2> HIDE DEF promoted, extended
  <2>8. result = promoted
    BY <1>1, <1>4, Zenon
  <2> QED BY <2>7, <2>8, Zenon DEF result
<1>5. CASE ~Fleets!AnomalyCapable(d) /\ input = 0
  <2>1. instances \in SUBSET Int /\ IsFiniteSet(instances) /\ instances # {}
    <3> DEFINE S == {d.points[i].instance : i \in DOMAIN d.points}
    <3>1. S \in SUBSET Int
      <4>1. \A p \in PointsWith(V) : p.instance \in Int
        BY DEF PointsWith
      <4> QED BY <1>2, <4>1
    <3>2. IsFiniteSet(DOMAIN d.points)
      <4>1. 1 \in Int /\ Len(d.points) \in Int
        BY <1>2
      <4> QED BY <1>2, <4>1, FS_Interval, Zenon
    <3>3. IsFiniteSet(S)
      <4> DEFINE f == [i \in DOMAIN d.points |-> d.points[i].instance]
      <4>1. f \in Surjection(DOMAIN d.points, S)
        BY DEF Surjection
      <4> HIDE DEF f, S
      <4> QED BY <3>2, <4>1, FS_Surjection, Zenon
    <3> HIDE DEF S
    <3>4. IsFiniteSet(S \cup {0})
      BY <3>3, FS_AddElement
    <3> QED BY <3>1, <3>4 DEF S
  <2>2. m \in instances /\ \A y \in instances : y <= m
    <3> HIDE DEF instances
    <3> QED BY <2>1, GreatestIs, Zenon
  <2>3. m \in Int
    BY <2>1, <2>2, Zenon
  <2>4. \A i \in DOMAIN d.points : d.points[i].instance \in instances
    OBVIOUS
  <2> HIDE DEF m, instances
  <2>5. \A i \in DOMAIN d.points : d.points[i].instance < m + 1
    <3>1. \A y \in instances : y < m + 1
      BY <2>1, <2>2, <2>3
    <3> QED BY <2>4, <3>1, Zenon
  <2>6. m + 1 \in Int
    BY <2>3
  <2>7. /\ temperature.instance = m + 1 /\ temperature.refs = {}
        /\ temperature.sim = Fleets!RandomWalk(2200) /\ temperature.type = "analogInput"
        /\ temperature.unit = "degC"
    OBVIOUS
  <2> HIDE DEF temperature
  <2>8. Within(temperature.sim) /\ Capable(temperature)
    <3>1. Within(Fleets!RandomWalk(2200)) /\ Fleets!RandomWalk(2200).model \in Fleets!Dynamic
      BY RandomWalkIs
    <3>2. "analogInput" \in Fleets!Analog /\ "degC" \in Fleets!HardLimitUnits
      BY DEF Fleets!Analog, Fleets!HardLimitUnits
    <3>3. Within(temperature.sim) /\ temperature.sim.model \in Fleets!Dynamic
      BY <2>7, <3>1
    <3>4. temperature.type \in Fleets!Analog /\ temperature.unit \in Fleets!HardLimitUnits
      BY <2>7, <3>2
    <3> QED BY <3>3, <3>4, Zenon DEF Capable, Fleets!IsDynamicAnalog
  <2>9. Ensured(d, extended)
    <3> DEFINE k == m + 1
    <3>1. /\ k \in Int /\ temperature.instance = k
          /\ \A i \in DOMAIN d.points : d.points[i].instance < k
      BY <2>5, <2>6, <2>7
    <3> HIDE DEF k
    <3>2. temperature.refs = {}
      BY <2>7
    <3>3. \A W : \A a \in DevicesWith(W) : \A q : \A l \in Int :
            /\ q.instance = l /\ q.refs = {} /\ Within(q.sim) /\ Capable(q)
            /\ \A i \in DOMAIN a.points : a.points[i].instance < l
            => Ensured(a, Extended(a, q))
      BY OneMore, Zenon
    <3> QED BY <2>8, <3>1, <3>2, <3>3, Zenon
  <2> HIDE DEF input, promoted, extended
  <2>10. result = extended
    BY <1>1, <1>5, Zenon DEF extended
  <2> QED BY <2>9, <2>10, Zenon DEF result
<1> QED BY <1>3, <1>4, <1>5, Zenon

\* A simulation that is scaled keeps its centre within its bounds.
LEMMA JitterIs ==
  ASSUME NEW W, NEW sim \in SimsWith(W), NEW percent \in Nat
  PROVE  Fleets!Jitter(sim, percent) \in SimsWith(W)
<1> DEFINE s == Fleets!Jitter(sim, percent)
<1>1. s = [sim EXCEPT !.low = percent * sim.low, !.centre = percent * sim.centre,
                      !.high = percent * sim.high]
  BY Zenon DEF Fleets!Jitter
<1>2. \A a, b \in Int : a <= b => percent * a <= percent * b
  <2> SUFFICES ASSUME NEW a \in Int, NEW b \in Int, a <= b PROVE percent * a <= percent * b
    OBVIOUS
  <2>1. percent * b - percent * a = percent * (b - a)
    OBVIOUS
  <2>2. b - a \in Nat
    OBVIOUS
  <2>3. percent * (b - a) \in Nat
    BY <2>2
  <2>4. percent * a \in Int /\ percent * b \in Int
    OBVIOUS
  <2> QED BY <2>1, <2>3, <2>4
<1>3. /\ sim.low \in Int /\ sim.centre \in Int /\ sim.high \in Int /\ sim.model \in W
      /\ sim.low <= sim.centre /\ sim.centre <= sim.high
      /\ sim = [model |-> sim.model, low |-> sim.low, centre |-> sim.centre, high |-> sim.high]
  BY DEF SimsWith
<1>4. \A a \in Int : percent * a \in Int
  OBVIOUS
<1> DEFINE l == percent * sim.low
           c == percent * sim.centre
           h == percent * sim.high
<1>5. l \in Int /\ c \in Int /\ h \in Int /\ l <= c /\ c <= h
  BY <1>2, <1>3, <1>4, Zenon
<1>6. s = [sim EXCEPT !.low = l, !.centre = c, !.high = h]
  BY <1>1
<1> HIDE DEF l, c, h, s
<1>7. s \in [model : W, low : Int, centre : Int, high : Int] /\ s.low = l /\ s.centre = c /\ s.high = h
  BY <1>3, <1>5, <1>6 DEF SimsWith
<1>8. s \in SimsWith(W)
  BY <1>5, <1>7 DEF SimsWith
<1> QED BY <1>8 DEF s

\* A copied point has the words of the template, and the new name.
LEMMA CopiedPointIn ==
  ASSUME NEW W, NEW V, W \subseteq V, NEW new \in V, NEW old, NEW p \in PointsWith(W),
         NEW sim \in SimsWith(W)
  PROVE  CopiedPoint(p, old, new, sim) \in PointsWith(V)
<1> DEFINE name == Fleets!Rewrite(p.name, old, new)
           refs == {Fleets!Rewrite(r, old, new) : r \in p.refs}
<1>1. /\ p.type \in V /\ p.instance \in Int /\ p.name \in FullNames(W)
      /\ p.refs \in SUBSET FullNames(W) /\ p.value \in Int /\ p.unit \in V
  BY DEF PointsWith
<1>2. \A r \in FullNames(W) : Fleets!Rewrite(r, old, new) \in FullNames(V)
  <2> SUFFICES ASSUME NEW r \in FullNames(W) PROVE Fleets!Rewrite(r, old, new) \in FullNames(V)
    OBVIOUS
  <2>1. Fleets!Rewrite(r, old, new) =
          [device |-> IF r.device = old THEN new ELSE r.device, local |-> r.local]
    BY RewriteIs
  <2>2. r.device \in V /\ r.local \in V
    BY DEF FullNames
  <2> QED BY <2>1, <2>2 DEF FullNames
<1>3. name \in FullNames(V) /\ refs \in SUBSET FullNames(V)
  BY <1>1, <1>2
<1>4. sim \in SimsWith(V)
  BY DEF SimsWith
<1> HIDE DEF name, refs
<1>5. CopiedPoint(p, old, new, sim) =
        [type |-> p.type, instance |-> p.instance, name |-> name, refs |-> refs,
         value |-> p.value, unit |-> p.unit, sim |-> sim]
  BY Zenon DEF CopiedPoint, name, refs
<1> QED BY <1>1, <1>3, <1>4, <1>5 DEF PointsWith

\* A device of the fleet, before it is given what it needs for an anomaly.
Drafted(base, number, new, protocol, percent) ==
  [id |-> number, name |-> new, protocol |-> protocol,
   points |-> [i \in DOMAIN base.points |->
                 CopiedPoint(base.points[i], base.name, new,
                             Fleets!Jitter(base.points[i].sim, percent))]]

\* A copy with its protocol and its ranges, as the code makes it.
CopyFor(base, number, new, protocol, percent) ==
  [Fleets!Clone(base, number, new) EXCEPT
   !.protocol = protocol,
   !.points = [p \in DOMAIN @ |-> Fleets!Jittered(@[p], percent)]]

\* The copy, with its protocol and its ranges, is what is drafted.
LEMMA DraftIs ==
  ASSUME NEW W, NEW base \in DevicesWith(W), NEW number, NEW new, NEW protocol, NEW percent
  PROVE  CopyFor(base, number, new, protocol, percent) = Drafted(base, number, new, protocol, percent)
<1> DEFINE copied == [i \in DOMAIN base.points |->
                        CopiedPoint(base.points[i], base.name, new, base.points[i].sim)]
           clone == Fleets!Clone(base, number, new)
           list == [p \in DOMAIN clone.points |-> Fleets!Jittered(clone.points[p], percent)]
<1>1. clone = [id |-> number, name |-> new, protocol |-> base.protocol, points |-> copied]
  BY CloneIs
<1>5. CopyFor(base, number, new, protocol, percent) =
        [clone EXCEPT !.protocol = protocol, !.points = list]
  BY DEF CopyFor
<1> HIDE DEF clone
<1>2. clone.points = copied
  <2> HIDE DEF copied
  <2> QED BY <1>1
<1>3. list = [i \in DOMAIN base.points |->
                  CopiedPoint(base.points[i], base.name, new,
                              Fleets!Jitter(base.points[i].sim, percent))]
  <2>1. DOMAIN copied = DOMAIN base.points
    OBVIOUS
  <2>2. ASSUME NEW i \in DOMAIN base.points
        PROVE  Fleets!Jittered(copied[i], percent) =
                 CopiedPoint(base.points[i], base.name, new,
                             Fleets!Jitter(base.points[i].sim, percent))
    <3> DEFINE p == base.points[i]
    <3>1. copied[i] = CopiedPoint(p, base.name, new, p.sim)
      OBVIOUS
    <3> HIDE DEF copied, p
    <3>2. copied[i].sim = p.sim
      BY <3>1 DEF CopiedPoint
    <3>3. \A sim : [CopiedPoint(p, base.name, new, p.sim) EXCEPT !.sim = sim] =
                     CopiedPoint(p, base.name, new, sim)
      <4> DEFINE name == Fleets!Rewrite(p.name, base.name, new)
                 refs == {Fleets!Rewrite(r, base.name, new) : r \in p.refs}
      <4>1. \A sim : CopiedPoint(p, base.name, new, sim) =
                       [type |-> p.type, instance |-> p.instance, name |-> name, refs |-> refs,
                        value |-> p.value, unit |-> p.unit, sim |-> sim]
        BY Zenon DEF CopiedPoint
      <4> HIDE DEF name, refs
      <4> SUFFICES ASSUME NEW sim
                   PROVE  [CopiedPoint(p, base.name, new, p.sim) EXCEPT !.sim = sim] =
                            CopiedPoint(p, base.name, new, sim)
        OBVIOUS
      <4> DEFINE whole == [type |-> p.type, instance |-> p.instance, name |-> name, refs |-> refs,
                           value |-> p.value, unit |-> p.unit, sim |-> p.sim]
      <4>2. [whole EXCEPT !.sim = sim] =
              [type |-> p.type, instance |-> p.instance, name |-> name, refs |-> refs,
               value |-> p.value, unit |-> p.unit, sim |-> sim]
        OBVIOUS
      <4>3. CopiedPoint(p, base.name, new, p.sim) = whole
        BY <4>1, Zenon
      <4> HIDE DEF whole
      <4> QED BY <4>1, <4>2, <4>3, Zenon
    <3>5. Fleets!Jittered(copied[i], percent) =
            [copied[i] EXCEPT !.sim = Fleets!Jitter(copied[i].sim, percent)]
      BY Zenon DEF Fleets!Jittered
    <3>4. [copied[i] EXCEPT !.sim = Fleets!Jitter(p.sim, percent)] =
            CopiedPoint(p, base.name, new, Fleets!Jitter(p.sim, percent))
      BY <3>1, <3>3, Zenon
    <3> QED BY <3>2, <3>4, <3>5, Zenon DEF p
  <2>3. list = [i \in DOMAIN copied |-> Fleets!Jittered(copied[i], percent)]
    BY <1>2
  <2> HIDE DEF list, copied
  <2> QED BY <2>1, <2>2, <2>3
<1>4. [clone EXCEPT !.protocol = protocol, !.points = list] =
        [id |-> number, name |-> new, protocol |-> protocol, points |-> list]
  <2> HIDE DEF list, copied
  <2> DEFINE whole == [id |-> number, name |-> new, protocol |-> base.protocol, points |-> copied]
             second == [id |-> number, name |-> new, protocol |-> protocol, points |-> copied]
  <2>1. [clone EXCEPT !.protocol = protocol, !.points = list] =
          [[clone EXCEPT !.protocol = protocol] EXCEPT !.points = list]
    OBVIOUS
  <2>2. clone = whole
    BY <1>1
  <2>3. [whole EXCEPT !.protocol = protocol] = second
    OBVIOUS
  <2>4. [second EXCEPT !.points = list] =
          [id |-> number, name |-> new, protocol |-> protocol, points |-> list]
    OBVIOUS
  <2> HIDE DEF whole, second
  <2> QED BY <2>1, <2>2, <2>3, <2>4, Zenon
<1> HIDE DEF list
<1> QED BY <1>3, <1>4, <1>5, Zenon DEF Drafted

\* What is drafted is a device, with the words of the template and its own.
LEMMA DraftedIn ==
  ASSUME NEW W, NEW V, W \subseteq V, NEW base \in DevicesWith(W), NEW number \in Int, NEW new \in V,
         NEW protocol \in V, NEW percent \in Nat
  PROVE  Drafted(base, number, new, protocol, percent) \in DevicesWith(V)
<1> DEFINE from == base.points
           to == [i \in DOMAIN from |->
                    CopiedPoint(from[i], base.name, new, Fleets!Jitter(from[i].sim, percent))]
           n == Len(from)
<1>1. /\ Fleets!TellApart(from) /\ DOMAIN from = 1..n /\ n \in Nat
      /\ \A i \in DOMAIN from : from[i] \in PointsWith(W)
  BY PointsOfDevice, Zenon
<1>2. \A i \in DOMAIN from : to[i] \in PointsWith(V)
  <2> SUFFICES ASSUME NEW i \in DOMAIN from PROVE to[i] \in PointsWith(V)
    OBVIOUS
  <2> DEFINE sim == Fleets!Jitter(from[i].sim, percent)
  <2>1. from[i].sim \in SimsWith(W)
    BY <1>1 DEF PointsWith
  <2>2. sim \in SimsWith(W)
    BY <2>1, JitterIs, Zenon
  <2>3. to[i] = CopiedPoint(from[i], base.name, new, sim)
    OBVIOUS
  <2> HIDE DEF sim, to
  <2>4. CopiedPoint(from[i], base.name, new, sim) \in PointsWith(V)
    BY <1>1, <2>2, CopiedPointIn, Zenon
  <2> QED BY <2>3, <2>4, Zenon
<1>3. \A i \in DOMAIN from : to[i].type = from[i].type /\ to[i].instance = from[i].instance
  <2> SUFFICES ASSUME NEW i \in DOMAIN from
               PROVE  to[i].type = from[i].type /\ to[i].instance = from[i].instance
    OBVIOUS
  <2> DEFINE sim == Fleets!Jitter(from[i].sim, percent)
  <2>1. to[i] = CopiedPoint(from[i], base.name, new, sim)
    OBVIOUS
  <2> HIDE DEF sim, to, from
  <2> QED BY <2>1 DEF CopiedPoint
<1>4. DOMAIN to = DOMAIN from
  OBVIOUS
<1>5. Drafted(base, number, new, protocol, percent) =
        [id |-> number, name |-> new, protocol |-> protocol, points |-> to]
  BY Zenon DEF Drafted
<1> HIDE DEF from, to
<1>6. Fleets!TellApart(to)
  BY <1>1, <1>3, <1>4, Zenon DEF Fleets!TellApart
<1>7. to \in Seq(PointsWith(V))
  <2> DEFINE P == PointsWith(V)
  <2>1. \A i \in 1..n : to[i] \in P
    BY <1>1, <1>2, Zenon
  <2>2. to = [i \in 1..n |-> to[i]]
    <3>1. to = [i \in DOMAIN to |-> to[i]]
      BY DEF to
    <3> QED BY <1>1, <1>4, <3>1, Zenon
  <2> HIDE DEF P
  <2>3. to \in [1..n -> P]
    BY <2>1, <2>2
  <2>4. to \in Seq(P)
    BY <1>1, <2>3, IsList
  <2> QED BY <2>4 DEF P
<1> QED BY <1>5, <1>6, <1>7 DEF DevicesWith

\* What is true of a device that is generated.
OfFleet(templates, count, i, g) ==
  /\ g.id = Fleets!NextId(templates) + i /\ g.name = Fleets!FleetName(i)
  /\ g.protocol = Fleets!ProtocolOf(i, Fleets!BacnetQuota(count))
  /\ Fleets!AnomalyCapable(g) /\ Fleets!TellApart(g.points)
  /\ \A p \in DOMAIN g.points : Within(g.points[p].sim)
  /\ \E b \in DOMAIN templates : Fleets!StandsAlone(templates[b], g)

\* Whichever template it is made of.
LEMMA OfTemplate ==
  ASSUME NEW W, NEW base \in DevicesWith(W), NEW number \in Int, NEW new, NEW protocol,
         NEW percent \in Nat, base.name # new
  PROVE  LET g == Fleets!EnsureAnomalyCapable(Drafted(base, number, new, protocol, percent))
         IN  /\ g.id = number /\ g.name = new /\ g.protocol = protocol
             /\ Fleets!AnomalyCapable(g) /\ Fleets!TellApart(g.points)
             /\ \A p \in DOMAIN g.points : Within(g.points[p].sim)
             /\ Fleets!StandsAlone(base, g)
<1> DEFINE V == W \cup {new, protocol}
           draft == Drafted(base, number, new, protocol, percent)
           g == Fleets!EnsureAnomalyCapable(draft)
<1>1. W \subseteq V /\ new \in V /\ protocol \in V
  OBVIOUS
<1>2. /\ draft.id = number /\ draft.name = new /\ draft.protocol = protocol
      /\ DOMAIN draft.points = DOMAIN base.points
      /\ \A i \in DOMAIN base.points :
           draft.points[i] = CopiedPoint(base.points[i], base.name, new,
                                         Fleets!Jitter(base.points[i].sim, percent))
  BY DEF Drafted
<1> HIDE DEF V, draft
<1>3. draft \in DevicesWith(V)
  BY <1>1, DraftedIn, Zenon DEF draft
<1>4. Ensured(draft, g)
  BY <1>3, EnsureIs, Zenon
<1> HIDE DEF g
<1>5. /\ g.id = number /\ g.name = new /\ g.protocol = protocol
      /\ Fleets!AnomalyCapable(g) /\ Fleets!TellApart(g.points)
      /\ \A p \in DOMAIN g.points : Within(g.points[p].sim)
      /\ DOMAIN base.points \subseteq DOMAIN g.points
      /\ \A i \in DOMAIN base.points :
           g.points[i].name = draft.points[i].name /\ g.points[i].refs = draft.points[i].refs
      /\ \A i \in DOMAIN g.points \ DOMAIN base.points : g.points[i].refs = {}
  BY <1>2, <1>4, Zenon DEF Ensured
<1>6. ASSUME NEW i \in DOMAIN base.points
      PROVE  /\ g.points[i].name = Fleets!Rewrite(base.points[i].name, base.name, g.name)
             /\ g.points[i].refs =
                  {Fleets!Rewrite(r, base.name, g.name) : r \in base.points[i].refs}
  <2> DEFINE p == base.points[i]
             q == draft.points[i]
             sim == Fleets!Jitter(p.sim, percent)
  <2>1. q = CopiedPoint(p, base.name, new, sim)
    BY <1>2, Zenon
  <2> HIDE DEF p, q, sim
  <2>2. /\ q.name = Fleets!Rewrite(p.name, base.name, new)
        /\ q.refs = {Fleets!Rewrite(r, base.name, new) : r \in p.refs}
    BY <2>1 DEF CopiedPoint
  <2>3. g.points[i].name = q.name /\ g.points[i].refs = q.refs
    BY <1>5, Zenon DEF q
  <2>4. g.name = new
    BY <1>5
  <2> QED BY <2>2, <2>3, <2>4, Zenon DEF p
<1>7. Fleets!StandsAlone(base, g)
  BY <1>5, <1>6, CopyStandsAlone, Zenon
<1> QED BY <1>5, <1>7, Zenon DEF g, draft

\* So is every device that is generated.
LEMMA GeneratedIs ==
  ASSUME NEW W, NEW templates \in Seq(DevicesWith(W)), templates # <<>>, NEW count \in Nat,
         NEW i \in Nat, Fleets!NextId(templates) \in Int,
         \A j \in DOMAIN templates : templates[j].name # Fleets!FleetName(i)
  PROVE  OfFleet(templates, count, i, Fleets!Generated(templates, count, i))
<1> DEFINE k == (i % Len(Fleets!Kinds)) + 1
           n == Len(templates)
           I == {j \in 1..n : templates[j].name = Fleets!Preferred[k]}
           preferred == IF I # {} THEN Fleets!Max(I) ELSE 0
           at == IF preferred # 0 THEN preferred ELSE (i % n) + 1
           base == templates[at]
           number == Fleets!NextId(templates) + i
           new == Fleets!FleetName(i)
           clone == Fleets!Clone(base, number, new)
           protocol == Fleets!ProtocolOf(i, Fleets!BacnetQuota(count))
           percent == 80 + 5 * (i % 9)
           draft == [clone EXCEPT !.protocol = protocol,
                                  !.points = [p \in DOMAIN @ |-> Fleets!Jittered(@[p], percent)]]
           g == Fleets!Generated(templates, count, i)
<1>1. g = Fleets!EnsureAnomalyCapable(draft)
  BY Zenon DEF Fleets!Generated, Fleets!SelectLastInSeq
<1>2. n \in Nat /\ n > 0 /\ DOMAIN templates = 1..n
  OBVIOUS
<1>3. at \in 1..n
  <2>1. CASE I # {}
    <3>1. I \in SUBSET Int
      OBVIOUS
    <3>2. IsFiniteSet(I)
      <4>1. IsFiniteSet(1..n)
        BY <1>2, FS_Interval
      <4>2. I \in SUBSET (1..n)
        OBVIOUS
      <4> HIDE DEF I, n
      <4> QED BY <4>1, <4>2, FS_Subset, Zenon
    <3>3. I \subseteq 1..n
      OBVIOUS
    <3> HIDE DEF I
    <3>4. Fleets!Max(I) \in I
      BY <2>1, <3>1, <3>2, GreatestIs, Zenon
    <3>5. preferred \in 1..n
      BY <2>1, <3>3, <3>4, Zenon
    <3> HIDE DEF preferred
    <3> QED BY <1>2, <3>5
  <2>2. CASE I = {}
    <3> HIDE DEF I, n
    <3>1. at = (i % n) + 1
      BY <2>2
    <3>2. i % n \in 0..(n - 1)
      BY <1>2
    <3> HIDE DEF at
    <3> QED BY <1>2, <3>1, <3>2
  <2> QED BY <2>1, <2>2, Zenon
<1> HIDE DEF at
<1>4. base \in DevicesWith(W)
  <2> DEFINE D == DevicesWith(W)
  <2>1. templates \in Seq(D)
    OBVIOUS
  <2> HIDE DEF D
  <2>2. templates[at] \in D
    BY <1>2, <1>3, <2>1
  <2> QED BY <2>2 DEF D
<1>5. number \in Int /\ percent \in Nat
  OBVIOUS
<1>6. base.name # new
  BY <1>2, <1>3, Zenon
<1>7. draft = Drafted(base, number, new, protocol, percent)
  <2> HIDE DEF base, number, new, protocol, percent
  <2>1. draft = CopyFor(base, number, new, protocol, percent)
    BY DEF CopyFor
  <2> HIDE DEF draft
  <2> QED BY <1>4, <2>1, DraftIs, Zenon
<1>10. base = templates[at] /\ at \in DOMAIN templates
  BY <1>2, <1>3, Zenon
<1> HIDE DEF base, number, new, protocol, percent, draft, g
<1>8. /\ g.id = number /\ g.name = new /\ g.protocol = protocol
      /\ Fleets!AnomalyCapable(g) /\ Fleets!TellApart(g.points)
      /\ \A p \in DOMAIN g.points : Within(g.points[p].sim)
      /\ Fleets!StandsAlone(base, g)
  <2>1. g = Fleets!EnsureAnomalyCapable(Drafted(base, number, new, protocol, percent))
    BY <1>1, <1>7, Zenon
  <2> DEFINE e == Fleets!EnsureAnomalyCapable(Drafted(base, number, new, protocol, percent))
  <2>2. /\ e.id = number /\ e.name = new /\ e.protocol = protocol
        /\ Fleets!AnomalyCapable(e) /\ Fleets!TellApart(e.points)
        /\ \A p \in DOMAIN e.points : Within(e.points[p].sim)
        /\ Fleets!StandsAlone(base, e)
    BY <1>4, <1>5, <1>6, OfTemplate, Zenon
  <2> HIDE DEF e
  <2>3. g = e
    BY <2>1 DEF e
  <2> QED BY <2>2, <2>3, Zenon
<1>9. \E b \in DOMAIN templates : Fleets!StandsAlone(templates[b], g)
  BY <1>8, <1>10, Zenon
<1> QED BY <1>8, <1>9, Zenon DEF OfFleet, number, new, protocol, g

\* A number is its place in a round and the number of the round.
LEMMA SamePlace ==
  ASSUME NEW n \in Nat, n > 0, NEW a \in Nat, NEW b \in Nat, a % n = b % n, a \div n = b \div n
  PROVE  a = b
OBVIOUS

\* The next id is beyond those of the templates.
LEMMA NextIdIs ==
  ASSUME NEW W, NEW templates \in Seq(DevicesWith(W)), templates # <<>>
  PROVE  /\ Fleets!NextId(templates) \in Int
         /\ \A j \in DOMAIN templates :
              templates[j].id \in Int /\ templates[j].id < Fleets!NextId(templates)
<1> DEFINE D == DevicesWith(W)
           ids == {templates[j].id : j \in DOMAIN templates}
           m == Fleets!Max(ids)
           n == Len(templates)
<1>1. \A d \in D : d.id \in Int
  BY DEF DevicesWith
<1>2. templates \in Seq(D)
  OBVIOUS
<1> HIDE DEF D
<1>3. DOMAIN templates = 1..n /\ n \in Nat /\ n > 0 /\ \A j \in DOMAIN templates : templates[j] \in D
  BY <1>2
<1>4. \A j \in DOMAIN templates : templates[j].id \in Int
  BY <1>1, <1>3, Zenon
<1>5. ids \in SUBSET Int
  BY <1>4
<1>6. IsFiniteSet(ids)
  <2>1. IsFiniteSet(DOMAIN templates)
    <3>1. 1 \in Int /\ n \in Int
      BY <1>3
    <3> QED BY <1>3, <3>1, FS_Interval, Zenon
  <2> DEFINE f == [j \in DOMAIN templates |-> templates[j].id]
  <2>2. f \in Surjection(DOMAIN templates, ids)
    BY DEF Surjection
  <2> HIDE DEF f, ids
  <2> QED BY <2>1, <2>2, FS_Surjection, Zenon
<1>7. ids # {}
  <2>1. 1 \in DOMAIN templates
    BY <1>3
  <2> QED BY <2>1
<1>8. \A j \in DOMAIN templates : templates[j].id \in ids
  OBVIOUS
<1> HIDE DEF ids
<1>9. m \in ids /\ \A y \in ids : y <= m
  BY <1>5, <1>6, <1>7, GreatestIs, Zenon
<1>10. Fleets!NextId(templates) = 1 + m
  BY Zenon DEF Fleets!NextId, ids
<1> HIDE DEF m
<1>11. m \in Int
  BY <1>5, <1>9
<1> QED BY <1>4, <1>8, <1>9, <1>10, <1>11

-----------------------------------------------------------------------------
\* Templates that are devices of the files: ids and names of their own, and none
\* is named as a device of the fleet will be.
Templates(W, T, templates) ==
  /\ templates \in Seq(DevicesWith(W))
  /\ \A j \in DOMAIN templates : templates[j].name \in Seq(T)
  /\ \A i, j \in DOMAIN templates : templates[i].id = templates[j].id => i = j
  /\ \A j \in DOMAIN templates : \A i \in Nat : templates[j].name # Fleets!FleetName(i)

\* A name is a prefix of itself and of its copies, and is not one of them.
LEMMA PrefixIs ==
  ASSUME NEW T, NEW s \in Seq(T), NEW e
  PROVE  /\ Fleets!IsPrefix(s, s) /\ Fleets!IsPrefix(s, Append(s, e))
         /\ Append(s, e) # s
<1>1. Fleets!IsPrefix(s, s)
  BY DEF Fleets!IsPrefix
<1> DEFINE t == Append(s, e)
<1>2. t \in Seq(T \cup {e}) /\ Len(t) = Len(s) + 1 /\ \A i \in 1..Len(s) : t[i] = s[i]
  OBVIOUS
<1> HIDE DEF t
<1>3. SubSeq(s, 1, Len(s)) = SubSeq(t, 1, Len(s))
  BY <1>2
<1>4. Fleets!IsPrefix(s, t)
  BY <1>2, <1>3 DEF Fleets!IsPrefix
<1>5. t # s
  BY <1>2
<1> QED BY <1>1, <1>4, <1>5 DEF t

\* No template is named as another, and none as a copy, where there are no
\* lookalikes.
LEMMA Lookalikes ==
  ASSUME NEW W, NEW T, NEW templates, Templates(W, T, templates), NEW count,
         Fleets!NoLookalikes(templates, count)
  PROVE  \A i, j \in DOMAIN templates :
           /\ i # j => templates[i].name # templates[j].name
           /\ \A e : Append(templates[i].name, e) # templates[j].name
<1> SUFFICES ASSUME NEW i \in DOMAIN templates, NEW j \in DOMAIN templates
             PROVE  /\ i # j => templates[i].name # templates[j].name
                    /\ \A e : Append(templates[i].name, e) # templates[j].name
  OBVIOUS
<1> DEFINE s == templates[i].name
           t == templates[j].name
<1>1. s \in Seq(T) /\ t \in Seq(T)
  BY Zenon DEF Templates
<1>2. i # j => ~Fleets!IsPrefix(s, t)
  BY Zenon DEF Fleets!NoLookalikes
<1> HIDE DEF s, t
<1>3. i # j => s # t
  BY <1>1, <1>2, PrefixIs, Zenon
<1>4. \A e : Append(s, e) # t
  <2> SUFFICES ASSUME NEW e, Append(s, e) = t PROVE FALSE
    OBVIOUS
  <2>1. CASE i = j
    <3>1. s = t
      BY <2>1 DEF s, t
    <3> QED BY <1>1, <3>1, PrefixIs, Zenon
  <2>2. CASE i # j
    BY <1>1, <1>2, <2>2, PrefixIs, Zenon
  <2> QED BY <2>1, <2>2
<1> QED BY <1>3, <1>4, Zenon DEF s, t

\* Without copies there is nothing to tell apart but the templates.
LEMMA Unchanged ==
  ASSUME NEW W, NEW T, NEW templates, Templates(W, T, templates), NEW count \in Nat,
         Len(templates) = 0 \/ count <= Len(templates)
  PROVE  Fleets!CountReached(templates, templates, count) /\ Fleets!DistinctIn(templates, templates)
<1>1. templates \in Seq(DevicesWith(W))
  BY DEF Templates
<1> DEFINE n == Len(templates)
           c == IF templates = <<>> THEN 0 ELSE count
<1>2. n \in Nat /\ (n = 0 <=> templates = <<>>)
  BY <1>1
<1>3. c \in Int /\ n >= c
  BY <1>2
<1> HIDE DEF c
<1>4. Fleets!Max({n, c}) = n
  BY <1>2, <1>3, GreatestOfTwo
<1>5. Fleets!CountReached(templates, templates, count)
  BY <1>4, Zenon DEF Fleets!CountReached, c
<1>6. Fleets!DistinctIn(templates, templates)
  <2>1. \A i, j \in DOMAIN templates : i # j => templates[i].id # templates[j].id
    BY Zenon DEF Templates
  <2>2. Fleets!NoLookalikes(templates, n) =>
          \A i, j \in DOMAIN templates : i # j => templates[i].name # templates[j].name
    BY Lookalikes, Zenon
  <2> QED BY <2>1, <2>2, Zenon DEF Fleets!DistinctIn
<1> QED BY <1>5, <1>6

\* The templates, and copies with ids that are given in turn, from the next.
Grown(templates, count, devices) ==
  LET n == Len(templates)
  IN  /\ n > 0 /\ count > n /\ DOMAIN devices = 1..count /\ Len(devices) = count
      /\ \A k \in 1..count : k <= n => devices[k] = templates[k]
      /\ \A k \in 1..count : k > n => devices[k].id = Fleets!NextId(templates) + (k - n - 1)

\* Such a list reaches the count, and its ids differ.
LEMMA IdsInTurn ==
  ASSUME NEW W, NEW T, NEW templates, Templates(W, T, templates), NEW count \in Nat,
         NEW devices, Grown(templates, count, devices)
  PROVE  /\ Fleets!CountReached(templates, devices, count)
         /\ \A i, j \in DOMAIN devices : i # j => devices[i].id # devices[j].id
<1> DEFINE beyond == Fleets!NextId(templates)
           n == Len(templates)
<1>0. /\ n > 0 /\ count > n /\ DOMAIN devices = 1..count /\ Len(devices) = count
      /\ \A k \in 1..count : k <= n => devices[k] = templates[k]
      /\ \A k \in 1..count : k > n => devices[k].id = beyond + (k - n - 1)
  BY Zenon DEF Grown
<1>1. /\ templates \in Seq(DevicesWith(W)) /\ templates # <<>> /\ DOMAIN templates = 1..n
      /\ n \in Nat
  BY <1>0 DEF Templates
<1>2. /\ beyond \in Int
      /\ \A j \in 1..n : templates[j].id \in Int /\ templates[j].id < beyond
  BY <1>1, NextIdIs, Zenon
<1>3. \A i, j \in 1..n : templates[i].id = templates[j].id => i = j
  BY <1>1, Zenon DEF Templates
<1> HIDE DEF beyond, n
<1>5. \A i, j \in DOMAIN devices : i # j => devices[i].id # devices[j].id
  <2>1. \A i \in 1..count : i <= n => i \in 1..n /\ devices[i].id = templates[i].id
    BY <1>0, <1>1
  <2>2. \A i, j \in 1..count : i <= n /\ j <= n /\ i # j => devices[i].id # devices[j].id
    BY <1>3, <2>1, Zenon
  <2>3. \A i, j \in 1..count : i <= n /\ j > n => devices[i].id # devices[j].id
    BY <1>0, <1>1, <1>2, <2>1
  <2>4. \A i, j \in 1..count : i > n /\ j > n /\ i # j => devices[i].id # devices[j].id
    BY <1>0, <1>1, <1>2
  <2>5. \A i \in 1..count : i <= n \/ i > n
    BY <1>1
  <2> QED BY <1>0, <2>2, <2>3, <2>4, <2>5, Zenon
<1>6. Fleets!Max({n, count}) = count
  BY <1>0, <1>1, GreatestOfTwo
<1>7. Fleets!CountReached(templates, devices, count)
  <2>1. (IF templates = <<>> THEN 0 ELSE count) = count
    BY <1>1
  <2> QED BY <1>0, <1>6, <2>1, Zenon DEF Fleets!CountReached, n
<1> QED BY <1>0, <1>5, <1>7, Zenon

\* A template and one more part are taken apart again.
Apart(s, t) == \A e, f : Append(s, e) = Append(t, f) => s = t /\ e = f

\* So are all sequences.
LEMMA AppendIsApart ==
  ASSUME NEW T, NEW s \in Seq(T), NEW t \in Seq(T)
  PROVE  Apart(s, t)
<1> SUFFICES ASSUME NEW e, NEW f, Append(s, e) = Append(t, f) PROVE s = t /\ e = f
  BY DEF Apart
<1> DEFINE U == T \cup {e, f}
           a == Append(s, e)
           b == Append(t, f)
<1>1. s \in Seq(U) /\ t \in Seq(U) /\ e \in U /\ f \in U
  OBVIOUS
<1> HIDE DEF U
<1>2. /\ Len(a) = Len(s) + 1 /\ a[Len(s) + 1] = e /\ \A i \in 1..Len(s) : a[i] = s[i]
      /\ Len(b) = Len(t) + 1 /\ b[Len(t) + 1] = f /\ \A i \in 1..Len(t) : b[i] = t[i]
  BY <1>1
<1>3. a = b
  OBVIOUS
<1> HIDE DEF a, b
<1>4. Len(s) = Len(t) /\ e = f
  BY <1>1, <1>2, <1>3
<1>5. s = t
  BY <1>1, <1>2, <1>3, <1>4
<1> QED BY <1>4, <1>5

\* Copies are named after their template and the number of the round.
Named(templates, count, devices) ==
  LET n == Len(templates)
  IN  \A k \in 1..count : k > n =>
        devices[k].name = Append(templates[((k - 1) % n) + 1].name,
                                 Fleets!Number(0, (k - 1) \div n + 1))

OwnNames(devices) == \A i, j \in DOMAIN devices : i # j => devices[i].name # devices[j].name

\* Such copies have names of their own where there are no lookalikes.
LEMMA CopiesNamed ==
  ASSUME NEW W, NEW T, NEW templates, Templates(W, T, templates), NEW count \in Nat,
         NEW devices, Grown(templates, count, devices), Named(templates, count, devices),
         Fleets!NoLookalikes(templates, count)
  PROVE  OwnNames(devices)
<1> DEFINE n == Len(templates)
           base(k) == ((k - 1) % n) + 1
           round(k) == Fleets!Number(0, (k - 1) \div n + 1)
<1>1. DOMAIN templates = 1..n /\ n \in Nat /\ n > 0 /\ DOMAIN devices = 1..count
  BY DEF Templates, Grown
<1>6. \A i \in 1..count : i <= n => i \in 1..n /\ devices[i] = templates[i]
  BY <1>1 DEF Grown
<1>2. \A k \in 1..count : k > n =>
        base(k) \in 1..n /\ devices[k].name = Append(templates[base(k)].name, round(k))
  <2>1. \A k \in 1..count : k > n => devices[k].name = Append(templates[base(k)].name, round(k))
    BY Zenon DEF Named
  <2> HIDE DEF n
  <2>2. \A a \in Nat : (a % n) + 1 \in 1..n
    <3> SUFFICES ASSUME NEW a \in Nat PROVE (a % n) + 1 \in 1..n
      OBVIOUS
    <3>1. a % n \in 0..(n - 1)
      BY <1>1
    <3> QED BY <1>1, <3>1
  <2>3. \A k \in 1..count : k - 1 \in Nat
    OBVIOUS
  <2>4. \A k \in 1..count : base(k) \in 1..n
    BY <2>2, <2>3, Zenon
  <2> QED BY <2>1, <2>4, Zenon
<1> HIDE DEF n
<1>3. \A i, j \in 1..n :
        /\ i # j => templates[i].name # templates[j].name
        /\ \A e : Append(templates[i].name, e) # templates[j].name
  BY <1>1, Lookalikes, Zenon
<1>4. \A i, j \in 1..n : Apart(templates[i].name, templates[j].name)
  <2>1. \A i \in 1..n : templates[i].name \in Seq(T)
    BY <1>1, Zenon DEF Templates
  <2> QED BY <2>1, AppendIsApart, Zenon
<1>5. \A i, j \in 1..count : i > n /\ j > n /\ base(i) = base(j) /\ round(i) = round(j) => i = j
  <2> SUFFICES ASSUME NEW i \in 1..count, NEW j \in 1..count, i > n, j > n, base(i) = base(j),
                      round(i) = round(j)
               PROVE  i = j
    OBVIOUS
  <2> DEFINE a == i - 1
             b == j - 1
  <2>1. a \in Nat /\ b \in Nat
    OBVIOUS
  <2>2. a % n \in Int /\ b % n \in Int /\ a \div n \in Int /\ b \div n \in Int
    BY <1>1, <2>1
  <2>3. (a % n) + 1 = (b % n) + 1
    OBVIOUS
  <2>4. a \div n + 1 = b \div n + 1
    BY DEF Fleets!Number
  <2>5. a % n = b % n /\ a \div n = b \div n
    <3>1. \A x, y \in Int : x + 1 = y + 1 => x = y
      OBVIOUS
    <3> QED BY <2>2, <2>3, <2>4, <3>1, Zenon
  <2> HIDE DEF a, b
  <2>6. a = b
    BY <1>1, <2>1, <2>5, SamePlace, Zenon
  <2> QED BY <2>6 DEF a, b
<1> HIDE DEF base, round
<1>7. \A i \in 1..count : i <= n \/ i > n
  BY <1>1
<1> SUFFICES ASSUME NEW i \in 1..count, NEW j \in 1..count, i # j,
                    devices[i].name = devices[j].name
             PROVE  FALSE
  BY <1>1, Zenon DEF OwnNames
<1> DEFINE other(k) == templates[base(k)].name
<1>12. \A k \in 1..count : k > n => base(k) \in 1..n /\ devices[k].name = Append(other(k), round(k))
  BY <1>2, Zenon
<1>13. \A k \in 1..count, l \in 1..n : \A e : base(k) \in 1..n => Append(other(k), e) # templates[l].name
  BY <1>3, Zenon
<1> HIDE DEF other
<1>8. CASE i <= n /\ j <= n
  BY <1>3, <1>6, <1>8, Zenon
<1>9. CASE i <= n /\ j > n
  BY <1>6, <1>9, <1>12, <1>13, Zenon
<1>10. CASE i > n /\ j <= n
  BY <1>6, <1>10, <1>12, <1>13, Zenon
<1>11. CASE i > n /\ j > n
  <2>1. /\ templates[base(i)].name = templates[base(j)].name /\ round(i) = round(j)
        /\ base(i) \in 1..n /\ base(j) \in 1..n
    <3>1. base(i) \in 1..n /\ base(j) \in 1..n
      BY <1>11, <1>12, Zenon
    <3>2. devices[i].name = Append(templates[base(i)].name, round(i))
      BY <1>11, <1>12, Zenon DEF other
    <3>3. devices[j].name = Append(templates[base(j)].name, round(j))
      BY <1>11, <1>12, Zenon DEF other
    <3>4. Append(templates[base(i)].name, round(i)) = Append(templates[base(j)].name, round(j))
      BY <3>2, <3>3, Zenon
    <3> DEFINE s == templates[base(i)].name
               t == templates[base(j)].name
    <3>5. Apart(s, t)
      BY <1>4, <3>1, Zenon
    <3> HIDE DEF s, t
    <3>6. s = t /\ round(i) = round(j)
      BY <3>4, <3>5, Zenon DEF Apart, s, t
    <3> QED BY <3>1, <3>6, Zenon DEF s, t
  <2>2. base(i) = base(j)
    BY <1>3, <2>1, Zenon
  <2> QED BY <1>5, <1>11, <2>1, <2>2, Zenon
<1> QED BY <1>7, <1>8, <1>9, <1>10, <1>11, Zenon

\* What a copied device is.
LEMMA CopyIs ==
  ASSUME NEW W, NEW base \in DevicesWith(W), NEW T, base.name \in Seq(T), NEW number, NEW part
  PROVE  LET copy == Fleets!Clone(base, number, Append(base.name, part))
         IN  /\ copy.id = number /\ copy.name = Append(base.name, part)
             /\ Fleets!StandsAlone(base, copy)
<1> DEFINE new == Append(base.name, part)
           copy == Fleets!Clone(base, number, new)
           list == [i \in DOMAIN base.points |->
                        CopiedPoint(base.points[i], base.name, new, base.points[i].sim)]
<1>1. new # base.name
  BY PrefixIs
<1> HIDE DEF new
<1>2. copy = [id |-> number, name |-> new, protocol |-> base.protocol, points |-> list]
  BY CloneIs
<1> HIDE DEF copy
<1>3. copy.id = number /\ copy.name = new /\ copy.points = list
  <2> HIDE DEF list
  <2> QED BY <1>2
<1>4. DOMAIN list = DOMAIN base.points
  OBVIOUS
<1>5. ASSUME NEW i \in DOMAIN base.points
      PROVE  /\ copy.points[i].name = Fleets!Rewrite(base.points[i].name, base.name, copy.name)
             /\ copy.points[i].refs =
                  {Fleets!Rewrite(r, base.name, copy.name) : r \in base.points[i].refs}
  <2> DEFINE p == base.points[i]
             q == copy.points[i]
  <2>1. q = CopiedPoint(p, base.name, new, p.sim)
    BY <1>3
  <2> HIDE DEF p, q, list
  <2>2. q.name = Fleets!Rewrite(p.name, base.name, new)
        /\ q.refs = {Fleets!Rewrite(r, base.name, new) : r \in p.refs}
    BY <2>1 DEF CopiedPoint
  <2> QED BY <1>3, <2>2, Zenon DEF p, q
<1> HIDE DEF list
<1>6. DOMAIN copy.points = DOMAIN base.points
  BY <1>3, <1>4, Zenon
<1>7. copy.name # base.name
  BY <1>1, <1>3
<1>8. Fleets!StandsAlone(base, copy)
  BY <1>5, <1>6, <1>7, CopyStandsAlone, Zenon
<1> QED BY <1>3, <1>8, Zenon DEF copy, new

-----------------------------------------------------------------------------
\* Copies are as many as are asked for, no two devices share an id or, unless the
\* templates are named alike, a name, and no copy refers to a point of another
\* device; for whichever templates there are and any count.
THEOREM ScaledRight ==
  ASSUME NEW W, NEW T, NEW templates, Templates(W, T, templates), NEW count \in Nat
  PROVE  Fleets!ScaledAsDescribed(templates, count, Fleets!ScaleDevices(templates, count))
<1> DEFINE n == Len(templates)
           devices == Fleets!ScaleDevices(templates, count)
           base(k) == templates[((k - 1) % n) + 1]
           copy(k) == Fleets!Clone(base(k), Fleets!NextId(templates) + k - n - 1,
                                   Append(base(k).name, Fleets!Number(0, (k - 1) \div n + 1)))
           made == [k \in 1..count |-> IF k <= n THEN templates[k] ELSE copy(k)]
<1>1. templates \in Seq(DevicesWith(W)) /\ DOMAIN templates = 1..n /\ n \in Nat
  BY DEF Templates
<1>2. CASE n = 0 \/ count <= n
  <2>1. devices = templates
    BY <1>2, Zenon DEF Fleets!ScaleDevices
  <2>2. Fleets!CountReached(templates, templates, count) /\ Fleets!DistinctIn(templates, templates)
    BY <1>2, Unchanged, Zenon
  <2>3. \A k \in DOMAIN templates : ~(k > Len(templates))
    BY <1>1
  <2>4. Fleets!ScaledAsDescribed(templates, count, templates)
    BY <2>2, <2>3, Zenon DEF Fleets!ScaledAsDescribed
  <2> QED BY <2>1, <2>4, Zenon
<1>3. CASE ~(n = 0 \/ count <= n)
  <2>1. devices = made
    BY <1>3, Zenon DEF Fleets!ScaleDevices
  <2>2. n > 0 /\ count > n
    BY <1>1, <1>3
  <2>3. /\ DOMAIN made = 1..count /\ \A k \in 1..count : k <= n => made[k] = templates[k]
        /\ \A k \in 1..count : k > n => made[k] = copy(k)
    <3> HIDE DEF copy
    <3>1. \A k \in 1..count : k > n => ~(k <= n)
      BY <1>1
    <3> QED BY <3>1, Zenon
  <2>4. Len(made) = count
    BY <2>3
  <2>5. ASSUME NEW k \in 1..count, k > n
        PROVE  /\ made[k].id = Fleets!NextId(templates) + (k - n - 1)
               /\ made[k].name = Append(base(k).name, Fleets!Number(0, (k - 1) \div n + 1))
               /\ Fleets!StandsAlone(base(k), made[k])
    <3> DEFINE b == base(k)
               part == Fleets!Number(0, (k - 1) \div n + 1)
               number == Fleets!NextId(templates) + k - n - 1
    <3>1. (k - 1) % n \in 0..(n - 1)
      BY <1>1, <2>2, k - 1 \in Nat
    <3>2. ((k - 1) % n) + 1 \in 1..n
      BY <1>1, <3>1
    <3>3. b \in DevicesWith(W) /\ b.name \in Seq(T)
      <4> DEFINE D == DevicesWith(W)
                 j == ((k - 1) % n) + 1
      <4>1. templates \in Seq(D)
        BY <1>1
      <4>2. j \in DOMAIN templates
        BY <1>1, <3>2
      <4> HIDE DEF D, j
      <4>3. templates[j] \in D
        BY <4>1, <4>2
      <4>4. templates[j].name \in Seq(T)
        BY <4>2, Zenon DEF Templates
      <4> QED BY <4>3, <4>4 DEF D, j
    <3>4. made[k] = Fleets!Clone(b, number, Append(b.name, part))
      BY <2>3, <2>5, Zenon
    <3>5. number = Fleets!NextId(templates) + (k - n - 1)
      <4>1. Fleets!NextId(templates) \in Int
        <5>1. templates # <<>>
          BY <1>1, <2>2
        <5> QED BY <1>1, <5>1, NextIdIs, Zenon
      <4> QED BY <1>1, <4>1
    <3> HIDE DEF b, part, number, made
    <3> DEFINE c == Fleets!Clone(b, number, Append(b.name, part))
    <3>7. c.id = number /\ c.name = Append(b.name, part) /\ Fleets!StandsAlone(b, c)
      BY <3>3, CopyIs, Zenon
    <3> HIDE DEF c
    <3>8. made[k] = c
      BY <3>4 DEF c
    <3>6. /\ made[k].id = number /\ made[k].name = Append(b.name, part)
          /\ Fleets!StandsAlone(b, made[k])
      BY <3>7, <3>8, Zenon
    <3> QED BY <3>5, <3>6, Zenon DEF b, part
  <2>6. \A k \in 1..count : k > n => made[k].id = Fleets!NextId(templates) + (k - n - 1)
    BY <2>5, Zenon
  <2> HIDE DEF made
  <2>11. Grown(templates, count, made)
    BY <2>2, <2>3, <2>4, <2>6, Zenon DEF Grown
  <2>7. /\ Fleets!CountReached(templates, made, count)
        /\ \A i, j \in DOMAIN made : i # j => made[i].id # made[j].id
    BY <2>11, IdsInTurn, Zenon
  <2>12. Named(templates, count, made)
    BY <2>5, Zenon DEF Named
  <2>8. Fleets!NoLookalikes(templates, count) => OwnNames(made)
    BY <2>11, <2>12, CopiesNamed, Zenon
  <2>9. Fleets!DistinctIn(made, templates)
    BY <2>4, <2>7, <2>8, Zenon DEF Fleets!DistinctIn, OwnNames
  <2>10. Fleets!ScaledAsDescribed(templates, count, made)
    <3>1. \A k \in DOMAIN made : k > Len(templates) =>
            Fleets!StandsAlone(templates[((k - 1) % Len(templates)) + 1], made[k])
      BY <2>3, <2>5, Zenon
    <3> QED BY <2>7, <2>9, <3>1, Zenon DEF Fleets!ScaledAsDescribed
  <2> QED BY <2>1, <2>10, Zenon DEF made
<1> QED BY <1>2, <1>3, Zenon

\* The devices of the fleet are named by their numbers.
LEMMA FleetNamesDiffer ==
  \A i, j \in Nat : Fleets!FleetName(i) = Fleets!FleetName(j) => i = j
<1> SUFFICES ASSUME NEW i \in Nat, NEW j \in Nat, Fleets!FleetName(i) = Fleets!FleetName(j)
             PROVE  i = j
  OBVIOUS
<1> DEFINE a == Fleets!Padded(i + 1)
           b == Fleets!Padded(j + 1)
           v == Fleets!Word(Fleets!Kinds[(i % Len(Fleets!Kinds)) + 1])
           w == Fleets!Word(Fleets!Kinds[(j % Len(Fleets!Kinds)) + 1])
<1>1. <<v, a>> = <<w, b>>
  BY Zenon DEF Fleets!FleetName
<1>2. a[2] = i + 1 /\ b[2] = j + 1
  BY DEF Fleets!Padded, Fleets!Number
<1> HIDE DEF a, b, v, w
<1>3. a = b
  BY <1>1
<1>4. i + 1 = j + 1
  BY <1>2, <1>3, Zenon
<1> QED BY <1>4

\* The devices within the quota are those with a BACnet stack.
LEMMA ProtocolIs ==
  \A i \in Nat, quota \in Nat : Fleets!ProtocolOf(i, quota) = "bacnet" <=> i < quota
<1> SUFFICES ASSUME NEW i \in Nat, NEW quota \in Nat
             PROVE  Fleets!ProtocolOf(i, quota) = "bacnet" <=> i < quota
  OBVIOUS
<1>1. CASE i < quota
  BY <1>1 DEF Fleets!ProtocolOf
<1>2. CASE ~(i < quota)
  <2> DEFINE r == (i - quota) % 3
  <2>1. r \in 0..2
    BY <1>2
  <2>2. Fleets!ProtocolOf(i, quota) = <<"mqtt", "knx", "modbus">>[r + 1]
    BY <1>2 DEF Fleets!ProtocolOf
  <2> HIDE DEF r
  <2>3. <<"mqtt", "knx", "modbus">>[r + 1] # "bacnet"
    <3>1. r = 0 \/ r = 1 \/ r = 2
      BY <2>1
    <3>2. CASE r = 0
      BY <3>2
    <3>3. CASE r = 1
      BY <3>3
    <3>4. CASE r = 2
      BY <3>4
    <3> QED BY <3>1, <3>2, <3>3, <3>4
  <2> QED BY <1>2, <2>2, <2>3
<1> QED BY <1>1, <1>2

\* The templates, and devices that are generated.
Generations(templates, count, devices) ==
  LET n == Len(templates)
  IN  \A k \in 1..count : k > n => OfFleet(templates, count, k - n - 1, devices[k])

\* So have the devices of the fleet.
LEMMA FleetNamed ==
  ASSUME NEW W, NEW T, NEW templates, Templates(W, T, templates), NEW count \in Nat,
         NEW devices, Grown(templates, count, devices), Generations(templates, count, devices),
         Fleets!NoLookalikes(templates, count)
  PROVE  OwnNames(devices)
<1> DEFINE n == Len(templates)
<1>1. DOMAIN templates = 1..n /\ n \in Nat /\ DOMAIN devices = 1..count
  BY DEF Templates, Grown
<1>2. \A k \in 1..count : k <= n => k \in 1..n /\ devices[k] = templates[k]
  BY <1>1 DEF Grown
<1>3. \A k \in 1..count : k > n => devices[k].name = Fleets!FleetName(k - n - 1)
  BY Zenon DEF Generations, OfFleet
<1>4. \A i, j \in 1..n : i # j => templates[i].name # templates[j].name
  BY <1>1, Lookalikes, Zenon
<1>5. \A j \in 1..n : \A i \in Nat : templates[j].name # Fleets!FleetName(i)
  BY <1>1, Zenon DEF Templates
<1> HIDE DEF n
<1>6. \A k \in 1..count : k <= n \/ k > n
  BY <1>1
<1>7. \A k \in 1..count : k > n => k - n - 1 \in Nat
  BY <1>1
<1>8. \A k, l \in 1..count : k - n - 1 = l - n - 1 => k = l
  BY <1>1
<1> DEFINE place(k) == k - n - 1
<1>9. /\ \A k \in 1..count : k > n => place(k) \in Nat /\ devices[k].name = Fleets!FleetName(place(k))
      /\ \A k, l \in 1..count : place(k) = place(l) => k = l
  BY <1>3, <1>7, <1>8, Zenon
<1> HIDE DEF place
<1> SUFFICES ASSUME NEW i \in 1..count, NEW j \in 1..count, i # j,
                    devices[i].name = devices[j].name
             PROVE  FALSE
  BY <1>1, Zenon DEF OwnNames
<1>10. CASE i <= n /\ j <= n
  BY <1>2, <1>4, <1>10, Zenon
<1>11. CASE i <= n /\ j > n
  BY <1>2, <1>5, <1>9, <1>11, Zenon
<1>12. CASE i > n /\ j <= n
  BY <1>2, <1>5, <1>9, <1>12, Zenon
<1>13. CASE i > n /\ j > n
  <2>1. Fleets!FleetName(place(i)) = Fleets!FleetName(place(j)) /\ place(i) \in Nat /\ place(j) \in Nat
    BY <1>9, <1>13, Zenon
  <2>2. place(i) = place(j)
    BY <2>1, FleetNamesDiffer, Zenon
  <2> QED BY <1>9, <2>2, Zenon
<1> QED BY <1>6, <1>10, <1>11, <1>12, <1>13, Zenon

-----------------------------------------------------------------------------
\* So is the fleet, and in addition every device of it can have an anomaly, tells
\* its points apart and keeps their centres within their bounds, and the first
\* of it, two to eight, speak BACnet; for whichever templates there are, any count.
THEOREM FleetRight ==
  ASSUME NEW W, NEW T, NEW templates, Templates(W, T, templates), NEW count \in Nat
  PROVE  Fleets!FleetAsDescribed(templates, count, Fleets!GenerateFleet(templates, count))
<1> DEFINE n == Len(templates)
           devices == Fleets!GenerateFleet(templates, count)
           made == [k \in 1..count |->
                      IF k <= n THEN templates[k]
                      ELSE Fleets!Generated(templates, count, k - n - 1)]
           quota == Fleets!BacnetQuota(count)
<1>1. templates \in Seq(DevicesWith(W)) /\ DOMAIN templates = 1..n /\ n \in Nat
  BY DEF Templates
<1>2. quota \in 2..8
  BY QuotaIs, Zenon
<1>3. CASE n = 0 \/ count <= n
  <2>1. devices = templates
    BY <1>3, Zenon DEF Fleets!GenerateFleet
  <2>2. Fleets!CountReached(templates, templates, count) /\ Fleets!DistinctIn(templates, templates)
    BY <1>3, Unchanged, Zenon
  <2> HIDE DEF quota
  <2>3. (n + 1)..n = {}
    BY <1>1
  <2>4. Fleets!FleetAsDescribed(templates, count, templates)
    BY <1>2, <2>2, <2>3, Zenon DEF Fleets!FleetAsDescribed, quota
  <2> QED BY <2>1, <2>4, Zenon
<1>4. CASE ~(n = 0 \/ count <= n)
  <2>1. devices = made
    BY <1>4, Zenon DEF Fleets!GenerateFleet
  <2>2. n > 0 /\ count > n
    BY <1>1, <1>4
  <2>13. templates # <<>>
    BY <1>1, <2>2
  <2>3. /\ DOMAIN made = 1..count /\ \A k \in 1..count : k <= n => made[k] = templates[k]
        /\ \A k \in 1..count : k > n => made[k] = Fleets!Generated(templates, count, k - n - 1)
    <3>1. \A k \in 1..count : k > n => ~(k <= n)
      BY <1>1
    <3> QED BY <3>1, Zenon
  <2>4. Len(made) = count
    BY <2>3
  <2> HIDE DEF made, quota
  <2>5. ASSUME NEW k \in 1..count, k > n
        PROVE  OfFleet(templates, count, k - n - 1, made[k])
    <3> DEFINE i == k - n - 1
    <3>1. i \in Nat
      BY <1>1, <2>5
    <3>2. made[k] = Fleets!Generated(templates, count, i)
      BY <2>3, <2>5, Zenon
    <3> HIDE DEF i
    <3>3. Fleets!NextId(templates) \in Int
      BY <1>1, <2>13, NextIdIs, Zenon
    <3>4. \A j \in DOMAIN templates : templates[j].name # Fleets!FleetName(i)
      BY <3>1, Zenon DEF Templates
    <3>5. OfFleet(templates, count, i, Fleets!Generated(templates, count, i))
      BY <1>1, <2>13, <3>1, <3>3, <3>4, GeneratedIs, Zenon
    <3> QED BY <3>2, <3>5, Zenon DEF i
  <2>6. Generations(templates, count, made)
    BY <2>5, Zenon DEF Generations
  <2>7. Grown(templates, count, made)
    <3>1. \A k \in 1..count : k > n => made[k].id = Fleets!NextId(templates) + (k - n - 1)
      BY <2>5, Zenon DEF OfFleet
    <3> QED BY <2>2, <2>3, <2>4, <3>1, Zenon DEF Grown
  <2>8. /\ Fleets!CountReached(templates, made, count)
        /\ \A i, j \in DOMAIN made : i # j => made[i].id # made[j].id
    BY <2>7, IdsInTurn, Zenon
  <2>9. Fleets!NoLookalikes(templates, count) => OwnNames(made)
    BY <2>6, <2>7, FleetNamed, Zenon
  <2>10. Fleets!DistinctIn(made, templates)
    BY <2>4, <2>8, <2>9, Zenon DEF Fleets!DistinctIn, OwnNames
  <2>11. \A k \in (n + 1)..count : k \in 1..count /\ k > n
    BY <1>1, <2>2
  <2>12. \A k \in (n + 1)..count :
           /\ Fleets!AnomalyCapable(made[k]) /\ Fleets!TellApart(made[k].points)
           /\ \A p \in DOMAIN made[k].points : Within(made[k].points[p].sim)
           /\ \E b \in DOMAIN templates : Fleets!StandsAlone(templates[b], made[k])
           /\ made[k].protocol = Fleets!ProtocolOf(k - n - 1, quota)
    BY <2>5, <2>11, Zenon DEF OfFleet, quota
  <2>14. \A k \in (n + 1)..count : made[k].protocol = "bacnet" <=> k - n <= quota
    <3> SUFFICES ASSUME NEW k \in (n + 1)..count
                 PROVE  made[k].protocol = "bacnet" <=> k - n <= quota
      OBVIOUS
    <3> DEFINE i == k - n - 1
    <3>1. i \in Nat /\ quota \in Nat
      BY <1>1, <1>2
    <3>2. i < quota <=> k - n <= quota
      BY <1>1, <1>2
    <3>3. made[k].protocol = Fleets!ProtocolOf(i, quota)
      BY <2>12, Zenon
    <3> HIDE DEF i
    <3>4. Fleets!ProtocolOf(i, quota) = "bacnet" <=> i < quota
      BY <3>1, ProtocolIs, Zenon
    <3> QED BY <3>2, <3>3, <3>4, Zenon
  <2>15. Fleets!FleetAsDescribed(templates, count, made)
    BY <1>2, <2>4, <2>8, <2>10, <2>12, <2>14, Zenon DEF Fleets!FleetAsDescribed, Within, quota
  <2> QED BY <2>1, <2>15, Zenon DEF made
<1> QED BY <1>3, <1>4, Zenon

-----------------------------------------------------------------------------
\* The templates that are asked about: their names, and the words in them.
AHU1 == <<Fleets!Word("AHU"), Fleets!Number(1, 1)>>
OAT1 == <<Fleets!Word("OAT"), Fleets!Number(1, 1)>>
PM1 == <<Fleets!Word("PM"), Fleets!Number(1, 1)>>
X2 == Append(NamedX, Fleets!Number(0, 2))

TemplateWords ==
  {"T", "S", "analogInput", "analogValue", "binaryValue", "degC", "kW", "bacnet", "none", "sine",
   "constant"} \cup {<<>>, NamedX, AHU1, OAT1, PM1, X2}

NameParts ==
  {Fleets!Word("AHU"), Fleets!Word("PM"), Fleets!Word("X"), Fleets!Number(1, 1), Fleets!Number(0, 2)}

\* They are among the words.
LEMMA TemplateWordsAre ==
  /\ {"T", "S", "analogInput", "analogValue", "binaryValue", "degC", "kW", "bacnet", "none", "sine",
      "constant"} \subseteq TemplateWords
  /\ {<<>>, NamedX, AHU1, OAT1, PM1, X2} \subseteq TemplateWords
BY DEF TemplateWords

\* Numbers of a device of the fleet have three digits.
LEMMA FleetNameIs ==
  ASSUME NEW i \in Nat, NEW first, NEW zeros \in Int, NEW m \in Int, zeros # 2, m < 10
  PROVE  Fleets!FleetName(i) # <<first, Fleets!Number(zeros, m)>>
<1> SUFFICES ASSUME Fleets!FleetName(i) = <<first, Fleets!Number(zeros, m)>> PROVE FALSE
  OBVIOUS
<1> DEFINE a == Fleets!Padded(i + 1)
           b == Fleets!Number(zeros, m)
           v == Fleets!Word(Fleets!Kinds[(i % Len(Fleets!Kinds)) + 1])
           z == IF i + 1 < 10 THEN 2 ELSE IF i + 1 < 100 THEN 1 ELSE 0
<1>1. <<v, a>> = <<first, b>>
  BY Zenon DEF Fleets!FleetName
<1>2. a[1] = z /\ a[2] = i + 1 /\ b[1] = zeros /\ b[2] = m
  BY DEF Fleets!Padded, Fleets!Number
<1> HIDE DEF a, b, v, z
<1>3. a = b
  BY <1>1
<1>4. z = zeros /\ i + 1 = m
  BY <1>2, <1>3, Zenon
<1> QED BY <1>4 DEF z

\* A name of one part is none of the fleet's.
LEMMA FleetNameHasTwoParts == \A i \in Nat : \A part : Fleets!FleetName(i) # <<part>>
<1> SUFFICES ASSUME NEW i \in Nat, NEW part PROVE Fleets!FleetName(i) # <<part>>
  OBVIOUS
<1> DEFINE a == Fleets!Padded(i + 1)
           v == Fleets!Word(Fleets!Kinds[(i % Len(Fleets!Kinds)) + 1])
<1>1. Fleets!FleetName(i) = <<v, a>>
  BY Zenon DEF Fleets!FleetName
<1> HIDE DEF a, v
<1>2. <<v, a>> # <<part>>
  OBVIOUS
<1> QED BY <1>1, <1>2, Zenon

\* What a name of a template may be.
Nameable(name) == name \in Seq(NameParts) /\ \A i \in Nat : name # Fleets!FleetName(i)

\* The four names of templates may be.
LEMMA NamesOfTemplates == \A name \in {AHU1, NamedX, X2, PM1} : Nameable(name)
<1>1. /\ Fleets!Word("AHU") \in NameParts /\ Fleets!Word("PM") \in NameParts
      /\ Fleets!Word("X") \in NameParts /\ Fleets!Number(1, 1) \in NameParts
      /\ Fleets!Number(0, 2) \in NameParts
  BY Zenon DEF NameParts
<1>2. X2 = <<Fleets!Word("X"), Fleets!Number(0, 2)>>
  <2>1. ASSUME NEW w, NEW e PROVE Append(<<w>>, e) = <<w, e>>
    <3> DEFINE s == Append(<<w>>, e)
               t == <<w, e>>
    <3>1. <<w>> \in Seq({w, e}) /\ Len(<<w>>) = 1 /\ <<w>>[1] = w
      OBVIOUS
    <3>2. s \in Seq({w, e}) /\ Len(s) = 2 /\ s[1] = w /\ s[2] = e
      BY <3>1
    <3>3. t \in Seq({w, e}) /\ Len(t) = 2 /\ t[1] = w /\ t[2] = e
      OBVIOUS
    <3> HIDE DEF s, t
    <3>4. \A i \in 1..2 : s[i] = t[i]
      BY <3>2, <3>3
    <3>5. s = t
      BY <3>2, <3>3, <3>4
    <3> QED BY <3>5, Zenon DEF s, t
  <2> QED BY <2>1, Zenon DEF X2, NamedX
<1>3. AHU1 \in Seq(NameParts) /\ NamedX \in Seq(NameParts) /\ X2 \in Seq(NameParts)
      /\ PM1 \in Seq(NameParts)
  BY <1>1, <1>2, ShortSequences, Zenon DEF AHU1, NamedX, PM1
<1>4. ASSUME NEW i \in Nat
      PROVE  AHU1 # Fleets!FleetName(i) /\ NamedX # Fleets!FleetName(i) /\ X2 # Fleets!FleetName(i)
             /\ PM1 # Fleets!FleetName(i)
  <2>1. \A first : Fleets!FleetName(i) # <<first, Fleets!Number(1, 1)>>
    BY FleetNameIs
  <2>2. \A first : Fleets!FleetName(i) # <<first, Fleets!Number(0, 2)>>
    BY FleetNameIs
  <2>3. NamedX # Fleets!FleetName(i)
    BY FleetNameHasTwoParts, Zenon DEF NamedX
  <2>4. AHU1 # Fleets!FleetName(i)
    BY <2>1, Zenon DEF AHU1
  <2>5. PM1 # Fleets!FleetName(i)
    BY <2>1, Zenon DEF PM1
  <2>6. X2 # Fleets!FleetName(i)
    BY <1>2, <2>2, Zenon
  <2> QED BY <2>3, <2>4, <2>5, <2>6
<1> QED BY <1>3, <1>4, Zenon DEF Nameable

\* A point of a template is a point of the files.
LEMMA TemplatePointIs ==
  ASSUME NEW W, NEW device \in W, NEW local \in W, NEW type \in W, NEW instance \in Int,
         NEW unit \in W, NEW sim \in SimsWith(W), NEW refs \in SUBSET FullNames(W)
  PROVE  TemplatePoint(device, local, type, instance, unit, sim, refs) \in PointsWith(W)
<1>1. [device |-> device, local |-> local] \in FullNames(W)
  BY DEF FullNames
<1> DEFINE name == [device |-> device, local |-> local]
           P == SimsWith(W)
           N == FullNames(W)
<1>2. name \in N /\ sim \in P /\ refs \in SUBSET N /\ 21 \in Int
  BY <1>1
<1>3. TemplatePoint(device, local, type, instance, unit, sim, refs) =
        [type |-> type, instance |-> instance, name |-> name, refs |-> refs, value |-> 21,
         unit |-> unit, sim |-> sim]
  BY DEF TemplatePoint
<1> HIDE DEF name, P, N
<1>4. [type |-> type, instance |-> instance, name |-> name, refs |-> refs, value |-> 21,
       unit |-> unit, sim |-> sim] \in
      [type : W, instance : Int, name : N, refs : SUBSET N, value : Int, unit : W, sim : P]
  BY <1>2
<1> QED BY <1>3, <1>4, Zenon DEF PointsWith, P, N

\* So is its simulation.
LEMMA SimsOfTemplates ==
  \A sim \in {Fleets!NoModel, SimModel("sine"), SimModel("constant")} : sim \in SimsWith(TemplateWords)
<1>1. "none" \in TemplateWords /\ "sine" \in TemplateWords /\ "constant" \in TemplateWords
  BY TemplateWordsAre
<1>2. \A model \in TemplateWords : SimModel(model) \in SimsWith(TemplateWords)
  BY DEF SimModel, SimsWith
<1>3. Fleets!NoModel \in SimsWith(TemplateWords)
  BY <1>1 DEF Fleets!NoModel, SimsWith
<1> QED BY <1>1, <1>2, <1>3

\* The first point of a template that has points.
LEMMA SinglesAre ==
  ASSUME NEW device \in TemplateWords, NEW p \in Singles(device)
  PROVE  p \in PointsWith(TemplateWords) /\ p.instance = 1
<1> DEFINE S(d) == [device |-> d, local |-> "S"]
           T == [device |-> OAT1, local |-> "T"]
<1>1. PICK type \in {"analogInput", "analogValue", "binaryValue"}, unit \in {"degC", "kW"},
           sim \in {Fleets!NoModel, SimModel("sine"), SimModel("constant")},
           refs \in {{}, {S(device), S(<<>>), T}} :
        p = TemplatePoint(device, "T", type, 1, unit, sim, refs)
  <2> DEFINE model == SimModel("sine")
             other == SimModel("constant")
             made(type, unit, sim, refs) == TemplatePoint(device, "T", type, 1, unit, sim, refs)
             R == {{}, {S(device), S(<<>>), T}}
             M == {Fleets!NoModel, model, other}
  <2>1. Singles(device) =
          {made(type, unit, sim, refs) :
             type \in {"analogInput", "analogValue", "binaryValue"}, unit \in {"degC", "kW"},
             sim \in M, refs \in R}
    BY DEF Singles, OAT1
  <2> HIDE DEF made, R, M, model, other
  <2>2. \E type \in {"analogInput", "analogValue", "binaryValue"}, unit \in {"degC", "kW"},
            sim \in M, refs \in R : p = made(type, unit, sim, refs)
    BY <2>1
  <2> QED BY <2>2, Zenon DEF made, R, M, model, other
<1>2. /\ type \in TemplateWords /\ unit \in TemplateWords /\ "T" \in TemplateWords
      /\ "S" \in TemplateWords /\ <<>> \in TemplateWords /\ OAT1 \in TemplateWords
  BY TemplateWordsAre
<1>3. S(device) \in FullNames(TemplateWords) /\ S(<<>>) \in FullNames(TemplateWords)
      /\ T \in FullNames(TemplateWords)
  BY <1>2 DEF FullNames
<1> HIDE DEF S, T
<1>4. refs \in SUBSET FullNames(TemplateWords)
  BY <1>3
<1>5. sim \in SimsWith(TemplateWords)
  BY SimsOfTemplates, Zenon
<1>6. 1 \in Int
  OBVIOUS
<1>7. p \in PointsWith(TemplateWords)
  BY <1>1, <1>2, <1>4, <1>5, <1>6, TemplatePointIs, Zenon
<1>8. p.instance = 1
  BY <1>1 DEF TemplatePoint
<1> QED BY <1>7, <1>8

\* A template whose points are told apart is a device of the files.
LEMMA TemplateIs ==
  ASSUME NEW number \in Int, NEW device \in TemplateWords, NEW list \in Seq(PointsWith(TemplateWords)),
         Fleets!TellApart(list)
  PROVE  LET d == TemplateOf(number, device, list)
         IN  d \in DevicesWith(TemplateWords) /\ d.id = number /\ d.name = device
<1> DEFINE d == TemplateOf(number, device, list)
           P == Seq(PointsWith(TemplateWords))
<1>1. "bacnet" \in TemplateWords
  BY TemplateWordsAre
<1>2. d = [id |-> number, name |-> device, protocol |-> "bacnet", points |-> list]
  BY DEF TemplateOf
<1>3. list \in P
  OBVIOUS
<1> HIDE DEF d, P
<1>4. /\ d \in [id : Int, name : TemplateWords, protocol : TemplateWords, points : P]
      /\ d.id = number /\ d.name = device /\ d.points = list
  BY <1>1, <1>2, <1>3
<1>5. d \in DevicesWith(TemplateWords)
  BY <1>4, Zenon DEF DevicesWith, P
<1> QED BY <1>4, <1>5, Zenon DEF d

IsTemplate(d, number, device) == d \in DevicesWith(TemplateWords) /\ d.id = number /\ d.name = device

\* So is every template that is asked about.
LEMMA TemplatesAre ==
  ASSUME NEW number \in Int, NEW device \in TemplateWords, NEW d \in TemplatesOf(number, device)
  PROVE  IsTemplate(d, number, device)
<1> DEFINE P == PointsWith(TemplateWords)
           s == TemplatePoint(device, "S", "analogValue", 2, "kW", Fleets!NoModel, {})
<1>1. s \in P /\ s.instance = 2
  <2>1. {} \in SUBSET FullNames(TemplateWords) /\ 2 \in Int
    OBVIOUS
  <2>2. "S" \in TemplateWords /\ "analogValue" \in TemplateWords /\ "kW" \in TemplateWords
    BY TemplateWordsAre
  <2>3. Fleets!NoModel \in SimsWith(TemplateWords)
    BY SimsOfTemplates, Zenon
  <2>4. s \in P
    BY <2>1, <2>2, <2>3, TemplatePointIs, Zenon
  <2>5. s.instance = 2
    BY DEF TemplatePoint
  <2> QED BY <2>4, <2>5
<1>2. ASSUME NEW list \in Seq(P), Fleets!TellApart(list), d = TemplateOf(number, device, list)
      PROVE  IsTemplate(d, number, device)
  <2>1. LET t == TemplateOf(number, device, list)
        IN  t \in DevicesWith(TemplateWords) /\ t.id = number /\ t.name = device
    <3> HIDE DEF s
    <3> QED BY <1>2, TemplateIs, Zenon
  <2> QED BY <1>2, <2>1, Zenon DEF IsTemplate
<1>3. CASE d = TemplateOf(number, device, <<>>)
  <2>1. <<>> \in Seq(P) /\ Fleets!TellApart(<<>>)
    BY DEF Fleets!TellApart
  <2> QED BY <1>2, <1>3, <2>1
<1>4. CASE \E p \in Singles(device) : d = TemplateOf(number, device, <<p, s>>)
  <2>1. PICK p \in Singles(device) : d = TemplateOf(number, device, <<p, s>>)
    BY <1>4
  <2>2. p \in P /\ p.instance = 1
    BY SinglesAre, Zenon
  <2> HIDE DEF s, P
  <2>3. <<p, s>> \in Seq(P)
    BY <1>1, <2>2, ShortSequences, Zenon
  <2>4. Fleets!TellApart(<<p, s>>)
    BY <1>1, <2>2 DEF Fleets!TellApart
  <2> QED BY <1>2, <2>1, <2>3, <2>4
<1> QED BY <1>3, <1>4, Zenon DEF TemplatesOf

\* Every list of templates that is asked about is as the theorems want it.
LEMMA AskedTemplates ==
  ASSUME NEW templates \in TemplateLists
  PROVE  Templates(TemplateWords, NameParts, templates)
<1> DEFINE D == DevicesWith(TemplateWords)
<1>0. AHU1 \in TemplateWords /\ NamedX \in TemplateWords /\ X2 \in TemplateWords
      /\ PM1 \in TemplateWords
  BY TemplateWordsAre, Zenon
<1>1. CASE templates = <<>>
  <2>1. templates \in Seq(D) /\ DOMAIN templates = {}
    BY <1>1
  <2> QED BY <2>1, Zenon DEF Templates
<1>2. CASE \E a \in TemplatesOf(7, AHU1) : templates = <<a>>
  <2>1. PICK a \in TemplatesOf(7, AHU1) : templates = <<a>>
    BY <1>2
  <2>2. a \in D /\ a.name = AHU1
    <3>1. 7 \in Int
      OBVIOUS
    <3> DEFINE n == 7
    <3> HIDE DEF n
    <3>2. a \in TemplatesOf(n, AHU1)
      BY DEF n
    <3>3. IsTemplate(a, n, AHU1)
      BY <1>0, <3>1, <3>2, TemplatesAre, Zenon DEF n
    <3> QED BY <3>3, Zenon DEF IsTemplate, n
  <2> HIDE DEF D
  <2>3. templates \in Seq(D)
    BY <2>1, <2>2, ShortSequences, Zenon
  <2>4. /\ \A j \in DOMAIN templates : templates[j] = a
        /\ \A i, j \in DOMAIN templates : i = j
    BY <2>1
  <2>5. Nameable(AHU1)
    BY NamesOfTemplates, Zenon
  <2> QED BY <2>2, <2>3, <2>4, <2>5, Zenon DEF Templates, Nameable, D
<1>3. CASE \E a \in TemplatesOf(7, NamedX), other \in {X2, PM1} :
             templates = <<a, TemplateOf(9, other, <<>>)>>
  <2>1. PICK a \in TemplatesOf(7, NamedX), other \in {X2, PM1} :
               templates = <<a, TemplateOf(9, other, <<>>)>>
    BY <1>3
  <2> DEFINE b == TemplateOf(9, other, <<>>)
  <2>2. a \in D /\ a.name = NamedX /\ a.id = 7
    <3>1. 7 \in Int
      OBVIOUS
    <3> DEFINE n == 7
    <3> HIDE DEF n
    <3>2. a \in TemplatesOf(n, NamedX)
      BY DEF n
    <3>3. IsTemplate(a, n, NamedX)
      BY <1>0, <3>1, <3>2, TemplatesAre, Zenon DEF n
    <3> QED BY <3>3, Zenon DEF IsTemplate, n
  <2>3. b \in D /\ b.name = other /\ b.id = 9
    <3>1. 9 \in Int
      OBVIOUS
    <3>2. b \in TemplatesOf(9, other)
      BY DEF TemplatesOf
    <3>3. other \in TemplateWords
      BY <1>0
    <3> DEFINE n == 9
    <3>4. n \in Int /\ b \in TemplatesOf(n, other)
      BY <3>1, <3>2
    <3> HIDE DEF n, b
    <3>5. IsTemplate(b, n, other)
      BY <3>3, <3>4, TemplatesAre, Zenon
    <3> QED BY <3>5, Zenon DEF IsTemplate, n
  <2> HIDE DEF D, b
  <2>4. templates = <<a, b>>
    BY <2>1 DEF b
  <2>5. templates \in Seq(D)
    BY <2>2, <2>3, <2>4, ShortSequences, Zenon
  <2>6. Nameable(a.name) /\ Nameable(b.name)
    BY <2>2, <2>3, NamesOfTemplates
  <2>7. \A j \in DOMAIN templates : templates[j] = a \/ templates[j] = b
    BY <2>4
  <2>8. \A i, j \in DOMAIN templates : templates[i].id = templates[j].id => i = j
    BY <2>2, <2>3, <2>4
  <2> QED BY <2>5, <2>6, <2>7, <2>8, Zenon DEF Templates, Nameable, D
<1>4. templates = <<>> \/ (\E a \in TemplatesOf(7, AHU1) : templates = <<a>>)
      \/ \E a \in TemplatesOf(7, NamedX), other \in {X2, PM1} :
           templates = <<a, TemplateOf(9, other, <<>>)>>
  <2> DEFINE A == TemplatesOf(7, AHU1)
             B == TemplatesOf(7, NamedX)
             N == {X2, PM1}
             pair(a, other) == <<a, TemplateOf(9, other, <<>>)>>
  <2>1. TemplateLists = {<<>>} \cup {<<a>> : a \in A} \cup {pair(a, other) : a \in B, other \in N}
    BY DEF TemplateLists, AHU1, PM1, X2
  <2> HIDE DEF A, B, N, pair
  <2>2. templates = <<>> \/ (\E a \in A : templates = <<a>>)
        \/ \E a \in B, other \in N : templates = pair(a, other)
    BY <2>1
  <2> QED BY <2>2, Zenon DEF A, B, N, pair
<1> QED BY <1>1, <1>2, <1>3, <1>4, Zenon

\* Whatever is asked about the fleet is as described.
LEMMA MultiplyRight == Multiply => DevicesAsDescribed'
<1> SUFFICES ASSUME Multiply PROVE DevicesAsDescribed'
  OBVIOUS
<1>1. topic' = "fleet"
  BY Zenon DEF Multiply, Asked
<1>2. PICK templates \in TemplateLists, count \in {0, 1, 2, 3, 5, 12, 45} :
        call' = <<templates, count, Fleets!ScaleDevices(templates, count),
                  Fleets!GenerateFleet(templates, count)>>
  BY Zenon DEF Multiply
<1>3. count \in Nat
  OBVIOUS
<1> DEFINE scaled == Fleets!ScaleDevices(templates, count)
           fleet == Fleets!GenerateFleet(templates, count)
<1>4. Templates(TemplateWords, NameParts, templates)
  BY AskedTemplates, Zenon
<1>5. Fleets!ScaledAsDescribed(templates, count, scaled)
  BY <1>3, <1>4, ScaledRight, Zenon
<1>6. Fleets!FleetAsDescribed(templates, count, fleet)
  BY <1>3, <1>4, FleetRight, Zenon
<1> HIDE DEF scaled, fleet
<1>7. call' = <<templates, count, scaled, fleet>>
  BY <1>2 DEF scaled, fleet
<1>8. call'[1] = templates /\ call'[2] = count /\ call'[3] = scaled /\ call'[4] = fleet
  BY <1>7
<1> QED BY <1>1, <1>5, <1>6, <1>8, Zenon DEF DevicesAsDescribed

-----------------------------------------------------------------------------
\* Whatever is asked, of whatever the constants are, devices that come from a
\* file, a scan or a template are as they should be.
THEOREM DevicesAreAsDescribed == CallSpec => []DevicesAsDescribed
<1>1. CallInit => DevicesAsDescribed
  BY Zenon DEF CallInit, DevicesAsDescribed
<1>2. DevicesAsDescribed /\ [CallNext]_calculations => DevicesAsDescribed'
  <2> SUFFICES ASSUME DevicesAsDescribed, [CallNext]_calculations PROVE DevicesAsDescribed'
    OBVIOUS
  <2>1. CASE UNCHANGED calculations
    <3>1. topic' = topic /\ call' = call
      BY <2>1 DEF calculations
    <3> QED BY <3>1, Zenon DEF DevicesAsDescribed
  <2>2. ASSUME topic' \notin {"project", "table", "sweep", "units", "fleet"}
        PROVE  DevicesAsDescribed'
    BY <2>2 DEF DevicesAsDescribed
  <2>3. CASE Send
    BY <2>2, <2>3 DEF Send, Asked
  <2>4. CASE Address
    BY <2>2, <2>4 DEF Address, Asked
  <2>5. CASE Exchange
    BY <2>2, <2>5 DEF Exchange, Asked
  <2>6. CASE Publish
    BY <2>2, <2>6 DEF Publish, Asked
  <2>7. CASE Foretell
    BY <2>2, <2>7 DEF Foretell, Asked
  <2>8. CASE Assess
    BY <2>2, <2>8 DEF Assess, Asked
  <2>9. CASE Simulate
    BY <2>2, <2>9 DEF Simulate, Asked
  <2>10. CASE Refer
    BY <2>2, <2>10 DEF Refer, Asked
  <2>11. CASE Weather
    BY <2>2, <2>11 DEF Weather, Asked
  <2>12. CASE ImportProject
    BY <2>12, ProjectRight, Zenon
  <2>13. CASE ImportTable
    BY <2>13, TableRight, Zenon
  <2>14. CASE Sweep
    BY <2>14, SweepRight, Zenon
  <2>15. CASE Probe
    BY <2>15, ProbeRight, Zenon
  <2>16. CASE Multiply
    BY <2>16, MultiplyRight, Zenon
  <2> QED BY <2>1, <2>3, <2>4, <2>5, <2>6, <2>7, <2>8, <2>9, <2>10, <2>11, <2>12, <2>13, <2>14,
             <2>15, <2>16, Zenon DEF CallNext
<1> QED BY <1>1, <1>2, PTL DEF CallSpec

=============================================================================
