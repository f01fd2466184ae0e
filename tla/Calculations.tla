----------------------------- MODULE Calculations -----------------------------
(***************************************************************************)
(* One call of one of the pure algorithms, with inputs from small sets:    *)
(* conversions of values, imports and scans, the fleet, predictions and    *)
(* signals.  Each is compared with what it is there for, which is stated   *)
(* beside the algorithm in its module.                                     *)
(*                                                                         *)
(* `topic' is the part that is asked, `call' is empty, and then the call   *)
(* with its arguments, and what it returned where that is costly.          *)
(***************************************************************************)
EXTENDS Integers, Sequences

CONSTANTS Text, NoAnswer, None, Missing

ASSUME MissingAssumption == Missing \notin Int
ASSUME NoneAssumption == None \notin Int
ASSUME NoAnswerAssumption == NoAnswer \notin Int

VARIABLES topic, call

calculations == <<topic, call>>

Codec     == INSTANCE KnxCodec
Forms     == INSTANCE ValueForms
Scan      == INSTANCE Discovered
Fleets    == INSTANCE Fleet
Foresight == INSTANCE Prediction
Signal    == INSTANCE Signals

Topics == {"bus", "address", "forms", "topics", "project", "table", "sweep", "units",
           "fleet", "prediction", "health", "signal", "reference", "world"}

CallInit == topic \in Topics /\ call = <<>>

Asked(part) == topic = part /\ call = <<>> /\ UNCHANGED topic

-----------------------------------------------------------------------------
(* Conversions.  Around every doubling of the mantissa of DPT 9, at both   *)
(* ends of its range and beyond; all percentages.                          *)
Doublings == UNION {{2047 * 2^e, 2047 * 2^e + 1, 2048 * 2^e, -2048 * 2^e, -2048 * 2^e - 1} : e \in 0..16}
Hundredths == Doublings \cup -300..300 \cup {25500, 25600, 123456, -99999, Text}
Percentages == -200..10200 \cup {500000, Text}
BusTypes == {<<>>, <<1>>, <<1, 1>>, <<5>>, <<5, 10>>, <<9>>, <<9, 1>>, <<14, 56>>}

Send ==
  /\ Asked("bus")
  /\ \/ \E v \in Hundredths, dpt \in BusTypes : call' = <<v, dpt>>
     \/ \E v \in Percentages : call' = <<v, <<5, 1>>>>

Addresses == 0..65535

Address == Asked("address") /\ \E n \in Addresses : call' = <<n>>

Values ==
  {Forms!BoolOf(b) : b \in BOOLEAN} \cup {Forms!IntOf(n) : n \in {-3, 0, 1, 300, 65535, 65536}}
  \cup {Forms!FloatOf(v) : v \in {-250, 0, 100, 250}} \cup {Forms!BareFloatOf(v) : v \in {0, 7}}
  \cup {Forms!TextOf("digits", v) : v \in {100, 500}} \cup {Forms!TextOf("point", 250), Forms!TextOf("exponent", 7)}
  \cup {Forms!TextOf(w, 0) : w \in Forms!Words \cup {"true", "false"}}

Exchange ==
  /\ Asked("forms")
  /\ \E value \in Values, kind \in Forms!Kinds \cup {"coil", "register", "input"} : call' = <<value, kind>>

PointNames == [d \in {"1", "2"} |-> {<<"a">>, <<"b">>, <<"b", "a">>, <<"1", "2", "a">>}]

Publish ==
  /\ Asked("topics")
  /\ \E prefix \in {<<"p">>, <<"p", "q">>}, d \in DOMAIN PointNames :
       \E name \in PointNames[d] : call' = <<prefix, d, name>>

(* What goes out comes back the same, or as the nearest its form can hold, *)
(* with the exceptions that are named at each conversion.                  *)
ReadsBack ==
  call # <<>> =>
    CASE topic = "bus" -> Codec!KnxReadsBack(call[1], call[2])
      [] topic = "address" -> Codec!GaToRaw(Codec!RawToGa(call[1])) = call[1]
      [] topic = "forms" ->
           /\ Forms!StoredReadsBack(call[1])
           /\ call[2] \in Forms!Kinds => Forms!ExposedReadsBack(call[1], call[2])
           /\ call[2] \notin Forms!Kinds => Forms!ModbusReadsBack(call[1], call[2])
      [] topic = "topics" -> Forms!MqttReadsBack(call[1], PointNames, call[2], call[3])
      [] OTHER -> TRUE

-----------------------------------------------------------------------------
(* Imports and scans. *)
Levels(ga) == [form |-> "levels", ga |-> ga]
Element(name, address, types) ==
  [tag |-> "GroupAddress", name |-> name, address |-> address, types |-> types]

GroupElements ==
  {Element(name, address, types) :
     name \in {"a", "no name"}, types \in {<<>>, <<<<14, 56>>, <<1, 1>>>>},
     address \in {Levels(<<1, 2, 3>>), [form |-> "number", n |-> 2563], [form |-> "word"]}}

Documents ==
  {<<>>} \cup {<<e>> : e \in GroupElements} \cup {<<[Element("g", Levels(<<9, 0, 0>>), <<>>) EXCEPT !.tag = "Group"], e>> : e \in GroupElements}
  \cup {<<e, Element("b", Levels(<<1, 2, 3>>), <<<<1>>>>)>> : e \in GroupElements}

Members ==
  {[kind |-> kind, lock |-> lock, documents |-> <<d>>] :
     kind \in {"document", "zip"}, lock \in {"none", "password", "damaged"}, d \in Documents}

ImportProject ==
  /\ Asked("project")
  /\ \E first \in Members, more \in {<<>>} \cup {<<m>> : m \in {n \in Members : Len(n.documents[1]) = 1}},
        password \in {"none", "right", "wrong"} :
       call' = <<<<first>> \o more, password>>

Entries == {Scan!Entry(name, ga, dpt) : name \in {"a", "no name"}, ga \in {<<0, 0, 1>>, <<31, 7, 255>>},
                                        dpt \in {<<>>, <<1>>, <<1, 8>>, <<14, 19>>, <<9, 1>>}}

Headings ==
  {<<{"group", "name"}, {"address"}, {"datapoint", "type"}>>,
   <<{"datapoint", "type"}, {"group", "address"}, {"central"}, {"name"}>>,
   <<{"main"}, {"middle"}, {"sub"}, {"name"}, {"datapoint", "type"}>>,
   <<{"name"}, {"sub"}, {"main"}, {"datapoint", "type"}, {"middle"}>>}

ImportTable ==
  /\ Asked("table")
  /\ \E rows \in {<<>>} \cup {<<e>> : e \in Entries} \cup (Entries \X Entries), header \in Headings :
       call' = <<rows, header>>

Objects ==
  [type : {"analog", "binary", "device"}, instance : 0..2, name : {NoAnswer, "n"}, value : {1}]

ObjectLists ==
  {<<>>} \cup {<<o>> : o \in Objects}
  \cup {l \in Objects \X Objects : <<l[1].type, l[1].instance>> # <<l[2].type, l[2].instance>>}

Sweep ==
  /\ Asked("sweep")
  /\ \E mode \in {"ip_range", "subnet"}, from, to \in 1..3, max \in {1, 300}, deep \in BOOLEAN,
        answers \in [1..3 -> {NoAnswer, 7, 8}], list \in ObjectLists :
       /\ \/ list = <<>> \/ (from = 1 /\ to = 3 /\ answers[1] = 7 /\ answers[2] = NoAnswer)
       /\ LET config == [mode |-> mode, from |-> from, to |-> to, network |-> 0..2, me |-> 1,
                         deep |-> deep, max |-> max]
              all == [ip \in 0..3 |-> IF ip = 0 THEN NoAnswer ELSE answers[ip]]
              lists == [ip \in 0..3 |-> IF ip = 2 THEN NoAnswer ELSE list]
          IN  call' = <<Scan!DiscoverBacnet(config, all, lists), config, all>>

Probe ==
  /\ Asked("units")
  /\ \/ \E registers \in [1..3 -> {NoAnswer, 5}] : call' = <<Scan!DiscoverModbus(1, 3, registers)>>
     \/ \E heard \in [1..3 -> [device : {1, NoAnswer}, name : {"a", "b"}, value : {1, 2}]] :
          call' = <<Scan!DiscoverMqtt(heard)>>
     \/ \E mode \in {"gateway", "ets_file"}, e \in Entries : call' = <<Scan!DiscoverKnx(mode, <<e>>)>>

(* What is chosen from a list of devices: all of them in turn, and one     *)
(* that is not there.                                                      *)
ChosenMatch(devices) ==
  LET refs == [i \in DOMAIN devices |-> devices[i].ref]
      rows == Scan!Chosen(devices, refs)
  IN  /\ \A i \in DOMAIN devices : rows[i] = <<Scan!Materialized(devices[i].objects)>>
      /\ devices # <<>> => Scan!Chosen(Tail(devices), refs)[1] = Scan!NotFound

ListedRight(devices) ==
  /\ Scan!HandlesDiffer(devices)
  /\ \A i \in DOMAIN devices : Scan!ListedBecomesPoint(devices[i])
  /\ ChosenMatch(devices)

-----------------------------------------------------------------------------
(* The fleet. *)
SimModel(model) == [model |-> model, low |-> -5, centre |-> 0, high |-> 5]

TemplatePoint(device, local, type, instance, unit, sim, refs) ==
  [type |-> type, instance |-> instance, name |-> [device |-> device, local |-> local],
   refs |-> refs, value |-> 21, unit |-> unit, sim |-> sim]

Singles(device) ==
  {TemplatePoint(device, "T", type, 1, unit, sim, refs) :
     type \in {"analogInput", "analogValue", "binaryValue"}, unit \in {"degC", "kW"},
     sim \in {Fleets!NoModel, SimModel("sine"), SimModel("constant")},
     refs \in {{}, {[device |-> device, local |-> "S"], [device |-> <<>>, local |-> "S"],
                    [device |-> <<Fleets!Word("OAT"), Fleets!Number(1, 1)>>, local |-> "T"]}}}

TemplateOf(id, device, points) == [id |-> id, name |-> device, protocol |-> "bacnet", points |-> points]

TemplatesOf(id, device) ==
  {TemplateOf(id, device, <<>>)} \cup
  {TemplateOf(id, device,
     <<p, TemplatePoint(device, "S", "analogValue", 2, "kW", Fleets!NoModel, {})>>) : p \in Singles(device)}

NamedX == <<Fleets!Word("X")>>

TemplateLists ==
  {<<>>} \cup {<<a>> : a \in TemplatesOf(7, <<Fleets!Word("AHU"), Fleets!Number(1, 1)>>)}
  \cup {<<a, TemplateOf(9, other, <<>>)>> :
          a \in TemplatesOf(7, NamedX),
          other \in {Append(NamedX, Fleets!Number(0, 2)), <<Fleets!Word("PM"), Fleets!Number(1, 1)>>}}

Multiply ==
  /\ Asked("fleet")
  /\ \E templates \in TemplateLists, count \in {0, 1, 2, 3, 5, 12, 45} :
       call' = <<templates, count, Fleets!ScaleDevices(templates, count),
                 Fleets!GenerateFleet(templates, count)>>

(* Devices that come from a file, a scan or a template are as many as they *)
(* should be, each with the points it should have, told apart from the     *)
(* others; what is not so is named at each way.                            *)
DevicesAsDescribed ==
  call # <<>> =>
    CASE topic = "project" ->
           /\ Scan!ProjectAsDescribed(call[1], call[2])
           /\ Scan!RoutesAgree(Scan!Readable(call[1], call[2]))
           /\ LET made == Scan!ParseFile([extension |-> "knxproj", members |-> call[1], password |-> call[2]])
              IN  Scan!ToldApart(Scan!ImportedPoints(made.entries))
      [] topic = "table" ->
           /\ Scan!TableAsWritten(call[1], call[2])
           /\ Scan!RoutesAgree(call[1])
      [] topic = "sweep" ->
           /\ Scan!SweepFindsAll(call[2], call[3], call[1])
           /\ ListedRight(call[1])
      [] topic = "units" -> ListedRight(call[1])
      [] topic = "fleet" ->
           /\ Fleets!ScaledAsDescribed(call[1], call[2], call[3])
           /\ Fleets!FleetAsDescribed(call[1], call[2], call[4])
      [] OTHER -> TRUE

-----------------------------------------------------------------------------
(* Predictions, from one or two rows of forecasts.                         *)
Row(made, at, p10, p50, p90) == [made |-> made, at |-> at, p10 |-> p10, p50 |-> p50, p90 |-> p90]

Rows == {Row(made, at, p10, p50, 500) : made \in {1, 2}, at \in {None, -10, 0, 30, 31, 200},
                                        p10 \in {None, -500}, p50 \in {None, -500, 0, 80, 500}}

RowLists == {<<>>} \cup {<<r>> : r \in Rows} \cup {<<r, s>> : r \in Rows, s \in {q \in Rows : q.p10 = None}}

PointOf(device, count, value, deviation, hardHigh, rows) ==
  [name |-> "p", device |-> device, value |-> value, count |-> count, mean |-> 0,
   deviation |-> deviation, hardHigh |-> hardHigh, hardLow |-> None, rows |-> rows,
   critical |-> device # 3]

Foretell ==
  /\ Asked("prediction")
  /\ \E value \in {None, 0, 300}, rows \in RowLists, hardHigh \in {None, 100}, deviation \in {0, 60},
        count \in {7, 8} :
       /\ count = 7 => Len(rows) = 1
       /\ call' = <<PointOf(1, count, value, deviation, hardHigh, rows)>>

Forecasts == {<<Row(1, at, None, p50, None), Row(1, at + 5, None, 100, None)>> :
                at \in {-10, 3, 130}, p50 \in {0, 500}}

Assessed == {PointOf(d, 8, v, 50, None, f) : d \in 1..3, v \in {0, 300}, f \in Forecasts}

Alarms ==
  {<<>>} \cup {<<a>> : a \in [device : 1..2, severity : {"critical", "high", "low"}]}
  \cup {<<[device |-> 1, severity |-> s], [device |-> d, severity |-> "medium"]>> :
          d \in 1..2, s \in {"critical", "high"}}

Assess ==
  /\ Asked("health")
  /\ \E first, second \in Assessed, alarms \in Alarms : call' = <<<<first, second>>, alarms>>

(* Whoever is warned is warned of something the newest forecast or the     *)
(* value says, nothing it says is left out, and health follows from it.    *)
PredictionsGrounded ==
  call # <<>> =>
    CASE topic = "prediction" -> Foresight!GroundedFor(call[1])
      [] topic = "health" ->
           \A assets \in {<<>>, <<1>>, <<1, 2>>} : Foresight!HealthAgrees(assets, call[2], call[1])
      [] OTHER -> TRUE

-----------------------------------------------------------------------------
(* Signals, one step from every state. *)
Models == {"constant", "sine", "random_walk", "gaussian_noise", "multistate_cycle", "square",
           "first_order_lag", "ramp", "pid_actuator", "derived", "world_var"}

Generators ==
  {[model |-> model, bounds |-> bounds, level |-> level, amplitude |-> 3, percent |-> 50,
    states |-> <<9, 1>>, period |-> 3, rate |-> 2, hold |-> flag, kp |-> 1000, ki |-> 100, kd |-> 500,
    reverse |-> flag] :
   model \in Models, bounds \in {<<>>, <<-2, 5>>}, level \in {-3, 4}, flag \in BOOLEAN}

States == [value : {-5, 0, 4}, out : {0}, integral : {-1, 3}, error : {Missing, 1}]

Steps == [dt : {0, 1, 4}, seconds : {0, 2}, noise : {-2, 3}, sine : {-1000, 300},
          target : {Missing, -4, 6}, process : {Missing, 2}, result : {Missing, 7}, percent : {40, 100}]

Simulate ==
  /\ Asked("signal")
  /\ \E g \in Generators, s \in States, t \in Steps :
       /\ g.model = "pid_actuator" => g.bounds # <<>>
       /\ g.model # "pid_actuator" => s.integral = 3 /\ s.error = 1 /\ t.process = 2
       /\ g.model # "derived" => t.result = 7
       /\ g.model # "sine" => t.sine = 300
       /\ call' = <<g, s, t>>

Keys == {<<d, n>> : d \in {"1", "2"}, n \in {"a", "b"}} \cup {<<"1", "a", "b">>, <<"1", "a", "c">>}

KeyLists == {<<>>} \cup (Keys \X Keys) \cup (Keys \X Keys \X Keys)

Refer ==
  /\ Asked("reference")
  /\ \E keys \in KeyLists, ref \in Keys \cup {<<"a">>, <<"b">>, <<"c">>, <<"z">>} :
       call' = <<keys, ref>>

Airs == [outdoor : {0}, co2 : {420000, 500001}, humidity : {45000, 55000}, zone : {21000, -3333}]
Outdoors == {-5000, 30000}
Durations == {0, 100, 7200, 15000}
Shares == {0, 33, 100}
Openings == {0, 100}

Weather ==
  /\ Asked("world")
  /\ \E w \in Airs, mode \in {"24x7", "office", "none"}, hour \in {6, 7, 18, 19},
        outdoor \in Outdoors, dt \in Durations, share \in Shares, cooling, heating \in Openings,
        fan \in {Missing, 0, 60} :
       call' = <<w, mode, hour, outdoor, dt, share, cooling, heating, fan>>

(* A simulated value keeps within its bounds and follows what it is told   *)
(* to, and a reference is to the point that is meant.                      *)
SignalsInBounds ==
  call # <<>> =>
    /\ topic = "signal" =>
         Signal!InBounds(call[1], call[2], call[3]) /\ Signal!Follows(call[1], call[2], call[3])
    /\ topic = "reference" => Signal!ResolvesExactly(call[1], call[2])
    /\ topic = "world" =>
         Signal!WorldStays(call[1], call[2], call[3], call[4], call[5], call[6], call[7], call[8],
                           call[9])

-----------------------------------------------------------------------------
CallNext ==
  \/ Send \/ Address \/ Exchange \/ Publish
  \/ ImportProject \/ ImportTable \/ Sweep \/ Probe \/ Multiply
  \/ Foretell \/ Assess
  \/ Simulate \/ Refer \/ Weather

CallSpec == CallInit /\ [][CallNext]_calculations
================================================================================
