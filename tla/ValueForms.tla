------------------------------ MODULE ValueForms ------------------------------
(***************************************************************************)
(* The forms a point's value takes outside the memory: text in SQLite, a   *)
(* local BACnet object and what the poller makes of a value it reads from  *)
(* one, a Modbus register or coil, an MQTT topic.                          *)
(*                                                                         *)
(* A value is a boolean, an integer, a float or a text.  Numbers are in    *)
(* hundredths.  A text is known by what it looks like: the word for true   *)
(* or false, digits, a number with a point, a number with an exponent and  *)
(* no point, or any other word.  Python prints some floats of the fourth   *)
(* form: those are bare.                                                   *)
(*                                                                         *)
(* Sources: adapters/persistence/sqlite_repos.py,                          *)
(* adapters/bacnet/object_builder.py, adapters/bacnet/real_poller.py,      *)
(* adapters/modbus/engine.py, adapters/mqtt/engine.py.                     *)
(***************************************************************************)
EXTENDS Rounding, SequencesExt

BoolOf(b)      == [type |-> "bool",  v |-> IF b THEN 100 ELSE 0, form |-> "none"]
IntOf(n)       == [type |-> "int",   v |-> 100 * n, form |-> "none"]
FloatOf(v)     == [type |-> "float", v |-> v, form |-> "point"]
BareFloatOf(v) == [type |-> "float", v |-> v, form |-> "exponent"]
TextOf(form, v) == [type |-> "text",  v |-> v, form |-> form]

Words == {"active", "on", "inactive", "off", "other"}
Numeric == {"digits", "point", "exponent"}

Refused == [type |-> "refused"]

(* bool(): a text that is not empty is true whatever it says. *)
Truthy(value) == value.type = "text" \/ value.v # 0

(* float(value) and int(value), for those that have one. *)
HasFloat(value) == value.type # "text" \/ value.form \in Numeric
HasInt(value) == value.type # "text" \/ value.form = "digits"

-----------------------------------------------------------------------------
(* str(value), as it goes into the column present_value. *)
Printed(value) ==
  CASE value.type = "bool"  -> TextOf(IF value.v = 0 THEN "false" ELSE "true", 0)
    [] value.type = "int"   -> TextOf("digits", value.v)
    [] value.type = "float" -> TextOf(value.form, value.v)
    [] value.type = "text"  -> value

(* _parse_value.  Mutant: a text with an exponent is taken for a float. *)
ParseValueByExponent(raw) ==
  IF raw.form = "exponent" THEN BareFloatOf(raw.v) ELSE IF raw.form = "digits" THEN FloatOf(raw.v) ELSE raw

ParseValue(raw) ==
  CASE raw.form \in {"true", "false"} -> BoolOf(raw.form = "true")
    [] raw.form = "point"  -> FloatOf(raw.v)
    [] raw.form = "digits" -> [type |-> "int", v |-> raw.v, form |-> "none"]
    [] OTHER -> raw

(* A value comes out of the column as it went in, but for a float that     *)
(* prints without a point, which comes out as a text, and for a text that  *)
(* looks like something else, which becomes it.                            *)
StoredReadsBack(value) ==
  (ParseValue(Printed(value)) = value) <=>
     \/ value.type \in {"bool", "int"}
     \/ value.type = "float" /\ value.form = "point"
     \/ value.type = "text" /\ value.form \in Words \cup {"exponent"}

-----------------------------------------------------------------------------
Kinds == {"analog", "binary", "multi"}

(* build_local_object: the present value of the object, or none is built. *)
LocalObject(value, kind) ==
  CASE kind = "binary" -> TextOf(IF Truthy(value) THEN "active" ELSE "inactive", 0)
    [] kind = "analog" /\ value.type = "bool" -> FloatOf(0)
    [] kind = "multi" /\ value.type = "bool" -> IntOf(1)
    [] kind = "analog" /\ value.type # "bool" /\ HasFloat(value) -> FloatOf(value.v)
    [] kind = "multi" /\ value.type # "bool" /\ HasInt(value) -> IntOf(Whole(value.v))
    [] OTHER -> Refused

(* _coerce: what the poller keeps of a value it has read.  Only analog     *)
(* types and binary ones are told apart.                                   *)
Coerce(value, kind) ==
  LET printed == Printed(value)
  IN  CASE value.type = "bool" -> IntOf(value.v \div 100)
        [] kind = "binary" /\ value.type # "bool" ->
             (CASE printed.form \in {"active", "on", "true"} -> IntOf(1)
                [] printed.form \in {"inactive", "off", "false"} -> IntOf(0)
                [] printed.form \in Numeric -> IntOf(Whole(printed.v))
                [] OTHER -> value)
        [] kind # "binary" /\ value.type # "bool" ->
             IF HasFloat(value) THEN FloatOf(value.v) ELSE value

(* What one program exposes as a BACnet object another reads back: a       *)
(* number for every object that is built, the same one for analog values,  *)
(* its whole part for states, and 1 or 0 for binary points.  A boolean on  *)
(* another than a binary point is not exposed as such.                     *)
ExposedReadsBack(value, kind) ==
  LET object == LocalObject(value, kind)
      read == Coerce(object, kind)
  IN  object = Refused \/
        /\ read.type \in {"int", "float"}
        /\ kind = "binary" => read = IntOf(IF Truthy(value) THEN 1 ELSE 0)
        /\ (kind = "analog" /\ value.type # "bool") => read.v = value.v
        /\ (kind = "multi" /\ value.type # "bool") => read.v = 100 * Whole(value.v)

-----------------------------------------------------------------------------
(* ModbusEngine.write_point_value: the register or coil that is written,   *)
(* and what the memory of the engine keeps.  A register has sixteen bits;  *)
(* pymodbus refuses other numbers, and so does the engine for the types    *)
(* that are inputs.                                                        *)
Registers == 0..65535

ModbusWrite(value, kind) ==
  LET wire == IF kind = "coil" THEN (IF Truthy(value) THEN 1 ELSE 0) ELSE Whole(value.v)
  IN  IF kind = "input" \/ (kind = "register" /\ ~(HasInt(value) /\ wire \in Registers))
      THEN Refused
      ELSE [type |-> "wire", wire |-> wire, kept |-> value]

(* ModbusEngine.read_point_value: the cache takes what was read. *)
ModbusRead(written, kind) == IF kind = "coil" THEN BoolOf(written.wire = 1) ELSE IntOf(written.wire)

(* A register reads back the whole part of what was written and a coil its *)
(* truth; until it is read, the memory keeps the fraction the device never *)
(* received.                                                               *)
ModbusReadsBack(value, kind) ==
  LET written == ModbusWrite(value, kind)
  IN  written = Refused \/
        /\ kind = "coil" => ModbusRead(written, kind).v = IF Truthy(value) THEN 100 ELSE 0
        /\ kind = "register" => (ModbusRead(written, kind).v = written.kept.v <=> value.v % 100 = 0)

-----------------------------------------------------------------------------
(* A topic is the sequence of its levels; a name has one level or more.    *)
Topic(prefix, device, name) == prefix \o <<device>> \o name
CommandTopic(prefix, device, name) == Append(Topic(prefix, device, name), "set")

NoPoint == <<>>

(* MqttEngine._on_message: the point a message is for.  `names' gives the  *)
(* names of the points of each device by its number, as the level says it. *)
MqttTarget(names, topic) ==
  LET base == Front(topic)
      device == Last(Front(base))
      name == <<Last(base)>>
  IN  IF Last(topic) = "set" /\ Len(base) >= 2 /\ device \in DOMAIN names
         /\ name \in names[device]
      THEN <<device, name>>
      ELSE NoPoint

(* MqttDiscovery._on_message: the point a state topic is listed under.     *)
MqttListed(prefix, topic) ==
  LET rest == SubSeq(topic, Len(prefix) + 1, Len(topic))
  IN  IF ~IsStrictPrefix(prefix, topic) \/ Len(rest) < 2 \/ rest[2] = "set"
      THEN NoPoint
      ELSE <<rest[1], <<rest[2]>>>>

(* A command to a point reaches that point, and its state is listed under  *)
(* its name, exactly if the name has one level; with more levels the state *)
(* is listed under the first, and a command reaches no point, or the one   *)
(* of another device that the last two levels spell.                       *)
MqttReadsBack(prefix, names, device, name) ==
  /\ MqttTarget(names, CommandTopic(prefix, device, name)) = <<device, name>>  <=>  Len(name) = 1
  /\ MqttListed(prefix, Topic(prefix, device, name)) = <<device, name>>  <=>  Len(name) = 1
  /\ MqttTarget(names, Topic(prefix, device, name)) = NoPoint
===============================================================================
