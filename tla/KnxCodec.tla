------------------------------- MODULE KnxCodec -------------------------------
(***************************************************************************)
(* How the KNX engine puts a value on the bus and takes one off it, by the *)
(* datapoint type (DPT) of the point, and how the ETS import writes a      *)
(* group address.                                                          *)
(*                                                                         *)
(* Numbers are in hundredths, which is the resolution of DPT 9.  A DPT is  *)
(* <<main, sub>>, <<main>>, or <<>> when there is none or it cannot be     *)
(* read.  A payload is the sequence of its bytes; a binary one, of at most *)
(* six bits inside the telegram itself, is marked.                         *)
(*                                                                         *)
(* Sources: adapters/knx/engine.py, adapters/knx/ets_import.py.            *)
(***************************************************************************)
EXTENDS Rounding, Sequences

CONSTANT Text  \* a value that is not a number

NotSent == [binary |-> FALSE, bytes |-> <<-1>>]  \* encoding raised: no telegram

(* _dpt_main; 0 stands for None. *)
DptMain(dpt) == IF dpt = <<>> THEN 0 ELSE dpt[1]

-----------------------------------------------------------------------------
(* DPT 9: sign, four bits of exponent and eleven of mantissa.              *)
MantissaSize == 2048
Mantissas == -MantissaSize..(MantissaSize - 1)
SignBit == 16 * MantissaSize

(* The number of halvings after which the value fits the mantissa.         *)
Halvings(v) == CHOOSE e \in 0..31 :
  /\ v \div 2^e \in Mantissas
  /\ \A i \in 0..(e - 1) : v \div 2^i \notin Mantissas

(* _knx_float16, as the two bytes of a word.  An exponent that needs a     *)
(* fifth bit sets the bit of the sign.  xknx's own conversion, which is    *)
(* tried first, gives the same within a step and refuses what is beyond    *)
(* the range of DPT 9; then this one is used.                              *)
Float16(v) ==
  LET e == Halvings(v)
      negative == v < 0 \/ e >= 16
      word == (IF negative THEN SignBit ELSE 0) + (e % 16) * MantissaSize + ((v \div 2^e) % MantissaSize)
  IN  <<word \div 256, word % 256>>

(* _knx_float16_decode.  Mutant: the mantissa of a negative value is not   *)
(* taken as a two's complement.                                            *)
Float16DecodeUnsigned(bytes) ==
  LET word == bytes[1] * 256 + bytes[2]
  IN  (IF word >= SignBit THEN -1 ELSE 1) * (word % MantissaSize) * 2^((word \div MantissaSize) % 16)

Float16Decode(bytes) ==
  IF Len(bytes) < 2 THEN 0
  ELSE LET word == bytes[1] * 256 + bytes[2]
           mantissa == (word % MantissaSize) - (IF word >= SignBit THEN MantissaSize ELSE 0)
       IN  mantissa * 2^((word \div MantissaSize) % 16)

-----------------------------------------------------------------------------
Telegram(bytes) == [binary |-> FALSE, bytes |-> bytes]

(* A percentage and its byte. *)
Scaled(v) == Round(v * 255, 10000)
Percentage(byte) == 10 * Round(byte * 1000, 255)

(* _encode.  A text is true as a boolean, has no float, and is 0 as a raw  *)
(* byte.  A percentage is scaled to the byte, other values of DPT 5 are    *)
(* cut to it, and those of unknown types wrap around it.                   *)
Encode(v, dpt) ==
  LET main == DptMain(dpt)
  IN  CASE main = 1 -> [binary |-> TRUE, bytes |-> <<IF v = 0 THEN 0 ELSE 1>>]
        [] main \in {5, 9} /\ v = Text -> NotSent
        [] main = 5 /\ v # Text ->
             Telegram(<<Clamp(0, 255, IF dpt = <<5, 1>> THEN Scaled(v) ELSE Whole(v))>>)
        [] main = 9 /\ v # Text -> Telegram(Float16(v))
        [] OTHER -> Telegram(<<IF v = Text THEN 0 ELSE Whole(v) % 256>>)

(* _decode.  Of a payload that its type does not expect, the first byte is *)
(* taken: for the wider types KNX has, that is the highest one.            *)
Decode(payload, dpt) ==
  LET bytes == payload.bytes
      main == DptMain(dpt)
  IN  CASE bytes = <<>> -> 0
        [] payload.binary \/ (bytes # <<>> /\ main = 1) -> IF bytes[1] = 0 THEN 0 ELSE 100
        [] ~payload.binary /\ bytes # <<>> /\ main = 9 -> Float16Decode(bytes)
        [] ~payload.binary /\ bytes # <<>> /\ dpt = <<5, 1>> -> Percentage(bytes[1])
        [] OTHER -> 100 * bytes[1]

(* What DPT 9 can carry, in hundredths: what fits the mantissa after       *)
(* fifteen halvings.                                                       *)
Float16Range == (-MantissaSize * 2^15)..(MantissaSize * 2^15 - 1)

(* Beyond: the fifth bit of the exponent is the sign.  What is too large   *)
(* is read back below zero, and what is too small 2^16 times nearer to it. *)
TurnsNegative(v, back) ==
  /\ back < 0
  /\ v < 0 => v - 2^16 * back \in 0..(2^Halvings(v) - 1)

(* Within a quarter of a percent of the nearest percentage there is.       *)
PercentageKept(v, back) == Clamp(0, 10000, v) - back \in -25..25

(* A value on the bus is read back as it was, up to the resolution of its  *)
(* type, if the type can carry it.  Beyond: a percentage and a byte keep   *)
(* to the nearest value the type has; DPT 9 turns negative, for all that   *)
(* thirty halvings bring down; what unknown types make of it is another    *)
(* value, and nothing is said of it.                                       *)
KnxReadsBack(v, dpt) ==
  LET main == DptMain(dpt)
      sent == Encode(v, dpt)
      back == Decode(sent, dpt)
  IN  /\ (main = 1) => (back = IF v = 0 THEN 0 ELSE 100)
      /\ (v = Text) => (sent = NotSent \/ back \in {0, 100})
      /\ (v # Text /\ dpt = <<5, 1>>) => PercentageKept(v, back)
      /\ (v # Text /\ main = 5 /\ dpt # <<5, 1>>) => (back = 100 * Clamp(0, 255, Whole(v)))
      /\ (v # Text /\ main = 9 /\ v \in Float16Range) => (v - back \in 0..(2^Halvings(v) - 1))
      /\ (v # Text /\ main = 9 /\ v \notin Float16Range /\ v \div 2^30 \in Mantissas) =>
           TurnsNegative(v, back)
      /\ (v # Text /\ main \notin {1, 5, 9} /\ Whole(v) \in 0..255) => (back = 100 * Whole(v))

-----------------------------------------------------------------------------
(* _raw_to_ga: a group address from the number ETS stores; five, three and *)
(* eight bits of it are kept.                                              *)
RawToGa(n) == <<(n \div 2048) % 32, (n \div 256) % 8, n % 256>>

GaToRaw(ga) == ga[1] * 2048 + ga[2] * 256 + ga[3]
===============================================================================
