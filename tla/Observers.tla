------------------------------- MODULE Observers -------------------------------
(***************************************************************************)
(* Three parts that hear of values and alarms and pass them on to somebody *)
(* outside: the fan-out to WebSocket clients and the webhook, the time-    *)
(* series store, the KNX bus.  They share nothing but the devices, so each *)
(* behaviour is of one of them, `subject'; the others stay as they are.    *)
(*                                                                         *)
(* What is checked of a part is stated at the end of its module.           *)
(***************************************************************************)
EXTENDS Historian, Fanout, KnxBus

VARIABLE subject

(* The parts that are not the subject start in one state of theirs.        *)
Init ==
  /\ subject \in {"fanout", "historian", "knx"}
  /\ FanoutInit /\ HistorianInit /\ KnxInit
  /\ subject = "historian" \/ known = {}
  /\ subject = "knx" \/
       LET one == CHOOSE v \in Values : TRUE IN
       memory = [p \in KnxPoints |-> one] /\ bus = [g \in Addresses |-> one]

Next ==
  /\ UNCHANGED subject
  /\ \/ subject = "fanout" /\ FanoutNext /\ UNCHANGED <<history, wires>>
     \/ subject = "historian" /\ HistorianNext /\ UNCHANGED <<fanout, wires>>
     \/ subject = "knx" /\ KnxNext /\ UNCHANGED <<fanout, history>>

Spec == Init /\ [][Next]_<<subject, fanout, history, wires>> /\ Fairness
================================================================================
