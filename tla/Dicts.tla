---------------------------------- MODULE Dicts ----------------------------------
(***************************************************************************)
(* Dictionaries: functions whose domain changes.                           *)
(***************************************************************************)

(* One dictionary over the other: its entries hide those of the other.     *)
Over(f, g) == [x \in DOMAIN f \cup DOMAIN g |-> IF x \in DOMAIN f THEN f[x] ELSE g[x]]

(* The dictionary of one entry.                                            *)
Single(x, value) == [y \in {x} |-> value]
================================================================================
