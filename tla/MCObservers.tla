------------------------------ MODULE MCObservers ------------------------------
(***************************************************************************)
(* Two devices: the name "a" is used by both, and the first device has two *)
(* points on one group address.                                            *)
(***************************************************************************)
EXTENDS Observers, TLC

At(name, address) == [name |-> name, address |-> address]
MCPointsOf == ("d1" :> <<At("a", "g1"), At("b", "g1")>>) @@ ("d2" :> <<At("a", "g2")>>)
MCNamesOf == ("d1" :> <<"a", "b">>) @@ ("d2" :> <<"a">>)
================================================================================
