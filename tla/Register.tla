------------------------------- MODULE Register -------------------------------
(***************************************************************************)
(* What the keeper of values promises for each point: a change is taken    *)
(* when the one before it is done, then stored, then told together with    *)
(* the value it replaces.  So nobody hears of a value that is not stored,  *)
(* and who listens has heard of the value that is replaced.  A point may   *)
(* be given up for good; nothing more is promised for it.                  *)
(***************************************************************************)
CONSTANTS Point, Value

VARIABLES
  held,     \* the value
  stored,   \* the value that is stored
  told,     \* the value that was told last
  from,     \* the value the change under way replaces, or the value
  stage,    \* "rest", or what is next for the change: "store" or "tell"
  givenUp   \* points nothing is promised for

registerVars == <<held, stored, told, from, stage, givenUp>>

Init ==
  /\ held \in [Point -> Value]
  /\ stored = held /\ told = held /\ from = held
  /\ stage = [p \in Point |-> "rest"] /\ givenUp = {}

Take(p, v) ==
  /\ p \notin givenUp /\ stage[p] = "rest"
  /\ held' = [held EXCEPT ![p] = v]
  /\ from' = [from EXCEPT ![p] = held[p]]
  /\ stage' = [stage EXCEPT ![p] = "store"]
  /\ UNCHANGED <<stored, told, givenUp>>

Store(p) ==
  /\ p \notin givenUp /\ stage[p] = "store"
  /\ stored' = [stored EXCEPT ![p] = held[p]]
  /\ stage' = [stage EXCEPT ![p] = "tell"]
  /\ UNCHANGED <<held, told, from, givenUp>>

Tell(p) ==
  /\ p \notin givenUp /\ stage[p] = "tell"
  /\ from[p] = told[p] /\ stored[p] = held[p]
  /\ told' = [told EXCEPT ![p] = held[p]]
  /\ from' = [from EXCEPT ![p] = held[p]]
  /\ stage' = [stage EXCEPT ![p] = "rest"]
  /\ UNCHANGED <<held, stored, givenUp>>

(* The point is given up, or was before.  The others are as they were.     *)
GiveUp(p) ==
  /\ givenUp' = givenUp \cup {p}
  /\ \A q \in Point \ {p} :
       /\ held'[q] = held[q] /\ stored'[q] = stored[q] /\ told'[q] = told[q]
       /\ from'[q] = from[q] /\ stage'[q] = stage[q]

Next ==
  \E p \in Point : (\E v \in Value : Take(p, v)) \/ Store(p) \/ Tell(p) \/ GiveUp(p)

Spec == Init /\ [][Next]_registerVars
================================================================================
