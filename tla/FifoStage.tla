------------------------------- MODULE FifoStage -------------------------------
(***************************************************************************)
(* What a stage with a bounded queue and one worker promises: items leave  *)
(* in the order they were taken in, each once.  An item may be refused on  *)
(* arrival, or given up when its turn comes; a stage that is shut finishes *)
(* nothing more.                                                           *)
(***************************************************************************)
EXTENDS Naturals, Sequences

CONSTANTS Room        \* how many items fit, the one in work included

VARIABLES
  offered,  \* how many items were offered; item n is the n-th
  waiting,  \* items taken in and not yet finished, oldest first
  finished, \* items finished, in that order
  shut      \* no more work is done

stageVars == <<offered, waiting, finished, shut>>

Init == offered = 0 /\ waiting = <<>> /\ finished = <<>> /\ shut = FALSE

Offer ==
  /\ offered' = offered + 1
  /\ \/ Len(waiting) < Room /\ waiting' = Append(waiting, offered')
     \/ UNCHANGED waiting
  /\ UNCHANGED <<finished, shut>>

Finish ==
  /\ ~shut /\ waiting # <<>>
  /\ finished' = Append(finished, Head(waiting))
  /\ waiting' = Tail(waiting)
  /\ UNCHANGED <<offered, shut>>

GiveUp ==
  /\ ~shut /\ waiting # <<>>
  /\ waiting' = Tail(waiting)
  /\ UNCHANGED <<offered, finished, shut>>

Shut ==
  /\ shut' = TRUE
  /\ waiting' = waiting \/ (waiting # <<>> /\ waiting' = Tail(waiting))
  /\ UNCHANGED <<offered, finished>>

Next == Offer \/ Finish \/ GiveUp \/ Shut

Spec == Init /\ [][Next]_stageVars
================================================================================
