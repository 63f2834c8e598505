----------------------------- MODULE DurableTip -----------------------------
(***************************************************************************)
(* What the chainstate on disk promises across crashes: there is always    *)
(* one saved block, it changes only by being set to the active tip, and a  *)
(* node that starts again starts from it.  ChainstateFlush, where a save   *)
(* is many database batches and a crash may fall between any two of them,  *)
(* is shown to implement this.                                             *)
(***************************************************************************)
CONSTANTS Block, Genesis, Parent

VARIABLES running, tip, saved

dvars == <<running, tip, saved>>

Init ==
  /\ running = TRUE
  /\ tip = saved
  /\ saved \in Block

\* One block is connected or disconnected.
Move(b) ==
  /\ running
  /\ \/ b # Genesis /\ Parent[b] = tip
     \/ tip # Genesis /\ Parent[tip] = b
  /\ tip' = b
  /\ UNCHANGED <<running, saved>>

Save ==
  /\ running
  /\ saved' = tip
  /\ UNCHANGED <<running, tip>>

Crash ==
  /\ running
  /\ running' = FALSE
  /\ tip' = saved
  /\ UNCHANGED saved

Recover ==
  /\ ~running
  /\ running' = TRUE
  /\ UNCHANGED <<tip, saved>>

Next == (\E b \in Block : Move(b)) \/ Save \/ Crash \/ Recover

Spec == Init /\ [][Next]_dvars
=============================================================================
