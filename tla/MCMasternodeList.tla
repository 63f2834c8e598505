-------------------------- MODULE MCMasternodeList --------------------------
(* Instances of MasternodeList for TLC. *)
EXTENDS MasternodeList

CONSTANTS hot, cold, peer

MCKey == [m \in Mnb |-> "k1"]
\* The second broadcast is for another key, that of the node Hot.
MCNewKey == [m \in Mnb |-> IF m = 1 THEN "k0" ELSE "k1"]

Plain == [nodes |-> {hot, cold}, starts |-> 2, restarts |-> 0, crash |-> FALSE, lossy |-> FALSE,
          spends |-> FALSE, reorg |-> FALSE, otherThreads |-> FALSE, coin |-> "ok"]
One == [Plain EXCEPT !.starts = 1]

MCScenarios ==
  {Plain,
   [One EXCEPT !.nodes = Node, !.coin = "young"],
   [One EXCEPT !.restarts = 1],
   [Plain EXCEPT !.spends = TRUE],
   [One EXCEPT !.spends = TRUE, !.reorg = TRUE],
   [One EXCEPT !.spends = TRUE, !.otherThreads = TRUE],
   [One EXCEPT !.lossy = TRUE, !.crash = TRUE, !.restarts = 1]}
============================================================================
