---------------------------- MODULE MCBlockSync ----------------------------
(* Instances of BlockSync.                                                 *)
EXTENDS BlockSync

CONSTANTS p1, p2

\* A main chain 1..6 on the genesis block 0 and a branch 11..13 off it.
MCBlock == 1..6 \cup 11..13
MCParent == [b \in MCBlock |-> IF b = 11 THEN 0 ELSE b - 1]

Starts(first, peers, tips, today) ==
  [tip |-> first, peers |-> peers, tips |-> tips, fCloseToToday |-> today]

\* A node that is more than one inventory behind a peer that moves on; one on
\* a short fork; one whose fork is too deep to leave, with two peers, far
\* behind (one synchronisation peer) and close to today (both); and one on a
\* fork so deep that the headers of the main chain are refused.
MCScenarios ==
  {Starts(0, {p1}, {3, 6}, FALSE), Starts(11, {p1}, {3, 5}, FALSE),
   Starts(12, {p1, p2}, {4}, FALSE), Starts(12, {p1, p2}, {4}, TRUE),
   Starts(13, {p1}, {4}, FALSE)}
============================================================================
