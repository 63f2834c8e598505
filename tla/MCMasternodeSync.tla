-------------------------- MODULE MCMasternodeSync --------------------------
(* Instances of MasternodeSync with one item per stage. *)
EXTENDS MasternodeSync

CONSTANTS p1, p2, p3, h

NoBudget == [st \in Stages |-> IF st = "budget" THEN {} ELSE {h}]
NoVotes == [st \in Stages |-> IF st = "list" THEN {h} ELSE {}]

\* Lists that come late, and one upset.
Upset3 == [order |-> <<p1, p2, p3>>, old |-> {}, prompt |-> {"mnw", "budget"},
           upsets |-> {"sleep", "loss", "reset"}, disconnects |-> 0]
\* Prompt answers, one peer that is too old, and one disconnection.
Calm(order) == [Upset3 EXCEPT !.order = order, !.old = {p3}, !.prompt = Stages,
                              !.upsets = {}, !.disconnects = 1]

MCEnvs == {Upset3} \cup {Calm(order) : order \in {<<p1, p2, p3>>, <<p1, p3, p2>>, <<p3, p1, p2>>}}
MCQuiet == {[Calm(<<p1, p2, p3>>) EXCEPT !.old = {}, !.disconnects = 0]}
MCLoss == {[Calm(<<p1, p2, p3>>) EXCEPT !.upsets = {"loss"}]}
MCLate == {[Calm(<<p1, p2, p3>>) EXCEPT !.prompt = {}]}

=============================================================================
