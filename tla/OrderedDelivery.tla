--------------------------- MODULE OrderedDelivery ---------------------------
(***************************************************************************)
(* What validationinterface.h promises the subscribers: callbacks run one  *)
(* at a time, each of them at most once, "in the order in which the events *)
(* were generated by validation".  Callbacks are numbered in that order.   *)
(***************************************************************************)
EXTENDS Naturals

VARIABLES
  sent,     \* how many callbacks have been generated
  begun,    \* how many have begun
  current   \* the one that is running, 0 when none is

vars == <<sent, begun, current>>

Init == sent = 0 /\ begun = 0 /\ current = 0

Send ==
  /\ sent' = sent + 1
  /\ UNCHANGED <<begun, current>>

Begin ==
  /\ current = 0 /\ begun < sent
  /\ begun' = begun + 1 /\ current' = begun + 1
  /\ UNCHANGED sent

End ==
  /\ current # 0
  /\ current' = 0
  /\ UNCHANGED <<sent, begun>>

Next == Send \/ Begin \/ End

Spec == Init /\ [][Next]_vars

=============================================================================
