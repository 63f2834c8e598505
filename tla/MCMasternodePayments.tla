------------------------ MODULE MCMasternodePayments ------------------------
(* Instances of MasternodePayments: two votes of three make a majority. *)
EXTENDS MasternodePayments, TLC

CONSTANTS m1, m2, m3, m4

Four == <<m1, m2, m3, m4>>
=============================================================================
