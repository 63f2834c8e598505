----------------------------- MODULE MCMempool -----------------------------
(* Instances of Mempool.                                                   *)
EXTENDS Mempool

CONSTANTS a, b, c, d, k, z, s, cb, base, note, noAnchor

\* b spends a; c spends both a and b; d competes with a for its coin and is
\* final above height 1; k spends a coinbase; z makes a shielded output that s
\* spends.
MCInputs ==
  (a :> {<<base, 1>>}) @@ (b :> {<<a, 1>>}) @@ (c :> {<<a, 2>>, <<b, 1>>}) @@
  (d :> {<<base, 1>>}) @@ (k :> {<<cb, 1>>}) @@ (cb :> {}) @@
  (z :> {<<base, 2>>}) @@ (s :> {<<note, 1>>})

MCTxInputs == [t \in Tx |-> MCInputs[t]]
\* Children pay less than their parents.
MCFee == [t \in Tx |-> ((a :> 19) @@ (b :> 11) @@ (c :> 7) @@ (d :> 17) @@ (k :> 13) @@
                        (cb :> 0) @@ (z :> 23) @@ (s :> 5))[t]]
\* Children pay more than their parents.
MCFeeRising == [t \in Tx |-> ((a :> 5) @@ (b :> 11) @@ (c :> 17) @@ (d :> 7) @@ (k :> 13) @@
                        (cb :> 0) @@ (z :> 23) @@ (s :> 19))[t]]
MCLockHeight == [t \in Tx |-> IF t = d THEN 1 ELSE 0]
MCAnchor == [t \in Tx |-> IF t = s THEN <<z>> ELSE noAnchor]
============================================================================
