---------------------------- MODULE MCWalletSync ----------------------------
(* Instances of WalletSync.                                                *)
EXTENDS WalletSync

CONSTANTS a, b, d, base, note, noAnchor

\* b spends a; d competes with a for its coin.
MCInputs == (a :> {<<base, 1>>}) @@ (b :> {<<a, 1>>}) @@ (d :> {<<base, 1>>})
MCFee == (a :> 5) @@ (b :> 3) @@ (d :> 7)
MCLockHeight == [t \in Tx |-> 0]
MCAnchor == [t \in Tx |-> noAnchor]
\* A block is disconnected or the process is restarted; two blocks are
\* disconnected; both happen.
MCBudgets == {<<1, 0>>, <<0, 1>>}
MCTwoBlocks == {<<2, 0>>}
MCBoth == {<<1, 1>>}
============================================================================
