-------------------------- MODULE MCChainActivation --------------------------
(***************************************************************************)
(* Two branches of unequal length over a common block p, with one unit of  *)
(* work per block: g-p-a1-a2 and g-p-b1-b2-b3.                             *)
(***************************************************************************)
EXTENDS ChainActivation, TLC

CONSTANTS g, p, a1, a2, b1, b2, b3

MCParent == (p :> g) @@ (a1 :> p) @@ (a2 :> a1) @@ (b1 :> p) @@ (b2 :> b1) @@ (b3 :> b2)
MCWork == (g :> 1) @@ (p :> 2) @@ (a1 :> 3) @@ (a2 :> 4) @@ (b1 :> 3) @@ (b2 :> 4) @@ (b3 :> 5)
MCAddress == (g :> 1) @@ (p :> 2) @@ (a1 :> 3) @@ (b2 :> 4) @@ (b1 :> 5) @@ (a2 :> 6) @@ (b3 :> 7)
=============================================================================
