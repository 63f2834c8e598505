-------------------------- MODULE MCChainstateFlush --------------------------
(***************************************************************************)
(* A chain that forks after block p.  Transaction t (o1 to o3) is mined at *)
(* height 2 in one branch and at height 3 in the other, and o3 is spent in *)
(* the block that makes it in the first branch only.                       *)
(***************************************************************************)
EXTENDS ChainstateFlush, TLC

CONSTANTS g, p, a1, a2, b1, b2, o1, o2, o3, o4, n1, n2

T(i, o) == [vin |-> i, vout |-> o]

MCParent == (p :> g) @@ (a1 :> p) @@ (a2 :> a1) @@ (b1 :> p) @@ (b2 :> b1)

MCHeight == (g :> 0) @@ (p :> 1) @@ (a1 :> 2) @@ (a2 :> 3) @@ (b1 :> 2) @@ (b2 :> 3)

MCVtx ==
  (g :> <<T(<<>>, {})>>)
  @@ (p :> <<T(<<>>, {o1, o2})>>)
  @@ (a1 :> <<T(<<>>, {}), T(<<o1>>, {o3}), T(<<o3, o2>>, {o4})>>)
  @@ (a2 :> <<T(<<>>, {}), T(<<o4>>, {})>>)
  @@ (b1 :> <<T(<<>>, {}), T(<<o2>>, {})>>)
  @@ (b2 :> <<T(<<>>, {}), T(<<o1>>, {o3})>>)

MCNullifiers == [b \in Block |-> CASE b = a1 -> {n1} [] b = b2 -> {n1} [] b = b1 -> {n2} [] OTHER -> {}]
MCShielded == {a1, b1, b2}
=============================================================================
