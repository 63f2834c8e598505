----------------------------- MODULE CoinsView -----------------------------
(***************************************************************************)
(* What the tower of coins views promises to validation, with no cache in  *)
(* sight: three complete UTXO sets, the one on disk (CCoinsViewDB), the    *)
(* one of the active chain's tip (pcoinsTip) and the scratch one of the    *)
(* block being connected or disconnected, each with the block it stands    *)
(* for.  CoinsCache implements this specification.                         *)
(***************************************************************************)
CONSTANTS
  OutPoint,     \* transaction outputs
  Coin,         \* contents an unspent output may have
  Spent,        \* the empty Coin: the output is spent, or never existed
  Block         \* block hashes

VARIABLES
  dbUtxo, tipUtxo, viewUtxo,     \* OutPoint -> Coin or Spent
  dbBlock, tipBlock, viewBlock   \* the block each UTXO set belongs to

vars == <<dbUtxo, tipUtxo, viewUtxo, dbBlock, tipBlock, viewBlock>>

Utxo == [OutPoint -> Coin \cup {Spent}]

Init ==
  /\ dbUtxo = [o \in OutPoint |-> Spent]
  /\ tipUtxo = dbUtxo
  /\ viewUtxo = dbUtxo
  /\ dbBlock \in Block
  /\ tipBlock = dbBlock
  /\ viewBlock = dbBlock

\* An output appears in, or disappears from, the scratch set.
Put(o, c) ==
  /\ viewUtxo' = [viewUtxo EXCEPT ![o] = c]
  /\ UNCHANGED <<dbUtxo, tipUtxo, dbBlock, tipBlock, viewBlock>>

SetBestBlock(b) ==
  /\ viewBlock' = b
  /\ UNCHANGED <<dbUtxo, tipUtxo, viewUtxo, dbBlock, tipBlock>>

\* The scratch set becomes the tip's, all of it at once.
Commit ==
  /\ tipUtxo' = viewUtxo
  /\ tipBlock' = viewBlock
  /\ UNCHANGED <<dbUtxo, viewUtxo, dbBlock, viewBlock>>

\* The scratch set is forgotten.
Abandon ==
  /\ viewUtxo' = tipUtxo
  /\ viewBlock' = tipBlock
  /\ UNCHANGED <<dbUtxo, tipUtxo, dbBlock, tipBlock>>

\* The tip's set becomes the one on disk.
Save ==
  /\ dbUtxo' = tipUtxo
  /\ dbBlock' = tipBlock
  /\ UNCHANGED <<tipUtxo, viewUtxo, tipBlock, viewBlock>>

Next ==
  \/ \E o \in OutPoint, c \in Coin \cup {Spent} : Put(o, c)
  \/ \E b \in Block : SetBestBlock(b)
  \/ Commit
  \/ Abandon
  \/ Save

Spec == Init /\ [][Next]_vars
============================================================================
