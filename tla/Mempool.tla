------------------------------ MODULE Mempool ------------------------------
(***************************************************************************)
(* The memory pool (src/src/txmempool.cpp) with the code of                *)
(* src/src/validation.cpp that feeds it: AcceptToMemoryPool, the mempool   *)
(* part of ConnectTip and DisconnectTip, and the end of a reorganisation.  *)
(*                                                                         *)
(* Every entry of mapTx carries statistics over its in-pool ancestors and  *)
(* descendants that are only ever updated by differences: the entry itself *)
(* when it is added, its ancestors when it leaves, its descendants when it *)
(* is confirmed or when a disconnected block puts it back under children   *)
(* that are already there.  CTxMemPool::check() asserts that they equal    *)
(* what a walk over the pool computes; the invariants say the same.        *)
(*                                                                         *)
(* A transaction is a model value.  An input is <<parent, n>>: output n of *)
(* the transaction parent, a coin older than the modelled blocks (parent = *)
(* Base), or the nullifier of a shielded spend (parent = Note).            *)
(* Transactions have equal size, so that a fee rate is a fee, sizes follow *)
(* the counts, and DynamicMemoryUsage() is the number of entries.          *)
(* mapNextTx and mapSaplingNullifiers are written only together with mapTx *)
(* and are read off it (NextTx).                                           *)
(***************************************************************************)
EXTENDS Integers, FiniteSets, Sequences, FiniteSetsExt, SequencesExt

CONSTANTS
  Tx,           \* the transactions
  Coinbase,     \* those that are the coinbase or coinstake of a block
  Base, Note,   \* the parents of inputs that are not outputs of a Tx
  Inputs,       \* [Tx -> SUBSET of inputs]
  Fee,          \* [Tx -> Nat]
  LockHeight,   \* [Tx -> Nat]: final in blocks above this height
  ShieldsTo,    \* the transactions with shielded outputs
  Anchor,       \* [Tx -> sequence of ShieldsTo], or NoAnchor
  NoAnchor,
  Maturity,     \* nCoinbaseMaturity
  AncestorLimit, DescendantLimit,   \* -limitancestorcount, -limitdescendantcount
  MaxMempool,   \* -maxmempool
  FeeDelta,     \* the amount one prioritisetransaction adds
  Prioritised,  \* the transactions it is called for
  MaxHeight, MaxBlockTx             \* bounds of the instance

ASSUME MempoolAssumption ==
  /\ Coinbase \subseteq Tx /\ ShieldsTo \subseteq Tx /\ Prioritised \subseteq Tx
  /\ Base \notin Tx /\ Note \notin Tx
  /\ MaxMempool \in Nat /\ AncestorLimit \in Nat \ {0} /\ DescendantLimit \in Nat \ {0}

VARIABLES
  chain,    \* the active chain: a sequence of blocks, a block a sequence of Tx
  mempool,  \* [mapTx, mapDeltas]
  reorg     \* fBlocksDisconnected of the step of the chain that is under way

vars == <<chain, mempool, reorg>>

----------------------------------------------------------------------------
(* The chain state: pcoinsTip for a given chain.                           *)

Confirmed(c) == UNION {ToSet(c[h]) : h \in DOMAIN c}

HeightOf(c, t) == CHOOSE h \in DOMAIN c : t \in ToSet(c[h])

\* The Sapling commitment tree after a chain, and the anchors it knows.
BestAnchor(c) == SelectSeq(FlattenSeq(c), LAMBDA t : t \in ShieldsTo)
Anchors(c) == {BestAnchor(SubSeq(c, 1, h)) : h \in 0..Len(c)}

\* CCoinsViewCache::HaveCoin, and nullifiers not yet revealed.
HaveCoin(c, i) ==
  /\ i[1] \in Confirmed(c) \cup {Base, Note}
  /\ \A t \in Confirmed(c) : i \notin Inputs[t]

HaveShieldedRequirements(c, t) == Anchor[t] \in Anchors(c) \cup {NoAnchor}

\* A coinbase may be spent in block h of chain c or above it.
Mature(c, i, h) ==
  i[1] \in Coinbase \cap Confirmed(c) => h - HeightOf(c, i[1]) >= Maturity

\* IsFinalTx in the block of height h.
IsFinal(t, h) == LockHeight[t] < h

----------------------------------------------------------------------------
(* The pool: mapTx with the links of mapLinks in the entries.              *)

Pool(mp) == DOMAIN mp.mapTx

ModifiedFee(mp, t) == Fee[t] + mp.mapDeltas[t]

SumFees(mp, S) == MapThenSumSet(LAMBDA t : ModifiedFee(mp, t), S)

Spenders(mp, i) == {t \in Pool(mp) : i \in Inputs[t]}

\* The pool transactions that spend an output of t: what mapNextTx finds.
NextTx(mp, t) == {u \in Pool(mp) : \E i \in Inputs[u] : i[1] = t}

RECURSIVE Closure(_, _)
Closure(next, S) ==
  LET T == S \cup UNION {next[t] : t \in S}
  IN  IF T = S THEN S ELSE Closure(next, T)

ParentLinks(mp) == [t \in Pool(mp) |-> mp.mapTx[t].parents]
ChildLinks(mp) == [t \in Pool(mp) |-> mp.mapTx[t].children]

\* CalculateMemPoolAncestors with fSearchForParents = false, without limits.
LinkedAncestors(mp, t) == Closure(ParentLinks(mp), mp.mapTx[t].parents)

CalculateDescendants(mp, S) == Closure(ChildLinks(mp), S)

\* mapTx.modify(it, update_descendant_state / update_ancestor_state) on the
\* entries of S, and UpdateChild / UpdateParent.
UpdateDescendantState(mp, S, fee, count) ==
  [mp EXCEPT !.mapTx = [t \in DOMAIN @ |-> IF t \notin S THEN @[t] ELSE
     [@[t] EXCEPT !.feesWithDescendants = @ + fee, !.countWithDescendants = @ + count]]]

UpdateAncestorState(mp, S, fee, count) ==
  [mp EXCEPT !.mapTx = [t \in DOMAIN @ |-> IF t \notin S THEN @[t] ELSE
     [@[t] EXCEPT !.feesWithAncestors = @ + fee, !.countWithAncestors = @ + count]]]

Link(mp, parent, child) ==
  [mp EXCEPT !.mapTx = [t \in DOMAIN @ |->
     [@[t] EXCEPT !.children = IF t = parent THEN @ \cup {child} ELSE @,
                  !.parents = IF t = child THEN @ \cup {parent} ELSE @]]]

\* The statistics of an entry for itself alone: the CTxMemPoolEntry
\* constructor and update_fee_delta.
NewEntry(mp, t, parents) ==
  [parents |-> parents, children |-> {},
   countWithDescendants |-> 1, feesWithDescendants |-> ModifiedFee(mp, t),
   countWithAncestors |-> 1, feesWithAncestors |-> ModifiedFee(mp, t)]

PoolParents(mp, t) == {i[1] : i \in Inputs[t]} \cap Pool(mp)

\* CalculateMemPoolAncestors for a transaction that is not in the pool.
SearchAncestors(mp, t) == Closure(ParentLinks(mp), PoolParents(mp, t))

WithinLimits(mp, t) ==
  /\ Cardinality(SearchAncestors(mp, t)) + 1 <= AncestorLimit
  /\ \A a \in SearchAncestors(mp, t) :
       mp.mapTx[a].countWithDescendants + 1 <= DescendantLimit

\* addUnchecked: link the parents, UpdateAncestorsOf, UpdateEntryForAncestors.
\* Children that are in the pool already are not looked for.
addUnchecked(mp, t) ==
  LET parents == PoolParents(mp, t)
      ancestors == SearchAncestors(mp, t)
      added == [mp EXCEPT !.mapTx = [u \in DOMAIN @ \cup {t} |->
                  IF u = t THEN NewEntry(mp, t, parents)
                  ELSE [@[u] EXCEPT !.children = IF u \in parents THEN @ \cup {t} ELSE @]]]
      known == UpdateDescendantState(added, ancestors, ModifiedFee(mp, t), 1)
  IN  UpdateAncestorState(known, {t}, SumFees(mp, ancestors), Cardinality(ancestors))

----------------------------------------------------------------------------
(* Removal.                                                                *)

ForgetAncestorNot(mp, t) == mp

\* UpdateForRemoveFromMempool, first part: the descendants of a transaction
\* that leaves without them no longer count it as an ancestor.
ForgetAncestor(mp, t) ==
  UpdateAncestorState(mp, CalculateDescendants(mp, {t}) \ {t}, -ModifiedFee(mp, t), -1)

\* Second part: UpdateAncestorsOf(false, ...).
ForgetDescendant(mp, t) ==
  LET less == UpdateDescendantState(mp, LinkedAncestors(mp, t), -ModifiedFee(mp, t), -1)
  IN  [less EXCEPT !.mapTx = [u \in DOMAIN @ |-> [@[u] EXCEPT !.children = @ \ {t}]]]

\* RemoveStaged: UpdateForRemoveFromMempool (whose third part severs the links
\* from the children), then removeUnchecked on every staged entry.
RemoveStaged(mp, stage, updateDescendants) ==
  LET ups == IF updateDescendants THEN FoldSet(LAMBDA t, m : ForgetAncestor(m, t), mp, stage)
             ELSE mp
      downs == FoldSet(LAMBDA t, m : ForgetDescendant(m, t), ups, stage)
  IN  [downs EXCEPT !.mapTx = [t \in DOMAIN @ \ stage |-> [@[t] EXCEPT !.parents = @ \ stage]]]

RemoveWithDescendants(mp, S) == RemoveStaged(mp, CalculateDescendants(mp, S), FALSE)

removeRecursive(mp, t) ==
  RemoveWithDescendants(mp, IF t \in Pool(mp) THEN {t} ELSE NextTx(mp, t))

ClearPrioritisation(mp, t) == [mp EXCEPT !.mapDeltas[t] = 0]

\* removeConflicts: the spenders of the inputs and of the nullifiers of t.
removeConflicts(mp, t) ==
  FoldSet(LAMBDA u, m : ClearPrioritisation(removeRecursive(m, u), u), mp,
          UNION {Spenders(mp, i) : i \in Inputs[t]} \ {t})

\* removeForBlock, for one transaction of the block.
RemoveConfirmed(mp, t) ==
  LET gone == IF t \in Pool(mp) THEN RemoveStaged(mp, {t}, TRUE) ELSE mp
  IN  ClearPrioritisation(removeConflicts(gone, t), t)

removeForBlock(mp, block) == FoldLeft(RemoveConfirmed, mp, block)

\* removeForReorg on the tip of c: what is not final any more, and what spends
\* a coinbase and has an input outside the pool that is gone or not mature.
SpendsCoinbaseOrCoinstake(t) == \E i \in Inputs[t] : i[1] \in Coinbase

removeForReorgMature(mp, c) ==
  RemoveWithDescendants(mp,
    {t \in Pool(mp) : ~IsFinal(t, Len(c) + 1)})

removeForReorg(mp, c) ==
  RemoveWithDescendants(mp,
    {t \in Pool(mp) :
       \/ ~IsFinal(t, Len(c) + 1)
       \/ /\ SpendsCoinbaseOrCoinstake(t)
          /\ \E i \in Inputs[t] : /\ i[1] \notin Pool(mp) \cup {Note}
                                  /\ ~HaveCoin(c, i) \/ ~Mature(c, i, Len(c) + 1)})

removeWithAnchor(mp, anchor) ==
  FoldSet(LAMBDA t, m : removeRecursive(m, t), mp, {t \in Pool(mp) : Anchor[t] = anchor})

\* Expire: the transactions of S are older than the limit.
Expire(mp, S) == RemoveWithDescendants(mp, S)

\* CompareTxMemPoolEntryByDescendantScore: the fee rate of the transaction or
\* of the transaction with its descendants, whichever is higher.
UseDescendantScore(mp, t) ==
  mp.mapTx[t].feesWithDescendants > ModifiedFee(mp, t) * mp.mapTx[t].countWithDescendants

ScoreFee(mp, t) == IF UseDescendantScore(mp, t) THEN mp.mapTx[t].feesWithDescendants
                   ELSE ModifiedFee(mp, t)
ScoreSize(mp, t) == IF UseDescendantScore(mp, t) THEN mp.mapTx[t].countWithDescendants ELSE 1

\* The entry at the front of the descendant_score index.  Equal scores are
\* ordered by entry time; the instances have none.
LowestScore(mp) ==
  CHOOSE t \in Pool(mp) : \A u \in Pool(mp) :
    ScoreFee(mp, t) * ScoreSize(mp, u) <= ScoreFee(mp, u) * ScoreSize(mp, t)

TooLarge(mp) == Cardinality(Pool(mp)) > MaxMempool

RECURSIVE TrimToSize(_)
TrimToSize(mp) ==
  IF TooLarge(mp) THEN TrimToSize(RemoveWithDescendants(mp, {LowestScore(mp)})) ELSE mp

\* LimitMempoolSize, with the transactions S expired.
LimitMempoolSize(mp, S) == TrimToSize(Expire(mp, S))

----------------------------------------------------------------------------
(* AcceptToMemoryPoolWorker with the coins of chain c while chainActive is *)
(* height blocks high.  The checks of a transaction by itself (standard,   *)
(* fee, scripts) hold for the transactions of the instance.                *)

InputsHeld(mp, c, t) ==
  \A i \in Inputs[t] : \/ i[1] \in Pool(mp)
                       \/ HaveCoin(c, i) /\ Mature(c, i, Len(c) + 1)

MayAccept(mp, c, height, t) ==
  /\ t \notin Coinbase /\ t \notin Pool(mp)
  /\ IsFinal(t, height + 1)
  /\ \A i \in Inputs[t] : Spenders(mp, i) = {}
  /\ InputsHeld(mp, c, t)
  /\ HaveShieldedRequirements(c, t)
  /\ WithinLimits(mp, t)

\* The pool afterwards; with fOverrideMempoolLimit nothing expires.  The
\* TrimToSize call behind it is not subject to fOverrideMempoolLimit.
AcceptToMemoryPool(mp, c, height, t, override, expired) ==
  LET added == addUnchecked(mp, t)
  IN  IF ~MayAccept(mp, c, height, t) THEN mp
      ELSE TrimToSize(IF override THEN added ELSE LimitMempoolSize(added, expired))

Accepted(mp, c, height, t, after) == MayAccept(mp, c, height, t) /\ t \in Pool(after)

----------------------------------------------------------------------------
(* UpdateTransactionsFromBlock: the transactions of a disconnected block   *)
(* are in the pool again, possibly below children that are there already.  *)

\* The walk of UpdateForDescendants: a descendant whose own descendants are
\* in the cache is not walked again.
RECURSIVE WalkDescendants(_, _, _, _)
WalkDescendants(mp, cache, stage, all) ==
  IF stage = {} THEN all ELSE
  LET t == CHOOSE u \in stage : TRUE
      children == mp.mapTx[t].children
      cached == children \cap DOMAIN cache
      found == all \cup {t} \cup UNION {cache[u] : u \in cached}
  IN  WalkDescendants(mp, cache, (stage \ {t}) \cup (children \ (cached \cup found)), found)

\* st is the pool, the cache and setAlreadyIncluded.
UpdateForDescendants(st, t) ==
  LET all == WalkDescendants(st.mp, st.cache, st.mp.mapTx[t].children, {}) \ st.included
      up == UpdateAncestorState(st.mp, all, ModifiedFee(st.mp, t), 1)
  IN  [st EXCEPT !.mp = UpdateDescendantState(up, {t}, SumFees(up, all), Cardinality(all)),
                 !.cache = IF all = {} THEN @ ELSE (t :> all) @@ @]

UpdateFromBlock(st, t) ==
  IF t \notin Pool(st.mp) THEN st ELSE
  UpdateForDescendants([st EXCEPT !.mp =
    FoldSet(LAMBDA u, m : Link(m, t, u), @, NextTx(@, t) \ st.included)], t)

UpdateTransactionsFromBlock(mp, vHashUpdate) ==
  FoldLeft(UpdateFromBlock, [mp |-> mp, cache |-> <<>>, included |-> ToSet(vHashUpdate)],
           Reverse(vHashUpdate)).mp

----------------------------------------------------------------------------
(* The mempool part of the chain's steps.                                  *)

\* DisconnectTip for one transaction of the block; chainActive still holds the
\* block, pcoinsTip (c) does not.
Resurrect(st, t, c) ==
  LET after == AcceptToMemoryPool(st.mp, c, Len(c) + 1, t, TRUE, {})
  IN  IF Accepted(st.mp, c, Len(c) + 1, t, after)
      THEN [mp |-> after, vHashUpdate |-> Append(st.vHashUpdate, t)]
      ELSE [mp |-> removeRecursive(after, t), vHashUpdate |-> st.vHashUpdate]

ResurrectBlockBackwards(mp, c, block) ==
  FoldRight(LAMBDA t, st : Resurrect(st, t, c), block, [mp |-> mp, vHashUpdate |-> <<>>])

ResurrectBlock(mp, c, block) ==
  FoldLeft(LAMBDA st, t : Resurrect(st, t, c), [mp |-> mp, vHashUpdate |-> <<>>], block)

DisconnectMempool(mp, c, block) ==
  LET back == ResurrectBlock(mp, c, block)
      linked == UpdateTransactionsFromBlock(back.mp, back.vHashUpdate)
      before == BestAnchor(Append(c, block))
  IN  IF before = BestAnchor(c) THEN linked ELSE removeWithAnchor(linked, before)

\* A block that ConnectBlock accepts on top of c.  The coinbase of a block is
\* left out of it when no transaction of the instance spends it.
ValidBlock(c, block) ==
  /\ IsInjective(block)
  /\ \A n \in DOMAIN block :
       LET t == block[n]
           sofar == Append(c, SubSeq(block, 1, n - 1))
       IN  /\ t \notin Confirmed(c)
           /\ t \in Coinbase => n = 1
           /\ IsFinal(t, Len(c) + 1)
           /\ HaveShieldedRequirements(c, t)
           /\ \A i \in Inputs[t] : HaveCoin(sofar, i) /\ Mature(sofar, i, Len(c) + 1)

Init ==
  /\ chain = <<>>
  /\ mempool = [mapTx |-> <<>>, mapDeltas |-> [t \in Tx |-> 0]]
  /\ reorg = FALSE

\* AcceptToMemoryPool for a transaction received or made here.
Accept(t) ==
  /\ ~reorg
  /\ MayAccept(mempool, chain, Len(chain), t)
  /\ \E expired \in {{}} \cup {{u} : u \in Pool(mempool)} :
       mempool' = AcceptToMemoryPool(mempool, chain, Len(chain), t, FALSE, expired)
  /\ UNCHANGED <<chain, reorg>>

\* PrioritiseTransaction, by the RPC or by LoadMempool, which holds no cs_main.
\* At most one amount per transaction is outstanding.
PrioritiseTransaction(t) ==
  /\ mempool.mapDeltas[t] = 0
  /\ LET mp == [mempool EXCEPT !.mapDeltas[t] = @ + FeeDelta]
         own == UpdateAncestorState(UpdateDescendantState(mp, {t}, FeeDelta, 0), {t}, FeeDelta, 0)
     IN  mempool' = IF t \notin Pool(mempool) THEN mp
                    ELSE UpdateDescendantState(own, LinkedAncestors(mp, t), FeeDelta, 0)
  /\ UNCHANGED <<chain, reorg>>

Block == UNION {[1..n -> Tx] : n \in 0..MaxBlockTx}

\* ConnectTip, in a step that may have disconnected blocks before.
ConnectTip(block) ==
  /\ Len(chain) < MaxHeight
  /\ ValidBlock(chain, block)
  /\ chain' = Append(chain, block)
  /\ mempool' = removeForBlock(mempool, block)
  /\ UNCHANGED reorg

DisconnectTip ==
  /\ chain # <<>>
  /\ chain' = Front(chain)
  /\ mempool' = DisconnectMempool(mempool, Front(chain), Last(chain))
  /\ reorg' = TRUE

\* The end of ActivateBestChainStep after blocks were disconnected.
EndStep ==
  /\ reorg
  /\ LET mp == removeForReorg(mempool, chain) IN
     \E expired \in {{}} \cup {{u} : u \in Pool(mp)} : mempool' = LimitMempoolSize(mp, expired)
  /\ reorg' = FALSE
  /\ UNCHANGED chain

\* The end of InvalidateBlock: the same calls in the other order.
EndInvalidate ==
  /\ reorg
  /\ \E expired \in {{}} \cup {{u} : u \in Pool(mempool)} :
       mempool' = removeForReorg(LimitMempoolSize(mempool, expired), chain)
  /\ reorg' = FALSE
  /\ UNCHANGED chain

Next ==
  \/ \E t \in Tx : Accept(t)
  \/ \E t \in Prioritised : PrioritiseTransaction(t)
  \/ \E block \in Block : ConnectTip(block)
  \/ DisconnectTip
  \/ EndStep
  \/ EndInvalidate

Spec == Init /\ [][Next]_vars

----------------------------------------------------------------------------
(* Properties.                                                             *)

\* No coinbase is in the pool, links stay inside it, and the counters of the entries stay positive.
TypeOK ==
  /\ \A h \in DOMAIN chain : ToSet(chain[h]) \subseteq Tx
  /\ mempool.mapDeltas \in [Tx -> Int]
  /\ Pool(mempool) \subseteq Tx \ Coinbase
  /\ \A t \in Pool(mempool) : LET e == mempool.mapTx[t] IN
       /\ e.parents \subseteq Pool(mempool) /\ e.children \subseteq Pool(mempool)
       /\ e.countWithAncestors > 0 /\ e.countWithDescendants > 0
  /\ reorg \in BOOLEAN

\* The in-pool parents, ancestors and descendants by definition, from the
\* inputs alone.
TrueParents == [t \in Pool(mempool) |-> PoolParents(mempool, t)]
TrueChildren == [t \in Pool(mempool) |-> NextTx(mempool, t)]
TrueAncestors(t) == Closure(TrueParents, {t})
TrueDescendants(t) == Closure(TrueChildren, {t})

\* Outside a reorganisation the links of mapLinks are the spends between pool
\* transactions, in both directions, and the counts and the descendants' fees
\* of every entry are those of a walk over them (the assertions of check()).
StatisticsExact ==
  ~reorg => \A t \in Pool(mempool) : LET e == mempool.mapTx[t] IN
    /\ e.parents = TrueParents[t] /\ e.children = TrueChildren[t]
    /\ e.countWithAncestors = Cardinality(TrueAncestors(t))
    /\ e.countWithDescendants = Cardinality(TrueDescendants(t))
    /\ e.feesWithDescendants = SumFees(mempool, TrueDescendants(t))

\* The same of the ancestors' fees, which the miner's package selection reads.
AncestorFeesExact ==
  ~reorg => \A t \in Pool(mempool) :
    mempool.mapTx[t].feesWithAncestors = SumFees(mempool, TrueAncestors(t))

\* Outside a reorganisation the whole pool could be mined on the tip: every
\* input is a mature unspent coin of the tip or an output of the pool, spent by
\* no other pool transaction, every anchor is known and every lock time is over.
Minable ==
  ~reorg => \A t \in Pool(mempool) :
    /\ t \notin Confirmed(chain)
    /\ IsFinal(t, Len(chain) + 1)
    /\ HaveShieldedRequirements(chain, t)
    /\ InputsHeld(mempool, chain, t)
    /\ \A i \in Inputs[t] : Spenders(mempool, i) = {t}

\* The pool never outgrows -maxmempool, not even while blocks are disconnected.
PoolBounded == Cardinality(Pool(mempool)) <= MaxMempool

\* No transaction is lost with its block: after DisconnectTip, a transaction of
\* the block is in the pool again unless it is a coinbase, the pool cannot hold
\* all of it, or it spends or was made with something that left the chain with
\* the block.
NothingLost ==
  [][Len(chain') < Len(chain) =>
       \A t \in ToSet(Last(chain)) :
         \/ t \in Pool(mempool')
         \/ t \in Coinbase
         \/ Cardinality(Pool(mempool) \cup ToSet(Last(chain))) > MaxMempool
         \/ Anchor[t] = BestAnchor(chain)
         \/ \E i \in Inputs[t] : i[1] \in Coinbase \/ i[1] \in ToSet(Last(chain)) \ Pool(mempool')]_vars

\* The assertions of CTxMemPool::check on mapTx and mapLinks, and the limit that
\* TrimToSize keeps.
EntriesSound == TypeOK /\ StatisticsExact /\ AncestorFeesExact /\ PoolBounded
====
