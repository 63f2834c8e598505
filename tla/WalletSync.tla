----------------------------- MODULE WalletSync -----------------------------
(***************************************************************************)
(* The wallet following the chain and the memory pool                      *)
(* (src/src/wallet/wallet.cpp) through the events of                       *)
(* src/src/validationinterface.cpp.  The Mempool module supplies the chain *)
(* and the pool; this module adds the events that its steps post, the      *)
(* queue they wait in, and what the wallet makes of them one at a time,    *)
(* while the chain and the pool have already moved on.                     *)
(*                                                                         *)
(* A block's hash is the chain that ends with it; the null hash is <<>>.   *)
(* A wallet transaction keeps the status and the block of m_confirm and    *)
(* fInMempool.  mapTxSpends is read off the keys of mapWallet, from which  *)
(* nothing is erased.                                                      *)
(***************************************************************************)
EXTENDS Mempool

CONSTANTS
  Mine,            \* the transactions IsMine or IsFromMe
  BestChainInStep, \* whether a block file may end between two blocks of a step
  MaxEvents,       \* bound of the instance on the queue
  Budgets          \* bounds: the pairs of blocks disconnected and restarts

VARIABLES
  trace,      \* ConnectTrace of the step of the chain that is under way
  events,     \* the callbacks queued with the scheduler's client
  wallet,     \* mapWallet: [tx -> [status, block, fInMempool]]
  lastHeight, \* m_last_block_processed_height
  locator,    \* the best block record of the wallet file
  durable,    \* the chain of the last flush of the chain state
  budget      \* what is left of the pair

wvars == <<vars, trace, events, wallet, lastHeight, locator, durable, budget>>

----------------------------------------------------------------------------
(* CWallet, as operators on mapWallet and the last processed height.       *)

\* GetDepthInMainChain.
GetDepth(w, last, t) ==
  CASE w[t].status \in {"unconfirmed", "abandoned"} -> 0
    [] w[t].status = "confirmed" -> last - Len(w[t].block) + 1
    [] w[t].status = "conflicted" -> -(last - Len(w[t].block) + 1)

\* The wallet transactions that spend an output of t, and those that spend a
\* transparent input of t: the ranges of mapTxSpends.
WalletSpends(w, t) == {u \in DOMAIN w : \E i \in Inputs[u] : i[1] = t}
WalletConflicts(w, t) ==
  {u \in DOMAIN w \ {t} : \E i \in Inputs[u] \cap Inputs[t] : i[1] # Note}

\* MarkConflicted's loop: todo is walked, a transaction that is less conflicted
\* than the block makes it is marked, and its spenders are walked too.
RECURSIVE MarkConflictedFrom(_, _, _, _, _)
MarkConflictedFrom(w, last, hash, todo, done) ==
  IF todo = {} THEN w ELSE
  LET t == CHOOSE u \in todo : TRUE
      less == -(last - Len(hash) + 1) < GetDepth(w, last, t)
      marked == [w EXCEPT ![t].status = "conflicted", ![t].block = hash]
  IN  MarkConflictedFrom(IF less THEN marked ELSE w, last, hash,
        (todo \ {t}) \cup (IF less THEN WalletSpends(w, t) \ (done \cup {t}) ELSE {}),
        done \cup {t})

MarkConflictedOwn(w, last, hash, t) ==
  [w EXCEPT ![t].status = "conflicted", ![t].block = hash]

MarkConflicted(w, last, hash, t) ==
  IF last - Len(hash) + 1 <= 0 THEN w ELSE MarkConflictedFrom(w, last, hash, {t}, {})

\* AddToWallet: a new entry, or the new status and block of an old one.
AddToWallet(w, t, status, hash) ==
  IF t \notin DOMAIN w
  THEN (t :> [status |-> status, block |-> hash, fInMempool |-> FALSE]) @@ w
  ELSE IF w[t].status = status THEN w
  ELSE [w EXCEPT ![t].status = status, ![t].block = hash]

AddToWalletIfInvolvingMe(w, last, t, status, hash) ==
  LET seen == IF hash = <<>> THEN w
              ELSE FoldSet(LAMBDA u, x : MarkConflicted(x, last, hash, u), w, WalletConflicts(w, t))
  IN  IF t \in DOMAIN w \cup Mine THEN AddToWallet(seen, t, status, hash) ELSE seen

SetInMempool(w, t, in) == IF t \in DOMAIN w THEN [w EXCEPT ![t].fInMempool = in] ELSE w

TransactionAddedToMempool(w, last, t) ==
  SetInMempool(AddToWalletIfInvolvingMe(w, last, t, "unconfirmed", <<>>), t, TRUE)

TransactionRemovedFromMempool(w, t) == SetInMempool(w, t, FALSE)

BlockConnectedKeepsConflicted(w, hash, conflicted) ==
  FoldLeft(LAMBDA x, t : TransactionRemovedFromMempool(
                 AddToWalletIfInvolvingMe(x, Len(hash), t, "confirmed", hash), t),
           w, Last(hash))

BlockConnected(w, hash, conflicted) ==
  LET synced == FoldLeft(LAMBDA x, t : TransactionRemovedFromMempool(
                  AddToWalletIfInvolvingMe(x, Len(hash), t, "confirmed", hash), t),
                  w, Last(hash))
  IN  FoldSet(LAMBDA t, x : TransactionRemovedFromMempool(x, t), synced, conflicted)

BlockDisconnected(w, hash) ==
  FoldLeft(LAMBDA x, t : AddToWalletIfInvolvingMe(x, Len(hash) - 1, t, "unconfirmed", <<>>),
           w, Last(hash))

\* AbandonTransaction: the guard of the first transaction, the wallet
\* transactions its loop reaches, and what it asserts of them.
MayAbandon(w, last, t) == GetDepth(w, last, t) = 0 /\ ~w[t].fInMempool

RECURSIVE AbandonReach(_, _, _)
AbandonReach(w, last, S) ==
  LET open == {t \in S : GetDepth(w, last, t) = 0 /\ w[t].status # "abandoned"}
      T == S \cup UNION {WalletSpends(w, t) : t \in open}
  IN  IF T = S THEN S ELSE AbandonReach(w, last, T)

AbandonAsserts(w, last, t) ==
  \A u \in AbandonReach(w, last, {t}) :
    /\ GetDepth(w, last, u) <= 0
    /\ GetDepth(w, last, u) = 0 /\ w[u].status # "abandoned" => ~w[u].fInMempool

AbandonTransaction(w, last, t) ==
  LET gone == {u \in AbandonReach(w, last, {t}) : GetDepth(w, last, u) = 0}
  IN  [u \in DOMAIN w |-> IF u \in gone THEN [w[u] EXCEPT !.status = "abandoned", !.block = <<>>] ELSE w[u]]

\* IsSpent: by a transaction that is not conflicted and not abandoned.
IsSpent(w, last, i) ==
  \E t \in DOMAIN w : /\ i \in Inputs[t]
                      /\ \/ GetDepth(w, last, t) > 0
                         \/ GetDepth(w, last, t) = 0 /\ w[t].status # "abandoned"

----------------------------------------------------------------------------
(* Start: LoadToWallet of every record, then a rescan from the fork of the *)
(* best block record with the chain.  At that time m_last_block_processed_ *)
(* height is -1, so that LoadToWallet's MarkConflicted does nothing.       *)

LoadToWallet(w, c) ==
  [t \in DOMAIN w |->
     IF w[t].block = <<>> \/ IsPrefix(w[t].block, c) THEN [w[t] EXCEPT !.fInMempool = FALSE]
     ELSE [status |-> "unconfirmed", block |-> <<>>, fInMempool |-> FALSE]]

FindFork(c, hash) == Max({n \in 0..Len(c) : IsPrefix(SubSeq(c, 1, n), hash)})

\* ScanForWalletTransactions of one block of c, and from a height to the tip.
ScanBlock(w, c, h) ==
  FoldLeft(LAMBDA x, t : AddToWalletIfInvolvingMe(x, Len(c), t, "confirmed", SubSeq(c, 1, h)), w, c[h])

ScanForWalletTransactionsBeforeTip(w, c, from) ==
  FoldLeft(LAMBDA x, h : ScanBlock(x, c, h), w, [n \in 1..(Len(c) - from - 1) |-> from + n])

ScanForWalletTransactions(w, c, from) ==
  FoldLeft(LAMBDA x, h : ScanBlock(x, c, h), w, [n \in 1..(Len(c) - from) |-> from + n])

----------------------------------------------------------------------------
(* The steps of the chain and the pool, with the events they post.         *)

Removed(S) == IF S = {} THEN <<>> ELSE <<[type |-> "removed", txs |-> S]>>
Added(t) == [type |-> "added", tx |-> t]
BestChain(c) == [type |-> "best", hash |-> c]

Room == Len(events) < MaxEvents

\* cs_main is not held by a step of the chain.
Idle == ~reorg /\ trace = <<>>

\* Every entry that leaves for another reason than a block posts an event of
\* its own; a set of them is taken one by one in any order.
AcceptEvents(t, mp, mp1) ==
  Removed((Pool(mp) \cup {t}) \ Pool(mp1)) \o (IF t \in Pool(mp1) THEN <<Added(t)>> ELSE <<>>)

WInit ==
  /\ Init
  /\ trace = <<>> /\ events = <<>>
  /\ wallet = <<>> /\ lastHeight = 0
  /\ locator = <<>> /\ durable = <<>>
  /\ budget \in Budgets

WAccept(t) ==
  /\ Idle /\ Room
  /\ Accept(t)
  /\ events' = events \o AcceptEvents(t, mempool, mempool')
  /\ UNCHANGED <<trace, wallet, lastHeight, locator, durable, budget>>

\* ConnectTip; with newFile the block file has changed: the chain state is
\* flushed with the block, and the locator of chainActive, still without it, is
\* posted before the BlockConnected of any block of the step.
WConnectTip(block, newFile) ==
  /\ Room
  /\ newFile => trace = <<>> \/ BestChainInStep
  /\ ConnectTip(block)
  /\ trace' = Append(trace, [hash |-> chain',
                             conflicted |-> Pool(mempool) \ (ToSet(block) \cup Pool(mempool'))])
  /\ durable' = IF newFile THEN chain' ELSE durable
  /\ events' = IF newFile THEN Append(events, BestChain(chain)) ELSE events
  /\ UNCHANGED <<wallet, lastHeight, locator, budget>>

\* DisconnectTip: the transactions that are back, what was evicted meanwhile,
\* and the block.
WDisconnectTip ==
  /\ Room /\ trace = <<>>
  /\ budget[1] > 0
  /\ DisconnectTip
  /\ LET back == ResurrectBlock(mempool, Front(chain), Last(chain)).vHashUpdate IN
     events' = events \o [n \in DOMAIN back |-> Added(back[n])]
                      \o Removed((Pool(mempool) \cup ToSet(back)) \ Pool(mempool'))
                      \o <<[type |-> "disconnected", hash |-> chain]>>
  /\ budget' = <<budget[1] - 1, budget[2]>>
  /\ UNCHANGED <<trace, wallet, lastHeight, locator, durable>>

ConnectedEvents(tr) ==
  [n \in DOMAIN tr |-> [type |-> "connected", hash |-> tr[n].hash, conflicted |-> tr[n].conflicted]]

\* The end of ActivateBestChainStep, and ActivateBestChain posting the trace.
WEndStep ==
  /\ IF reorg THEN EndStep ELSE trace # <<>> /\ UNCHANGED vars
  /\ events' = events \o Removed(Pool(mempool) \ Pool(mempool')) \o ConnectedEvents(trace)
  /\ trace' = <<>>
  /\ UNCHANGED <<wallet, lastHeight, locator, durable, budget>>

WEndInvalidate ==
  /\ trace = <<>>
  /\ EndInvalidate
  /\ events' = events \o Removed(Pool(mempool) \ Pool(mempool'))
  /\ UNCHANGED <<trace, wallet, lastHeight, locator, durable, budget>>

\* FlushStateToDisk(FLUSH_STATE_PERIODIC): the chain state, the locator, or both.
FlushChainState ==
  /\ Idle /\ durable # chain
  /\ durable' = chain
  /\ UNCHANGED <<vars, trace, events, wallet, lastHeight, locator, budget>>

SendBestChain ==
  /\ Idle /\ Room /\ locator # chain
  /\ BestChain(chain) \notin ToSet(events)
  /\ events' = Append(events, BestChain(chain))
  /\ UNCHANGED <<vars, trace, wallet, lastHeight, locator, durable, budget>>

----------------------------------------------------------------------------
(* The wallet: the callback at the head of the queue, and its own calls.   *)

Deliver ==
  /\ events # <<>>
  /\ LET e == Head(events) IN
     \/ /\ e.type = "added"
        /\ wallet' = TransactionAddedToMempool(wallet, lastHeight, e.tx)
        /\ events' = Tail(events)
        /\ UNCHANGED <<lastHeight, locator>>
     \/ /\ e.type = "removed"
        /\ \E t \in e.txs :
             /\ wallet' = TransactionRemovedFromMempool(wallet, t)
             /\ events' = Removed(e.txs \ {t}) \o Tail(events)
        /\ UNCHANGED <<lastHeight, locator>>
     \/ /\ e.type = "connected"
        /\ wallet' = BlockConnected(wallet, e.hash, e.conflicted)
        /\ lastHeight' = Len(e.hash)
        /\ events' = Tail(events)
        /\ UNCHANGED locator
     \/ /\ e.type = "disconnected"
        /\ wallet' = BlockDisconnected(wallet, e.hash)
        /\ lastHeight' = Len(e.hash) - 1
        /\ events' = Tail(events)
        /\ UNCHANGED locator
     \/ /\ e.type = "best"
        /\ locator' = e.hash
        /\ events' = Tail(events)
        /\ UNCHANGED <<wallet, lastHeight>>
  /\ UNCHANGED <<vars, trace, durable, budget>>

\* CommitTransaction of a transaction whose inputs the wallet has and believes
\* unspent: recorded first, then sent to the pool, abandoned when that refuses.
CommitTransaction(t) ==
  /\ Idle /\ Room
  /\ t \in Mine \ (DOMAIN wallet \cup Coinbase)
  /\ \A i \in Inputs[t] : /\ ~IsSpent(wallet, lastHeight, i)
                          /\ i[1] \in Tx => /\ i[1] \in DOMAIN wallet
                                            /\ \/ GetDepth(wallet, lastHeight, i[1]) > 0
                                               \/ wallet[i[1]].fInMempool
  /\ LET w == AddToWallet(wallet, t, "unconfirmed", <<>>) IN
     \/ /\ Accept(t)
        /\ events' = events \o AcceptEvents(t, mempool, mempool')
        /\ wallet' = IF t \in Pool(mempool') THEN SetInMempool(w, t, TRUE)
                     ELSE AbandonTransaction(w, lastHeight, t)
     \/ /\ ~MayAccept(mempool, chain, Len(chain), t)
        /\ wallet' = IF t \in Pool(mempool) THEN w ELSE AbandonTransaction(w, lastHeight, t)
        /\ UNCHANGED <<vars, events>>
  /\ UNCHANGED <<trace, lastHeight, locator, durable, budget>>

\* ReacceptWalletTransactions, for one transaction.
Reaccept(t) ==
  /\ Idle /\ Room
  /\ t \in DOMAIN wallet \ (Coinbase \cup Pool(mempool))
  /\ GetDepth(wallet, lastHeight, t) = 0 /\ wallet[t].status # "abandoned"
  /\ \/ /\ Accept(t)
        /\ events' = events \o AcceptEvents(t, mempool, mempool')
     \/ /\ ~MayAccept(mempool, chain, Len(chain), t)
        /\ UNCHANGED <<vars, events>>
  /\ wallet' = SetInMempool(wallet, t, t \in Pool(mempool'))
  /\ UNCHANGED <<trace, lastHeight, locator, durable, budget>>

\* The abandontransaction RPC, when its assertions hold.
Abandon(t) ==
  /\ Idle
  /\ t \in DOMAIN wallet /\ wallet[t].status # "abandoned"
  /\ MayAbandon(wallet, lastHeight, t) /\ AbandonAsserts(wallet, lastHeight, t)
  /\ wallet' = AbandonTransaction(wallet, lastHeight, t)
  /\ UNCHANGED <<vars, trace, events, lastHeight, locator, durable, budget>>

\* The process ends at any point and starts again on the durable chain: an empty
\* pool, no callbacks, the wallet file loaded and rescanned.
Restart ==
  /\ budget[2] > 0
  /\ chain' = durable
  /\ mempool' = [mapTx |-> <<>>, mapDeltas |-> [t \in Tx |-> 0]]
  /\ reorg' = FALSE /\ trace' = <<>> /\ events' = <<>>
  /\ LET fork == FindFork(durable, locator) IN
     /\ wallet' = IF fork = Len(durable) THEN LoadToWallet(wallet, durable)
                  ELSE ScanForWalletTransactions(LoadToWallet(wallet, durable), durable, Max({0, fork - 1}))
     /\ locator' = IF fork = Len(durable) THEN locator ELSE durable
  /\ lastHeight' = Len(durable)
  /\ budget' = <<budget[1], budget[2] - 1>>
  /\ UNCHANGED durable

WNext ==
  \/ \E t \in Tx : WAccept(t) \/ CommitTransaction(t) \/ Reaccept(t) \/ Abandon(t)
  \/ \E block \in Block : \E newFile \in BOOLEAN : WConnectTip(block, newFile)
  \/ WDisconnectTip \/ WEndStep \/ WEndInvalidate
  \/ FlushChainState \/ SendBestChain
  \/ Deliver
  \/ Restart

WSpec == WInit /\ [][WNext]_wvars

----------------------------------------------------------------------------
(* Properties.  The wallet is caught up when no step is under way and no   *)
(* callback is queued.                                                     *)

CaughtUp == Idle /\ events = <<>>

\* A wallet transaction names a block exactly if it is confirmed or conflicted, and the
\* last processed height is one of the chain.
WTypeOK ==
  /\ TypeOK
  /\ \A t \in DOMAIN wallet :
       wallet[t] \in [status : {"unconfirmed", "confirmed", "conflicted", "abandoned"},
                      block : {wallet[t].block}, fInMempool : BOOLEAN]
  /\ \A t \in DOMAIN wallet :
       wallet[t].block = <<>> <=> wallet[t].status \in {"unconfirmed", "abandoned"}
  /\ lastHeight \in 0..MaxHeight

\* A wallet that is caught up records exactly its transactions in the chain as
\* confirmed, each in its block: whatever was connected, disconnected, abandoned,
\* lost with the queue and rescanned before.
ConfirmedExact ==
  CaughtUp =>
    /\ lastHeight = Len(chain)
    /\ Mine \cap Confirmed(chain) \subseteq DOMAIN wallet
    /\ \A t \in DOMAIN wallet :
         IF t \in Confirmed(chain)
         THEN wallet[t].status = "confirmed" /\ Len(wallet[t].block) = HeightOf(chain, t)
         ELSE wallet[t].status # "confirmed"

\* fInMempool of a wallet that is caught up is membership in the pool, although
\* it is set by callbacks that lag behind and by the wallet itself ahead of them.
InMempoolExact ==
  CaughtUp => \A t \in DOMAIN wallet : wallet[t].fInMempool <=> t \in Pool(mempool)

\* The chain spends a coin of t in another transaction.
DoubleSpent(t) ==
  \E u \in Confirmed(chain) \ {t} : \E i \in Inputs[u] \cap Inputs[t] : i[1] # Note

\* The wallet transactions that spend t, directly or through others, and t.
WalletDescendants(t) == Closure([x \in DOMAIN wallet |-> WalletSpends(wallet, x)], {t})

\* A wallet that is caught up does not count on a transaction that the chain
\* double spends, nor on one that spends it: its depth is negative or it is
\* abandoned, although MarkConflicted stops at one that is conflicted already.
ConflictsSeen ==
  CaughtUp => \A t \in DOMAIN wallet : DoubleSpent(t) =>
    \A u \in WalletDescendants(t) :
      GetDepth(wallet, lastHeight, u) < 0 \/ wallet[u].status = "abandoned"

\* GetDepthInMainChain is positive only for a transaction in the chain, as its
\* comment in wallet.h has it.
DepthMeansInChain ==
  CaughtUp => \A t \in DOMAIN wallet :
    GetDepth(wallet, lastHeight, t) > 0 => t \in Confirmed(chain)

\* It is negative only for one that the chain conflicts with, itself or through
\* a wallet ancestor.
NegativeMeansConflict ==
  CaughtUp => \A t \in DOMAIN wallet :
    GetDepth(wallet, lastHeight, t) < 0 =>
      \E u \in DOMAIN wallet : DoubleSpent(u) /\ t \in WalletDescendants(u)

\* What AbandonTransaction asserts holds whenever it may be called.
AbandonSafe ==
  Idle => \A t \in DOMAIN wallet :
    MayAbandon(wallet, lastHeight, t) => AbandonAsserts(wallet, lastHeight, t)

\* mapWallet holds what its types allow, and its mempool flags are those of the pool
\* once the callbacks have run.
FlagsSound == WTypeOK /\ InMempoolExact
====
