----------------------------- MODULE CoinsCache -----------------------------
(***************************************************************************)
(* The two write-back caches between validation and the chainstate         *)
(* database: pcoinsTip, over CCoinsViewDB, and the short-lived             *)
(* CCoinsViewCache that ConnectTip and DisconnectTip put over it           *)
(* (coins.cpp, coins.h).  An entry carries a coin and the flags DIRTY and  *)
(* FRESH; the flags decide what a flush writes, erases or leaves out, so a *)
(* wrong flag loses or resurrects an output long after it was set.         *)
(*                                                                         *)
(* A call on the upper cache that misses reads through pcoinsTip, which    *)
(* then caches the coin as well: one step changes both caches.  cs_main is *)
(* held from the creation of the upper cache to its flush or destruction,  *)
(* so pcoinsTip is read, trimmed or flushed by others only when no upper   *)
(* cache is open.                                                          *)
(***************************************************************************)
CONSTANTS
  OutPoint,     \* transaction outputs
  Coin,         \* contents an unspent output may have
  Unspendable,  \* the coins whose script can never be satisfied
  Spent,        \* the empty Coin
  Block,        \* block hashes
  NoBlock,      \* the null block hash: "not loaded yet"
  NoEntry       \* no entry in a CCoinsMap

ASSUME CoinAssumption ==
  /\ Spent \notin Coin
  /\ Unspendable \subseteq Coin
  /\ NoBlock \notin Block
  /\ \A c \in Coin \cup {Spent}, d, f \in BOOLEAN :
       NoEntry # [coin |-> c, dirty |-> d, fresh |-> f]

VARIABLES
  db,           \* CCoinsViewDB: OutPoint -> Coin, Spent where no record
  tip,          \* pcoinsTip->cacheCoins
  view,         \* cacheCoins of the upper cache
  open,         \* is there an upper cache
  dbBest, tipBest, viewBest,  \* DB_BEST_BLOCK and the two hashBlock fields
  thrown        \* std::logic_error raised, and by which call

vars == <<db, tip, view, open, dbBest, tipBest, viewBest, thrown>>

Entry == [coin : Coin \cup {Spent}, dirty : BOOLEAN, fresh : BOOLEAN]
CCoinsMap == [OutPoint -> Entry \cup {NoEntry}]
Empty == [o \in OutPoint |-> NoEntry]

\* The entries of both caches and the database hold coins and flags of their types.
TypeOK ==
  /\ db \in [OutPoint -> Coin \cup {Spent}]
  /\ tip \in CCoinsMap
  /\ view \in CCoinsMap
  /\ open \in BOOLEAN
  /\ dbBest \in Block
  /\ tipBest \in Block \cup {NoBlock}
  /\ viewBest \in Block \cup {NoBlock}
  /\ thrown \in {"no", "AddCoin", "BatchWrite"}

Init ==
  /\ db = [o \in OutPoint |-> Spent]
  /\ tip = Empty
  /\ view = Empty
  /\ open = FALSE
  /\ dbBest \in Block
  /\ tipBest = NoBlock
  /\ viewBest = NoBlock
  /\ thrown = "no"

-----------------------------------------------------------------------------
(* What a lookup answers at each level. *)

TipCoin(o) == IF tip[o] = NoEntry THEN db[o] ELSE tip[o].coin
ViewCoin(o) == IF view[o] = NoEntry THEN TipCoin(o) ELSE view[o].coin

\* CCoinsViewDB::GetCoin fails where there is no record, while
\* CCoinsViewCache::GetCoin succeeds on any entry, a spent one included.
FetchTip(o) ==
  IF tip[o] # NoEntry \/ db[o] = Spent THEN tip[o]
  ELSE [coin |-> db[o], dirty |-> FALSE, fresh |-> FALSE]

\* FetchCoin on the upper cache: the parent's coin, FRESH if it is spent.
FetchView(o) ==
  IF view[o] # NoEntry \/ FetchTip(o) = NoEntry THEN view[o]
  ELSE [coin |-> FetchTip(o).coin, dirty |-> FALSE,
        fresh |-> FetchTip(o).coin = Spent]

\* The side effect of FetchView on pcoinsTip.
TipAfterFetch(o) ==
  IF view[o] # NoEntry THEN tip ELSE [tip EXCEPT ![o] = FetchTip(o)]

-----------------------------------------------------------------------------
(* Calls on the upper cache. *)

Running == thrown = "no"

OpenView ==
  /\ Running /\ ~open
  /\ open' = TRUE
  /\ view' = Empty
  /\ viewBest' = NoBlock
  /\ UNCHANGED <<db, tip, dbBest, tipBest, thrown>>

HaveCoin(o) ==
  /\ Running /\ open
  /\ view' = [view EXCEPT ![o] = FetchView(o)]
  /\ tip' = TipAfterFetch(o)
  /\ UNCHANGED <<db, open, dbBest, tipBest, viewBest, thrown>>

\* The entry AddCoin leaves over the entry e: FRESH is added only where the
\* caller excludes an overwrite and e was not DIRTY.
AddedMutant(e, c, overwrite) ==
  IF e = NoEntry
  THEN [coin |-> c, dirty |-> TRUE, fresh |-> ~overwrite]
  ELSE [coin |-> c, dirty |-> TRUE, fresh |-> e.fresh \/ ~overwrite]

Added(e, c, overwrite) ==
  IF e = NoEntry
  THEN [coin |-> c, dirty |-> TRUE, fresh |-> ~overwrite]
  ELSE [coin |-> c, dirty |-> TRUE,
        fresh |-> e.fresh \/ (~overwrite /\ ~e.dirty)]

AddCoin(o, c, overwrite, cache) ==
  IF c \in Unspendable
  THEN view' = cache /\ UNCHANGED thrown
  ELSE IF ~overwrite /\ cache[o] # NoEntry /\ cache[o].coin # Spent
  THEN view' = cache /\ thrown' = "AddCoin"
  ELSE /\ view' = [cache EXCEPT ![o] = Added(cache[o], c, overwrite)]
       /\ UNCHANGED thrown

\* UpdateCoins: AddCoins with check = false.  A valid block creates only
\* outputs that the view does not hold.
AddNewCoin(o, c) ==
  /\ Running /\ open
  /\ ViewCoin(o) = Spent
  /\ AddCoin(o, c, FALSE, view)
  /\ UNCHANGED <<db, tip, open, dbBest, tipBest, viewBest>>

\* ApplyTxInUndo, and AddCoins with check = true: HaveCoin decides.
AddCheckedCoin(o, c) ==
  /\ Running /\ open
  /\ AddCoin(o, c, FetchView(o) # NoEntry /\ FetchView(o).coin # Spent,
             [view EXCEPT ![o] = FetchView(o)])
  /\ tip' = TipAfterFetch(o)
  /\ UNCHANGED <<db, open, dbBest, tipBest, viewBest>>

\* The entry SpendCoin leaves over a fetched entry e.
SpentEntry(e) ==
  IF e = NoEntry \/ e.fresh THEN NoEntry
  ELSE [coin |-> Spent, dirty |-> TRUE, fresh |-> FALSE]

SpendCoin(o) ==
  /\ Running /\ open
  /\ view' = [view EXCEPT ![o] = SpentEntry(FetchView(o))]
  /\ tip' = TipAfterFetch(o)
  /\ UNCHANGED <<db, open, dbBest, tipBest, viewBest, thrown>>

\* GetBestBlock loads the hash from the parent, and so on down.
TipBestBlock == IF tipBest = NoBlock THEN dbBest ELSE tipBest
ViewBestBlock == IF viewBest = NoBlock THEN TipBestBlock ELSE viewBest

GetBestBlock ==
  /\ Running /\ open
  /\ viewBest' = ViewBestBlock
  /\ tipBest' = IF viewBest = NoBlock THEN TipBestBlock ELSE tipBest
  /\ UNCHANGED <<db, tip, view, open, dbBest, thrown>>

\* ConnectBlock and DisconnectTip read the view's best block before they set it.
SetBestBlock(b) ==
  /\ Running /\ open
  /\ viewBest # NoBlock
  /\ viewBest' = b
  /\ UNCHANGED <<db, tip, view, open, dbBest, tipBest, thrown>>

-----------------------------------------------------------------------------
(* Flushing and discarding. *)

\* CCoinsViewCache::BatchWrite, for one entry of the child.
Misapplied(parent, child) ==
  /\ child # NoEntry /\ child.dirty /\ child.fresh
  /\ parent # NoEntry /\ parent.coin # Spent

Merged(parent, child) ==
  IF child = NoEntry \/ ~child.dirty THEN parent
  ELSE IF parent = NoEntry
  THEN IF child.fresh /\ child.coin = Spent THEN NoEntry
       ELSE [coin |-> child.coin, dirty |-> TRUE, fresh |-> child.fresh]
  ELSE IF parent.fresh /\ child.coin = Spent THEN NoEntry
  ELSE [parent EXCEPT !.coin = child.coin, !.dirty = TRUE]

\* view.Flush() at the end of ConnectTip or DisconnectTip; the view is then
\* destroyed.  Both have loaded the view's best block by then.
FlushView ==
  /\ Running /\ open
  /\ viewBest # NoBlock
  /\ IF \E o \in OutPoint : Misapplied(tip[o], view[o])
     THEN /\ thrown' = "BatchWrite"
          /\ UNCHANGED <<tip, tipBest>>
     ELSE /\ tip' = [o \in OutPoint |-> Merged(tip[o], view[o])]
          /\ tipBest' = viewBest
          /\ UNCHANGED thrown
  /\ view' = Empty /\ viewBest' = NoBlock /\ open' = FALSE
  /\ UNCHANGED <<db, dbBest>>

\* ConnectBlock failed, or TestBlockValidity is done: destroyed unflushed.
DropView ==
  /\ Running /\ open
  /\ view' = Empty /\ viewBest' = NoBlock /\ open' = FALSE
  /\ UNCHANGED <<db, tip, dbBest, tipBest, thrown>>

\* FlushStateToDisk: pcoinsTip->Flush() into CCoinsViewDB::BatchWrite, which
\* asserts that the block hash is not null.  Only DIRTY entries are written.
FlushTip ==
  /\ Running /\ ~open
  /\ tipBest # NoBlock
  /\ db' = [o \in OutPoint |->
              IF tip[o] # NoEntry /\ tip[o].dirty THEN tip[o].coin ELSE db[o]]
  /\ dbBest' = tipBest
  /\ tip' = Empty
  /\ UNCHANGED <<view, open, tipBest, viewBest, thrown>>

-----------------------------------------------------------------------------
(* Other users of pcoinsTip: the mempool and RPC read it, AcceptToMemory-   *)
(* Pool trims what a rejected transaction pulled in.                        *)

TipHaveCoin(o) ==
  /\ Running /\ ~open
  /\ tip' = [tip EXCEPT ![o] = FetchTip(o)]
  /\ UNCHANGED <<db, view, open, dbBest, tipBest, viewBest, thrown>>

UncacheMutant(o) ==
  /\ Running /\ ~open
  /\ tip[o] # NoEntry /\ ~tip[o].fresh
  /\ tip' = [tip EXCEPT ![o] = NoEntry]
  /\ UNCHANGED <<db, view, open, dbBest, tipBest, viewBest, thrown>>

Uncache(o) ==
  /\ Running /\ ~open
  /\ tip[o] # NoEntry /\ ~tip[o].dirty /\ ~tip[o].fresh
  /\ tip' = [tip EXCEPT ![o] = NoEntry]
  /\ UNCHANGED <<db, view, open, dbBest, tipBest, viewBest, thrown>>

-----------------------------------------------------------------------------
Next ==
  \/ OpenView
  \/ \E o \in OutPoint : HaveCoin(o) \/ SpendCoin(o)
  \/ \E o \in OutPoint, c \in Coin : AddNewCoin(o, c) \/ AddCheckedCoin(o, c)
  \/ GetBestBlock
  \/ \E b \in Block : SetBestBlock(b)
  \/ FlushView
  \/ DropView
  \/ FlushTip
  \/ \E o \in OutPoint : TipHaveCoin(o) \/ Uncache(o)

Spec == Init /\ [][Next]_vars

-----------------------------------------------------------------------------
(* Properties. *)

\* coins.h says of DIRTY that the entry is "potentially different from the
\* version in the parent view" and of FRESH that "the parent view does not
\* have this entry (or it is pruned)".  Every entry of both caches honours
\* both, whatever sequence of fetches, additions, spends, merges and trims
\* produced it: a clean entry equals the parent's coin, and a FRESH one sits
\* over a parent without an unspent coin.
FlagsHonest ==
  \A o \in OutPoint :
    /\ tip[o] # NoEntry =>
         /\ ~tip[o].dirty => tip[o].coin = db[o]
         /\ tip[o].fresh => db[o] = Spent
    /\ view[o] # NoEntry =>
         /\ ~view[o].dirty => view[o].coin = TipCoin(o)
         /\ view[o].fresh => TipCoin(o) = Spent

\* Neither of the two std::logic_errors of coins.cpp, "Adding new coin that
\* replaces non-pruned entry" and "FRESH flag misapplied to cache entry for
\* base transaction with spendable outputs", can be raised by callers that
\* follow AddCoin's contract.
NoLogicError == thrown = "no"

\* The caches are invisible: reads through them see exactly the three UTXO
\* sets of CoinsView, and a flush moves all of a set at once.
Abstract == INSTANCE CoinsView WITH
  dbUtxo <- db,
  tipUtxo <- [o \in OutPoint |-> TipCoin(o)],
  viewUtxo <- [o \in OutPoint |-> ViewCoin(o)],
  dbBlock <- dbBest,
  tipBlock <- TipBestBlock,
  viewBlock <- ViewBestBlock

ImplementsCoinsView == Abstract!Spec

\* The invariant of the caches: well typed, every DIRTY and FRESH flag tells the
\* truth about the level below, and neither logic_error has been raised.
CachesSound == TypeOK /\ FlagsHonest /\ NoLogicError
=============================================================================
