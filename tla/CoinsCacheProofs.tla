-------------------------- MODULE CoinsCacheProofs --------------------------
(***************************************************************************)
(* Proofs about CoinsCache, for any sets of outputs, coins and blocks: the *)
(* flags are always honest, neither logic_error can be raised, and the     *)
(* caches implement the three plain UTXO sets of CoinsView.                *)
(*                                                                         *)
(* FlagsHonest is inductive together with two facts: a spent entry is      *)
(* never both DIRTY and FRESH (SpendCoin erases a FRESH entry), and a      *)
(* closed upper cache is empty.                                            *)
(***************************************************************************)
EXTENDS CoinsCache, TLAPS

\* A cache never holds a spent entry that is both DIRTY and FRESH, and no
\* upper cache means no entries.
NoDeadWeight ==
  /\ ~open => view = Empty /\ viewBest = NoBlock
  /\ \A o \in OutPoint :
       /\ tip[o] # NoEntry /\ tip[o].dirty /\ tip[o].fresh => tip[o].coin # Spent
       /\ view[o] # NoEntry /\ view[o].dirty /\ view[o].fresh => view[o].coin # Spent

IInv == TypeOK /\ FlagsHonest /\ NoDeadWeight /\ NoLogicError

-----------------------------------------------------------------------------
(* What the entry operators return. *)

\* FetchCoin returns entries, and only where the parent has something.
LEMMA FetchType ==
  ASSUME TypeOK, NEW o \in OutPoint
  PROVE  /\ FetchTip(o) \in Entry \cup {NoEntry}
         /\ FetchView(o) \in Entry \cup {NoEntry}
         /\ TipAfterFetch(o) \in CCoinsMap
<1>1. /\ tip[o] \in Entry \cup {NoEntry}
      /\ view[o] \in Entry \cup {NoEntry}
      /\ db[o] \in Coin \cup {Spent}
  BY DEF TypeOK, CCoinsMap
<1>2. FetchTip(o) \in Entry \cup {NoEntry}
  BY <1>1 DEF FetchTip, Entry
<1>3. FetchView(o) \in Entry \cup {NoEntry}
  BY <1>1, <1>2 DEF FetchView, Entry
<1>4. TipAfterFetch(o) \in CCoinsMap
  BY <1>2 DEF TipAfterFetch, CCoinsMap, TypeOK
<1> QED
  BY <1>2, <1>3, <1>4

\* Reading through the caches changes neither what the caches answer nor the
\* honesty of any entry, and an absent answer means the coin is spent.
LEMMA FetchHonest ==
  ASSUME TypeOK, FlagsHonest, NoDeadWeight, NEW o \in OutPoint
  PROVE  LET t == FetchTip(o)
             v == FetchView(o)
         IN  /\ t = NoEntry => tip[o] = NoEntry /\ db[o] = Spent
             /\ t # NoEntry => /\ t.coin = TipCoin(o)
                               /\ ~t.dirty => t.coin = db[o]
                               /\ t.fresh => db[o] = Spent
                               /\ t.dirty /\ t.fresh => t.coin # Spent
             /\ v = NoEntry => view[o] = NoEntry /\ TipCoin(o) = Spent
             /\ v # NoEntry => /\ v.coin = ViewCoin(o)
                               /\ ~v.dirty => v.coin = TipCoin(o)
                               /\ v.fresh => TipCoin(o) = Spent
                               /\ v.dirty /\ v.fresh => v.coin # Spent
<1>1. /\ tip[o] \in Entry \cup {NoEntry}
      /\ view[o] \in Entry \cup {NoEntry}
      /\ db[o] \in Coin \cup {Spent}
  BY DEF TypeOK, CCoinsMap
<1>2. /\ FetchTip(o) = NoEntry => tip[o] = NoEntry /\ db[o] = Spent
      /\ FetchTip(o) # NoEntry =>
           /\ FetchTip(o).coin = TipCoin(o)
           /\ ~FetchTip(o).dirty => FetchTip(o).coin = db[o]
           /\ FetchTip(o).fresh => db[o] = Spent
           /\ FetchTip(o).dirty /\ FetchTip(o).fresh => FetchTip(o).coin # Spent
  BY <1>1, CoinAssumption, Zenon DEF FetchTip, FlagsHonest, NoDeadWeight, TipCoin, Entry
<1>3. /\ FetchView(o) = NoEntry => view[o] = NoEntry /\ TipCoin(o) = Spent
      /\ FetchView(o) # NoEntry =>
           /\ FetchView(o).coin = ViewCoin(o)
           /\ ~FetchView(o).dirty => FetchView(o).coin = TipCoin(o)
           /\ FetchView(o).fresh => TipCoin(o) = Spent
           /\ FetchView(o).dirty /\ FetchView(o).fresh => FetchView(o).coin # Spent
  <2>1. CASE view[o] # NoEntry
    BY <2>1, <1>1 DEF FetchView, FlagsHonest, NoDeadWeight, ViewCoin
  <2>2. CASE view[o] = NoEntry /\ FetchTip(o) = NoEntry
    BY <2>2, <1>1, <1>2 DEF FetchView, TipCoin
  <2>3. CASE view[o] = NoEntry /\ FetchTip(o) # NoEntry
    <3>1. FetchTip(o).coin \in Coin \cup {Spent}
      BY <2>3, FetchType DEF Entry
    <3>2. FetchView(o) = [coin |-> FetchTip(o).coin, dirty |-> FALSE,
                          fresh |-> FetchTip(o).coin = Spent]
      BY <2>3 DEF FetchView
    <3>3. FetchView(o) # NoEntry
      BY <3>1, <3>2, CoinAssumption, Zenon
    <3>4. /\ FetchView(o).coin = FetchTip(o).coin
          /\ FetchView(o).dirty = FALSE
          /\ FetchView(o).fresh = (FetchTip(o).coin = Spent)
      BY <3>2
    <3> QED
      BY <3>3, <3>4, <2>3, <1>2, Zenon DEF ViewCoin
  <2> QED
    BY <2>1, <2>2, <2>3
<1> QED
  BY <1>2, <1>3

-----------------------------------------------------------------------------
(* The invariant is inductive. *)

THEOREM InitIInv == Init => IInv
<1> SUFFICES ASSUME Init PROVE IInv
  OBVIOUS
<1>1. TypeOK
  BY Zenon DEF Init, TypeOK, CCoinsMap, Empty
<1>2. FlagsHonest /\ NoDeadWeight /\ NoLogicError
  BY DEF Init, FlagsHonest, NoDeadWeight, NoLogicError, Empty
<1> QED
  BY <1>1, <1>2 DEF IInv

\* After a fetch of o, pcoinsTip is still typed and honest, and answers as
\* before.
LEMMA TipAfterFetchHonest ==
  ASSUME IInv, NEW o \in OutPoint
  PROVE  LET t == TipAfterFetch(o)
         IN  /\ t \in CCoinsMap
             /\ \A p \in OutPoint :
                  /\ t[p] = NoEntry => tip[p] = NoEntry
                  /\ (IF t[p] = NoEntry THEN db[p] ELSE t[p].coin) = TipCoin(p)
                  /\ t[p] # NoEntry =>
                       /\ ~t[p].dirty => t[p].coin = db[p]
                       /\ t[p].fresh => db[p] = Spent
                       /\ t[p].dirty /\ t[p].fresh => t[p].coin # Spent
<1> USE DEF IInv
<1>1. TipAfterFetch(o) \in CCoinsMap
  BY FetchType
<1> SUFFICES ASSUME NEW p \in OutPoint
             PROVE  LET e == TipAfterFetch(o)[p]
                    IN  /\ e = NoEntry => tip[p] = NoEntry
                        /\ (IF e = NoEntry THEN db[p] ELSE e.coin) = TipCoin(p)
                        /\ e # NoEntry =>
                             /\ ~e.dirty => e.coin = db[p]
                             /\ e.fresh => db[p] = Spent
                             /\ e.dirty /\ e.fresh => e.coin # Spent
  BY <1>1
<1>2. CASE view[o] = NoEntry /\ p = o
  <2>1. TipAfterFetch(o)[p] = FetchTip(o)
    BY <1>2 DEF TipAfterFetch, TypeOK, CCoinsMap
  <2> QED
    BY <2>1, <1>2, FetchHonest DEF TipCoin
<1>3. CASE view[o] # NoEntry \/ p # o
  <2>1. TipAfterFetch(o)[p] = tip[p]
    BY <1>3 DEF TipAfterFetch, TypeOK, CCoinsMap
  <2> QED
    BY <2>1 DEF FlagsHonest, NoDeadWeight, TipCoin
<1> QED
  BY <1>2, <1>3

\* A step that only reads pcoinsTip through a fetch of o, and leaves an honest
\* entry e for o in the upper cache, keeps the invariant.
LEMMA ViewStep ==
  ASSUME IInv, NEW o \in OutPoint, NEW e \in Entry \cup {NoEntry}, open,
         \/ tip' = TipAfterFetch(o)
         \/ tip' = tip,
         view' = [view EXCEPT ![o] = e],
         UNCHANGED <<db, open, dbBest, tipBest, viewBest, thrown>>,
         e # NoEntry => /\ ~e.dirty => e.coin = TipCoin(o)
                        /\ e.fresh => TipCoin(o) = Spent
                        /\ e.dirty /\ e.fresh => e.coin # Spent
  PROVE  IInv'
<1> USE DEF IInv
<1>1. /\ tip' \in CCoinsMap
      /\ \A p \in OutPoint :
           /\ TipCoin(p)' = TipCoin(p)
           /\ tip'[p] # NoEntry =>
                       /\ ~tip'[p].dirty => tip'[p].coin = db[p]
                       /\ tip'[p].fresh => db[p] = Spent
                       /\ tip'[p].dirty /\ tip'[p].fresh => tip'[p].coin # Spent
  <2>1. CASE tip' = TipAfterFetch(o)
    BY <2>1, TipAfterFetchHonest DEF TipCoin
  <2>2. CASE tip' = tip
    BY <2>2 DEF TypeOK, FlagsHonest, NoDeadWeight, TipCoin
  <2> QED
    BY <2>1, <2>2
<1>2. /\ view' \in CCoinsMap
      /\ view'[o] = e
      /\ \A p \in OutPoint \ {o} : view'[p] = view[p]
  BY DEF TypeOK, CCoinsMap
<1>3. TypeOK'
  BY <1>1, <1>2 DEF TypeOK
<1>4. FlagsHonest'
  <2> SUFFICES ASSUME NEW p \in OutPoint, view'[p] # NoEntry
               PROVE  /\ ~view'[p].dirty => view'[p].coin = TipCoin(p)
                      /\ view'[p].fresh => TipCoin(p) = Spent
    BY <1>1 DEF FlagsHonest
  <2>1. CASE p = o
    BY <2>1, <1>2
  <2>2. CASE p # o
    BY <2>2, <1>2 DEF FlagsHonest
  <2> QED
    BY <2>1, <2>2
<1>5. NoDeadWeight'
  BY <1>1, <1>2 DEF NoDeadWeight
<1> QED
  BY <1>3, <1>4, <1>5 DEF NoLogicError

\* The entry AddCoin leaves is honest when the caller's claim about an
\* overwrite is true, over either kind of starting entry.
LEMMA AddedHonest ==
  ASSUME IInv, NEW o \in OutPoint, NEW c \in Coin, NEW overwrite \in BOOLEAN,
         NEW e \in Entry \cup {NoEntry},
         e # NoEntry => /\ e.coin = ViewCoin(o)
                        /\ ~e.dirty => e.coin = TipCoin(o)
                        /\ e.fresh => TipCoin(o) = Spent,
         e = NoEntry => TipCoin(o) = ViewCoin(o),
         ~overwrite => ViewCoin(o) = Spent
  PROVE  LET a == Added(e, c, overwrite)
         IN  /\ a \in Entry
             /\ a # NoEntry
             /\ a.coin = c /\ a.coin # Spent /\ a.dirty
             /\ a.fresh => TipCoin(o) = Spent
<1>1. Added(e, c, overwrite) \in Entry
  BY DEF Added, Entry
<1>2. Added(e, c, overwrite) # NoEntry
  BY <1>1, CoinAssumption DEF Entry
<1>3. /\ Added(e, c, overwrite).coin = c
      /\ c # Spent
      /\ Added(e, c, overwrite).dirty
  BY CoinAssumption DEF Added
<1>4. ASSUME Added(e, c, overwrite).fresh
      PROVE  TipCoin(o) = Spent
  <2>1. CASE e = NoEntry
    BY <1>4, <2>1, Zenon DEF Added
  <2>2. CASE e # NoEntry
    BY <1>4, <2>2 DEF Added, Entry
  <2> QED
    BY <2>1, <2>2
<1> QED
  BY <1>1, <1>2, <1>3, <1>4

\* BatchWrite of one child entry: the merged entry answers what the child
\* answered, stays honest over the grandparent, and never throws.
LEMMA MergedHonest ==
  ASSUME IInv, NEW o \in OutPoint
  PROVE  LET m == Merged(tip[o], view[o])
         IN  /\ m \in Entry \cup {NoEntry}
             /\ ~Misapplied(tip[o], view[o])
             /\ (IF m = NoEntry THEN db[o] ELSE m.coin) = ViewCoin(o)
             /\ m # NoEntry => /\ ~m.dirty => m.coin = db[o]
                               /\ m.fresh => db[o] = Spent
                               /\ m.dirty /\ m.fresh => m.coin # Spent
<1> DEFINE t == tip[o]
           v == view[o]
           m == Merged(t, v)
<1>1. /\ t \in Entry \cup {NoEntry}
      /\ v \in Entry \cup {NoEntry}
      /\ db[o] \in Coin \cup {Spent}
  BY DEF IInv, TypeOK, CCoinsMap
<1>2. /\ t # NoEntry => /\ ~t.dirty => t.coin = db[o]
                        /\ t.fresh => db[o] = Spent
                        /\ t.dirty /\ t.fresh => t.coin # Spent
      /\ v # NoEntry => /\ ~v.dirty => v.coin = TipCoin(o)
                        /\ v.fresh => TipCoin(o) = Spent
                        /\ v.dirty /\ v.fresh => v.coin # Spent
  BY DEF IInv, FlagsHonest, NoDeadWeight
<1>3. ~Misapplied(t, v)
  BY <1>2 DEF Misapplied, TipCoin
<1>4. CASE v = NoEntry \/ ~v.dirty
  BY <1>1, <1>2, <1>3, <1>4 DEF Merged, ViewCoin, TipCoin
<1>5. CASE v # NoEntry /\ v.dirty /\ t = NoEntry
  <2>1. ~(v.fresh /\ v.coin = Spent)
    BY <1>2, <1>5
  <2>2. m = [coin |-> v.coin, dirty |-> TRUE, fresh |-> v.fresh]
    BY <2>1, <1>5 DEF Merged
  <2>3. m \in Entry /\ m # NoEntry
    BY <2>2, <1>1, <1>5, CoinAssumption, Zenon DEF Entry
  <2>4. m.coin = v.coin /\ m.dirty = TRUE /\ m.fresh = v.fresh
    BY <2>2
  <2> QED
    BY <2>1, <2>3, <2>4, <1>2, <1>3, <1>5 DEF ViewCoin, TipCoin
<1>6. CASE v # NoEntry /\ v.dirty /\ t # NoEntry /\ t.fresh /\ v.coin = Spent
  <2>1. m = NoEntry
    BY <1>6 DEF Merged
  <2> QED
    BY <2>1, <1>2, <1>3, <1>6 DEF ViewCoin
<1>7. CASE v # NoEntry /\ v.dirty /\ t # NoEntry /\ ~(t.fresh /\ v.coin = Spent)
  <2>1. m = [t EXCEPT !.coin = v.coin, !.dirty = TRUE]
    BY <1>7 DEF Merged
  <2>2. m = [coin |-> v.coin, dirty |-> TRUE, fresh |-> t.fresh]
    BY <2>1, <1>1, <1>7, Zenon DEF Entry
  <2>3. m \in Entry /\ m # NoEntry
    <3>1. v.coin \in Coin \cup {Spent} /\ t.fresh \in BOOLEAN
      BY <1>1, <1>7 DEF Entry
    <3>2. m \in Entry
      BY <3>1, <2>2 DEF Entry
    <3>3. m # NoEntry
      BY <3>1, <2>2, CoinAssumption, Zenon
    <3> QED
      BY <3>2, <3>3
  <2>4. m.coin = v.coin /\ m.dirty = TRUE /\ m.fresh = t.fresh
    BY <2>2
  <2> QED
    BY <2>3, <2>4, <1>2, <1>3, <1>7 DEF ViewCoin
<1> QED
  BY <1>4, <1>5, <1>6, <1>7

-----------------------------------------------------------------------------
(* One lemma per action. *)

LEMMA OpenViewInv ==
  ASSUME IInv, OpenView PROVE IInv'
<1>1. view' = Empty /\ UNCHANGED <<db, tip, dbBest, tipBest, thrown>>
  BY DEF OpenView
<1>2. TypeOK'
  BY DEF IInv, TypeOK, OpenView, Empty, CCoinsMap
<1>3. FlagsHonest'
  BY <1>1 DEF IInv, FlagsHonest, Empty, TipCoin
<1>4. NoDeadWeight'
  BY <1>1 DEF IInv, NoDeadWeight, Empty, OpenView
<1> QED
  BY <1>1, <1>2, <1>3, <1>4 DEF IInv, NoLogicError

LEMMA HaveCoinInv ==
  ASSUME IInv, NEW o \in OutPoint, HaveCoin(o) PROVE IInv'
<1> DEFINE e == FetchView(o)
<1>1. e \in Entry \cup {NoEntry}
  BY FetchType DEF IInv
<1>2. e # NoEntry => /\ ~e.dirty => e.coin = TipCoin(o)
                     /\ e.fresh => TipCoin(o) = Spent
                     /\ e.dirty /\ e.fresh => e.coin # Spent
  BY FetchHonest DEF IInv
<1> HIDE DEF e
<1> QED
  BY <1>1, <1>2, ViewStep, Zenon DEF HaveCoin, e

LEMMA SpendCoinInv ==
  ASSUME IInv, NEW o \in OutPoint, SpendCoin(o) PROVE IInv'
<1> DEFINE e == SpentEntry(FetchView(o))
<1>1. e \in Entry \cup {NoEntry}
  BY FetchType DEF IInv, SpentEntry, Entry
<1>2. e # NoEntry => e = [coin |-> Spent, dirty |-> TRUE, fresh |-> FALSE]
  BY DEF SpentEntry
<1>3. e # NoEntry => e.dirty = TRUE /\ e.fresh = FALSE
  BY <1>2
<1>4. /\ open
      /\ tip' = TipAfterFetch(o)
      /\ view' = [view EXCEPT ![o] = e]
      /\ UNCHANGED <<db, open, dbBest, tipBest, viewBest, thrown>>
  BY DEF SpendCoin
<1> HIDE DEF e
<1> QED
  BY <1>1, <1>3, <1>4, ViewStep, Zenon

LEMMA AddNewCoinInv ==
  ASSUME IInv, NEW o \in OutPoint, NEW c \in Coin, AddNewCoin(o, c) PROVE IInv'
<1> USE DEF IInv
<1>1. /\ open
      /\ UNCHANGED <<db, tip, open, dbBest, tipBest, viewBest>>
      /\ ViewCoin(o) = Spent
      /\ AddCoin(o, c, FALSE, view)
  BY Zenon DEF AddNewCoin
<1>2. view[o] \in Entry \cup {NoEntry}
  BY DEF TypeOK, CCoinsMap
<1>3. ~(view[o] # NoEntry /\ view[o].coin # Spent)
  BY <1>1 DEF ViewCoin
<1>4. CASE c \in Unspendable
  <2>1. view' = view /\ UNCHANGED thrown
    BY <1>1, <1>4 DEF AddCoin
  <2> QED
    BY <2>1, <1>1 DEF TypeOK, FlagsHonest, NoDeadWeight, NoLogicError, TipCoin
<1>5. CASE c \notin Unspendable
  <2> DEFINE a == Added(view[o], c, FALSE)
  <2>1. view' = [view EXCEPT ![o] = a] /\ UNCHANGED thrown
    BY <1>1, <1>3, <1>5, Zenon DEF AddCoin
  <2>2. view[o] # NoEntry => /\ view[o].coin = ViewCoin(o)
                             /\ ~view[o].dirty => view[o].coin = TipCoin(o)
                             /\ view[o].fresh => TipCoin(o) = Spent
    BY DEF FlagsHonest, ViewCoin
  <2>3. view[o] = NoEntry => TipCoin(o) = ViewCoin(o)
    BY DEF ViewCoin
  <2>4. /\ a \in Entry
        /\ a.dirty /\ a.coin # Spent
        /\ a.fresh => TipCoin(o) = Spent
    BY <2>2, <2>3, <1>1, <1>2, AddedHonest, Zenon
  <2> HIDE DEF a
  <2> QED
    BY <2>1, <2>4, <1>1, ViewStep, Zenon
<1> QED
  BY <1>4, <1>5

LEMMA AddCheckedCoinInv ==
  ASSUME IInv, NEW o \in OutPoint, NEW c \in Coin, AddCheckedCoin(o, c)
  PROVE  IInv'
<1> USE DEF IInv
<1> DEFINE f == FetchView(o)
           cache == [view EXCEPT ![o] = f]
           overwrite == f # NoEntry /\ f.coin # Spent
<1>1. /\ open
      /\ tip' = TipAfterFetch(o)
      /\ UNCHANGED <<db, open, dbBest, tipBest, viewBest>>
      /\ AddCoin(o, c, overwrite, cache)
  BY DEF AddCheckedCoin
<1>2. f \in Entry \cup {NoEntry}
  BY FetchType
<1>3. /\ f = NoEntry => view[o] = NoEntry /\ TipCoin(o) = Spent
      /\ f # NoEntry => /\ f.coin = ViewCoin(o)
                        /\ ~f.dirty => f.coin = TipCoin(o)
                        /\ f.fresh => TipCoin(o) = Spent
                        /\ f.dirty /\ f.fresh => f.coin # Spent
  BY FetchHonest
<1>4. cache[o] = f
  BY DEF TypeOK, CCoinsMap
<1> HIDE DEF f
<1>5. CASE c \in Unspendable
  <2>1. view' = cache /\ UNCHANGED thrown
    BY <1>1, <1>5 DEF AddCoin
  <2> QED
    BY <2>1, <1>1, <1>2, <1>3, ViewStep, Zenon
<1>6. CASE c \notin Unspendable
  <2> DEFINE a == Added(f, c, overwrite)
  <2>1. view' = [cache EXCEPT ![o] = a] /\ UNCHANGED thrown
    BY <1>1, <1>4, <1>6 DEF AddCoin
  <2>2. view' = [view EXCEPT ![o] = a]
    BY <2>1, Zenon DEF TypeOK, CCoinsMap
  <2>3. f = NoEntry => TipCoin(o) = ViewCoin(o)
    BY <1>3 DEF ViewCoin
  <2>4. ~overwrite => ViewCoin(o) = Spent
    BY <1>3, <2>3
  <2>5. /\ a \in Entry
        /\ a.dirty /\ a.coin # Spent
        /\ a.fresh => TipCoin(o) = Spent
    BY <2>3, <2>4, <1>2, <1>3, AddedHonest, Zenon
  <2> HIDE DEF a
  <2> QED
    BY <2>1, <2>2, <2>5, <1>1, ViewStep, Zenon
<1> QED
  BY <1>5, <1>6

\* GetBestBlock and SetBestBlock touch the block hashes only.
LEMMA BestBlockInv ==
  ASSUME IInv, GetBestBlock \/ \E b \in Block : SetBestBlock(b) PROVE IInv'
<1>1. /\ UNCHANGED <<db, tip, view, open, dbBest, thrown>>
      /\ open
      /\ tipBest' \in Block \cup {NoBlock}
      /\ viewBest' \in Block \cup {NoBlock}
  BY DEF GetBestBlock, SetBestBlock, ViewBestBlock, TipBestBlock, IInv, TypeOK
<1>2. TypeOK'
  BY <1>1 DEF IInv, TypeOK
<1>3. FlagsHonest'
  BY <1>1 DEF IInv, FlagsHonest, TipCoin
<1>4. NoDeadWeight'
  BY <1>1 DEF IInv, NoDeadWeight
<1> QED
  BY <1>1, <1>2, <1>3, <1>4 DEF IInv, NoLogicError

LEMMA FlushViewInv ==
  ASSUME IInv, FlushView PROVE IInv'
<1>1. /\ tip' = [o \in OutPoint |-> Merged(tip[o], view[o])]
      /\ tipBest' = viewBest
      /\ UNCHANGED <<db, dbBest, thrown>>
      /\ view' = Empty /\ viewBest' = NoBlock /\ open' = FALSE
  BY MergedHonest DEF FlushView
<1>2. TypeOK'
  BY <1>1, MergedHonest, Zenon DEF IInv, TypeOK, CCoinsMap, Empty
<1>3. \A o \in OutPoint : view'[o] = NoEntry /\ tip'[o] = Merged(tip[o], view[o])
  BY <1>1 DEF Empty
<1>4. FlagsHonest'
  BY <1>1, <1>3, MergedHonest DEF FlagsHonest
<1>5. NoDeadWeight'
  BY <1>1, <1>3, MergedHonest DEF NoDeadWeight
<1> QED
  BY <1>1, <1>2, <1>4, <1>5 DEF IInv, NoLogicError

LEMMA DropViewInv ==
  ASSUME IInv, DropView PROVE IInv'
<1>1. /\ UNCHANGED <<db, tip, dbBest, tipBest, thrown>>
      /\ view' = Empty /\ viewBest' = NoBlock /\ open' = FALSE
  BY DEF DropView
<1>2. TypeOK'
  BY <1>1, Zenon DEF IInv, TypeOK, Empty, CCoinsMap
<1>3. FlagsHonest'
  BY <1>1 DEF IInv, FlagsHonest, Empty, TipCoin
<1>4. NoDeadWeight'
  BY <1>1 DEF IInv, NoDeadWeight, Empty
<1> QED
  BY <1>1, <1>2, <1>3, <1>4 DEF IInv, NoLogicError

LEMMA FlushTipInv ==
  ASSUME IInv, FlushTip PROVE IInv'
<1>1. /\ ~open /\ tipBest # NoBlock
      /\ db' = [o \in OutPoint |->
                  IF tip[o] # NoEntry /\ tip[o].dirty THEN tip[o].coin ELSE db[o]]
      /\ dbBest' = tipBest
      /\ tip' = Empty
      /\ UNCHANGED <<view, open, tipBest, viewBest, thrown>>
  BY DEF FlushTip
<1>2. view = Empty
  BY <1>1 DEF IInv, NoDeadWeight
<1>3. \A o \in OutPoint : db'[o] = TipCoin(o) /\ db'[o] \in Coin \cup {Spent}
  BY <1>1 DEF IInv, TypeOK, CCoinsMap, Entry, FlagsHonest, TipCoin
<1>4. db' \in [OutPoint -> Coin \cup {Spent}]
  BY <1>1, <1>3
<1>5. TypeOK'
  BY <1>1, <1>4 DEF IInv, TypeOK, Empty, CCoinsMap
<1>6. FlagsHonest'
  BY <1>1, <1>2 DEF FlagsHonest, Empty
<1>7. NoDeadWeight'
  BY <1>1, <1>2 DEF IInv, NoDeadWeight, Empty
<1> QED
  BY <1>1, <1>5, <1>6, <1>7 DEF IInv, NoLogicError

\* Reading or trimming pcoinsTip when no upper cache is open.
LEMMA TipStepInv ==
  ASSUME IInv, NEW o \in OutPoint, TipHaveCoin(o) \/ Uncache(o) PROVE IInv'
<1> DEFINE e == IF TipHaveCoin(o) THEN FetchTip(o) ELSE NoEntry
<1>1. /\ ~open
      /\ tip' = [tip EXCEPT ![o] = e]
      /\ UNCHANGED <<db, view, open, dbBest, tipBest, viewBest, thrown>>
  BY DEF TipHaveCoin, Uncache
<1>2. view = Empty
  BY <1>1 DEF IInv, NoDeadWeight
<1>3. e \in Entry \cup {NoEntry}
  BY FetchType DEF IInv
<1>4. e # NoEntry => /\ ~e.dirty => e.coin = db[o]
                     /\ e.fresh => db[o] = Spent
                     /\ e.dirty /\ e.fresh => e.coin # Spent
  BY FetchHonest DEF IInv
<1> HIDE DEF e
<1>5. /\ tip' \in CCoinsMap
      /\ tip'[o] = e
      /\ \A p \in OutPoint \ {o} : tip'[p] = tip[p]
  BY <1>1, <1>3 DEF IInv, TypeOK, CCoinsMap
<1>6. TypeOK'
  BY <1>1, <1>5 DEF IInv, TypeOK
<1>7. FlagsHonest'
  <2> SUFFICES ASSUME NEW p \in OutPoint, tip'[p] # NoEntry
               PROVE  /\ ~tip'[p].dirty => tip'[p].coin = db[p]
                      /\ tip'[p].fresh => db[p] = Spent
    BY <1>1, <1>2 DEF FlagsHonest, Empty
  <2>1. CASE p = o
    BY <2>1, <1>4, <1>5
  <2>2. CASE p # o
    BY <2>2, <1>5 DEF IInv, FlagsHonest
  <2> QED
    BY <2>1, <2>2
<1>8. NoDeadWeight'
  BY <1>1, <1>2, <1>4, <1>5 DEF IInv, NoDeadWeight, Empty
<1> QED
  BY <1>1, <1>6, <1>7, <1>8 DEF IInv, NoLogicError

THEOREM NextIInv == IInv /\ [Next]_vars => IInv'
<1> SUFFICES ASSUME IInv, [Next]_vars PROVE IInv'
  OBVIOUS
<1>1. CASE OpenView
  BY <1>1, OpenViewInv
<1>2. CASE \E o \in OutPoint : HaveCoin(o) \/ SpendCoin(o)
  BY <1>2, HaveCoinInv, SpendCoinInv
<1>3. CASE \E o \in OutPoint, c \in Coin : AddNewCoin(o, c) \/ AddCheckedCoin(o, c)
  BY <1>3, AddNewCoinInv, AddCheckedCoinInv
<1>4. CASE GetBestBlock \/ \E b \in Block : SetBestBlock(b)
  BY <1>4, BestBlockInv
<1>5. CASE FlushView \/ DropView \/ FlushTip
  BY <1>5, FlushViewInv, DropViewInv, FlushTipInv
<1>6. CASE \E o \in OutPoint : TipHaveCoin(o) \/ Uncache(o)
  BY <1>6, TipStepInv
<1>7. CASE UNCHANGED vars
  BY <1>7 DEF vars, IInv, TypeOK, FlagsHonest, NoDeadWeight, NoLogicError, TipCoin
<1> QED
  BY <1>1, <1>2, <1>3, <1>4, <1>5, <1>6, <1>7 DEF Next

\* For any outputs, coins and blocks: the variables keep their types, every
\* DIRTY and FRESH flag of both caches is honest, and coins.cpp raises
\* neither of its logic_errors.
THEOREM CachesSafe == Spec => []CachesSound
<1>1. IInv => CachesSound
  BY DEF IInv, CachesSound
<1> QED
  BY <1>1, InitIInv, NextIInv, PTL DEF Spec

-----------------------------------------------------------------------------
(* Refinement: every step is a step of CoinsView, or changes nothing there. *)

TipUtxo == [o \in OutPoint |-> TipCoin(o)]
ViewUtxo == [o \in OutPoint |-> ViewCoin(o)]
Plain == <<db, TipUtxo, ViewUtxo, dbBest, TipBestBlock, ViewBestBlock>>

\* Where only the entry of o changes in the upper cache, and pcoinsTip at
\* most by a fetch of o, the scratch UTXO set changes at o only.
LEMMA ViewStepMaps ==
  ASSUME IInv, NEW o \in OutPoint, NEW e \in Entry \cup {NoEntry},
         \/ tip' = TipAfterFetch(o)
         \/ tip' = tip,
         view' = [view EXCEPT ![o] = e],
         UNCHANGED <<db, dbBest, tipBest, viewBest>>
  PROVE  /\ UNCHANGED <<db, dbBest, TipUtxo, TipBestBlock, ViewBestBlock>>
         /\ ViewUtxo' = [ViewUtxo EXCEPT ![o] =
                           IF e = NoEntry THEN TipCoin(o) ELSE e.coin]
<1>1. \A p \in OutPoint : TipCoin(p)' = TipCoin(p)
  <2>1. CASE tip' = TipAfterFetch(o)
    BY <2>1, TipAfterFetchHonest DEF TipCoin
  <2>2. CASE tip' = tip
    BY <2>2 DEF TipCoin
  <2> QED
    BY <2>1, <2>2
<1>2. /\ view'[o] = e
      /\ \A p \in OutPoint \ {o} : view'[p] = view[p]
  BY DEF IInv, TypeOK, CCoinsMap
<1>3. /\ ViewCoin(o)' = IF e = NoEntry THEN TipCoin(o) ELSE e.coin
      /\ \A p \in OutPoint \ {o} : ViewCoin(p)' = ViewCoin(p)
  BY <1>1, <1>2 DEF ViewCoin
<1>4. TipUtxo' = TipUtxo
  BY <1>1 DEF TipUtxo
<1>5. ViewUtxo' = [ViewUtxo EXCEPT ![o] = IF e = NoEntry THEN TipCoin(o) ELSE e.coin]
  BY <1>3, Zenon DEF ViewUtxo
<1> QED
  BY <1>4, <1>5 DEF TipBestBlock, ViewBestBlock

\* FetchCoin is invisible in the abstraction.
LEMMA HaveCoinMaps ==
  ASSUME IInv, NEW o \in OutPoint, HaveCoin(o) PROVE UNCHANGED Plain
<1> DEFINE e == FetchView(o)
<1>1. e \in Entry \cup {NoEntry}
  BY FetchType DEF IInv
<1>2. (IF e = NoEntry THEN TipCoin(o) ELSE e.coin) = ViewCoin(o)
  BY FetchHonest DEF IInv, ViewCoin
<1> HIDE DEF e
<1>3. /\ UNCHANGED <<db, dbBest, TipUtxo, TipBestBlock, ViewBestBlock>>
      /\ ViewUtxo' = [ViewUtxo EXCEPT ![o] =
                        IF e = NoEntry THEN TipCoin(o) ELSE e.coin]
  BY <1>1, ViewStepMaps, Zenon DEF HaveCoin, e
<1>4. ViewUtxo' = ViewUtxo
  BY <1>2, <1>3, Zenon DEF ViewUtxo
<1> QED
  BY <1>3, <1>4 DEF Plain

LEMMA SpendCoinMaps ==
  ASSUME IInv, NEW o \in OutPoint, SpendCoin(o) PROVE Abstract!Put(o, Spent)
<1> DEFINE e == SpentEntry(FetchView(o))
<1>1. e \in Entry \cup {NoEntry}
  BY FetchType DEF IInv, SpentEntry, Entry
<1>2. (IF e = NoEntry THEN TipCoin(o) ELSE e.coin) = Spent
  <2>1. CASE FetchView(o) = NoEntry \/ FetchView(o).fresh
    BY <2>1, FetchHonest DEF IInv, SpentEntry
  <2>2. CASE ~(FetchView(o) = NoEntry \/ FetchView(o).fresh)
    <3>1. e = [coin |-> Spent, dirty |-> TRUE, fresh |-> FALSE]
      BY <2>2 DEF SpentEntry
    <3>2. e # NoEntry
      BY <3>1, CoinAssumption, Zenon
    <3>3. e.coin = Spent
      BY <3>1
    <3> HIDE DEF e
    <3> QED
      BY <3>2, <3>3
  <2> QED
    BY <2>1, <2>2
<1>3. /\ tip' = TipAfterFetch(o)
      /\ view' = [view EXCEPT ![o] = e]
      /\ UNCHANGED <<db, dbBest, tipBest, viewBest>>
  BY DEF SpendCoin
<1> HIDE DEF e
<1>4. /\ UNCHANGED <<db, dbBest, TipUtxo, TipBestBlock, ViewBestBlock>>
      /\ ViewUtxo' = [ViewUtxo EXCEPT ![o] = Spent]
  BY <1>1, <1>2, <1>3, ViewStepMaps, Zenon
<1> QED
  BY <1>4 DEF Abstract!Put, TipUtxo, ViewUtxo

\* Adding c shows as Put(o, c), or as nothing when c is unspendable.
LEMMA AddNewCoinMaps ==
  ASSUME IInv, NEW o \in OutPoint, NEW c \in Coin, AddNewCoin(o, c)
  PROVE  Abstract!Put(o, c) \/ UNCHANGED Plain
<1>1. /\ UNCHANGED <<db, tip, open, dbBest, tipBest, viewBest>>
      /\ ViewCoin(o) = Spent
      /\ AddCoin(o, c, FALSE, view)
  BY Zenon DEF AddNewCoin
<1>2. view[o] \in Entry \cup {NoEntry}
  BY DEF IInv, TypeOK, CCoinsMap
<1>3. ~(view[o] # NoEntry /\ view[o].coin # Spent)
  BY <1>1 DEF ViewCoin
<1>4. CASE c \in Unspendable
  <2>1. view' = view
    BY <1>1, <1>4 DEF AddCoin
  <2>2. \A p \in OutPoint : ViewCoin(p)' = ViewCoin(p) /\ TipCoin(p)' = TipCoin(p)
    BY <2>1, <1>1 DEF ViewCoin, TipCoin
  <2>3. UNCHANGED <<TipUtxo, ViewUtxo>>
    BY <2>2 DEF TipUtxo, ViewUtxo
  <2> QED
    BY <2>3, <1>1 DEF Plain, TipBestBlock, ViewBestBlock
<1>5. CASE c \notin Unspendable
  <2> DEFINE a == Added(view[o], c, FALSE)
  <2>1. view' = [view EXCEPT ![o] = a]
    BY <1>1, <1>3, <1>5, Zenon DEF AddCoin
  <2>2. a \in Entry /\ a # NoEntry /\ a.coin = c
    <3>1. a \in Entry /\ a.coin = c
      BY <1>2 DEF Added, Entry
    <3> QED
      BY <3>1, CoinAssumption, Zenon DEF Entry
  <2> HIDE DEF a
  <2>3. /\ UNCHANGED <<db, dbBest, TipUtxo, TipBestBlock, ViewBestBlock>>
        /\ ViewUtxo' = [ViewUtxo EXCEPT ![o] = c]
    BY <2>1, <2>2, <1>1, ViewStepMaps, Zenon
  <2> QED
    BY <2>3 DEF Abstract!Put, TipUtxo, ViewUtxo
<1> QED
  BY <1>4, <1>5

LEMMA AddCheckedCoinMaps ==
  ASSUME IInv, NEW o \in OutPoint, NEW c \in Coin, AddCheckedCoin(o, c)
  PROVE  Abstract!Put(o, c) \/ UNCHANGED Plain
<1> DEFINE f == FetchView(o)
           cache == [view EXCEPT ![o] = f]
           overwrite == f # NoEntry /\ f.coin # Spent
<1>1. /\ tip' = TipAfterFetch(o)
      /\ UNCHANGED <<db, open, dbBest, tipBest, viewBest>>
      /\ AddCoin(o, c, overwrite, cache)
  BY DEF AddCheckedCoin
<1>2. f \in Entry \cup {NoEntry}
  BY FetchType DEF IInv
<1>3. (IF f = NoEntry THEN TipCoin(o) ELSE f.coin) = ViewCoin(o)
  BY FetchHonest DEF IInv, ViewCoin
<1>4. cache[o] = f
  BY DEF IInv, TypeOK, CCoinsMap
<1> HIDE DEF f
<1>5. CASE c \in Unspendable
  <2>1. view' = cache
    BY <1>1, <1>5 DEF AddCoin
  <2>2. /\ UNCHANGED <<db, dbBest, TipUtxo, TipBestBlock, ViewBestBlock>>
        /\ ViewUtxo' = [ViewUtxo EXCEPT ![o] = ViewCoin(o)]
    BY <2>1, <1>1, <1>2, <1>3, ViewStepMaps, Zenon
  <2>3. ViewUtxo' = ViewUtxo
    BY <2>2, Zenon DEF ViewUtxo
  <2> QED
    BY <2>2, <2>3 DEF Plain
<1>6. CASE c \notin Unspendable
  <2> DEFINE a == Added(f, c, overwrite)
  <2>1. view' = [cache EXCEPT ![o] = a]
    BY <1>1, <1>4, <1>6 DEF AddCoin
  <2>2. view' = [view EXCEPT ![o] = a]
    BY <2>1, Zenon DEF IInv, TypeOK, CCoinsMap
  <2>3. a \in Entry /\ a # NoEntry /\ a.coin = c
    <3>1. a \in Entry /\ a.coin = c
      BY <1>2 DEF Added, Entry
    <3> QED
      BY <3>1, CoinAssumption DEF Entry
  <2> HIDE DEF a
  <2>4. /\ UNCHANGED <<db, dbBest, TipUtxo, TipBestBlock, ViewBestBlock>>
        /\ ViewUtxo' = [ViewUtxo EXCEPT ![o] = c]
    BY <2>2, <2>3, <1>1, ViewStepMaps, Zenon
  <2> QED
    BY <2>4 DEF Abstract!Put, TipUtxo, ViewUtxo
<1> QED
  BY <1>5, <1>6

\* Creating an upper cache over pcoinsTip shows as nothing: it was closed,
\* hence empty.
LEMMA OpenViewMaps ==
  ASSUME IInv, OpenView PROVE UNCHANGED Plain
<1>1. UNCHANGED <<db, tip, view, viewBest, dbBest, tipBest>>
  BY DEF OpenView, IInv, NoDeadWeight
<1>2. \A p \in OutPoint : ViewCoin(p)' = ViewCoin(p) /\ TipCoin(p)' = TipCoin(p)
  BY <1>1 DEF ViewCoin, TipCoin
<1>3. UNCHANGED <<TipUtxo, ViewUtxo>>
  BY <1>2 DEF TipUtxo, ViewUtxo
<1> QED
  BY <1>1, <1>3 DEF Plain, TipBestBlock, ViewBestBlock

LEMMA BestBlockMaps ==
  ASSUME IInv
  PROVE  /\ GetBestBlock => UNCHANGED Plain
         /\ \A b \in Block : SetBestBlock(b) => Abstract!SetBestBlock(b)
<1>1. ASSUME UNCHANGED <<db, tip, view>>
      PROVE  UNCHANGED <<TipUtxo, ViewUtxo>>
  <2>1. \A p \in OutPoint : ViewCoin(p)' = ViewCoin(p) /\ TipCoin(p)' = TipCoin(p)
    BY <1>1 DEF ViewCoin, TipCoin
  <2> QED
    BY <2>1 DEF TipUtxo, ViewUtxo
<1>2. ASSUME GetBestBlock PROVE UNCHANGED Plain
  <2>1. UNCHANGED <<db, dbBest, TipUtxo, ViewUtxo>>
    BY <1>1, <1>2 DEF GetBestBlock
  <2>2. ViewBestBlock # NoBlock /\ TipBestBlock # NoBlock
    BY CoinAssumption DEF IInv, TypeOK, ViewBestBlock, TipBestBlock
  <2>3. UNCHANGED <<TipBestBlock, ViewBestBlock>>
    BY <1>2, <2>2 DEF GetBestBlock, TipBestBlock, ViewBestBlock
  <2> QED
    BY <2>1, <2>3 DEF Plain
<1>3. ASSUME NEW b \in Block, SetBestBlock(b) PROVE Abstract!SetBestBlock(b)
  <2>1. UNCHANGED <<db, dbBest, TipUtxo, ViewUtxo, TipBestBlock>>
    BY <1>1, <1>3 DEF SetBestBlock, TipBestBlock
  <2>2. ViewBestBlock' = b
    BY <1>3, CoinAssumption DEF SetBestBlock, ViewBestBlock
  <2> QED
    BY <2>1, <2>2 DEF Abstract!SetBestBlock, TipUtxo, ViewUtxo
<1> QED
  BY <1>2, <1>3

\* view.Flush() shows as Commit: the tip's UTXO set becomes the scratch set.
LEMMA FlushViewMaps ==
  ASSUME IInv, FlushView PROVE Abstract!Commit
<1>1. /\ tip' = [o \in OutPoint |-> Merged(tip[o], view[o])]
      /\ tipBest' = viewBest /\ viewBest # NoBlock
      /\ UNCHANGED <<db, dbBest>>
      /\ view' = Empty /\ viewBest' = NoBlock
  BY MergedHonest DEF FlushView
<1>2. \A p \in OutPoint : TipCoin(p)' = ViewCoin(p)
  BY <1>1, MergedHonest DEF TipCoin
<1>3. \A p \in OutPoint : ViewCoin(p)' = TipCoin(p)'
  BY <1>1 DEF ViewCoin, Empty
<1>4. TipUtxo' = ViewUtxo /\ ViewUtxo' = ViewUtxo
  BY <1>2, <1>3 DEF TipUtxo, ViewUtxo
<1>5. TipBestBlock' = ViewBestBlock /\ ViewBestBlock' = ViewBestBlock
  BY <1>1 DEF TipBestBlock, ViewBestBlock
<1> QED
  BY <1>1, <1>4, <1>5 DEF Abstract!Commit, TipUtxo, ViewUtxo

LEMMA DropViewMaps ==
  ASSUME IInv, DropView PROVE Abstract!Abandon
<1>1. /\ UNCHANGED <<db, tip, dbBest, tipBest>>
      /\ view' = Empty /\ viewBest' = NoBlock
  BY DEF DropView
<1>2. \A p \in OutPoint : TipCoin(p)' = TipCoin(p) /\ ViewCoin(p)' = TipCoin(p)
  BY <1>1 DEF TipCoin, ViewCoin, Empty
<1>3. TipUtxo' = TipUtxo /\ ViewUtxo' = TipUtxo
  BY <1>2 DEF TipUtxo, ViewUtxo
<1>4. TipBestBlock' = TipBestBlock /\ ViewBestBlock' = TipBestBlock
  BY <1>1 DEF TipBestBlock, ViewBestBlock
<1> QED
  BY <1>1, <1>3, <1>4 DEF Abstract!Abandon, TipUtxo, ViewUtxo

\* pcoinsTip->Flush() shows as Save: the disk takes the tip's UTXO set.
LEMMA FlushTipMaps ==
  ASSUME IInv, FlushTip PROVE Abstract!Save
<1>1. /\ tipBest # NoBlock
      /\ dbBest' = tipBest
      /\ db' = [o \in OutPoint |->
                  IF tip[o] # NoEntry /\ tip[o].dirty THEN tip[o].coin ELSE db[o]]
      /\ tip' = Empty
      /\ UNCHANGED <<view, tipBest, viewBest>>
      /\ view = Empty /\ viewBest = NoBlock
  BY DEF FlushTip, IInv, NoDeadWeight
<1>2. \A p \in OutPoint : db'[p] = TipCoin(p)
  BY <1>1 DEF IInv, FlagsHonest, TipCoin
<1>3. \A p \in OutPoint : TipCoin(p)' = TipCoin(p) /\ ViewCoin(p)' = ViewCoin(p)
  BY <1>1, <1>2 DEF TipCoin, ViewCoin, Empty
<1>4. db' = TipUtxo /\ TipUtxo' = TipUtxo /\ ViewUtxo' = ViewUtxo
  BY <1>1, <1>2, <1>3 DEF TipUtxo, ViewUtxo
<1>5. TipBestBlock' = TipBestBlock /\ ViewBestBlock' = ViewBestBlock
      /\ dbBest' = TipBestBlock
  BY <1>1 DEF TipBestBlock, ViewBestBlock
<1> QED
  BY <1>4, <1>5 DEF Abstract!Save, TipUtxo, ViewUtxo

\* Reads and trims of pcoinsTip show as nothing.
LEMMA TipStepMaps ==
  ASSUME IInv, NEW o \in OutPoint, TipHaveCoin(o) \/ Uncache(o)
  PROVE  UNCHANGED Plain
<1>1. UNCHANGED <<db, view, dbBest, tipBest, viewBest>>
  BY DEF TipHaveCoin, Uncache
<1>2. \A p \in OutPoint : TipCoin(p)' = TipCoin(p)
  <2>1. CASE TipHaveCoin(o)
    <3>1. /\ tip'[o] = FetchTip(o)
          /\ \A p \in OutPoint \ {o} : tip'[p] = tip[p]
      BY <2>1 DEF TipHaveCoin, IInv, TypeOK, CCoinsMap
    <3>2. TipCoin(o)' = TipCoin(o)
      BY <3>1, <1>1, FetchHonest DEF IInv, TipCoin
    <3> QED
      BY <3>1, <3>2, <1>1 DEF TipCoin
  <2>2. CASE Uncache(o)
    <3>1. /\ tip'[o] = NoEntry /\ tip[o] # NoEntry /\ ~tip[o].dirty
          /\ \A p \in OutPoint \ {o} : tip'[p] = tip[p]
      BY <2>2 DEF Uncache, IInv, TypeOK, CCoinsMap
    <3> QED
      BY <3>1, <1>1 DEF IInv, FlagsHonest, TipCoin
  <2> QED
    BY <2>1, <2>2
<1>3. \A p \in OutPoint : ViewCoin(p)' = ViewCoin(p)
  BY <1>1, <1>2 DEF ViewCoin
<1>4. UNCHANGED <<TipUtxo, ViewUtxo>>
  BY <1>2, <1>3 DEF TipUtxo, ViewUtxo
<1> QED
  BY <1>1, <1>4 DEF Plain, TipBestBlock, ViewBestBlock

\* For any outputs, coins and blocks, pcoinsTip and the cache over it behave
\* as three plain UTXO sets: no sequence of fetches, additions, spends,
\* flushes, discards and trims lets a reader see, or a flush write, anything
\* else.
THEOREM CachesImplementCoinsView == Spec => ImplementsCoinsView
<1>1. Init => Abstract!Init
  BY DEF Init, Abstract!Init, TipCoin, ViewCoin, Empty, TipBestBlock, ViewBestBlock
<1>2. IInv /\ [Next]_vars => [Abstract!Next]_(Abstract!vars)
  <2> SUFFICES ASSUME IInv, [Next]_vars
               PROVE  Abstract!Next \/ UNCHANGED Plain
    BY DEF Plain, Abstract!vars, TipUtxo, ViewUtxo
  <2>1. CASE OpenView
    BY <2>1, OpenViewMaps
  <2>2. CASE \E o \in OutPoint : HaveCoin(o) \/ SpendCoin(o)
    BY <2>2, HaveCoinMaps, SpendCoinMaps DEF Abstract!Next
  <2>3. CASE \E o \in OutPoint, c \in Coin : AddNewCoin(o, c) \/ AddCheckedCoin(o, c)
    BY <2>3, AddNewCoinMaps, AddCheckedCoinMaps DEF Abstract!Next
  <2>4. CASE GetBestBlock \/ \E b \in Block : SetBestBlock(b)
    BY <2>4, BestBlockMaps DEF Abstract!Next
  <2>5. CASE FlushView \/ DropView \/ FlushTip
    BY <2>5, FlushViewMaps, DropViewMaps, FlushTipMaps DEF Abstract!Next
  <2>6. CASE \E o \in OutPoint : TipHaveCoin(o) \/ Uncache(o)
    BY <2>6, TipStepMaps
  <2>7. CASE UNCHANGED vars
    <3>1. UNCHANGED <<db, tip, view, dbBest, tipBest, viewBest>>
      BY <2>7 DEF vars
    <3>2. \A p \in OutPoint : ViewCoin(p)' = ViewCoin(p) /\ TipCoin(p)' = TipCoin(p)
      BY <3>1 DEF ViewCoin, TipCoin
    <3> QED
      BY <3>1, <3>2 DEF Plain, TipUtxo, ViewUtxo, TipBestBlock, ViewBestBlock
  <2> QED
    BY <2>1, <2>2, <2>3, <2>4, <2>5, <2>6, <2>7 DEF Next
<1> QED
  BY <1>1, <1>2, InitIInv, NextIInv, PTL DEF Spec, ImplementsCoinsView, Abstract!Spec
=============================================================================
