-------------------------- MODULE ChainstateFlush ---------------------------
(***************************************************************************)
(* The chainstate on disk, and how it survives a crash: connecting and     *)
(* disconnecting blocks with their undo data (ConnectBlock,                *)
(* DisconnectBlock), FlushStateToDisk, the batches of                      *)
(* CCoinsViewDB::BatchWrite, and at startup ReplayBlocks and LoadChainTip. *)
(*                                                                         *)
(* A flush syncs the block files, then writes the block index, then writes *)
(* the coins in batches of bounded size.  The process may stop between any *)
(* two of these writes, also while a replay is writing; what a stop loses  *)
(* of the block and undo files is what was never FileCommit'ed.            *)
(*                                                                         *)
(* pcoinsTip appears as the coins it answers with (CoinsCache shows that   *)
(* its two levels may be read that way).  A coin is the height of the      *)
(* block that made it, so the same transaction in two branches makes two   *)
(* different coins.  The blocks are valid: each spends what exists.        *)
(***************************************************************************)
EXTENDS Integers, Sequences, FiniteSetsExt

CONSTANTS
  OutPoint,
  Block, Genesis, NoBlock,
  Parent,       \* pprev: Block \ {Genesis} -> Block
  Height,       \* nHeight
  Vtx,          \* Block -> sequence of [vin : Seq(OutPoint), vout : SUBSET OutPoint]
  Nullifiers,   \* Block -> the Sapling nullifiers its transactions reveal
  Shielded,     \* the blocks with a shielded output: they move the anchor
  StartTip,     \* the tip of an established node, or NoBlock: a new data directory
  MaxFile,      \* the last blk/rev file number
  SmallBatches, \* may a flush need more than one batch (-dbbatchsize)
  MaxCrashes    \* bound on the number of crashes

Spent == 0

\* GetAncestor: the block of b's chain at each height.
Chain ==
  [b \in Block |->
     LET at[h \in 0 .. Height[b]] == IF h = Height[b] THEN b ELSE Parent[at[h + 1]]
     IN  at]

\* The blocks of b's chain above height h.
Above(b, h) == IF b = NoBlock THEN {} ELSE {Chain[b][k] : k \in h + 1 .. Height[b]}

-----------------------------------------------------------------------------
(* Blocks applied to and removed from a set of coins. *)

\* UpdateCoins: spend the inputs and add the outputs.
UpdateCoins(u, tx, h) ==
  [o \in OutPoint |->
     IF o \in tx.vout THEN h ELSE IF o \in Range(tx.vin) THEN Spent ELSE u[o]]

\* ConnectBlock's loop: the coins after each number of transactions.
Connecting(u, b) ==
  LET view[n \in 0 .. Len(Vtx[b])] ==
        IF n = 0 THEN u ELSE UpdateCoins(view[n - 1], Vtx[b][n], Height[b])
  IN  view

\* The undo data is what each transaction finds in its inputs.
ConnectBlock(u, b) ==
  LET view == Connecting(u, b)
  IN  [utxo |-> view[Len(Vtx[b])],
       undo |-> [n \in DOMAIN Vtx[b] |->
                   [j \in DOMAIN Vtx[b][n].vin |-> view[n - 1][Vtx[b][n].vin[j]]]]]

\* DisconnectBlock removes the outputs and ApplyTxInUndo puts the inputs back,
\* whether or not the one are there and the other are not.
DisconnectTx(u, tx, txundo) ==
  LET spender(o) == CHOOSE j \in DOMAIN tx.vin : tx.vin[j] = o
  IN  [o \in OutPoint |->
         IF o \in Range(tx.vin) THEN txundo[spender(o)]
         ELSE IF o \in tx.vout THEN Spent ELSE u[o]]

CleanTx(u, tx) ==
  /\ \A o \in tx.vout : u[o] # Spent
  /\ \A o \in Range(tx.vin) \ tx.vout : u[o] = Spent

DisconnectBlockMutant(u, b, blockUndo) ==
  LET view[n \in 0 .. Len(Vtx[b])] ==
        IF n = 0 THEN u ELSE DisconnectTx(view[n - 1], Vtx[b][n], blockUndo[n])
  IN  [utxo  |-> view[Len(Vtx[b])],
       clean |-> \A n \in DOMAIN Vtx[b] : CleanTx(view[n - 1], Vtx[b][n])]

\* DisconnectBlock's loop, "undo transactions in reverse order".
Disconnecting(u, b, blockUndo) ==
  LET view[n \in 0 .. Len(Vtx[b])] ==
        IF n = Len(Vtx[b]) THEN u
        ELSE DisconnectTx(view[n + 1], Vtx[b][n + 1], blockUndo[n + 1])
  IN  view

DisconnectBlock(u, b, blockUndo) ==
  LET view == Disconnecting(u, b, blockUndo)
  IN  [utxo |-> view[0], clean |-> \A n \in DOMAIN Vtx[b] : CleanTx(view[n], Vtx[b][n])]

\* RollforwardBlock: ConnectBlock's effect on coins, without its checks.
RollforwardBlock(u, b) == ConnectBlock(u, b).utxo

\* "Roll forward" in ReplayBlocks: from height h of b's chain up to b.
Rollforward(u, b, h) ==
  LET view[k \in h .. Height[b]] ==
        IF k = h THEN u ELSE RollforwardBlock(view[k - 1], Chain[b][k])
  IN  view[Height[b]]

\* The Sapling side of a block: the note commitment tree, here the blocks that
\* added to it, and the revealed nullifiers.
PushSapling(s, b) ==
  [root |-> s.root \cup ({b} \cap Shielded), nf |-> s.nf \cup Nullifiers[b]]

NoSapling == [root |-> {}, nf |-> {}]

\* hashFinalSaplingRoot of a block's header.
FinalSaplingRoot == [b \in Block |-> Above(b, 0) \cap Shielded]

\* DisconnectBlock takes back the Sapling anchor and the nullifiers of the blocks S,
\* which follow b.
PopSapling(s, S, b) ==
  IF S = {} THEN s
  ELSE [root |-> FinalSaplingRoot[b], nf |-> s.nf \ UNION {Nullifiers[c] : c \in S}]

-----------------------------------------------------------------------------
(* The reference: the chain state that the blocks up to b define. *)

NoCoins == [o \in OutPoint |-> Spent]
UtxoAt == [b \in Block |-> Rollforward(NoCoins, b, 0)]
SaplingAt ==
  [b \in Block |-> [root |-> FinalSaplingRoot[b], nf |-> UNION {Nullifiers[c] : c \in Above(b, 0)}]]

ASSUME TreeAssumption ==
  /\ NoBlock \notin Block
  /\ Genesis \in Block
  /\ Parent \in [Block \ {Genesis} -> Block]
  /\ Height \in [Block -> Nat] /\ Height[Genesis] = 0
  /\ \A b \in Block \ {Genesis} : Height[b] = Height[Parent[b]] + 1
  /\ Vtx \in [Block -> Seq([vin : Seq(OutPoint), vout : SUBSET OutPoint])]
  /\ StartTip \in Block \cup {NoBlock}
  /\ MaxFile \in Nat /\ MaxCrashes \in Nat /\ SmallBatches \in BOOLEAN

\* Blocks are valid: their inputs are unspent, their outputs are new, and no two of
\* their transactions are the same.
ASSUME ValidBlocks ==
  \A b \in Block \ {Genesis} :
    LET u    == UtxoAt[Parent[b]]
        undo == ConnectBlock(u, b).undo
    IN  /\ \A i \in DOMAIN undo : \A j \in DOMAIN undo[i] : undo[i][j] # Spent
        /\ \A i \in DOMAIN Vtx[b] : \A o \in Vtx[b][i].vout : u[o] = Spent
        /\ \A i, j \in DOMAIN Vtx[b] : i # j => Vtx[b][i].vout \cap Vtx[b][j].vout = {}

VARIABLES
  phase,     \* "up", a step of FlushStateToDisk, "down", "replay", "unstartable"
  full,      \* fDoFullFlush of the flush in progress
  tip, utxo, sapling,   \* the cache over the database: pcoinsTip, or ReplayBlocks' own
  have,      \* mapBlockIndex: Block -> "none", "data" or "undo" (BLOCK_HAVE_*)
  file, nLastBlockFile, \* nFile of the known blocks; the file being filled
  blk, rev,  \* what blk?????.dat and rev?????.dat hold: blocks, and their undo data
  synced,    \* the blocks and undo records that were FileCommit'ed
  disk,      \* the block index database: have, file and nLastBlockFile as last written
  db,        \* CCoinsViewDB: coins, best, heads, sapling
  crashes

mem == <<tip, utxo, sapling, have, file, nLastBlockFile>>
files == <<blk, rev, synced>>
vars == <<phase, full, mem, files, disk, db, crashes>>

Status == {"none", "data", "undo"}
Coins == [OutPoint -> Nat]

\* The files, the index, the coin database and the caches hold what the code can write.
TypeOK ==
  /\ phase \in {"up", "index", "batch", "down", "replay", "unstartable"}
  /\ full \in BOOLEAN
  /\ tip \in Block
  /\ utxo \in Coins
  /\ have \in [Block -> Status] /\ disk.have \in [Block -> Status]
  /\ file \in [Block -> 0 .. MaxFile]
  /\ nLastBlockFile \in 0 .. MaxFile
  /\ blk \subseteq Block
  /\ DOMAIN rev \subseteq Block
  /\ synced.blk \subseteq blk
  /\ synced.rev \subseteq DOMAIN rev
  /\ db.coins \in Coins
  /\ db.best \in Block \cup {NoBlock}
  /\ db.heads # <<>> => db.heads \in Block \X (Block \cup {NoBlock}) /\ db.best = NoBlock
  /\ crashes \in 0 .. MaxCrashes

\* An established node that was shut down at StartTip and started again, or,
\* for StartTip = NoBlock, a new one that has just connected its genesis block.
Init ==
  LET old   == IF StartTip = NoBlock THEN {} ELSE Range(Chain[StartTip])
      chain == old \cup {Genesis}
      undo(b) == ConnectBlock(UtxoAt[Parent[b]], b).undo
      status(B) == [b \in Block |-> IF b \notin B THEN "none"
                                    ELSE IF b = Genesis THEN "data" ELSE "undo"]
  IN  /\ phase = "up" /\ full = FALSE
      /\ tip = IF StartTip = NoBlock THEN Genesis ELSE StartTip
      /\ utxo = UtxoAt[tip]
      /\ sapling = SaplingAt[tip]
      /\ have = status(chain)
      /\ file = [b \in Block |-> 0] /\ nLastBlockFile = 0
      /\ blk = chain
      /\ rev = [b \in chain \ {Genesis} |-> undo(b)]
      /\ synced = [blk |-> old, rev |-> old \ {Genesis}]
      /\ disk = [have |-> status(old), file |-> file, last |-> 0]
      /\ db = [coins |-> utxo, best |-> StartTip, heads |-> <<>>, sapling |-> sapling]
      /\ crashes = 0

-----------------------------------------------------------------------------
(* Running: blocks arrive, the tip moves. *)

\* FlushBlockFile: commits the blk and rev file that is being filled.
FlushBlockFile ==
  [blk |-> synced.blk \cup {b \in blk : file[b] = nLastBlockFile},
   rev |-> synced.rev \cup {b \in DOMAIN rev : file[b] = nLastBlockFile}]

\* AcceptBlock: FindBlockPos, which leaves a full file flushed, and
\* WriteBlockToDisk.
AcceptBlock(b, n) ==
  /\ phase = "up"
  /\ have[b] = "none" /\ have[Parent[b]] # "none"
  /\ n \in nLastBlockFile .. nLastBlockFile + 1 /\ n <= MaxFile
  /\ synced' = IF n # nLastBlockFile THEN FlushBlockFile ELSE synced
  /\ nLastBlockFile' = n
  /\ file' = [file EXCEPT ![b] = n]
  /\ blk' = blk \cup {b}
  /\ have' = [have EXCEPT ![b] = "data"]
  /\ UNCHANGED <<phase, full, tip, utxo, sapling, rev, disk, db, crashes>>

\* ConnectTip.  The undo data goes to the rev file of the block's own blk file,
\* once; a block whose Sapling root does not follow from the view is refused.
ConnectTip(b) ==
  LET c == ConnectBlock(utxo, b)
  IN  /\ phase = "up"
      /\ have[b] # "none" /\ Parent[b] = tip
      /\ b \in blk
      /\ PushSapling(sapling, b).root = FinalSaplingRoot[b]
      /\ tip' = b
      /\ utxo' = c.utxo
      /\ sapling' = PushSapling(sapling, b)
      /\ have' = [have EXCEPT ![b] = "undo"]
      /\ rev' = IF have[b] = "undo" THEN rev
                ELSE [a \in DOMAIN rev \cup {b} |-> IF a = b THEN c.undo ELSE rev[a]]
      /\ synced' = IF have[b] = "undo" THEN synced
                   ELSE [synced EXCEPT !.rev = @ \ {b}]
      /\ UNCHANGED <<phase, full, file, nLastBlockFile, blk, disk, db, crashes>>

CanDisconnect(b) ==
  /\ have[b] = "undo" /\ b \in blk /\ b \in DOMAIN rev
  /\ DisconnectBlock(utxo, b, rev[b]).clean

\* DisconnectTip gives up unless DisconnectBlock returned DISCONNECT_OK.
DisconnectTip ==
  /\ phase = "up" /\ tip # Genesis
  /\ CanDisconnect(tip)
  /\ tip' = Parent[tip]
  /\ utxo' = DisconnectBlock(utxo, tip, rev[tip]).utxo
  /\ sapling' = PopSapling(sapling, {tip}, Parent[tip])
  /\ UNCHANGED <<phase, full, have, file, nLastBlockFile, files, disk, db, crashes>>

-----------------------------------------------------------------------------
(* FlushStateToDisk, a write at a time. *)

\* "First make sure all block and undo data is flushed to disk."
SyncFiles(f) ==
  /\ phase = "up"
  /\ phase' = "index"
  /\ full' = f
  /\ synced' = FlushBlockFile
  /\ UNCHANGED <<mem, blk, rev, disk, db, crashes>>

\* WriteBatchSync of the block index; a periodic write ends here.
WriteIndex ==
  /\ phase = "index"
  /\ disk' = [have |-> have, file |-> file, last |-> nLastBlockFile]
  /\ phase' = IF full THEN "batch" ELSE "up"
  /\ UNCHANGED <<full, mem, files, db, crashes>>

\* CCoinsViewDB::BatchWrite's old_tip: mid-replay the database has no best
\* block and the old tip is the one the interrupted flush started from.
OldTipMutant == db.best

OldTip == IF db.best = NoBlock /\ db.heads # <<>> THEN db.heads[2] ELSE db.best

\* A batch that is not the last holds some of the coins.  The first one marks
\* the database as being between two blocks.
PartialBatch(S) ==
  /\ phase \in {"batch", "replay"}
  /\ SmallBatches
  /\ S # {} /\ \A o \in S : db.coins[o] # utxo[o]
  /\ db' = [db EXCEPT !.best = NoBlock,
                      !.heads = <<tip, OldTip>>,
                      !.coins = [o \in OutPoint |-> IF o \in S THEN utxo[o] ELSE @[o]]]
  /\ UNCHANGED <<phase, full, mem, files, disk, crashes>>

\* The last batch holds the other coins, the Sapling state and the best block.
FinalBatch ==
  /\ phase \in {"batch", "replay"}
  /\ db' = [coins |-> utxo, best |-> tip, heads |-> <<>>, sapling |-> sapling]
  /\ phase' = "up"
  /\ UNCHANGED <<full, mem, files, disk, crashes>>

-----------------------------------------------------------------------------
(* Stopping and starting. *)

\* The process stops.  Of the files, what was committed survives; of the rest
\* any part may.  Only what the index on disk refers to can be read again.
Crash ==
  /\ phase \notin {"down", "unstartable"} /\ crashes < MaxCrashes
  /\ phase' = "down" /\ full' = FALSE
  /\ \E kept \in SUBSET {b \in blk \ synced.blk : disk.have[b] # "none"} :
       blk' = synced.blk \cup kept
  /\ \E kept \in SUBSET {b \in DOMAIN rev \ synced.rev : disk.have[b] = "undo"} :
       rev' = Restrict(rev, synced.rev \cup kept)
  /\ crashes' = crashes + 1
  /\ tip' = Genesis /\ utxo' = NoCoins /\ sapling' = NoSapling
  /\ have' = disk.have /\ file' = disk.file /\ nLastBlockFile' = disk.last
  /\ UNCHANGED <<synced, disk, db>>

\* The height of LastCommonAncestor, 0 without an old tip.
Fork(old, new) ==
  IF old = NoBlock THEN 0
  ELSE Max({h \in DOMAIN Chain[old] \cap DOMAIN Chain[new] : Chain[old][h] = Chain[new][h]})

\* "Rollback along the old branch" from b down to height h, with the undo files' data.
Rollback(u, b, h) ==
  LET view[k \in h .. Height[b]] ==
        IF k = Height[b] THEN u
        ELSE DisconnectBlock(view[k + 1], Chain[b][k + 1], rev[Chain[b][k + 1]]).utxo
  IN  view[h]

\* hashHeads: the new tip of the interrupted flush, then the old one.
HeadsMutant == [new |-> db.heads[2], old |-> db.heads[1]]

Heads == [new |-> db.heads[1], old |-> db.heads[2]]

\* ReplayBlocks, reading the blocks B and the undo records R: roll back from
\* the old head to the fork, then forward to the new head.
ReplayBlocks(B, R) ==
  LET new  == Heads.new
      old  == Heads.old
      fork == Fork(old, new)
      back == Above(old, fork)
      on   == Above(new, fork)
      known(b) == disk.have[b] # "none" /\ b \in B
      rolled == IF old = NoBlock THEN db.coins ELSE Rollback(db.coins, old, fork)
  IN  IF /\ disk.have[new] # "none"
         /\ old # NoBlock => disk.have[old] # "none"
         /\ \A b \in back : known(b) /\ disk.have[b] = "undo" /\ b \in R
         /\ \A b \in on : known(b)
      THEN [ok |-> TRUE, tip |-> new,
            utxo |-> Rollforward(rolled, new, fork),
            sapling |-> PopSapling(db.sapling, back, Chain[old][fork])]
      ELSE [ok |-> FALSE]

\* What startup makes of the disk: ReplayBlocks if a flush was interrupted,
\* then LoadChainTip.  LoadGenesisBlock makes the genesis block known.
Startup(B, R) ==
  IF db.heads # <<>> THEN ReplayBlocks(B, R)
  ELSE IF db.best = NoBlock /\ \A b \in Block \ {Genesis} : disk.have[b] = "none"
  THEN [ok |-> TRUE, tip |-> Genesis, utxo |-> db.coins, sapling |-> db.sapling]
  ELSE IF db.best # NoBlock /\ disk.have[db.best] # "none"
  THEN [ok |-> TRUE, tip |-> db.best, utxo |-> db.coins, sapling |-> db.sapling]
  ELSE [ok |-> FALSE]

Restart ==
  LET s == Startup(blk, DOMAIN rev)
  IN  /\ phase = "down"
      /\ IF s.ok
         THEN /\ tip' = s.tip /\ utxo' = s.utxo /\ sapling' = s.sapling
              /\ phase' = IF db.heads # <<>> THEN "replay" ELSE "up"
              /\ have' = [have EXCEPT ![Genesis] = "data"]
              /\ blk' = blk \cup {Genesis}
         ELSE /\ phase' = "unstartable"
              /\ UNCHANGED <<tip, utxo, sapling, have, blk>>
      /\ UNCHANGED <<full, file, nLastBlockFile, rev, synced, disk, db, crashes>>

Next ==
  \/ \E b \in Block \ {Genesis}, n \in 0 .. MaxFile : AcceptBlock(b, n)
  \/ \E b \in Block \ {Genesis} : ConnectTip(b)
  \/ DisconnectTip
  \/ \E f \in BOOLEAN : SyncFiles(f)
  \/ WriteIndex
  \/ FinalBatch
  \/ \E S \in SUBSET OutPoint : PartialBatch(S)
  \/ Crash
  \/ Restart

Spec == Init /\ [][Next]_vars

-----------------------------------------------------------------------------
(* Properties. *)

\* FlushStateToDisk, BatchWrite and ReplayBlocks together: whenever the process
\* may stop, with nothing surviving of the files but what was committed,
\* startup succeeds and ends at exactly the coins that the chain up to its
\* block defines, however many flushes or replays were cut short.
Recoverable ==
  LET s == Startup(synced.blk, synced.rev)
  IN  s.ok /\ s.utxo = UtxoAt[s.tip]

\* ConnectBlock, DisconnectBlock and the undo data: a running node's coins are
\* those of its tip, and DisconnectTip would find the undo data it needs and
\* report DISCONNECT_OK, also for blocks connected before a crash.
TipExact ==
  phase = "up" =>
    /\ utxo = UtxoAt[tip]
    /\ tip # Genesis => CanDisconnect(tip)

\* The block that startup would come back to.
SavedTip ==
  IF db.heads # <<>> THEN db.heads[1]
  ELSE IF db.best = NoBlock THEN Genesis ELSE db.best

Durable == INSTANCE DurableTip WITH
  running <- phase \in {"up", "index", "batch"},
  tip     <- IF phase \in {"up", "index", "batch"} THEN tip ELSE SavedTip,
  saved   <- SavedTip

\* The many batches of a flush act as one atomic save: the block a crashed node
\* comes back to changes only to the tip of a running node, and a replay, itself
\* interrupted or not, never moves it.
ImplementsDurableTip == Durable!Spec

\* FlushStateToDisk, "First make sure all block and undo data is flushed to
\* disk": the blocks that the index on disk refers to have been committed, and
\* so has their undo data.
IndexedBlocksDurable == \A b \in Block : disk.have[b] # "none" => b \in synced.blk
IndexedUndoDurable == \A b \in Block : disk.have[b] = "undo" => b \in synced.rev
IndexedDataDurable == IndexedBlocksDurable /\ IndexedUndoDurable

\* CCoinsViewDB::BatchWrite, "mark the database as consistent with hashBlock
\* again": when the database names a best block, its Sapling anchor and
\* nullifiers are the ones of the chain up to that block.
SaplingConsistent == db.best # NoBlock => db.sapling = SaplingAt[db.best]

\* The invariant of the disk: the index on it refers to committed data only, and a
\* startup from it ends at the coins of its best block, whenever the node stops.
DiskSound == TypeOK /\ IndexedDataDurable /\ Recoverable
=============================================================================
