----------------------- MODULE ChainstateFlushProofs ------------------------
(***************************************************************************)
(* Proofs about ChainstateFlush.  The batches of a flush and the replays   *)
(* after a crash implement the atomic save of DurableTip; the block index  *)
(* on disk refers to committed data only; and a startup ends at the coins  *)
(* of its block, wherever the node was stopped.                            *)
(***************************************************************************)
EXTENDS ChainReplayProofs

(***************************************************************************)
(* What the refinement needs.  During a replay the tip in memory is the    *)
(* new head of the interrupted flush, which each of the replay's own       *)
(* batches names again.                                                    *)
(***************************************************************************)

Running == phase \in {"up", "index", "batch"}

TipInv ==
  /\ phase \in {"up", "index", "batch", "down", "replay", "unstartable"}
  /\ tip \in Block
  /\ db = [f \in {"coins", "best", "heads", "sapling"} |-> db[f]]
  /\ db.best \in Block \cup {NoBlock}
  /\ db.heads # <<>> => db.heads[1] \in Block
  /\ phase = "replay" => db.heads # <<>> /\ tip = db.heads[1]

\* Whatever the disk holds, a startup that succeeds is at the saved block.
LEMMA StartupAtSavedTip ==
  ASSUME NEW B, NEW R, Startup(B, R).ok
  PROVE  Startup(B, R).tip = SavedTip
<1>1. CASE db.heads # <<>>
  <2>1. Startup(B, R) = ReplayBlocks(B, R)
    BY <1>1 DEF Startup
  <2>2. ReplayBlocks(B, R).ok
    BY <2>1
  <2>3. ReplayBlocks(B, R).tip = db.heads[1]
    BY <2>2, Zenon DEF ReplayBlocks, Heads
  <2>q. QED BY <1>1, <2>1, <2>3 DEF SavedTip
<1>2. CASE db.heads = <<>>
  BY <1>2 DEF Startup, SavedTip
<1>q. QED BY <1>1, <1>2

\* A new data directory and an established node both begin at their saved block.
LEMMA TipInit == Init => TipInv /\ Durable!Init
<1> SUFFICES ASSUME Init PROVE TipInv /\ Durable!Init
  OBVIOUS
<1>1. /\ phase = "up" /\ tip = IF StartTip = NoBlock THEN Genesis ELSE StartTip
      /\ db = [coins |-> utxo, best |-> StartTip, heads |-> <<>>, sapling |-> sapling]
  BY DEF Init
<1>2. tip \in Block /\ db.best \in Block \cup {NoBlock} /\ db.heads = <<>>
  BY <1>1, TreeAssumption
<1>3. TipInv
  BY <1>1, <1>2 DEF TipInv
<1>4. SavedTip = tip
  BY <1>1, <1>2 DEF SavedTip
<1>q. QED BY <1>1, <1>2, <1>3, <1>4 DEF Durable!Init

\* Every step keeps the tip of a replay at the new head.
LEMMA TipStep == TipInv /\ [Next]_vars => TipInv'
<1> SUFFICES ASSUME TipInv, [Next]_vars PROVE TipInv'
  OBVIOUS
<1>1. CASE \E b \in Block \ {Genesis}, n \in 0 .. MaxFile : AcceptBlock(b, n)
  BY <1>1 DEF TipInv, AcceptBlock
<1>2. CASE \E b \in Block \ {Genesis} : ConnectTip(b)
  BY <1>2 DEF TipInv, ConnectTip
<1>3. CASE DisconnectTip
  BY <1>3, TreeAssumption DEF TipInv, DisconnectTip, files
<1>4. CASE \E f \in BOOLEAN : SyncFiles(f)
  BY <1>4 DEF TipInv, SyncFiles, mem
<1>5. CASE WriteIndex
  BY <1>5 DEF TipInv, WriteIndex, mem
<1>6. CASE FinalBatch
  BY <1>6 DEF TipInv, FinalBatch, mem
<1>7. CASE \E S \in SUBSET OutPoint : PartialBatch(S)
  <2> PICK S \in SUBSET OutPoint : PartialBatch(S)
    BY <1>7
  <2>1. /\ db' = [db EXCEPT !.best = NoBlock, !.heads = <<tip, OldTip>>,
                            !.coins = [o \in OutPoint |-> IF o \in S THEN utxo[o] ELSE @[o]]]
        /\ phase' = phase /\ tip' = tip
    BY DEF PartialBatch, mem
  <2>2. /\ db' = [f \in {"coins", "best", "heads", "sapling"} |-> db'[f]]
        /\ db'.best = NoBlock /\ db'.heads = <<tip, OldTip>>
    BY <2>1, Zenon DEF TipInv
  <2>3. db'.heads # <<>> /\ db'.heads[1] = tip
    BY <2>2
  <2>q. QED BY <2>1, <2>2, <2>3 DEF TipInv
<1>8. CASE Crash
  BY <1>8, TreeAssumption DEF TipInv, Crash
<1>9. CASE Restart
  <2> DEFINE s == Startup(blk, DOMAIN rev)
  <2>1. /\ db' = db
        /\ IF s.ok THEN tip' = s.tip /\ phase' = IF db.heads # <<>> THEN "replay" ELSE "up"
           ELSE phase' = "unstartable" /\ tip' = tip
    BY <1>9 DEF Restart
  <2>2. s.ok => s.tip = SavedTip
    BY StartupAtSavedTip
  <2>3. SavedTip \in Block
    BY TreeAssumption DEF TipInv, SavedTip
  <2> HIDE DEF s
  <2>4. CASE s.ok
    BY <2>1, <2>2, <2>3, <2>4 DEF TipInv, SavedTip
  <2>5. CASE ~ s.ok
    BY <2>1, <2>5 DEF TipInv
  <2>q. QED BY <2>4, <2>5
<1>10. CASE UNCHANGED vars
  BY <1>10 DEF TipInv, vars, mem
<1>q. QED
  BY <1>1, <1>2, <1>3, <1>4, <1>5, <1>6, <1>7, <1>8, <1>9, <1>10 DEF Next

\* Every step is a step of DurableTip or leaves its variables alone: batches
\* save the tip, and a crash in the middle of a replay changes nothing.
LEMMA DurableStep == TipInv /\ [Next]_vars => [Durable!Next]_Durable!dvars
<1> SUFFICES ASSUME TipInv, [Next]_vars PROVE [Durable!Next]_Durable!dvars
  OBVIOUS
<1> USE DEF Durable!dvars
<1>1. CASE \E b \in Block \ {Genesis}, n \in 0 .. MaxFile : AcceptBlock(b, n)
  BY <1>1 DEF AcceptBlock, SavedTip
<1>2. CASE \E b \in Block \ {Genesis} : ConnectTip(b)
  <2> PICK b \in Block \ {Genesis} : ConnectTip(b)
    BY <1>2
  <2>1. phase = "up" /\ phase' = "up" /\ db' = db /\ Parent[b] = tip /\ tip' = b
    BY DEF ConnectTip
  <2>2. Durable!Move(b)
    BY <2>1 DEF Durable!Move, SavedTip
  <2>q. QED BY <2>2 DEF Durable!Next
<1>3. CASE DisconnectTip
  <2>1. phase = "up" /\ phase' = "up" /\ db' = db /\ tip # Genesis /\ tip' = Parent[tip]
    BY <1>3 DEF DisconnectTip
  <2>2. Parent[tip] \in Block
    BY <2>1, TreeAssumption DEF TipInv
  <2>3. Durable!Move(Parent[tip])
    BY <2>1 DEF Durable!Move, SavedTip
  <2>q. QED BY <2>2, <2>3 DEF Durable!Next
<1>4. CASE \E f \in BOOLEAN : SyncFiles(f)
  BY <1>4 DEF SyncFiles, mem, SavedTip
<1>5. CASE WriteIndex
  BY <1>5 DEF WriteIndex, mem, SavedTip
<1>6. CASE FinalBatch
  <2>1. phase \in {"batch", "replay"} /\ phase' = "up" /\ tip' = tip
    BY <1>6 DEF FinalBatch, mem
  <2>2. SavedTip' = tip
    BY <1>6, TreeAssumption DEF FinalBatch, mem, SavedTip, TipInv
  <2>3. CASE phase = "batch"
    BY <2>1, <2>2, <2>3 DEF Durable!Next, Durable!Save
  <2>4. CASE phase = "replay"
    <3>1. SavedTip = tip
      BY <2>4 DEF TipInv, SavedTip
    <3>2. Durable!Recover
      BY <2>1, <2>2, <2>4, <3>1 DEF Durable!Recover
    <3>q. QED BY <3>2 DEF Durable!Next
  <2>q. QED BY <2>1, <2>3, <2>4
<1>7. CASE \E S \in SUBSET OutPoint : PartialBatch(S)
  <2>1. phase \in {"batch", "replay"} /\ phase' = phase /\ tip' = tip
    BY <1>7 DEF PartialBatch, mem
  <2>2. db'.heads = <<tip, OldTip>>
    BY <1>7 DEF PartialBatch, TipInv
  <2>3. SavedTip' = tip
    BY <2>2 DEF SavedTip
  <2>4. CASE phase = "batch"
    BY <2>1, <2>3, <2>4 DEF Durable!Next, Durable!Save
  <2>5. CASE phase = "replay"
    BY <2>1, <2>3, <2>5 DEF TipInv, SavedTip
  <2>q. QED BY <2>1, <2>4, <2>5
<1>8. CASE Crash
  <2>1. phase' = "down" /\ db' = db /\ phase \notin {"down", "unstartable"}
    BY <1>8 DEF Crash
  <2>2. SavedTip' = SavedTip
    BY <2>1 DEF SavedTip
  <2>3. CASE Running
    BY <2>1, <2>2, <2>3 DEF Durable!Next, Durable!Crash, Running
  <2>4. CASE ~ Running
    BY <2>1, <2>2, <2>4 DEF Running
  <2>q. QED BY <2>3, <2>4
<1>9. CASE Restart
  <2> DEFINE s == Startup(blk, DOMAIN rev)
  <2>1. /\ db' = db /\ phase = "down"
        /\ IF s.ok THEN tip' = s.tip /\ phase' = IF db.heads # <<>> THEN "replay" ELSE "up"
           ELSE phase' = "unstartable" /\ tip' = tip
    BY <1>9 DEF Restart
  <2>2. s.ok => s.tip = SavedTip
    BY StartupAtSavedTip
  <2>3. SavedTip' = SavedTip
    BY <2>1 DEF SavedTip
  <2> HIDE DEF s
  <2>4. CASE phase' = "up"
    BY <2>1, <2>2, <2>3, <2>4 DEF Durable!Next, Durable!Recover
  <2>5. CASE phase' # "up"
    BY <2>1, <2>2, <2>3, <2>5
  <2>q. QED BY <2>4, <2>5
<1>10. CASE UNCHANGED vars
  BY <1>10 DEF vars, mem, SavedTip
<1>q. QED
  BY <1>1, <1>2, <1>3, <1>4, <1>5, <1>6, <1>7, <1>8, <1>9, <1>10 DEF Next

\* FlushStateToDisk, BatchWrite and ReplayBlocks implement an atomic save: the
\* block that startup comes back to is only ever the tip of a running node, and
\* no crash, in a flush or in the replay after one, moves it.
THEOREM FlushImplementsDurableTip == Spec => ImplementsDurableTip
<1>1. Init => TipInv /\ Durable!Init
  BY TipInit
<1>2. TipInv /\ [Next]_vars => TipInv'
  BY TipStep
<1>3. TipInv /\ [Next]_vars => [Durable!Next]_Durable!dvars
  BY DurableStep
<1>q. QED BY <1>1, <1>2, <1>3, PTL DEF Spec, ImplementsDurableTip, Durable!Spec

-----------------------------------------------------------------------------
(***************************************************************************)
(* The block index.  A block that is not committed lies in the file being  *)
(* filled, so FlushBlockFile, which commits that file only, commits all.   *)
(* The genesis block is the one that a startup may find again without the  *)
(* index: then the index has never been written.                           *)
(***************************************************************************)

Up == phase \in {"up", "index", "batch", "replay"}

BlockInv ==
  /\ have \in [Block -> Status] /\ disk.have \in [Block -> Status]
  /\ DOMAIN file = Block
  /\ synced = [f \in {"blk", "rev"} |-> synced[f]]
  /\ synced.blk \subseteq blk
  /\ \A b \in Block : have[b] # "none" => b \in blk
  /\ \A b \in blk \ synced.blk : b \in Block /\ file[b] = nLastBlockFile
  /\ IndexedBlocksDurable
  /\ phase = "index" => \A b \in Block : have[b] # "none" => b \in synced.blk
  /\ Up => have[Genesis] # "none"
  /\ ~ Up => have = disk.have /\ file = disk.file /\ nLastBlockFile = disk.last
  /\ disk.have[Genesis] = "none" => disk.file[Genesis] = disk.last
  /\ DOMAIN disk.file = Block
  /\ phase \in {"up", "index", "batch", "down", "replay", "unstartable"}

\* Init is a node that has flushed, or one whose genesis block is in file 0.
LEMMA BlockInit == Init => BlockInv
<1> SUFFICES ASSUME Init PROVE BlockInv
  OBVIOUS
<1> DEFINE old   == IF StartTip = NoBlock THEN {} ELSE Range(Chain[StartTip])
           chain == old \cup {Genesis}
           status(B) == [b \in Block |-> IF b \notin B THEN "none"
                                         ELSE IF b = Genesis THEN "data" ELSE "undo"]
<1>1. /\ phase = "up" /\ have = status(chain) /\ blk = chain
      /\ file = [b \in Block |-> 0] /\ nLastBlockFile = 0
      /\ synced = [blk |-> old, rev |-> old \ {Genesis}]
      /\ disk = [have |-> status(old), file |-> file, last |-> 0]
  BY DEF Init
<1> HIDE DEF old
<1>q. QED BY <1>1, TreeAssumption, Zenon DEF BlockInv, Status, Up, IndexedBlocksDurable

\* A step keeps uncommitted blocks in the file being filled, and the index is
\* written only after that file was committed.
LEMMA BlockStep == BlockInv /\ [Next]_vars => BlockInv'
<1> SUFFICES ASSUME BlockInv, [Next]_vars PROVE BlockInv'
  OBVIOUS
<1> USE TreeAssumption DEF IndexedBlocksDurable, Up, Status
<1>1. CASE \E b \in Block \ {Genesis}, n \in 0 .. MaxFile : AcceptBlock(b, n)
  <2> PICK b \in Block \ {Genesis}, n \in 0 .. MaxFile : AcceptBlock(b, n)
    BY <1>1
  <2>1. /\ phase = "up" /\ phase' = "up" /\ disk' = disk
        /\ nLastBlockFile' = n /\ blk' = blk \cup {b}
        /\ file' = [file EXCEPT ![b] = n] /\ have' = [have EXCEPT ![b] = "data"]
    BY DEF AcceptBlock
  <2>2. CASE n = nLastBlockFile
    <3>1. synced' = synced
      BY <2>2 DEF AcceptBlock
    <3>q. QED BY <2>1, <2>2, <3>1 DEF BlockInv
  <2>3. CASE n # nLastBlockFile
    <3>1. synced' = FlushBlockFile
      BY <2>3 DEF AcceptBlock
    <3>2. synced'.blk = blk
      BY <3>1 DEF FlushBlockFile, BlockInv
    <3>3. synced' = [f \in {"blk", "rev"} |-> synced'[f]]
      BY <3>1, Zenon DEF FlushBlockFile
    <3>q. QED BY <2>1, <3>2, <3>3 DEF BlockInv
  <2>q. QED BY <2>2, <2>3
<1>2. CASE \E b \in Block \ {Genesis} : ConnectTip(b)
  <2> PICK b \in Block \ {Genesis} : ConnectTip(b)
    BY <1>2
  <2>1. /\ phase = "up" /\ phase' = "up" /\ disk' = disk /\ file' = file /\ blk' = blk
        /\ nLastBlockFile' = nLastBlockFile /\ b \in blk
        /\ have' = [have EXCEPT ![b] = "undo"]
    BY DEF ConnectTip
  <2>2. synced' = synced \/ synced' = [synced EXCEPT !.rev = synced.rev \ {b}]
    BY DEF ConnectTip
  <2>3. synced'.blk = synced.blk /\ synced' = [f \in {"blk", "rev"} |-> synced'[f]]
    BY <2>2 DEF BlockInv
  <2>q. QED BY <2>1, <2>3 DEF BlockInv
<1>3. CASE DisconnectTip
  BY <1>3 DEF BlockInv, DisconnectTip, files
<1>4. CASE \E f \in BOOLEAN : SyncFiles(f)
  <2>1. /\ phase = "up" /\ phase' = "index" /\ synced' = FlushBlockFile
        /\ have' = have /\ file' = file /\ nLastBlockFile' = nLastBlockFile
        /\ blk' = blk /\ disk' = disk
    BY <1>4 DEF SyncFiles, mem
  <2>2. synced'.blk = blk
    BY <2>1 DEF FlushBlockFile, BlockInv
  <2>3. synced' = [f \in {"blk", "rev"} |-> synced'[f]]
    BY <2>1, Zenon DEF FlushBlockFile
  <2>q. QED BY <2>1, <2>2, <2>3 DEF BlockInv
<1>5. CASE WriteIndex
  BY <1>5 DEF BlockInv, WriteIndex, mem, files
<1>6. CASE FinalBatch
  BY <1>6 DEF BlockInv, FinalBatch, mem, files
<1>7. CASE \E S \in SUBSET OutPoint : PartialBatch(S)
  BY <1>7 DEF BlockInv, PartialBatch, mem, files
<1>8. CASE Crash
  <2>1. /\ phase' = "down" /\ synced' = synced /\ disk' = disk
        /\ have' = disk.have /\ file' = disk.file /\ nLastBlockFile' = disk.last
    BY <1>8 DEF Crash
  <2>2. PICK kept \in SUBSET {b \in blk \ synced.blk : disk.have[b] # "none"} :
          blk' = synced.blk \cup kept
    BY <1>8, Zenon DEF Crash
  <2>q. QED BY <2>1, <2>2 DEF BlockInv
<1>9. CASE Restart
  <2> DEFINE s == Startup(blk, DOMAIN rev)
  <2>1. /\ phase = "down" /\ synced' = synced /\ disk' = disk
        /\ file' = file /\ nLastBlockFile' = nLastBlockFile
    BY <1>9 DEF Restart
  <2>2. \/ /\ phase' = "unstartable" /\ have' = have /\ blk' = blk
        \/ /\ phase' \in {"replay", "up"}
           /\ have' = [have EXCEPT ![Genesis] = "data"]
           /\ blk' = blk \cup {Genesis}
    BY <1>9 DEF Restart
  <2>3. Genesis \in synced.blk \/ file[Genesis] = nLastBlockFile
    BY <2>1 DEF BlockInv
  <2>q. QED BY <2>1, <2>2, <2>3, Zenon DEF BlockInv
<1>10. CASE UNCHANGED vars
  BY <1>10 DEF BlockInv, vars, mem, files
<1>q. QED
  BY <1>1, <1>2, <1>3, <1>4, <1>5, <1>6, <1>7, <1>8, <1>9, <1>10 DEF Next

\* FlushStateToDisk: however many block files there are and wherever the node
\* stops, the blocks that the index on disk knows are in files that were committed.
THEOREM IndexedBlocksSafe == Spec => []IndexedBlocksDurable
<1>1. BlockInv => IndexedBlocksDurable
  BY DEF BlockInv
<1>q. QED BY <1>1, BlockInit, BlockStep, PTL DEF Spec

-----------------------------------------------------------------------------
(***************************************************************************)
(* The undo data.  With a single pair of files it is committed with the    *)
(* blocks.  With several it may be written to the rev file of an earlier   *)
(* block file, which FlushBlockFile does not commit again.                 *)
(***************************************************************************)

UndoInv ==
  /\ \A b \in Block : file[b] = 0 /\ disk.file[b] = 0
  /\ nLastBlockFile = 0 /\ disk.last = 0
  /\ synced.rev \subseteq DOMAIN rev
  /\ \A b \in Block : have[b] = "undo" => b \in DOMAIN rev
  /\ IndexedUndoDurable
  /\ \A b \in Block : disk.have[b] = "undo" => have[b] = "undo"
  /\ have[Genesis] # "undo" /\ disk.have[Genesis] # "undo"
  /\ phase = "index" => \A b \in Block : have[b] = "undo" => b \in synced.rev

\* The undo data of an established node has been committed.
LEMMA UndoInit == Init => UndoInv
<1> SUFFICES ASSUME Init PROVE UndoInv
  OBVIOUS
<1> DEFINE old   == IF StartTip = NoBlock THEN {} ELSE Range(Chain[StartTip])
           chain == old \cup {Genesis}
           status(B) == [b \in Block |-> IF b \notin B THEN "none"
                                         ELSE IF b = Genesis THEN "data" ELSE "undo"]
<1>1. /\ phase = "up" /\ have = status(chain)
      /\ file = [b \in Block |-> 0] /\ nLastBlockFile = 0
      /\ synced = [blk |-> old, rev |-> old \ {Genesis}]
      /\ disk = [have |-> status(old), file |-> file, last |-> 0]
  BY DEF Init
<1>2. DOMAIN rev = chain \ {Genesis}
  BY DEF Init
<1> HIDE DEF old
<1>q. QED BY <1>1, <1>2, TreeAssumption DEF UndoInv, IndexedUndoDurable

\* A step of a node with one block file keeps the undo data of indexed blocks.
LEMMA UndoStep ==
  ASSUME MaxFile = 0, BlockInv, UndoInv, [Next]_vars
  PROVE  UndoInv'
<1> USE TreeAssumption DEF IndexedUndoDurable
<1>1. CASE \E b \in Block \ {Genesis}, n \in 0 .. MaxFile : AcceptBlock(b, n)
  <2> PICK b \in Block \ {Genesis}, n \in 0 .. MaxFile : AcceptBlock(b, n)
    BY <1>1
  <2>1. n = 0 /\ n = nLastBlockFile
    BY MaxFile = 0 DEF UndoInv
  <2>2. /\ phase' = phase /\ phase = "up" /\ disk' = disk /\ rev' = rev /\ synced' = synced
        /\ nLastBlockFile' = n /\ have[b] = "none"
        /\ file' = [file EXCEPT ![b] = n] /\ have' = [have EXCEPT ![b] = "data"]
    BY <2>1 DEF AcceptBlock
  <2>q. QED BY <2>1, <2>2 DEF BlockInv, UndoInv, Status
<1>2. CASE \E b \in Block \ {Genesis} : ConnectTip(b)
  <2> PICK b \in Block \ {Genesis} : ConnectTip(b)
    BY <1>2
  <2>1. /\ phase = "up" /\ phase' = "up" /\ disk' = disk /\ file' = file
        /\ nLastBlockFile' = nLastBlockFile /\ have' = [have EXCEPT ![b] = "undo"]
    BY DEF ConnectTip
  <2>2. CASE have[b] = "undo"
    <3>1. rev' = rev /\ synced' = synced
      BY <2>2 DEF ConnectTip
    <3>q. QED BY <2>1, <2>2, <3>1 DEF BlockInv, UndoInv, Status
  <2>3. CASE have[b] # "undo"
    <3>1. /\ DOMAIN rev' = DOMAIN rev \cup {b}
          /\ synced' = [synced EXCEPT !.rev = synced.rev \ {b}]
      BY <2>3 DEF ConnectTip
    <3>2. synced'.rev = synced.rev \ {b}
      BY <3>1 DEF BlockInv
    <3>3. disk.have[b] # "undo"
      BY <2>3 DEF UndoInv
    <3>q. QED BY <2>1, <2>3, <3>1, <3>2, <3>3 DEF BlockInv, UndoInv, Status
  <2>q. QED BY <2>2, <2>3
<1>3. CASE DisconnectTip
  BY <1>3 DEF UndoInv, DisconnectTip, files
<1>4. CASE \E f \in BOOLEAN : SyncFiles(f)
  <2>1. /\ phase = "up" /\ phase' = "index" /\ synced' = FlushBlockFile
        /\ have' = have /\ file' = file /\ nLastBlockFile' = nLastBlockFile
        /\ rev' = rev /\ disk' = disk
    BY <1>4 DEF SyncFiles, mem
  <2>2. synced'.rev = synced.rev \cup {b \in DOMAIN rev : file[b] = nLastBlockFile}
    BY <2>1 DEF FlushBlockFile
  <2>q. QED BY <2>1, <2>2 DEF UndoInv
<1>5. CASE WriteIndex
  BY <1>5 DEF UndoInv, WriteIndex, mem, files
<1>6. CASE FinalBatch
  BY <1>6 DEF UndoInv, FinalBatch, mem, files
<1>7. CASE \E S \in SUBSET OutPoint : PartialBatch(S)
  BY <1>7 DEF UndoInv, PartialBatch, mem, files
<1>8. CASE Crash
  <2>1. /\ phase' = "down" /\ synced' = synced /\ disk' = disk
        /\ have' = disk.have /\ file' = disk.file /\ nLastBlockFile' = disk.last
    BY <1>8 DEF Crash
  <2>2. PICK kept \in SUBSET {b \in DOMAIN rev \ synced.rev : disk.have[b] = "undo"} :
          rev' = Restrict(rev, synced.rev \cup kept)
    BY <1>8, Zenon DEF Crash
  <2>3. DOMAIN rev' = synced.rev \cup kept
    BY <2>2 DEF Restrict
  <2>q. QED BY <2>1, <2>3 DEF UndoInv
<1>9. CASE Restart
  <2>1. /\ synced' = synced /\ disk' = disk /\ rev' = rev
        /\ file' = file /\ nLastBlockFile' = nLastBlockFile
    BY <1>9 DEF Restart
  <2>2. \/ phase' = "unstartable" /\ have' = have
        \/ phase' \in {"replay", "up"} /\ have' = [have EXCEPT ![Genesis] = "data"]
    BY <1>9 DEF Restart
  <2>q. QED BY <2>1, <2>2 DEF BlockInv, UndoInv, Status
<1>10. CASE UNCHANGED vars
  BY <1>10 DEF UndoInv, vars, mem, files
<1>q. QED
  BY <1>1, <1>2, <1>3, <1>4, <1>5, <1>6, <1>7, <1>8, <1>9, <1>10 DEF Next

\* FlushStateToDisk: while the blocks fit in one blk file and one rev file, whatever
\* the index on disk refers to, blocks and undo data, has been committed.
THEOREM IndexedDataSafe == MaxFile = 0 => (Spec => []IndexedDataDurable)
<1> SUFFICES ASSUME MaxFile = 0 PROVE Spec => []IndexedDataDurable
  OBVIOUS
<1>1. Init => BlockInv /\ UndoInv
  BY BlockInit, UndoInit
<1>2. BlockInv /\ UndoInv /\ [Next]_vars => (BlockInv /\ UndoInv)'
  BY BlockStep, UndoStep
<1>3. BlockInv /\ UndoInv => IndexedDataDurable
  BY DEF BlockInv, UndoInv, IndexedDataDurable
<1>q. QED BY <1>1, <1>2, <1>3, PTL DEF Spec

-----------------------------------------------------------------------------
(***************************************************************************)
(* The coins.  A running node's are those of its tip; the database's are   *)
(* those of its best block, or each one those of one of its two heads; and *)
(* the rev files hold each block's own undo data.  A new data directory    *)
(* has the coins of the genesis block: none.                               *)
(***************************************************************************)

BlockOf(b) == IF b = NoBlock THEN Genesis ELSE b

CoinInv ==
  /\ \A b \in DOMAIN rev : b \in Block \ {Genesis} /\ rev[b] = UndoAt(b)
  /\ synced = [blk |-> synced.blk, rev |-> synced.rev] /\ synced.rev \subseteq DOMAIN rev
  /\ utxo \in Coins
  /\ Up => utxo = UtxoAt[tip]
  /\ db.coins \in Coins
  /\ db.heads = <<>> => db.coins = UtxoAt[BlockOf(db.best)]
  /\ db.heads # <<>> =>
       /\ db.best = NoBlock
       /\ db.heads \in Block \X (Block \cup {NoBlock})
       /\ Between(db.coins, BlockOf(db.heads[2]), db.heads[1])
  /\ phase \in {"up", "index"} => db.heads = <<>>
  /\ phase = "batch" /\ db.heads # <<>> => db.heads[1] = tip

\* Startup from what the disk holds.
Restarted == Startup(blk, DOMAIN rev)

\* Whatever the files and the index have kept, coins are never wrong: a node that
\* runs or replays has those of its tip, and a startup that succeeds ends at those
\* of its block.
CoinsExact ==
  /\ Up => utxo = UtxoAt[tip]
  /\ Restarted.ok => Restarted.utxo = UtxoAt[Restarted.tip]

\* The genesis block is on every chain.
LEMMA ChainBottom == \A b \in Block : 0 \in 0 .. Height[b] /\ Chain[b][0] = Genesis
<1> TAKE b \in Block
<1>1. 0 \in 0 .. Height[b]
  BY GenesisHeight
<1>2. Chain[b][0] \in Block /\ Height[Chain[b][0]] = 0
  BY <1>1, ChainIs
<1> QED BY <1>1, <1>2, GenesisHeight

\* A chain's blocks.
LEMMA ChainRange == \A b \in Block : Range(Chain[b]) \subseteq Block
<1> TAKE b \in Block
<1>1. Chain[b] \in [0 .. Height[b] -> Block]
  BY ChainIs
<1> QED BY <1>1 DEF Range

\* Init has the coins of its tip, and undo data to match.
LEMMA CoinInit == Init => CoinInv
<1> SUFFICES ASSUME Init PROVE CoinInv
  OBVIOUS
<1> DEFINE chain == (IF StartTip = NoBlock THEN {} ELSE Range(Chain[StartTip])) \cup {Genesis}
<1>1. /\ phase = "up" /\ tip = BlockOf(StartTip) /\ utxo = UtxoAt[tip]
      /\ rev = [b \in chain \ {Genesis} |-> UndoAt(b)]
      /\ \E old \in SUBSET chain : synced = [blk |-> old, rev |-> old \ {Genesis}]
      /\ db = [coins |-> utxo, best |-> StartTip, heads |-> <<>>, sapling |-> sapling]
  BY Zenon DEF Init, UndoAt, UndoOf, BlockOf
<1>2. chain \subseteq Block
  BY ChainRange, TreeAssumption
<1> HIDE DEF chain
<1>3. tip \in Block
  BY <1>1, TreeAssumption DEF BlockOf
<1>4. utxo \in Coins
  BY <1>1, <1>3, UtxoAtIs
<1>5. db.heads = <<>> /\ db.best = StartTip /\ db.coins = utxo
  BY <1>1
<1>6. \A b \in DOMAIN rev : b \in Block \ {Genesis} /\ rev[b] = UndoAt(b)
  BY <1>1, <1>2
<1>7. synced = [blk |-> synced.blk, rev |-> synced.rev] /\ synced.rev \subseteq DOMAIN rev
  BY <1>1
<1> QED BY <1>1, <1>4, <1>5, <1>6, <1>7 DEF CoinInv

\* A startup that succeeds, from any blocks B and any of the undo records, ends at the
\* coins of its block.
LEMMA StartupExact ==
  ASSUME TipInv, CoinInv, NEW B, NEW R \in SUBSET DOMAIN rev, Startup(B, R).ok
  PROVE  Startup(B, R).utxo = UtxoAt[Startup(B, R).tip]
<1>1. CASE db.heads = <<>>
  <2>1. db.coins = UtxoAt[BlockOf(db.best)]
    BY <1>1 DEF CoinInv
  <2>2. Startup(B, R).utxo = db.coins /\ Startup(B, R).tip = BlockOf(db.best)
    BY <1>1 DEF Startup, BlockOf
  <2> QED BY <2>1, <2>2
<1>2. CASE db.heads # <<>>
  <2> DEFINE new == db.heads[1]
             old == db.heads[2]
             h == Fork(old, new)
             rolled == IF old = NoBlock THEN db.coins ELSE Rollback(db.coins, old, h)
  <2>1. /\ new \in Block /\ old \in Block \cup {NoBlock} /\ db.coins \in Coins
        /\ Between(db.coins, BlockOf(old), new)
    BY <1>2 DEF CoinInv
  <2>2. Startup(B, R) = ReplayBlocks(B, R)
    BY <1>2 DEF Startup
  <2> DEFINE ready == /\ disk.have[new] # "none"
                      /\ old # NoBlock => disk.have[old] # "none"
                      /\ \A b \in Above(old, h) :
                           (disk.have[b] # "none" /\ b \in B) /\ disk.have[b] = "undo" /\ b \in R
                      /\ \A b \in Above(new, h) : disk.have[b] # "none" /\ b \in B
             done == [ok |-> TRUE, tip |-> new, utxo |-> Rollforward(rolled, new, h),
                      sapling |-> PopSapling(db.sapling, Above(old, h), Chain[old][h])]
  <2>a. ReplayBlocks(B, R) = IF ready THEN done ELSE [ok |-> FALSE]
    BY Zenon DEF ReplayBlocks, Heads
  <2>b. ready => \A b \in Above(old, h) : b \in R
    BY Zenon
  <2> HIDE DEF ready, rolled, h
  <2>3. /\ \A b \in Above(old, h) : b \in R
        /\ ReplayBlocks(B, R).tip = new
        /\ ReplayBlocks(B, R).utxo = Rollforward(rolled, new, h)
    BY <2>2, <2>a, <2>b
  <2>4. \A b \in Above(old, h) : rev[b] = UndoAt(b)
    BY <2>3 DEF CoinInv
  <2>5. CASE old = NoBlock
    <3>1. rolled = db.coins /\ h = 0 /\ BlockOf(old) = Genesis
      BY <2>5, Zenon DEF Fork, BlockOf, h, rolled
    <3>2. 0 \in 0 .. Height[new] /\ Chain[new][0] = Genesis
      BY <2>1, ChainBottom
    <3> HIDE DEF new
    <3>3. Rollforward(db.coins, new, 0) = UtxoAt[new]
      BY <2>1, <3>1, <3>2, RollforwardBetween
    <3> QED BY <2>2, <2>3, <3>1, <3>3
  <2>6. CASE old # NoBlock
    <3>1. old \in Block /\ BlockOf(old) = old
      BY <2>1, <2>6 DEF BlockOf
    <3>2. rolled = Rollback(db.coins, old, h)
      BY <2>6, Zenon DEF rolled
    <3> HIDE DEF new, old
    <3>3. Rollforward(Rollback(db.coins, old, h), new, h) = UtxoAt[new]
      BY <2>1, <2>4, <3>1, ReplayExact DEF h
    <3> QED BY <2>2, <2>3, <3>2, <3>3
  <2> QED BY <2>5, <2>6
<1> QED BY <1>1, <1>2

\* What connecting a block does.
LEMMA CoinConnect ==
  ASSUME TipInv, CoinInv, NEW b \in Block \ {Genesis}, ConnectTip(b)
  PROVE  CoinInv'
<1>1. /\ phase = "up" /\ phase' = "up" /\ Parent[b] = tip /\ tip' = b /\ db' = db
      /\ utxo' = RollforwardBlock(utxo, b)
      /\ \/ rev' = rev
         \/ rev' = [a \in DOMAIN rev \cup {b} |-> IF a = b THEN UndoOf(utxo, b) ELSE rev[a]]
      /\ synced' = synced \/ synced' = [synced EXCEPT !.rev = @ \ {b}]
  BY Zenon DEF ConnectTip, RollforwardBlock, UndoOf
<1>2. utxo = UtxoAt[Parent[b]] /\ Parent[b] \in Block
  BY <1>1 DEF CoinInv, Up, TipInv
<1>3. utxo' = UtxoAt[b] /\ utxo' \in Coins
  BY <1>1, <1>2, UtxoAtIs
<1>4. \A a \in DOMAIN rev' : a \in Block \ {Genesis} /\ rev'[a] = UndoAt(a)
  <2>1. CASE rev' = rev
    BY <2>1 DEF CoinInv
  <2>2. CASE rev' = [a \in DOMAIN rev \cup {b} |-> IF a = b THEN UndoOf(utxo, b) ELSE rev[a]]
    <3>1. UndoOf(utxo, b) = UndoAt(b)
      BY <1>2 DEF UndoAt
    <3> QED BY <2>2, <3>1 DEF CoinInv
  <2> QED BY <1>1, <2>1, <2>2
<1>5. DOMAIN rev \subseteq DOMAIN rev' /\ synced'.rev \subseteq synced.rev
  BY <1>1 DEF CoinInv
<1>6. synced' = [blk |-> synced'.blk, rev |-> synced'.rev] /\ synced'.rev \subseteq DOMAIN rev'
  BY <1>1, <1>5 DEF CoinInv
<1> QED BY <1>1, <1>3, <1>4, <1>6 DEF CoinInv, Up

\* What disconnecting the tip does.
LEMMA CoinDisconnect ==
  ASSUME TipInv, CoinInv, DisconnectTip
  PROVE  CoinInv'
<1>1. /\ phase = "up" /\ phase' = "up" /\ tip # Genesis /\ tip' = Parent[tip]
      /\ db' = db /\ rev' = rev /\ synced' = synced
      /\ utxo' = RollbackBlock(utxo, tip, rev[tip]) /\ tip \in DOMAIN rev
  BY Zenon DEF DisconnectTip, RollbackBlock, CanDisconnect, files
<1>2. tip \in Block \ {Genesis} /\ utxo = UtxoAt[tip] /\ rev[tip] = UndoAt(tip)
  BY <1>1 DEF CoinInv, Up, TipInv
<1>3. Parent[tip] \in Block
  BY <1>2, TreeAssumption
<1>4. utxo' = UtxoAt[Parent[tip]]
  BY <1>1, <1>2, UndoAtExact
<1>5. utxo' \in Coins
  BY <1>3, <1>4, UtxoAtIs
<1> QED BY <1>1, <1>4, <1>5 DEF CoinInv, Up

\* What a batch that is not the last one does.
LEMMA CoinPartial ==
  ASSUME TipInv, CoinInv, NEW S \in SUBSET OutPoint, PartialBatch(S)
  PROVE  CoinInv'
<1>1. /\ phase \in {"batch", "replay"} /\ phase' = phase /\ tip' = tip /\ utxo' = utxo
      /\ rev' = rev /\ synced' = synced
  BY DEF PartialBatch, mem, files
<1>2. /\ db'.best = NoBlock /\ db'.heads = <<tip, OldTip>>
      /\ db'.coins = [o \in OutPoint |-> IF o \in S THEN utxo[o] ELSE db.coins[o]]
  BY DEF PartialBatch, TipInv
<1>3. utxo = UtxoAt[tip] /\ tip \in Block /\ utxo \in Coins /\ db.coins \in Coins
  BY <1>1 DEF CoinInv, TipInv, Up
<1>4. OldTip \in Block \cup {NoBlock} /\ Between(db.coins, BlockOf(OldTip), tip)
  <2>1. CASE db.heads = <<>>
    <3>1. db.best \in Block \cup {NoBlock} /\ db.coins = UtxoAt[BlockOf(db.best)]
      BY <2>1 DEF CoinInv, TipInv
    <3>2. OldTip = db.best
      BY <2>1 DEF OldTip
    <3> QED BY <3>1, <3>2 DEF Between
  <2>2. CASE db.heads # <<>>
    <3>1. db.heads[1] = tip
      BY <1>1, <2>2 DEF CoinInv, TipInv
    <3>2. /\ db.best = NoBlock /\ db.heads \in Block \X (Block \cup {NoBlock})
          /\ Between(db.coins, BlockOf(db.heads[2]), db.heads[1])
      BY <2>2 DEF CoinInv
    <3>3. OldTip = db.heads[2]
      BY <2>2, <3>2 DEF OldTip
    <3> QED BY <3>1, <3>2, <3>3
  <2> QED BY <2>1, <2>2
<1>5. Between(db'.coins, BlockOf(OldTip), tip)
  BY <1>2, <1>3, <1>4 DEF Between
<1>6. db'.coins \in Coins
  BY <1>2, <1>3 DEF Coins
<1> HIDE DEF OldTip
<1>7. /\ db'.heads # <<>> /\ db'.heads \in Block \X (Block \cup {NoBlock})
      /\ db'.heads[1] = tip /\ db'.heads[2] = OldTip
  BY <1>2, <1>3, <1>4
<1> QED BY <1>1, <1>2, <1>3, <1>4, <1>5, <1>6, <1>7 DEF CoinInv, Up

\* What a restart does.
LEMMA CoinRestart ==
  ASSUME TipInv, CoinInv, Restart
  PROVE  CoinInv'
<1> DEFINE s == Startup(blk, DOMAIN rev)
<1>1. phase = "down" /\ rev' = rev /\ db' = db /\ synced' = synced
  BY Zenon DEF Restart
<1>2. CASE s.ok
  <2>1. s.utxo = UtxoAt[s.tip] /\ s.tip = SavedTip
    BY <1>2, StartupExact, StartupAtSavedTip
  <2>2. /\ tip' = s.tip /\ utxo' = s.utxo
        /\ phase' = IF db.heads # <<>> THEN "replay" ELSE "up"
    BY <1>2, Zenon DEF Restart
  <2> HIDE DEF s
  <2>3. SavedTip \in Block
    BY TreeAssumption DEF SavedTip, TipInv
  <2>4. utxo' = UtxoAt[tip'] /\ utxo' \in Coins
    BY <2>1, <2>2, <2>3, UtxoAtIs
  <2> QED BY <1>1, <2>1, <2>2, <2>4 DEF CoinInv, Up, SavedTip
<1>3. CASE ~s.ok
  <2>1. phase' = "unstartable" /\ tip' = tip /\ utxo' = utxo
    BY <1>3, Zenon DEF Restart
  <2> QED BY <1>1, <2>1 DEF CoinInv, Up
<1> QED BY <1>2, <1>3

\* Every step keeps the coins right.
LEMMA CoinStep == TipInv /\ CoinInv /\ [Next]_vars => CoinInv'
<1> SUFFICES ASSUME TipInv, CoinInv, [Next]_vars PROVE CoinInv'
  OBVIOUS
<1>1. CASE \E b \in Block \ {Genesis}, n \in 0 .. MaxFile : AcceptBlock(b, n)
  <2>1. /\ phase' = phase /\ rev' = rev /\ db' = db /\ tip' = tip /\ utxo' = utxo
        /\ synced' = FlushBlockFile \/ synced' = synced
    BY <1>1, Zenon DEF AcceptBlock
  <2>2. synced' = [blk |-> synced'.blk, rev |-> synced'.rev] /\ synced'.rev \subseteq DOMAIN rev
    BY <2>1 DEF FlushBlockFile, CoinInv
  <2> QED BY <2>1, <2>2 DEF CoinInv, Up
<1>2. CASE \E b \in Block \ {Genesis} : ConnectTip(b)
  BY <1>2, CoinConnect
<1>3. CASE DisconnectTip
  BY <1>3, CoinDisconnect
<1>4. CASE \E f \in BOOLEAN : SyncFiles(f)
  <2>1. /\ phase = "up" /\ phase' = "index" /\ tip' = tip /\ utxo' = utxo
        /\ rev' = rev /\ db' = db /\ synced' = FlushBlockFile
    BY <1>4 DEF SyncFiles, mem
  <2>2. synced' = [blk |-> synced'.blk, rev |-> synced'.rev] /\ synced'.rev \subseteq DOMAIN rev
    BY <2>1 DEF FlushBlockFile, CoinInv
  <2> QED BY <2>1, <2>2 DEF CoinInv, Up
<1>5. CASE WriteIndex
  <2>1. /\ phase = "index" /\ phase' \in {"batch", "up"} /\ tip' = tip /\ utxo' = utxo
        /\ rev' = rev /\ db' = db /\ synced' = synced
    BY <1>5 DEF WriteIndex, mem, files
  <2> QED BY <2>1 DEF CoinInv, Up
<1>6. CASE FinalBatch
  <2>1. /\ phase \in {"batch", "replay"} /\ phase' = "up" /\ tip' = tip /\ utxo' = utxo
        /\ rev' = rev /\ synced' = synced
        /\ db'.coins = utxo /\ db'.best = tip /\ db'.heads = <<>>
    BY <1>6 DEF FinalBatch, mem, files
  <2>2. utxo = UtxoAt[tip] /\ BlockOf(tip) = tip
    BY <2>1, TreeAssumption DEF CoinInv, TipInv, Up, BlockOf
  <2> QED BY <2>1, <2>2 DEF CoinInv, Up
<1>7. CASE \E S \in SUBSET OutPoint : PartialBatch(S)
  BY <1>7, CoinPartial
<1>8. CASE Crash
  <2>1. phase' = "down" /\ db' = db /\ utxo' = NoCoins /\ synced' = synced
    BY <1>8, Zenon DEF Crash
  <2>2. PICK kept \in SUBSET {b \in DOMAIN rev \ synced.rev : disk.have[b] = "undo"} :
          rev' = Restrict(rev, synced.rev \cup kept)
    BY <1>8, Zenon DEF Crash
  <2>3. /\ synced.rev \subseteq DOMAIN rev' /\ DOMAIN rev' \subseteq DOMAIN rev
        /\ \A b \in DOMAIN rev' : rev'[b] = rev[b]
    BY <2>2 DEF Restrict, CoinInv
  <2> QED BY <2>1, <2>3, NoCoinsType, Zenon DEF CoinInv, Up
<1>9. CASE Restart
  BY <1>9, CoinRestart
<1>10. CASE UNCHANGED vars
  <2>1. /\ phase' = phase /\ tip' = tip /\ utxo' = utxo
        /\ rev' = rev /\ db' = db /\ synced' = synced
    BY <1>10 DEF vars, mem, files
  <2> QED BY <2>1, Zenon DEF CoinInv, Up
<1> QED BY <1>1, <1>2, <1>3, <1>4, <1>5, <1>6, <1>7, <1>8, <1>9, <1>10 DEF Next

\* UpdateCoins, ApplyTxInUndo, BatchWrite, ReplayBlocks and LoadChainTip, with no
\* assumption on the files or on how the node began: after any connects, disconnects,
\* flushes and stops, a node has the coins of its tip, and a startup that succeeds
\* has those of the block it names.  What the disk may lose makes startup fail; it
\* never makes the coins wrong.
THEOREM CoinsAreExact == Spec => []CoinsExact
<1>1. Init => TipInv /\ CoinInv
  BY TipInit, CoinInit
<1>2. TipInv /\ CoinInv /\ [Next]_vars => TipInv' /\ CoinInv'
  BY TipStep, CoinStep
<1>3. TipInv /\ CoinInv => CoinsExact
  <2> SUFFICES ASSUME TipInv, CoinInv PROVE CoinsExact
    OBVIOUS
  <2>1. Up => utxo = UtxoAt[tip]
    BY DEF CoinInv
  <2>2. Restarted.ok => Restarted.utxo = UtxoAt[Restarted.tip]
    BY StartupExact DEF Restarted
  <2> QED BY <2>1, <2>2 DEF CoinsExact
<1> QED BY <1>1, <1>2, <1>3, PTL DEF Spec

-----------------------------------------------------------------------------
(***************************************************************************)
(* Starting again.  The index on disk knows, with their undo data, the     *)
(* blocks that startup will need: the chains of the best block, of both    *)
(* heads, and during a flush of the tip.                                   *)
(***************************************************************************)

\* Every block of b's chain but the genesis block has its undo data.
HasChain(status, b) == \A k \in 1 .. Height[b] : status[Chain[b][k]] = "undo"

KnownInv ==
  /\ crashes \in 0 .. MaxCrashes /\ phase # "unstartable"
  /\ file \in [Block -> 0 .. MaxFile] /\ disk.file \in [Block -> 0 .. MaxFile]
  /\ blk \subseteq Block
  /\ disk.have[Genesis] # "none"
  /\ Up => HasChain(have, tip)
  /\ phase = "batch" => HasChain(disk.have, tip)
  /\ db.heads = <<>> => db.best \in Block /\ HasChain(disk.have, db.best)
  /\ db.heads # <<>> =>
       /\ db.heads[2] \in Block
       /\ HasChain(disk.have, db.heads[1]) /\ HasChain(disk.have, db.heads[2])

FlagInv == full \in BOOLEAN

\* An established node's index knows its chain.
LEMMA KnownInit == StartTip # NoBlock /\ Init => KnownInv
<1> SUFFICES ASSUME StartTip # NoBlock, Init PROVE KnownInv
  OBVIOUS
<1> DEFINE chain == Range(Chain[StartTip])
           status == [b \in Block |-> IF b \notin chain THEN "none"
                                      ELSE IF b = Genesis THEN "data" ELSE "undo"]
<1>1. StartTip \in Block /\ Genesis \in Block /\ MaxFile \in Nat /\ MaxCrashes \in Nat
  BY TreeAssumption
<1>2. Chain[StartTip] \in [0 .. Height[StartTip] -> Block]
  BY <1>1, ChainIs
<1>3. \A k \in 0 .. Height[StartTip] : Chain[StartTip][k] \in chain
  BY <1>2, Zenon DEF Range
<1>4. chain \subseteq Block
  BY <1>2, Zenon DEF Range
<1>5. Genesis \in chain
  BY <1>1, <1>3, ChainBottom
<1>6. chain \cup {Genesis} = chain
  BY <1>5
<1>7. /\ phase = "up" /\ full = FALSE /\ crashes = 0 /\ tip = StartTip
      /\ have = status /\ blk = chain
      /\ file = [b \in Block |-> 0]
      /\ disk = [have |-> status, file |-> file, last |-> 0]
      /\ db = [coins |-> utxo, best |-> StartTip, heads |-> <<>>, sapling |-> sapling]
  BY <1>6, Zenon DEF Init
<1> HIDE DEF chain
<1>8. HasChain(status, StartTip)
  <2> SUFFICES ASSUME NEW k \in 1 .. Height[StartTip] PROVE status[Chain[StartTip][k]] = "undo"
    BY DEF HasChain
  <2>1. Chain[StartTip][k] \in Block \ {Genesis}
    BY <1>1, ChainUtxo
  <2>2. k \in 0 .. Height[StartTip]
    BY <1>1, GenesisHeight
  <2>3. Chain[StartTip][k] \in chain
    BY <1>3, <2>2
  <2> QED BY <2>1, <2>3
<1>9. status[Genesis] # "none"
  BY <1>1, <1>5
<1> HIDE DEF status
<1>10. db.heads = <<>> /\ db.best = StartTip /\ disk.have = status /\ disk.file = file
  BY <1>7
<1>11. file \in [Block -> 0 .. MaxFile]
  BY <1>1, <1>7
<1>12. crashes \in 0 .. MaxCrashes
  BY <1>1, <1>7
<1> QED BY <1>1, <1>4, <1>7, <1>8, <1>9, <1>10, <1>11, <1>12 DEF KnownInv

\* Startup succeeds, and ends at the coins of the saved block: from files that have
\* at least what was committed, wherever the node stopped.
LEMMA StartupGood ==
  ASSUME TipInv, BlockInv, UndoInv, CoinInv, KnownInv, NEW B, NEW R \in SUBSET DOMAIN rev,
         synced.blk \subseteq B, synced.rev \subseteq R
  PROVE  /\ Startup(B, R).ok
         /\ Startup(B, R).tip = SavedTip
         /\ Startup(B, R).utxo = UtxoAt[SavedTip]
         /\ SavedTip \in Block /\ HasChain(disk.have, SavedTip)
<1>1. ASSUME NEW b \in Block, HasChain(disk.have, b) PROVE disk.have[b] # "none"
  <2>1. CASE b = Genesis
    BY <2>1 DEF KnownInv
  <2>2. CASE b # Genesis
    <3>1. Height[b] \in 1 .. Height[b]
      BY <2>2, GenesisHeight
    <3>2. Chain[b][Height[b]] = b
      BY ChainIs
    <3> QED BY <1>1, <3>1, <3>2 DEF HasChain
  <2> QED BY <2>1, <2>2
<1>2. CASE db.heads = <<>>
  <2>1. db.best \in Block /\ HasChain(disk.have, db.best)
    BY <1>2 DEF KnownInv
  <2>2. db.best # NoBlock
    BY <2>1, TreeAssumption
  <2>3. disk.have[db.best] # "none"
    BY <1>1, <2>1
  <2>4. Startup(B, R).ok
    BY <1>2, <2>2, <2>3 DEF Startup
  <2>5. SavedTip = db.best
    BY <1>2, <2>2 DEF SavedTip
  <2> QED BY <2>1, <2>4, <2>5, StartupAtSavedTip, StartupExact
<1>3. CASE db.heads # <<>>
  <2> DEFINE new == db.heads[1]
             old == db.heads[2]
             h == Fork(old, new)
  <2>1. /\ new \in Block /\ old \in Block
        /\ HasChain(disk.have, new) /\ HasChain(disk.have, old)
    BY <1>3 DEF CoinInv, KnownInv
  <2>2. old # NoBlock /\ new # NoBlock
    BY <2>1, TreeAssumption
  <2>3. h \in 0 .. Height[old] /\ h \in 0 .. Height[new]
    BY <2>1, ForkIs
  <2> HIDE DEF h
  <2>4. ASSUME NEW a \in Block, HasChain(disk.have, a), h \in 0 .. Height[a], NEW b \in Above(a, h)
        PROVE  b \in Block /\ disk.have[b] = "undo"
    <3>1. a # NoBlock /\ Height[a] \in Nat
      BY TreeAssumption
    <3>2. PICK k \in h + 1 .. Height[a] : b = Chain[a][k]
      BY <3>1 DEF Above
    <3>3. k \in 1 .. Height[a]
      BY <2>4, <3>1
    <3> QED BY <2>4, <3>2, <3>3, ChainUtxo DEF HasChain
  <2>5. ASSUME NEW b \in Above(old, h)
        PROVE  disk.have[b] = "undo" /\ b \in B /\ b \in R
    <3>1. b \in Block /\ disk.have[b] = "undo"
      BY <2>1, <2>3, <2>4
    <3>2. b \in synced.blk /\ b \in synced.rev
      BY <3>1 DEF BlockInv, UndoInv, IndexedBlocksDurable, IndexedUndoDurable
    <3> QED BY <3>1, <3>2
  <2>6. ASSUME NEW b \in Above(new, h) PROVE disk.have[b] # "none" /\ b \in B
    <3>1. b \in Block /\ disk.have[b] = "undo"
      BY <2>1, <2>3, <2>4
    <3>2. b \in synced.blk
      BY <3>1 DEF BlockInv, IndexedBlocksDurable
    <3> QED BY <3>1, <3>2
  <2>7. disk.have[new] # "none" /\ disk.have[old] # "none"
    BY <1>1, <2>1
  <2> DEFINE ready == /\ disk.have[new] # "none"
                      /\ old # NoBlock => disk.have[old] # "none"
                      /\ \A b \in Above(old, h) :
                           (disk.have[b] # "none" /\ b \in B) /\ disk.have[b] = "undo" /\ b \in R
                      /\ \A b \in Above(new, h) : disk.have[b] # "none" /\ b \in B
  <2>8. ready
    BY <2>5, <2>6, <2>7
  <2>9. Startup(B, R) = ReplayBlocks(B, R)
    BY <1>3 DEF Startup
  <2>10. ready => ReplayBlocks(B, R).ok
    BY Zenon DEF ReplayBlocks, Heads, h
  <2> HIDE DEF ready
  <2>11. Startup(B, R).ok
    BY <2>8, <2>9, <2>10
  <2>12. SavedTip = new
    BY <1>3 DEF SavedTip
  <2> HIDE DEF new, old
  <2> QED BY <2>1, <2>11, <2>12, StartupAtSavedTip, StartupExact
<1> QED BY <1>2, <1>3

\* fDoFullFlush is a flag.
LEMMA FlagStep == (Init => FlagInv) /\ (FlagInv /\ [Next]_vars => FlagInv')
<1>1. Init => FlagInv
  BY Zenon DEF Init, FlagInv
<1>2. ASSUME FlagInv, [Next]_vars PROVE FlagInv'
  <2>1. \/ full' = full
        \/ full' \in BOOLEAN
    BY <1>2, Zenon DEF Next, vars, AcceptBlock, ConnectTip, DisconnectTip, SyncFiles, WriteIndex,
       FinalBatch, PartialBatch, Crash, Restart
  <2> QED BY <1>2, <2>1, Zenon DEF FlagInv
<1> QED BY <1>1, <1>2

\* A chain whose blocks keep their undo data remains known.
LEMMA HasChainKept ==
  ASSUME NEW f, NEW g, NEW a \in Block, HasChain(f, a),
         \A b \in Block \ {Genesis} : f[b] = "undo" => g[b] = "undo"
  PROVE  HasChain(g, a)
BY ChainUtxo DEF HasChain

\* What connecting a block does.
LEMMA KnownConnect ==
  ASSUME TipInv, BlockInv, KnownInv, NEW b \in Block \ {Genesis}, ConnectTip(b)
  PROVE  KnownInv'
<1>1. /\ phase = "up" /\ phase' = "up" /\ Parent[b] = tip /\ tip' = b
      /\ file' = file /\ blk' = blk /\ disk' = disk /\ db' = db /\ crashes' = crashes
      /\ have' = [have EXCEPT ![b] = "undo"]
  BY Zenon DEF ConnectTip
<1>2. HasChain(have, Parent[b]) /\ Parent[b] \in Block
  BY <1>1 DEF KnownInv, Up, TipInv
<1>3. have'[b] = "undo" /\ \A a \in Block : have[a] = "undo" => have'[a] = "undo"
  BY <1>1 DEF BlockInv
<1>4. HasChain(have', b)
  <2> SUFFICES ASSUME NEW k \in 1 .. Height[b] PROVE have'[Chain[b][k]] = "undo"
    BY DEF HasChain
  <2>1. Height[b] \in Nat /\ Height[Parent[b]] = Height[b] - 1
    BY TreeAssumption
  <2>2. CASE k = Height[b]
    BY <1>3, <2>2, ChainIs
  <2>3. CASE k # Height[b]
    <3>1. k \in 0 .. Height[b] - 1 /\ k \in 1 .. Height[Parent[b]]
      BY <2>1, <2>3
    <3>2. Chain[b][k] = Chain[Parent[b]][k]
      BY <3>1, ParentChain
    <3>3. have[Chain[b][k]] = "undo" /\ Chain[b][k] \in Block
      BY <1>2, <3>1, <3>2, ChainUtxo DEF HasChain
    <3> QED BY <1>3, <3>3
  <2> QED BY <2>2, <2>3
<1> QED BY <1>1, <1>4 DEF KnownInv, Up

\* What disconnecting the tip does.
LEMMA KnownDisconnect ==
  ASSUME TipInv, KnownInv, DisconnectTip
  PROVE  KnownInv'
<1>1. /\ phase = "up" /\ phase' = "up" /\ tip # Genesis /\ tip' = Parent[tip]
      /\ file' = file /\ blk' = blk /\ disk' = disk /\ db' = db /\ crashes' = crashes
      /\ have' = have
  BY Zenon DEF DisconnectTip, files
<1>2. tip \in Block \ {Genesis} /\ HasChain(have, tip)
  BY <1>1 DEF KnownInv, Up, TipInv
<1>3. Parent[tip] \in Block /\ Height[tip] \in Nat /\ Height[Parent[tip]] = Height[tip] - 1
  BY <1>2, TreeAssumption
<1>4. HasChain(have, Parent[tip])
  <2> SUFFICES ASSUME NEW k \in 1 .. Height[Parent[tip]] PROVE have[Chain[Parent[tip]][k]] = "undo"
    BY DEF HasChain
  <2>1. k \in 0 .. Height[tip] - 1 /\ k \in 1 .. Height[tip]
    BY <1>3
  <2>2. Chain[tip][k] = Chain[Parent[tip]][k]
    BY <1>2, <2>1, ParentChain
  <2> QED BY <1>2, <2>1, <2>2 DEF HasChain
<1> QED BY <1>1, <1>4 DEF KnownInv, Up

\* What a batch that is not the last one does.
LEMMA KnownPartial ==
  ASSUME TipInv, CoinInv, KnownInv, NEW S \in SUBSET OutPoint, PartialBatch(S)
  PROVE  KnownInv'
<1>1. /\ phase \in {"batch", "replay"} /\ phase' = phase /\ tip' = tip /\ have' = have
      /\ file' = file /\ blk' = blk /\ disk' = disk /\ crashes' = crashes
  BY DEF PartialBatch, mem, files
<1>2. db'.best = NoBlock /\ db'.heads = <<tip, OldTip>>
  BY DEF PartialBatch, TipInv
<1>3. OldTip \in Block /\ HasChain(disk.have, OldTip) /\ HasChain(disk.have, tip)
  <2>1. CASE db.heads = <<>>
    <3>1. OldTip = db.best
      BY <2>1 DEF OldTip
    <3>2. phase = "batch"
      BY <1>1, <2>1 DEF TipInv
    <3> QED BY <2>1, <3>1, <3>2 DEF KnownInv
  <2>2. CASE db.heads # <<>>
    <3>1. db.heads[1] = tip
      BY <1>1, <2>2 DEF CoinInv, TipInv
    <3>2. OldTip = db.heads[2]
      BY <2>2 DEF OldTip, CoinInv
    <3> QED BY <2>2, <3>1, <3>2 DEF KnownInv
  <2> QED BY <2>1, <2>2
<1> HIDE DEF OldTip
<1>4. db'.heads # <<>> /\ db'.heads[1] = tip /\ db'.heads[2] = OldTip
  BY <1>2
<1> QED BY <1>1, <1>3, <1>4 DEF KnownInv, Up

\* What a restart does.
LEMMA KnownRestart ==
  ASSUME TipInv, BlockInv, UndoInv, CoinInv, KnownInv, Restart
  PROVE  KnownInv'
<1> DEFINE s == Startup(blk, DOMAIN rev)
<1>1. synced.blk \subseteq blk /\ synced.rev \subseteq DOMAIN rev
  BY DEF BlockInv, UndoInv
<1>2. /\ s.ok /\ s.tip = SavedTip
      /\ SavedTip \in Block /\ HasChain(disk.have, SavedTip)
  BY <1>1, StartupGood
<1>3. /\ phase = "down" /\ tip' = s.tip
      /\ phase' = IF db.heads # <<>> THEN "replay" ELSE "up"
      /\ have' = [have EXCEPT ![Genesis] = "data"] /\ blk' = blk \cup {Genesis}
      /\ file' = file /\ disk' = disk /\ db' = db /\ crashes' = crashes
  BY <1>2 DEF Restart
<1> HIDE DEF s
<1>4. have = disk.have /\ have \in [Block -> Status]
  BY <1>3 DEF BlockInv, Up
<1>5. HasChain(have', SavedTip)
  <2>1. \A b \in Block \ {Genesis} : disk.have[b] = "undo" => have'[b] = "undo"
    BY <1>3, <1>4
  <2> QED BY <1>2, <2>1, HasChainKept
<1>6. Genesis \in Block
  BY TreeAssumption
<1> QED BY <1>2, <1>3, <1>5, <1>6, Zenon DEF KnownInv, Up, SavedTip

\* Every step keeps what startup needs, where the undo data is committed with the blocks.
LEMMA KnownStep ==
  ASSUME TipInv, BlockInv, UndoInv, CoinInv, KnownInv, [Next]_vars
  PROVE  KnownInv'
<1>1. CASE \E b \in Block \ {Genesis}, n \in 0 .. MaxFile : AcceptBlock(b, n)
  <2> PICK b \in Block \ {Genesis}, n \in 0 .. MaxFile : AcceptBlock(b, n)
    BY <1>1
  <2>1. /\ phase' = phase /\ phase = "up" /\ disk' = disk /\ db' = db
        /\ tip' = tip /\ crashes' = crashes /\ blk' = blk \cup {b} /\ have[b] = "none"
        /\ file' = [file EXCEPT ![b] = n] /\ have' = [have EXCEPT ![b] = "data"]
    BY Zenon DEF AcceptBlock
  <2>2. \A a \in Block \ {Genesis} : have[a] = "undo" => have'[a] = "undo"
    BY <2>1 DEF BlockInv
  <2>3. tip \in Block /\ HasChain(have, tip)
    BY <2>1 DEF KnownInv, Up, TipInv
  <2>4. HasChain(have', tip)
    BY <2>2, <2>3, HasChainKept
  <2> QED BY <2>1, <2>4, Zenon DEF KnownInv, Up
<1>2. CASE \E b \in Block \ {Genesis} : ConnectTip(b)
  BY <1>2, KnownConnect
<1>3. CASE DisconnectTip
  BY <1>3, KnownDisconnect
<1>4. CASE \E f \in BOOLEAN : SyncFiles(f)
  <2>1. /\ phase = "up" /\ phase' = "index" /\ tip' = tip /\ have' = have
        /\ file' = file /\ blk' = blk /\ disk' = disk /\ db' = db /\ crashes' = crashes
    BY <1>4 DEF SyncFiles, mem
  <2> QED BY <2>1 DEF KnownInv, Up
<1>5. CASE WriteIndex
  <2>1. /\ phase = "index" /\ phase' \in {"batch", "up"} /\ tip' = tip /\ have' = have
        /\ file' = file /\ blk' = blk /\ db' = db /\ crashes' = crashes
        /\ disk'.have = have /\ disk'.file = file
    BY <1>5 DEF WriteIndex, mem, files
  <2>2. \A a \in Block \ {Genesis} : disk.have[a] = "undo" => have[a] = "undo"
    BY DEF UndoInv
  <2>3. db.heads = <<>> /\ db.best \in Block /\ HasChain(disk.have, db.best)
    BY <2>1 DEF CoinInv, KnownInv
  <2>4. HasChain(have, db.best)
    BY <2>2, <2>3, HasChainKept
  <2>5. have[Genesis] # "none"
    BY <2>1 DEF BlockInv, Up
  <2> QED BY <2>1, <2>3, <2>4, <2>5 DEF KnownInv, Up
<1>6. CASE FinalBatch
  <2>1. /\ phase \in {"batch", "replay"} /\ phase' = "up" /\ tip' = tip /\ have' = have
        /\ file' = file /\ blk' = blk /\ disk' = disk /\ crashes' = crashes
        /\ db'.coins = utxo /\ db'.best = tip /\ db'.heads = <<>>
    BY <1>6 DEF FinalBatch, mem, files
  <2>2. tip \in Block /\ HasChain(have, tip)
    BY <2>1 DEF KnownInv, TipInv, Up
  <2>3. HasChain(disk.have, tip)
    BY <2>1 DEF KnownInv, TipInv
  <2> QED BY <2>1, <2>2, <2>3 DEF KnownInv, Up
<1>7. CASE \E S \in SUBSET OutPoint : PartialBatch(S)
  BY <1>7, KnownPartial
<1>8. CASE Crash
  <2>1. /\ phase' = "down" /\ disk' = disk /\ db' = db /\ file' = disk.file
        /\ crashes < MaxCrashes /\ crashes' = crashes + 1
    BY <1>8, Zenon DEF Crash
  <2>2. blk' \subseteq Block
    BY <1>8 DEF Crash, KnownInv, BlockInv
  <2>3. crashes' \in 0 .. MaxCrashes
    <3>1. crashes \in 0 .. MaxCrashes
      BY Zenon DEF KnownInv
    <3>2. MaxCrashes \in Nat
      BY TreeAssumption, Zenon
    <3> QED BY <2>1, <3>1, <3>2
  <2> QED BY <2>1, <2>2, <2>3, Zenon DEF KnownInv, Up
<1>9. CASE Restart
  BY <1>9, KnownRestart
<1>10. CASE UNCHANGED vars
  <2>1. /\ phase' = phase /\ tip' = tip /\ have' = have /\ crashes' = crashes
        /\ file' = file /\ blk' = blk /\ disk' = disk /\ db' = db
    BY <1>10 DEF vars, mem, files
  <2> QED BY <2>1, Zenon DEF KnownInv, Up
<1> QED BY <1>1, <1>2, <1>3, <1>4, <1>5, <1>6, <1>7, <1>8, <1>9, <1>10 DEF Next

\* The invariants together make the disk sound.
LEMMA InvSound ==
  ASSUME FlagInv, TipInv, BlockInv, UndoInv, CoinInv, KnownInv
  PROVE  DiskSound
<1>1. Recoverable
  <2>1. /\ Startup(synced.blk, synced.rev).ok
        /\ Startup(synced.blk, synced.rev).tip = SavedTip
        /\ Startup(synced.blk, synced.rev).utxo = UtxoAt[SavedTip]
    BY StartupGood DEF UndoInv
  <2> QED BY <2>1 DEF Recoverable
<1>2. IndexedDataDurable
  BY DEF BlockInv, UndoInv, IndexedDataDurable
<1>3. TypeOK
  <2>1. full \in BOOLEAN
    BY Zenon DEF FlagInv
  <2>2. DOMAIN rev \subseteq Block
    BY DEF CoinInv
  <2>3. db.heads # <<>> => db.heads \in Block \X (Block \cup {NoBlock}) /\ db.best = NoBlock
    BY DEF CoinInv
  <2>4. nLastBlockFile \in 0 .. MaxFile
    BY TreeAssumption DEF UndoInv
  <2>5. /\ phase \in {"up", "index", "batch", "down", "replay", "unstartable"}
        /\ tip \in Block /\ utxo \in Coins
        /\ have \in [Block -> Status] /\ disk.have \in [Block -> Status]
        /\ file \in [Block -> 0 .. MaxFile]
        /\ blk \subseteq Block /\ synced.blk \subseteq blk /\ synced.rev \subseteq DOMAIN rev
        /\ db.coins \in Coins /\ db.best \in Block \cup {NoBlock}
        /\ crashes \in 0 .. MaxCrashes
    BY DEF TipInv, BlockInv, UndoInv, CoinInv, KnownInv
  <2> QED BY <2>1, <2>2, <2>3, <2>4, <2>5, Zenon DEF TypeOK
<1> QED BY <1>1, <1>2, <1>3 DEF DiskSound

\* And the tip exact.
LEMMA InvExact ==
  ASSUME TipInv, BlockInv, UndoInv, CoinInv, KnownInv
  PROVE  TipExact
<1> SUFFICES ASSUME phase = "up" PROVE utxo = UtxoAt[tip] /\ (tip # Genesis => CanDisconnect(tip))
  BY DEF TipExact
<1>1. utxo = UtxoAt[tip] /\ tip \in Block /\ HasChain(have, tip)
  BY DEF CoinInv, KnownInv, TipInv, Up
<1>2. ASSUME tip # Genesis PROVE CanDisconnect(tip)
  <2>1. Height[tip] \in 1 .. Height[tip]
    BY <1>1, <1>2, GenesisHeight
  <2>2. have[tip] = "undo"
    BY <1>1, <2>1, ChainIs DEF HasChain
  <2>3. tip \in blk /\ tip \in DOMAIN rev /\ rev[tip] = UndoAt(tip)
    BY <1>1, <2>2 DEF BlockInv, UndoInv, CoinInv
  <2>4. DisconnectBlock(utxo, tip, rev[tip]).clean
    BY <1>1, <1>2, <2>3, UndoAtExact
  <2> QED BY <2>2, <2>3, <2>4 DEF CanDisconnect
<1> QED BY <1>1, <1>2

\* FlushStateToDisk, BatchWrite, ReplayBlocks and LoadChainTip: while the blocks fit in
\* one pair of files, an established node can be stopped between any two writes, any
\* number of times, also in the replay after an earlier stop, and startup ends at
\* exactly the coins of the chain up to its block; whatever the index on disk refers to
\* has been committed.
THEOREM DiskIsSound == MaxFile = 0 /\ StartTip # NoBlock => (Spec => []DiskSound)
<1> SUFFICES ASSUME MaxFile = 0, StartTip # NoBlock PROVE Spec => []DiskSound
  OBVIOUS
<1> DEFINE Inv == FlagInv /\ TipInv /\ BlockInv /\ UndoInv /\ CoinInv /\ KnownInv
<1>1. Init => Inv
  BY FlagStep, TipInit, BlockInit, UndoInit, CoinInit, KnownInit
<1>2. Inv /\ [Next]_vars => Inv'
  BY FlagStep, TipStep, BlockStep, UndoStep, CoinStep, KnownStep
<1>3. Inv => DiskSound
  BY InvSound
<1> QED BY <1>1, <1>2, <1>3, PTL DEF Spec

\* ConnectBlock, DisconnectBlock and the undo files: on the same terms a running node's
\* coins are those of its tip, and DisconnectTip would succeed, block after block.
THEOREM TipIsExact == MaxFile = 0 /\ StartTip # NoBlock => (Spec => []TipExact)
<1> SUFFICES ASSUME MaxFile = 0, StartTip # NoBlock PROVE Spec => []TipExact
  OBVIOUS
<1> DEFINE Inv == TipInv /\ BlockInv /\ UndoInv /\ CoinInv /\ KnownInv
<1>1. Init => Inv
  BY TipInit, BlockInit, UndoInit, CoinInit, KnownInit
<1>2. Inv /\ [Next]_vars => Inv'
  BY TipStep, BlockStep, UndoStep, CoinStep, KnownStep
<1>3. Inv => TipExact
  BY InvExact
<1> QED BY <1>1, <1>2, <1>3, PTL DEF Spec
=============================================================================
