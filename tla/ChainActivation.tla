-------------------------- MODULE ChainActivation ---------------------------
(***************************************************************************)
(* The block tree and the choice of the active chain (validation.cpp):     *)
(* mapBlockIndex with its status flags, setBlockIndexCandidates,           *)
(* mapBlocksUnlinked, and ActivateBestChain, which moves the tip in        *)
(* several sections under cs_main and keeps its target, pindexMostWork,    *)
(* from one section to the next.  Between two sections any other thread    *)
(* may take cs_main: a block or header arrives, an operator invalidates or *)
(* reconsiders a block.  Only ActivateBestChain itself is excluded by      *)
(* m_cs_chainstate.                                                        *)
(*                                                                         *)
(* A block that ConnectBlock rejects is a member of Bad.  Failures of the  *)
(* disk, which end the process, and GetPrevIndex's exception for a failed  *)
(* block that is a checkpoint are not part of this module.                 *)
(***************************************************************************)
EXTENDS Integers, FiniteSets, FiniteSetsExt, Sequences

CONSTANTS
  Block, Genesis, NoBlock,
  Parent,        \* pprev
  Work,          \* nChainWork
  Address,       \* the order of the CBlockIndex pointers
  Bad,           \* the blocks that violate a consensus rule
  CarefulOperator, \* TRUE: the operator acts only while no ActivateBestChain runs,
                   \* and reconsiders only a failed block with no failed ancestor
  MaxHeaders, MaxInvalidate, MaxReconsider, MaxRestarts  \* bounds on these operations

\* Following pprev from a block of S does not leave S.
PrevClosed(S) == \A c \in S \ {Genesis} : Parent[c] \in S

\* The blocks from b down to the genesis block, b included: the smallest set with
\* b that pprev does not leave.
Ancestors ==
  [b \in Block |-> {a \in Block : \A S \in SUBSET Block : b \in S /\ PrevClosed(S) => a \in S}]
Descends(b, a) == a \in Ancestors[b]

ASSUME TreeAssumption ==
  /\ NoBlock \notin Block /\ Genesis \in Block \ Bad /\ IsFiniteSet(Block)
  /\ Parent \in [Block \ {Genesis} -> Block]
  /\ Work \in [Block -> Nat]
  /\ Address \in [Block -> Nat] /\ \A b, c \in Block : Address[b] = Address[c] => b = c
  /\ \A b \in Block \ {Genesis} : Work[b] > Work[Parent[b]]
  /\ Bad \subseteq Block
  /\ CarefulOperator \in BOOLEAN
  /\ {MaxHeaders, MaxInvalidate, MaxReconsider, MaxRestarts} \subseteq Nat

VARIABLES
  index,       \* mapBlockIndex
  data,        \* BLOCK_HAVE_DATA
  failed,      \* BLOCK_FAILED_VALID
  failedChild, \* BLOCK_FAILED_CHILD
  unsaved,     \* the BLOCK_FAILED_CHILD flags set without setDirtyBlockIndex
  linked,      \* nChainTx # 0
  seqId, nBlockSequenceId,
  candidates,  \* setBlockIndexCandidates
  unlinked,    \* mapBlocksUnlinked: the blocks B of the pairs A->B
  tip,         \* chainActive.Tip()
  pc,          \* where ActivateBestChain is
  mostWork, startTip, oldTip, moved,  \* its pindexMostWork, starting_tip,
                                      \* pindexOldTip and blocks_connected
  pending,     \* a caller of ActivateBestChain waits for m_cs_chainstate
  count        \* how often the bounded operations happened

tree == <<index, data, failed, failedChild, unsaved, linked, seqId, nBlockSequenceId,
          candidates, unlinked>>
call == <<mostWork, startTip, oldTip, moved>>
vars == <<tree, tip, pc, call, pending, count>>

Flagged == failed \cup failedChild

\* "idle": no call.  "open": a call is between two sections.  "find", "chosen"
\* and "step" are inside a section, under cs_main.  "aborted": an assert failed.
PC == {"idle", "open", "find", "chosen", "step", "aborted"}
Unlocked == pc \in {"idle", "open"}

\* The block tree, its flags and sets, and the state of ActivateBestChain are well typed.
TypeOK ==
  /\ index \subseteq Block /\ data \subseteq index /\ linked \subseteq data
  /\ failed \subseteq index /\ failedChild \subseteq index /\ unsaved \subseteq failedChild
  /\ seqId \in [Block -> Nat] /\ nBlockSequenceId \in Nat
  /\ candidates \subseteq linked
  /\ unlinked \subseteq data
  /\ tip \in linked
  /\ pc \in PC
  /\ {mostWork, startTip, oldTip} \subseteq Block \cup {NoBlock}
  /\ moved \in BOOLEAN /\ pending \in BOOLEAN
  /\ count \in [{"header", "invalidate", "reconsider", "restart"} -> Nat]

Init ==
  /\ index = {Genesis} /\ data = {Genesis} /\ linked = {Genesis}
  /\ failed = {} /\ failedChild = {} /\ unsaved = {}
  /\ seqId = [b \in Block |-> 0] /\ nBlockSequenceId = 1
  /\ candidates = {Genesis} /\ unlinked = {}
  /\ tip = Genesis
  /\ pc = "idle"
  /\ mostWork = NoBlock /\ startTip = Genesis /\ oldTip = Genesis /\ moved = FALSE
  /\ pending = FALSE
  /\ count = [o \in {"header", "invalidate", "reconsider", "restart"} |-> 0]

\* CBlockIndexWorkComparator: a sorts before b, by work, then by time of
\* arrival, then by address.
Worse(a, b, seq) ==
  \/ Work[a] < Work[b]
  \/ Work[a] = Work[b] /\ seq[a] > seq[b]
  \/ Work[a] = Work[b] /\ seq[a] = seq[b] /\ Address[a] > Address[b]

-----------------------------------------------------------------------------
(* Blocks and headers arrive. *)

\* GetPrevIndex without its checkpoint exception.
PrevUsable(b) == Parent[b] \in index \ Flagged

\* A header from a "headers" message, or the one AcceptBlock keeps of a block
\* it then refuses: AcceptBlockHeader adds it to mapBlockIndex.
AcceptBlockHeader(b) ==
  /\ Unlocked /\ count.header < MaxHeaders
  /\ b \notin index /\ PrevUsable(b)
  /\ index' = index \cup {b}
  /\ count' = [count EXCEPT !.header = @ + 1]
  /\ UNCHANGED <<data, failed, failedChild, unsaved, linked, seqId, nBlockSequenceId,
                 candidates, unlinked, tip, pc, call, pending>>

\* The blocks that become linked with b: b and what waited for it.
NowLinked(b) ==
  {d \in unlinked \cup {b} : Descends(d, b) /\ Ancestors[d] \ Ancestors[b] \subseteq unlinked}

\* ReceivedBlockTransactions, for a block whose parents all have their data:
\* number b and what waited for it breadth first, and make each one a
\* candidate that is as good as the tip.
Link(b) ==
  LET L == NowLinked(b)
      n == nBlockSequenceId
  IN  \E order \in [L -> n .. n + Cardinality(L) - 1] :
        /\ \A c, d \in L : order[c] = order[d] => c = d
        /\ \A c, d \in L : Cardinality(Ancestors[c]) < Cardinality(Ancestors[d])
                             => order[c] < order[d]
        /\ seqId' = [c \in Block |-> IF c \in L THEN order[c] ELSE seqId[c]]
        /\ nBlockSequenceId' = n + Cardinality(L)
        /\ linked' = linked \cup L
        /\ unlinked' = unlinked \ L
        /\ candidates' = candidates \cup {c \in L : ~Worse(c, tip, seqId')}

\* ProcessNewBlock up to ActivateBestChain: AcceptBlock stores the block.
AcceptBlock(b) ==
  /\ Unlocked
  /\ b \notin data \cup Flagged /\ PrevUsable(b)
  /\ index' = index \cup {b}
  /\ data' = data \cup {b}
  /\ IF Parent[b] \in linked
     THEN Link(b)
     ELSE unlinked' = unlinked \cup {b}
          /\ UNCHANGED <<linked, seqId, nBlockSequenceId, candidates>>
  /\ pending' = TRUE
  /\ UNCHANGED <<failed, failedChild, unsaved, tip, pc, call, count>>

-----------------------------------------------------------------------------
(* The operator's calls: each is followed by ActivateBestChain. *)

\* What InvalidateBlock and LoadBlockIndexDB make candidates: the linked valid
\* blocks as good as t.
AsGoodAsBetter(t, flagged, seq) == {c \in linked \ flagged : Worse(t, c, seq)}

AsGoodAs(t, flagged, seq) == {c \in linked \ flagged : ~Worse(c, t, seq)}

\* The tip that remains when b and what follows it are disconnected.
TipWithoutStays(b) == tip

TipWithout(b) == IF Descends(tip, b) THEN Parent[b] ELSE tip

\* InvalidateBlock: flag b, walk the tip back below it flagging what it passes,
\* and make every valid block as good as the new tip a candidate again.
InvalidateBlock(b) ==
  LET walked == IF Descends(tip, b) THEN Ancestors[tip] \ (Ancestors[b] \ {b}) ELSE {}
      newTip == TipWithout(b)
  IN  /\ Unlocked /\ count.invalidate < MaxInvalidate
      /\ CarefulOperator => pc = "idle" /\ ~pending
      /\ b \in index \ {Genesis}
      /\ failed' = failed \cup {b}
      /\ failedChild' = failedChild \cup walked
      /\ unsaved' = unsaved \ (walked \cup {b})
      /\ tip' = newTip
      /\ candidates' = (candidates \ (walked \cup {b}))
                       \cup AsGoodAs(newTip, failed' \cup failedChild', seqId)
      /\ pending' = TRUE
      /\ count' = [count EXCEPT !.invalidate = @ + 1]
      /\ UNCHANGED <<index, data, linked, seqId, nBlockSequenceId, unlinked, pc, call>>

\* The blocks whose flags ReconsiderBlock's first loop clears.
Below(b) == {d \in Flagged : Descends(d, b)}

\* ReconsiderBlock: clear the flags of b, its descendants and its ancestors; of
\* these only b and its descendants are put back among the candidates.
ReconsiderBlock(b) ==
  LET below == Below(b)
      clear == below \cup Ancestors[b]
  IN  /\ Unlocked /\ count.reconsider < MaxReconsider
      /\ CarefulOperator => /\ pc = "idle" /\ ~pending
                            /\ b \in failed /\ Ancestors[b] \cap failed = {b}
      /\ b \in index /\ clear \cap Flagged # {}
      /\ failed' = failed \ clear
      /\ failedChild' = failedChild \ clear
      /\ unsaved' = unsaved \ clear
      /\ candidates' = candidates \cup {c \in below \cap linked : Worse(tip, c, seqId)}
      /\ pending' = TRUE
      /\ count' = [count EXCEPT !.reconsider = @ + 1]
      /\ UNCHANGED <<index, data, linked, seqId, nBlockSequenceId, unlinked, tip, pc, call>>

-----------------------------------------------------------------------------
(* ActivateBestChain. *)

\* LOCK(m_cs_chainstate).
StartActivate ==
  /\ pc = "idle" /\ pending
  /\ pending' = FALSE
  /\ pc' = "open"
  /\ mostWork' = NoBlock
  /\ UNCHANGED <<tree, tip, startTip, oldTip, moved, count>>

\* LOCK(cs_main).
EnterSection ==
  /\ pc = "open"
  /\ pc' = "find"
  /\ startTip' = tip /\ moved' = FALSE
  /\ UNCHANGED <<tree, tip, mostWork, oldTip, pending, count>>

BestCandidate ==
  CHOOSE c \in candidates : \A d \in candidates \ {c} : Worse(d, c, seqId)

\* The blocks between the active chain and c.
Ahead(c) == Ancestors[c] \ Ancestors[tip]

\* The block where FindMostWorkChain's walk down from c meets a failure.
FirstFailed(c) ==
  CHOOSE t \in Ahead(c) \cap Flagged : \A u \in Ahead(c) \cap Flagged : Descends(t, u)

\* FindMostWorkChain: the best candidate descends from a failed block; it and
\* the blocks between go.
DropFailedCandidate ==
  LET c == BestCandidate
      t == FirstFailed(c)
      between == Ancestors[c] \ Ancestors[t]
  IN  /\ pc = "find" /\ mostWork = NoBlock
      /\ candidates # {} /\ Ahead(c) \cap Flagged # {}
      /\ failedChild' = failedChild \cup between
      /\ unsaved' = unsaved \cup (between \ failedChild)
      /\ candidates' = candidates \ (between \cup {t})
      /\ UNCHANGED <<index, data, failed, linked, seqId, nBlockSequenceId, unlinked,
                     tip, pc, call, pending, count>>

\* The target is the one kept from the section before, or the best candidate.
ChooseTarget ==
  /\ pc = "find"
  /\ \/ mostWork # NoBlock /\ UNCHANGED mostWork
     \/ mostWork = NoBlock /\ candidates = {} /\ UNCHANGED mostWork
     \/ /\ mostWork = NoBlock /\ candidates # {}
        /\ Ahead(BestCandidate) \cap Flagged = {}
        /\ mostWork' = BestCandidate
  /\ pc' = "chosen"
  /\ UNCHANGED <<tree, tip, startTip, oldTip, moved, pending, count>>

\* Where a section ends the call ends too if nothing moved or the target is
\* reached.
AfterSectionStops(target, t, m) == "idle"

AfterSection(target, t, m) == IF ~m \/ target = t THEN "idle" ELSE "open"

NothingToDo ==
  /\ pc = "chosen"
  /\ mostWork \in {NoBlock, tip}
  /\ pc' = AfterSection(mostWork, tip, moved)
  /\ UNCHANGED <<tree, tip, call, pending, count>>

BeginStep ==
  /\ pc = "chosen"
  /\ mostWork \notin {NoBlock, tip}
  /\ pc' = "step"
  /\ oldTip' = tip
  /\ UNCHANGED <<tree, tip, mostWork, startTip, moved, pending, count>>

\* The end of ActivateBestChainStep: the section goes on while the tip is worse
\* than it was when the section began.
AfterStepUnlocks(target, t) == AfterSection(target, t, TRUE)

AfterStep(target, t) ==
  IF Worse(t, startTip, seqId) THEN "find" ELSE AfterSection(target, t, TRUE)

\* On the way to the fork with the target, which never lies on the active chain.
DisconnectTip ==
  /\ pc = "step" /\ ~Descends(mostWork, tip)
  /\ tip' = Parent[tip]
  /\ UNCHANGED <<tree, pc, call, pending, count>>

\* PruneBlockIndexCandidates, which asserts that something is left.
Prune(t) == {c \in candidates : ~Worse(c, t, seqId)}

\* ConnectTip of the next block on the way to the target.  The step ends when
\* there is more work than in the old tip, or at the target.
ConnectTip(b) ==
  /\ pc = "step" /\ Descends(mostWork, tip) /\ tip # mostWork
  /\ b \in Ahead(mostWork) /\ Parent[b] = tip /\ b \notin Bad
  /\ tip' = b
  /\ candidates' = Prune(b)
  /\ LET done == Work[b] > Work[oldTip] \/ b = mostWork
     IN  /\ pc' = IF Prune(b) = {} THEN "aborted"
                  ELSE IF done THEN AfterStep(mostWork, b) ELSE pc
         /\ moved' = (moved \/ done)
  /\ UNCHANGED <<index, data, failed, failedChild, unsaved, linked, seqId, nBlockSequenceId,
                 unlinked, mostWork, startTip, oldTip, pending, count>>

\* ConnectBlock refuses it: InvalidBlockFound, and the target is given up.
ConnectTipFails(b) ==
  /\ pc = "step" /\ Descends(mostWork, tip) /\ tip # mostWork
  /\ b \in Ahead(mostWork) /\ Parent[b] = tip /\ b \in Bad
  /\ failed' = failed \cup {b}
  /\ candidates' = candidates \ {b}
  /\ mostWork' = NoBlock
  /\ moved' = TRUE
  /\ pc' = AfterStep(NoBlock, tip)
  /\ unsaved' = unsaved \ {b}
  /\ UNCHANGED <<index, data, failedChild, linked, seqId, nBlockSequenceId, unlinked,
                 tip, startTip, oldTip, pending, count>>

\* Shutdown, which ends ActivateBestChain between two sections, and start:
\* LoadBlockIndexDB and LoadChainTip rebuild from the written index, in which
\* the order of arrival is gone; ThreadImport calls ActivateBestChain.
Restart ==
  LET child == failedChild \ unsaved
      zero  == [b \in Block |-> 0]
  IN  /\ Unlocked /\ count.restart < MaxRestarts
      /\ failedChild' = child /\ unsaved' = {}
      /\ seqId' = zero /\ nBlockSequenceId' = 1
      /\ unlinked' = {b \in data \ {Genesis} : Parent[b] \notin linked}
      /\ candidates' = AsGoodAs(tip, failed \cup child, zero)
      /\ pc' = "idle" /\ pending' = TRUE
      /\ mostWork' = NoBlock /\ startTip' = tip /\ oldTip' = tip /\ moved' = FALSE
      /\ count' = [count EXCEPT !.restart = @ + 1]
      /\ UNCHANGED <<index, data, failed, linked, tip>>

Activate ==
  \/ StartActivate \/ EnterSection
  \/ DropFailedCandidate \/ ChooseTarget
  \/ NothingToDo \/ BeginStep
  \/ DisconnectTip
  \/ \E b \in Block \ {Genesis} : ConnectTip(b) \/ ConnectTipFails(b)

Next ==
  \/ Activate
  \/ \E b \in Block \ {Genesis} :
       AcceptBlockHeader(b) \/ AcceptBlock(b) \/ InvalidateBlock(b)
  \/ \E b \in Block : ReconsiderBlock(b)
  \/ Restart

\* Every caller of AcceptBlock, InvalidateBlock and ReconsiderBlock goes on to
\* ActivateBestChain, whose thread is scheduled.
Spec == Init /\ [][Next]_vars /\ WF_vars(Activate)

-----------------------------------------------------------------------------
(* Properties.  CheckBlockIndex takes cs_main, so what it asserts is asserted *)
(* between the sections.                                                      *)

HasFailedAncestor(b) == Ancestors[b] \cap failed # {}

\* CheckBlockIndex on setBlockIndexCandidates, on which the choice of the chain
\* rests: a linked block that sorts at least as good as the tip and descends
\* from no failed block is a candidate; one that sorts worse is not.
CandidatesExact ==
  Unlocked =>
    \A b \in index :
      IF b \in linked /\ ~Worse(b, tip, seqId)
      THEN ~HasFailedAncestor(b) => b \in candidates
      ELSE b \notin candidates

\* CheckBlockIndex on nChainTx and mapBlocksUnlinked: a block is linked when no
\* ancestor's data is missing, and a block with data that misses some waits in
\* mapBlocksUnlinked, so that none is forgotten whatever the order of arrival.
UnlinkedExact ==
  Unlocked =>
    \A b \in index :
      LET complete == Ancestors[b] \subseteq data
      IN  /\ b \in linked <=> complete
          /\ IF b \in data /\ ~complete THEN ~HasFailedAncestor(b) => b \in unlinked
             ELSE b \notin unlinked

\* CheckBlockIndex on the flags, "The failed mask cannot be set for blocks
\* without invalid parents."
FailedMaskJustified ==
  Unlocked => \A b \in Flagged : HasFailedAncestor(b)

\* FindMostWorkChain's "we know all blocks in it are valid already": no block of
\* the active chain is marked invalid, whatever happened between the sections.
ActiveChainValid == Unlocked => Ancestors[tip] \cap Flagged = {}

\* PruneBlockIndexCandidates, "Either the current tip or a successor of it we're
\* working towards is left in setBlockIndexCandidates.": its assert holds.
PruneLeavesCandidate == pc # "aborted"

LeavesSection == pc \notin {"idle", "open"} /\ pc' \in {"idle", "open"}

\* A section of ActivateBestChain, which may disconnect blocks before it finds
\* that the better branch is invalid, never leaves cs_main with a tip that
\* sorts worse than the one it began with.
NoLossAtUnlock == [][LeavesSection => ~Worse(tip', startTip, seqId)]_vars

\* The blocks that could be active: linked, and neither they nor an ancestor
\* break a rule or were marked invalid.
Usable == {b \in linked : Ancestors[b] \cap (Bad \cup failed) = {}}

\* ActivateBestChain, "The result is either failure or an activated best
\* chain": from some time on no usable block has more work than the tip.
BestChainActive == <>[](\A b \in Usable : Work[b] <= Work[tip])

\* The assertions of CheckBlockIndex and of PruneBlockIndexCandidates: the
\* candidates, the unlinked blocks and the failure flags are exactly what the blocks
\* received and marked so far make them.
BlockIndexSound ==
  /\ TypeOK
  /\ CandidatesExact
  /\ UnlinkedExact
  /\ FailedMaskJustified
  /\ PruneLeavesCandidate
=============================================================================
