----------------------- MODULE ChainActivationProofs ------------------------
(***************************************************************************)
(* Proofs about ChainActivation, for every block tree: the assertions of   *)
(* CheckBlockIndex and of PruneBlockIndexCandidates hold, no block of the  *)
(* active chain is marked invalid, and no section of ActivateBestChain     *)
(* ends with a worse tip than it began with, as long as the operator acts  *)
(* between two calls of ActivateBestChain only (CarefulOperator).          *)
(*                                                                         *)
(* What CheckBlockIndex asserts holds between the sections.  Inside one    *)
(* the tip may be worse than it was, and what makes the section end well   *)
(* is that the tip it began with is still a candidate: see Kept, Section   *)
(* and Target.                                                             *)
(***************************************************************************)
EXTENDS ChainActivation, FiniteSetTheorems, TLAPS

-----------------------------------------------------------------------------
(* The inductive invariant. *)

Beats(a, b) == Worse(b, a, seqId)

\* A block is linked when the data of all its ancestors is there, and waits in
\* mapBlocksUnlinked when its own is.
Links ==
  /\ \A b \in Block : b \in linked <=> Ancestors[b] \subseteq data
  /\ unlinked = data \ linked

FlagsJustified == \A b \in Flagged : HasFailedAncestor(b)

\* No block of the active chain breaks a rule or is marked invalid.
TipGood == Ancestors[tip] \cap (Flagged \cup Bad) = {}

\* No candidate sorts worse than the tip.
Pruned == \A c \in candidates : ~Beats(tip, c)

\* A block that is not marked is a candidate when it is as good as the tip and,
\* inside a section, as good as the tip of its beginning.
Kept ==
  \A c \in linked \ Flagged :
    ~Beats(tip, c) /\ (~Unlocked => ~Beats(startTip, c)) => c \in candidates

\* Inside a section: the tip of its beginning could be active again, and until
\* the first block of a step is connected the tip is no better.
Section ==
  ~Unlocked =>
    /\ startTip \in linked
    /\ Ancestors[startTip] \cap (Flagged \cup Bad) = {}
    /\ pc \in {"find", "chosen"} \/ ~Descends(mostWork, tip) => ~Beats(tip, startTip)

\* A target is a candidate without marks, above the tip between two sections and
\* as good as the first tip inside one.
Target ==
  /\ pc \in {"chosen", "step"} => mostWork # NoBlock
  /\ pc # "idle" /\ mostWork # NoBlock =>
       /\ mostWork \in candidates
       /\ Ancestors[mostWork] \cap Flagged = {}
       /\ pc = "open" => Descends(mostWork, tip)
       /\ ~Unlocked => ~Beats(startTip, mostWork)

IInv ==
  /\ TypeOK
  /\ Links /\ FlagsJustified /\ TipGood /\ Pruned /\ Kept /\ Section /\ Target
  /\ PruneLeavesCandidate

-----------------------------------------------------------------------------
(* The tree: walks along pprev. *)

\* The set of ancestors is closed under pprev, and any closed set with b has them all.
LEMMA AncestorsSmallest ==
  ASSUME NEW b \in Block
  PROVE  /\ Ancestors[b] \subseteq Block /\ b \in Ancestors[b]
         /\ PrevClosed(Ancestors[b])
         /\ \A S \in SUBSET Block : b \in S /\ PrevClosed(S) => Ancestors[b] \subseteq S
<1>1. Ancestors[b] = {a \in Block : \A S \in SUBSET Block : b \in S /\ PrevClosed(S) => a \in S}
  BY DEF Ancestors
<1>2. PrevClosed(Ancestors[b])
  <2> SUFFICES ASSUME NEW c \in Ancestors[b] \ {Genesis}
               PROVE  Parent[c] \in Ancestors[b]
    BY DEF PrevClosed
  <2>1. c \in Block \ {Genesis} /\ Parent[c] \in Block
    BY <1>1, TreeAssumption
  <2>2. ASSUME NEW S \in SUBSET Block, b \in S, PrevClosed(S)
        PROVE  Parent[c] \in S
    BY <1>1, <2>1, <2>2 DEF PrevClosed
  <2> QED
    BY <1>1, <2>1, <2>2
<1> QED
  BY <1>1, <1>2

\* The ancestors of a block are the block and the ancestors of its pprev.
LEMMA AncestorsStep ==
  ASSUME NEW b \in Block \ {Genesis}
  PROVE  Parent[b] \in Block /\ Ancestors[b] = {b} \cup Ancestors[Parent[b]]
<1>1. Parent[b] \in Block
  BY TreeAssumption
<1>2. {b} \cup Ancestors[Parent[b]] \subseteq Block
  BY <1>1, AncestorsSmallest
<1>3. PrevClosed({b} \cup Ancestors[Parent[b]])
  BY <1>1, AncestorsSmallest DEF PrevClosed
<1>4. Ancestors[b] \subseteq {b} \cup Ancestors[Parent[b]]
  BY <1>2, <1>3, AncestorsSmallest
<1>5. Parent[b] \in Ancestors[b]
  BY AncestorsSmallest DEF PrevClosed
<1>6. Ancestors[Parent[b]] \subseteq Ancestors[b]
  BY <1>1, <1>5, AncestorsSmallest
<1> QED
  BY <1>1, <1>4, <1>6, AncestorsSmallest

\* An ancestor's ancestors are ancestors, and it has less work.
LEMMA AncestorsDown ==
  ASSUME NEW b \in Block, NEW a \in Ancestors[b]
  PROVE  /\ a \in Block /\ Ancestors[a] \subseteq Ancestors[b]
         /\ a = b \/ Work[a] < Work[b]
<1>1. a \in Block /\ Ancestors[a] \subseteq Ancestors[b]
  BY AncestorsSmallest
<1> DEFINE S == {c \in Block : c = b \/ Work[c] < Work[b]}
<1>2. PrevClosed(S)
  <2> SUFFICES ASSUME NEW c \in S \ {Genesis}
               PROVE  Parent[c] \in S
    BY DEF PrevClosed
  <2>1. Parent[c] \in Block /\ Work[Parent[c]] < Work[c]
    BY TreeAssumption
  <2>2. Work[c] \in Nat /\ Work[b] \in Nat /\ Work[Parent[c]] \in Nat
    BY <2>1, TreeAssumption
  <2> QED
    BY <2>1, <2>2
<1>3. Ancestors[b] \subseteq S
  BY <1>2, AncestorsSmallest
<1> QED
  BY <1>1, <1>3

\* A block is no ancestor of its pprev.
LEMMA ParentBelow ==
  ASSUME NEW b \in Block \ {Genesis}
  PROVE  b \notin Ancestors[Parent[b]]
<1>1. Parent[b] \in Block /\ Work[Parent[b]] < Work[b]
  BY TreeAssumption
<1>2. Work[b] \in Nat /\ Work[Parent[b]] \in Nat
  BY <1>1, TreeAssumption
<1> QED
  BY <1>1, <1>2, AncestorsDown

\* Of two ancestors of a block one is an ancestor of the other.
LEMMA AncestorsChain ==
  ASSUME NEW b \in Block, NEW a \in Ancestors[b], NEW c \in Ancestors[b]
  PROVE  a \in Ancestors[c] \/ c \in Ancestors[a]
<1> DEFINE S == {x \in Ancestors[b] : a \in Ancestors[x] \/ x \in Ancestors[a]}
<1>1. S \in SUBSET Block /\ b \in S /\ a \in Block
  BY AncestorsSmallest
<1>2. PrevClosed(S)
  <2> SUFFICES ASSUME NEW x \in S \ {Genesis}
               PROVE  Parent[x] \in S
    BY DEF PrevClosed
  <2>1. x \in Block \ {Genesis} /\ Parent[x] \in Ancestors[b]
    BY <1>1, AncestorsSmallest DEF PrevClosed
  <2>2. CASE x \in Ancestors[a]
    BY <1>1, <2>1, <2>2, AncestorsSmallest DEF PrevClosed
  <2>3. CASE a \in Ancestors[x] /\ x \notin Ancestors[a]
    <3>1. a # x
      BY <1>1, <2>3, AncestorsSmallest
    <3> QED
      BY <2>1, <2>3, <3>1, AncestorsStep
  <2> QED
    BY <2>2, <2>3
<1> QED
  BY <1>1, <1>2, AncestorsSmallest

\* The tree is finite, so inclusion is well founded on sets of blocks.
LEMMA SubsetsWellFounded ==
  IsWellFoundedOn(StrictSubsetOrdering(Block), SUBSET Block)
<1>1. IsFiniteSet(Block)
  BY TreeAssumption
<1>2. FiniteSubsetsOf(Block) = SUBSET Block
  BY <1>1, FS_FiniteSubsetsOfFinite
<1>3. IsWellFoundedOn(StrictSubsetOrdering(Block), FiniteSubsetsOf(Block))
  BY FS_StrictSubsetOrderingWellFounded
<1> QED
  BY <1>2, <1>3

\* Every walk ends at the genesis block.
LEMMA GenesisBelow ==
  ASSUME NEW b \in Block
  PROVE  Genesis \in Ancestors[b]
<1> DEFINE T == {Ancestors[x] : x \in Ancestors[b]}
<1>1. T \subseteq SUBSET Block /\ T # {}
  BY AncestorsSmallest
<1>2. IsWellFoundedOn(StrictSubsetOrdering(Block), SUBSET Block)
  BY SubsetsWellFounded
<1>3. \E A \in T : \A B \in T : <<B, A>> \notin StrictSubsetOrdering(Block)
  BY <1>1, <1>2, WFMin, Zenon
<1>4. PICK x \in Ancestors[b] : \A B \in T : <<B, Ancestors[x]>> \notin StrictSubsetOrdering(Block)
  BY <1>3
<1>5. CASE x # Genesis
  <2>1. x \in Block \ {Genesis} /\ Parent[x] \in Ancestors[b]
    BY <1>5, AncestorsSmallest DEF PrevClosed
  <2>2. /\ Ancestors[Parent[x]] \subseteq Ancestors[x] /\ Ancestors[Parent[x]] # Ancestors[x]
        /\ Ancestors[x] \subseteq Block
    BY <2>1, AncestorsStep, ParentBelow, AncestorsSmallest
  <2>3. <<Ancestors[Parent[x]], Ancestors[x]>> \in StrictSubsetOrdering(Block)
    BY <2>2 DEF StrictSubsetOrdering
  <2> QED
    BY <1>4, <2>1, <2>3
<1> QED
  BY <1>4, <1>5

\* Among blocks of one branch there is a highest one.
LEMMA HighestExists ==
  ASSUME NEW c \in Block, NEW A, A \subseteq Ancestors[c], A # {}
  PROVE  \E t \in A : \A u \in A : u \in Ancestors[t]
<1> DEFINE above(u) == Ancestors[c] \ Ancestors[u]
           T == {above(u) : u \in A}
<1>1. Ancestors[c] \subseteq Block
  BY AncestorsSmallest
<1>2. T \subseteq SUBSET Block /\ T # {}
  BY <1>1, Zenon
<1>3. \E X \in T : \A Y \in T : <<Y, X>> \notin StrictSubsetOrdering(Block)
  BY <1>2, SubsetsWellFounded, WFMin, Zenon
<1>4. PICK t \in A : \A Y \in T : <<Y, above(t)>> \notin StrictSubsetOrdering(Block)
  BY <1>3, Zenon
<1>5. ASSUME NEW u \in A, u \notin Ancestors[t] PROVE FALSE
  <2>1. t \in Ancestors[u] /\ u \in Block
    BY <1>1, <1>5, AncestorsChain
  <2>2. Ancestors[t] \subseteq Ancestors[u] /\ u \in Ancestors[u]
    BY <2>1, AncestorsDown, AncestorsSmallest
  <2>3. above(u) \subseteq above(t) /\ above(u) # above(t) /\ above(t) \subseteq Block
    BY <1>1, <1>5, <2>2
  <2>4. <<above(u), above(t)>> \in StrictSubsetOrdering(Block)
    <3> HIDE DEF above
    <3> QED
      BY <2>3 DEF StrictSubsetOrdering
  <2> QED
    BY <1>4, <2>4
<1> QED
  BY <1>5

-----------------------------------------------------------------------------
(* CBlockIndexWorkComparator. *)

\* The comparator is a strict total order, whatever the numbers of arrival.
LEMMA WorseOrder ==
  ASSUME NEW s \in [Block -> Nat], NEW a \in Block, NEW b \in Block, NEW c \in Block
  PROVE  /\ ~Worse(a, a, s)
         /\ Worse(a, b, s) => ~Worse(b, a, s)
         /\ Worse(a, b, s) /\ Worse(b, c, s) => Worse(a, c, s)
         /\ a = b \/ Worse(a, b, s) \/ Worse(b, a, s)
<1>1. \A d \in {a, b, c} : Work[d] \in Nat /\ Address[d] \in Nat /\ s[d] \in Nat
  BY TreeAssumption
<1>2. Address[a] = Address[b] => a = b
  BY TreeAssumption
<1> QED
  BY <1>1, <1>2 DEF Worse

\* What is not worse composes too.
LEMMA NotWorse ==
  ASSUME NEW s \in [Block -> Nat], NEW a \in Block, NEW b \in Block, NEW c \in Block,
         ~Worse(a, b, s), ~Worse(b, c, s)
  PROVE  ~Worse(a, c, s)
BY WorseOrder

\* A block is worse than what descends from it.
LEMMA AncestorWorse ==
  ASSUME NEW s \in [Block -> Nat], NEW b \in Block, NEW a \in Ancestors[b]
  PROVE  /\ a \in Block /\ ~Worse(b, a, s)
         /\ a # b => Worse(a, b, s)
<1>1. a \in Block /\ (a = b \/ Work[a] < Work[b])
  BY AncestorsDown
<1>2. a # b => Worse(a, b, s)
  BY <1>1 DEF Worse
<1> QED
  BY <1>1, <1>2, WorseOrder

\* The set of candidates has a best element: FindMostWorkChain's rbegin.
LEMMA BestExists ==
  ASSUME TypeOK, candidates # {}
  PROVE  /\ BestCandidate \in candidates
         /\ \A d \in candidates : ~Worse(BestCandidate, d, seqId)
<1> DEFINE better(c) == {d \in candidates : Worse(c, d, seqId)}
           T == {better(c) : c \in candidates}
<1>1. candidates \subseteq Block /\ seqId \in [Block -> Nat]
  BY DEF TypeOK
<1>2. T \subseteq SUBSET Block /\ T # {}
  BY <1>1, Zenon
<1>3. IsWellFoundedOn(StrictSubsetOrdering(Block), SUBSET Block)
  BY SubsetsWellFounded
<1>4. \E A \in T : \A B \in T : <<B, A>> \notin StrictSubsetOrdering(Block)
  BY <1>2, <1>3, WFMin, Zenon
<1>5. PICK c \in candidates : \A B \in T : <<B, better(c)>> \notin StrictSubsetOrdering(Block)
  BY <1>4, Zenon
<1>6. better(c) = {}
  <2> SUFFICES ASSUME NEW d \in better(c) PROVE FALSE
    OBVIOUS
  <2>1. better(d) \subseteq better(c)
    BY <1>1, WorseOrder
  <2>2. d \in better(c) /\ d \notin better(d)
    BY <1>1, WorseOrder
  <2>3. better(c) \subseteq Block
    BY <1>1
  <2>4. <<better(d), better(c)>> \in StrictSubsetOrdering(Block)
    <3> HIDE DEF better
    <3> QED
      BY <2>1, <2>2, <2>3 DEF StrictSubsetOrdering
  <2> QED
    BY <1>5, <2>4
<1>7. \A d \in candidates \ {c} : Worse(d, c, seqId)
  BY <1>1, <1>6, WorseOrder
<1>8. /\ BestCandidate \in candidates
      /\ \A d \in candidates \ {BestCandidate} : Worse(d, BestCandidate, seqId)
  BY <1>7 DEF BestCandidate
<1> QED
  BY <1>1, <1>8, WorseOrder

-----------------------------------------------------------------------------
(* The invariant at the beginning, and what it gives. *)

\* The variables by their types, in the form the steps below use.
LEMMA Types ==
  ASSUME TypeOK
  PROVE  /\ linked \subseteq Block /\ data \subseteq Block /\ index \subseteq Block
         /\ candidates \subseteq Block /\ candidates \subseteq linked
         /\ Flagged \subseteq index
         /\ tip \in Block /\ tip \in linked /\ seqId \in [Block -> Nat]
         /\ mostWork \in Block \cup {NoBlock} /\ startTip \in Block \cup {NoBlock}
BY DEF TypeOK, Flagged

\* A freshly loaded block index satisfies the invariant.
LEMMA InitInv == Init => IInv
<1> SUFFICES ASSUME Init PROVE IInv
  OBVIOUS
<1>1. Genesis \in Block /\ Genesis \notin Bad
  BY TreeAssumption
<1>2. Ancestors[Genesis] = {Genesis}
  <2>1. PrevClosed({Genesis})
    BY DEF PrevClosed
  <2> QED
    BY <1>1, <2>1, AncestorsSmallest
<1>3. TypeOK
  BY <1>1, Zenon DEF Init, TypeOK, PC
<1>4. Links
  <2>1. \A b \in Block : Ancestors[b] \subseteq {Genesis} => b = Genesis
    BY AncestorsSmallest
  <2> QED
    BY <1>2, <2>1 DEF Init, Links
<1>5. FlagsJustified /\ TipGood
  BY <1>1, <1>2 DEF Init, FlagsJustified, TipGood, Flagged
<1>6. Pruned /\ Kept
  BY <1>1, <1>3, WorseOrder DEF Init, Pruned, Kept, Beats, TypeOK
<1>7. Section /\ Target /\ PruneLeavesCandidate
  BY DEF Init, Section, Target, PruneLeavesCandidate, Unlocked
<1> QED
  BY <1>3, <1>4, <1>5, <1>6, <1>7 DEF IInv

\* Inside a section, while the tip is no better than the first one, the first one
\* is a candidate: Section and Kept for the tip of the beginning.
LEMMA StartTipKept ==
  ASSUME IInv, ~Unlocked, pc \in {"find", "chosen"}
  PROVE  startTip \in candidates /\ startTip \in Block
<1>1. startTip \in linked /\ ~Beats(tip, startTip) /\ startTip \notin Flagged /\ startTip \in Block
  BY AncestorsSmallest, Types DEF IInv, Section
<1>2. ~Beats(startTip, startTip)
  BY <1>1, WorseOrder, Types DEF IInv, Beats
<1> QED
  BY <1>1, <1>2 DEF IInv, Kept

\* The invariant implies what the run checks.
LEMMA InvImplies == IInv => BlockIndexSound /\ ActiveChainValid
<1> SUFFICES ASSUME IInv PROVE BlockIndexSound /\ ActiveChainValid
  OBVIOUS
<1>1. ActiveChainValid
  BY DEF IInv, TipGood, ActiveChainValid
<1>2. CandidatesExact
  <2> SUFFICES ASSUME Unlocked, NEW b \in index
               PROVE  IF b \in linked /\ ~Worse(b, tip, seqId)
                      THEN ~HasFailedAncestor(b) => b \in candidates
                      ELSE b \notin candidates
    BY DEF CandidatesExact
  <2>1. b \in Flagged => HasFailedAncestor(b)
    BY DEF IInv, FlagsJustified
  <2>2. b \in linked /\ ~Worse(b, tip, seqId) /\ b \notin Flagged => b \in candidates
    BY DEF IInv, Kept, Beats
  <2>3. b \in candidates => b \in linked /\ ~Worse(b, tip, seqId)
    BY Types DEF IInv, Pruned, Beats
  <2> QED
    BY <2>1, <2>2, <2>3
<1>3. UnlinkedExact
  BY Types DEF IInv, Links, UnlinkedExact
<1>4. FailedMaskJustified
  BY DEF IInv, FlagsJustified, FailedMaskJustified
<1> QED
  BY <1>1, <1>2, <1>3, <1>4 DEF IInv, BlockIndexSound

-----------------------------------------------------------------------------
(* Blocks and headers arrive. *)

\* AcceptBlockHeader touches nothing but mapBlockIndex.
LEMMA AcceptBlockHeaderInv ==
  ASSUME IInv, NEW b \in Block, AcceptBlockHeader(b)
  PROVE  IInv'
<1> USE DEF AcceptBlockHeader, call
<1>1. TypeOK'
  BY DEF IInv, TypeOK
<1>2. Links' /\ FlagsJustified' /\ TipGood' /\ Pruned' /\ Kept'
  BY DEF IInv, Links, FlagsJustified, HasFailedAncestor, TipGood, Pruned, Kept, Flagged, Beats, Unlocked
<1>3. Section' /\ Target' /\ PruneLeavesCandidate'
  BY DEF IInv, Section, Target, PruneLeavesCandidate, Flagged, Beats, Unlocked
<1> QED
  BY <1>1, <1>2, <1>3 DEF IInv

\* ReceivedBlockTransactions' walk over mapBlocksUnlinked finds exactly the blocks
\* that the data of b completes.
LEMMA NowLinkedExact ==
  ASSUME IInv, NEW b \in Block \ {Genesis}, b \notin data, Parent[b] \in linked,
         NEW d \in Block
  PROVE  /\ Ancestors[d] \subseteq data \cup {b} <=> d \in linked \cup NowLinked(b)
         /\ d \in NowLinked(b) => d \notin linked /\ d \in data \cup {b}
<1>1. /\ \A e \in Block : e \in linked <=> Ancestors[e] \subseteq data
      /\ unlinked = data \ linked /\ data \subseteq Block
  BY Types DEF IInv, Links
<1>2. b \in Ancestors[b] /\ Ancestors[b] \subseteq data \cup {b} /\ b \notin linked
  BY <1>1, AncestorsStep, AncestorsSmallest
<1>3. d \in NowLinked(b) => Ancestors[d] \subseteq data \cup {b} /\ d \notin linked /\ d \in data \cup {b}
  BY <1>1, <1>2 DEF NowLinked
<1>4. ASSUME Ancestors[d] \subseteq data \cup {b}, d \notin linked
      PROVE  d \in NowLinked(b)
  <2>1. b \in Ancestors[d] /\ d \in Ancestors[d]
    BY <1>1, <1>4, AncestorsSmallest
  <2>2. d = b \/ d \in unlinked
    BY <1>1, <1>4, <2>1
  <2>3. ASSUME NEW e \in Ancestors[d] \ Ancestors[b] PROVE e \in unlinked
    <3>1. e \in data /\ e \in Block
      BY <1>1, <1>2, <1>4
    <3>2. b \in Ancestors[e]
      BY <2>1, AncestorsChain
    <3> QED
      BY <1>1, <3>1, <3>2
  <2> QED
    BY <2>1, <2>2, <2>3 DEF NowLinked, Descends
<1> QED
  BY <1>1, <1>3, <1>4

\* A block that completes no chain links nothing.
LEMMA NothingLinked ==
  ASSUME IInv, NEW b \in Block \ {Genesis}, b \notin data, Parent[b] \notin linked,
         NEW d \in Block
  PROVE  Ancestors[d] \subseteq data \cup {b} <=> d \in linked
<1>1. \A e \in Block : e \in linked <=> Ancestors[e] \subseteq data
  BY DEF IInv, Links
<1>2. b \in Ancestors[d] => Ancestors[Parent[b]] \subseteq Ancestors[d] /\ Parent[b] \in Block
  BY AncestorsDown, AncestorsStep
<1>3. b \notin Ancestors[Parent[b]]
  BY ParentBelow
<1> QED
  BY <1>1, <1>2, <1>3

\* AcceptBlock with its ReceivedBlockTransactions: what was linked keeps its number,
\* what is linked now becomes a candidate when it is as good as the tip.
LEMMA AcceptBlockInv ==
  ASSUME IInv, NEW b \in Block \ {Genesis}, AcceptBlock(b)
  PROVE  IInv'
<1>1. /\ Unlocked /\ b \notin data /\ index' = index \cup {b} /\ data' = data \cup {b}
      /\ pending' = TRUE
      /\ UNCHANGED <<failed, failedChild, unsaved, tip, pc, mostWork, startTip, oldTip, moved, count>>
  BY DEF AcceptBlock, call
<1>2. /\ linked \subseteq linked' /\ linked' \subseteq data'
      /\ \A d \in Block : d \in linked' <=> Ancestors[d] \subseteq data'
      /\ unlinked' = data' \ linked'
      /\ seqId' \in [Block -> Nat] /\ nBlockSequenceId' \in Nat
      /\ \A d \in linked : seqId'[d] = seqId[d]
      /\ candidates' = candidates \cup {c \in linked' \ linked : ~Worse(c, tip, seqId')}
  <2>1. CASE Parent[b] \in linked
    <3> DEFINE L == NowLinked(b)
               n == nBlockSequenceId
    <3>1. Link(b)
      BY <2>1 DEF AcceptBlock
    <3>2. PICK order \in [L -> n .. n + Cardinality(L) - 1] :
            /\ seqId' = [c \in Block |-> IF c \in L THEN order[c] ELSE seqId[c]]
            /\ nBlockSequenceId' = n + Cardinality(L)
            /\ linked' = linked \cup L
            /\ unlinked' = unlinked \ L
            /\ candidates' = candidates \cup {c \in L : ~Worse(c, tip, seqId')}
      BY <3>1 DEF Link
    <3>3. /\ unlinked = data \ linked /\ linked \subseteq data /\ data \subseteq Block
          /\ seqId \in [Block -> Nat] /\ n \in Nat
      BY DEF IInv, TypeOK, Links
    <3>4. L \subseteq Block
      BY <3>3 DEF NowLinked
    <3>5. Cardinality(L) \in Nat
      BY <3>4, TreeAssumption, FS_Subset, FS_CardinalityType
    <3>6. \A d \in Block : /\ Ancestors[d] \subseteq data \cup {b} <=> d \in linked \cup L
                           /\ d \in L => d \notin linked /\ d \in data \cup {b}
      BY <1>1, <2>1, NowLinkedExact
    <3>7. \A c \in L : order[c] \in Nat
      BY <3>3, <3>5
    <3> HIDE DEF L, n
    <3>8. linked \subseteq linked' /\ linked' \subseteq data' /\ L = linked' \ linked
      BY <1>1, <3>2, <3>3, <3>4, <3>6
    <3>9. \A d \in Block : d \in linked' <=> Ancestors[d] \subseteq data'
      BY <1>1, <3>2, <3>6
    <3>10. unlinked' = data' \ linked'
      <4>1. b \in L
        BY <2>1, <1>1, AncestorsSmallest, AncestorsStep, <3>6, <3>3 DEF IInv, Links
      <4> QED
        BY <1>1, <3>2, <3>3, <4>1
    <3>11. seqId' \in [Block -> Nat] /\ \A d \in linked : seqId'[d] = seqId[d]
      BY <3>2, <3>3, <3>6, <3>7
    <3>12. nBlockSequenceId' \in Nat
      BY <3>2, <3>3, <3>5 DEF n
    <3> QED
      BY <3>2, <3>8, <3>9, <3>10, <3>11, <3>12
  <2>2. CASE Parent[b] \notin linked
    <3>1. /\ unlinked' = unlinked \cup {b}
          /\ UNCHANGED <<linked, seqId, nBlockSequenceId, candidates>>
      BY <2>2 DEF AcceptBlock
    <3>2. \A d \in Block : Ancestors[d] \subseteq data \cup {b} <=> d \in linked
      BY <1>1, <2>2, NothingLinked
    <3>3. b \notin linked /\ linked \subseteq data
      BY <1>1 DEF IInv, TypeOK
    <3> QED
      BY <1>1, <3>1, <3>2, <3>3 DEF IInv, Links, TypeOK
  <2> QED
    BY <2>1, <2>2
<1>3. \A c, d \in linked : Worse(c, d, seqId') <=> Worse(c, d, seqId)
  BY <1>2 DEF Worse
<1>4. tip \in linked /\ candidates \subseteq linked /\ linked \subseteq Block
  BY Types DEF IInv
<1>5. TypeOK'
  <2>1. candidates' \subseteq linked'
    BY <1>2, <1>4
  <2> QED
    BY <1>1, <1>2, <1>4, <2>1 DEF IInv, TypeOK
<1>6. Links' /\ FlagsJustified' /\ TipGood'
  BY <1>1, <1>2 DEF IInv, Links, FlagsJustified, HasFailedAncestor, TipGood, Flagged
<1>7. Pruned'
  BY <1>1, <1>2, <1>3, <1>4 DEF IInv, Pruned, Beats
<1>8. Kept'
  <2> SUFFICES ASSUME NEW c \in (linked \ Flagged)', ~Beats(tip, c)'
               PROVE  c \in candidates'
    BY DEF Kept
  <2>1. CASE c \in linked
    BY <1>1, <1>2, <1>3, <1>4, <2>1 DEF IInv, Kept, Beats, Flagged
  <2>2. CASE c \notin linked
    BY <1>1, <1>2, <2>2 DEF Beats
  <2> QED
    BY <2>1, <2>2
<1>9. Section' /\ Target' /\ PruneLeavesCandidate'
  BY <1>1, <1>2 DEF IInv, Section, Target, PruneLeavesCandidate, Flagged, Unlocked
<1> QED
  BY <1>5, <1>6, <1>7, <1>8, <1>9 DEF IInv

-----------------------------------------------------------------------------
(* The operator's calls. *)

\* InvalidateBlock: the tip walks back below b, and what is as good as the new tip
\* becomes a candidate again.
LEMMA InvalidateBlockInv ==
  ASSUME IInv, CarefulOperator, NEW b \in Block \ {Genesis}, InvalidateBlock(b)
  PROVE  IInv'
<1> DEFINE walked == IF Descends(tip, b) THEN Ancestors[tip] \ (Ancestors[b] \ {b}) ELSE {}
           newTip == TipWithout(b)
<1>1. /\ pc = "idle" /\ b \in index
      /\ failed' = failed \cup {b} /\ failedChild' = failedChild \cup walked
      /\ unsaved' = unsaved \ (walked \cup {b})
      /\ tip' = newTip
      /\ candidates' = (candidates \ (walked \cup {b}))
                       \cup AsGoodAs(newTip, failed' \cup failedChild', seqId)
      /\ pending' = TRUE
      /\ count' = [count EXCEPT !.invalidate = @ + 1]
      /\ UNCHANGED <<index, data, linked, seqId, nBlockSequenceId, unlinked, pc,
                     mostWork, startTip, oldTip, moved>>
  BY DEF InvalidateBlock, call
<1>2. /\ newTip \in Ancestors[tip] /\ newTip \in Block
      /\ b \notin Ancestors[newTip] /\ Ancestors[newTip] \subseteq Ancestors[tip]
      /\ Ancestors[newTip] \cap walked = {}
  <2>1. CASE Descends(tip, b)
    <3>1. newTip = Parent[b] /\ b \in Ancestors[tip] /\ tip \in Block
      BY <2>1, Types DEF IInv, TipWithout, Descends
    <3>2. Parent[b] \in Ancestors[tip] /\ Parent[b] \in Block
      BY <3>1, AncestorsSmallest, AncestorsStep DEF PrevClosed
    <3>3. Ancestors[b] = {b} \cup Ancestors[Parent[b]] /\ b \notin Ancestors[Parent[b]]
      BY AncestorsStep, ParentBelow
    <3> QED
      BY <2>1, <3>1, <3>2, <3>3, AncestorsDown
  <2>2. CASE ~Descends(tip, b)
    BY <2>2, Types, AncestorsSmallest DEF IInv, TipWithout, Descends
  <2> QED
    BY <2>1, <2>2
<1>3. \A c \in walked : c \in Block /\ c \in linked /\ c \in index /\ b \in Ancestors[c]
  <2> SUFFICES ASSUME NEW c \in walked
               PROVE  c \in Block /\ c \in linked /\ c \in index /\ b \in Ancestors[c]
    OBVIOUS
  <2>1. b \in Ancestors[tip] /\ c \in Ancestors[tip] /\ (c \notin Ancestors[b] \/ c = b) /\ tip \in Block
    BY Types DEF IInv, Descends
  <2>2. c \in Block /\ b \in Ancestors[c]
    <3>1. c \in Block /\ b \in Ancestors[b]
      BY <2>1, AncestorsSmallest
    <3>2. b \in Ancestors[c] \/ c \in Ancestors[b]
      BY <2>1, AncestorsChain
    <3> QED
      BY <2>1, <3>1, <3>2
  <2>3. Ancestors[c] \subseteq data
    BY <2>1, AncestorsDown, Types DEF IInv, Links
  <2> QED
    BY <2>2, <2>3, AncestorsSmallest DEF IInv, Links, TypeOK
<1>4. newTip \in linked
  BY <1>2, Types DEF IInv, Links
<1> HIDE DEF walked, newTip
<1>5. Flagged' = Flagged \cup walked \cup {b}
  BY <1>1 DEF Flagged
<1>6. TypeOK'
  <2>1. candidates' \subseteq linked'
    BY <1>1 DEF IInv, TypeOK, AsGoodAs
  <2>2. walked \subseteq index
    BY <1>3
  <2>3. failed' \subseteq index' /\ failedChild' \subseteq index' /\ unsaved' \subseteq failedChild'
    BY <1>1, <2>2 DEF IInv, TypeOK
  <2>4. count' \in [{"header", "invalidate", "reconsider", "restart"} -> Nat]
    BY <1>1 DEF IInv, TypeOK
  <2> QED
    BY <1>1, <1>4, <2>1, <2>3, <2>4, Zenon DEF IInv, TypeOK
<1>7. Links'
  BY <1>1 DEF IInv, Links
<1>8. FlagsJustified'
  <2>1. b \in Ancestors[b]
    BY AncestorsSmallest
  <2> QED
    BY <1>1, <1>3, <1>5, <2>1 DEF IInv, FlagsJustified, HasFailedAncestor
<1>9. TipGood'
  BY <1>1, <1>2, <1>5 DEF IInv, TipGood
<1>10. Pruned'
  <2> SUFFICES ASSUME NEW c \in candidates' PROVE ~Worse(c, newTip, seqId)
    BY <1>1 DEF Pruned, Beats
  <2>1. CASE c \in candidates
    <3>1. ~Worse(c, tip, seqId) /\ ~Worse(tip, newTip, seqId) /\ c \in Block
      BY <1>2, <2>1, Types, AncestorWorse DEF IInv, Pruned, Beats
    <3> QED
      BY <1>2, <3>1, NotWorse, Types DEF IInv
  <2>2. CASE c \in AsGoodAs(newTip, failed' \cup failedChild', seqId)
    BY <2>2 DEF AsGoodAs
  <2> QED
    BY <1>1, <2>1, <2>2
<1>11. Kept'
  BY <1>1 DEF Kept, Beats, AsGoodAs, Flagged
<1>12. Section' /\ Target' /\ PruneLeavesCandidate'
  BY <1>1 DEF Section, Target, PruneLeavesCandidate, Unlocked
<1> QED
  BY <1>6, <1>7, <1>8, <1>9, <1>10, <1>11, <1>12 DEF IInv

\* ReconsiderBlock of the lowest failed block of its branch: no mark above or beside
\* it loses the failed block that justifies it, and what is unmarked comes back.
LEMMA ReconsiderBlockInv ==
  ASSUME IInv, CarefulOperator, NEW b \in Block, ReconsiderBlock(b)
  PROVE  IInv'
<1> DEFINE clear == Below(b) \cup Ancestors[b]
<1>1. /\ pc = "idle" /\ b \in failed /\ Ancestors[b] \cap failed = {b}
      /\ failed' = failed \ clear /\ failedChild' = failedChild \ clear
      /\ unsaved' = unsaved \ clear
      /\ candidates' = candidates \cup {c \in Below(b) \cap linked : Worse(tip, c, seqId)}
      /\ pending' = TRUE
      /\ count' = [count EXCEPT !.reconsider = @ + 1]
      /\ UNCHANGED <<index, data, linked, seqId, nBlockSequenceId, unlinked, tip, pc,
                     mostWork, startTip, oldTip, moved>>
  BY DEF ReconsiderBlock, call
<1>2. \A c \in Flagged : c \in clear => c \in Below(b)
  <2> SUFFICES ASSUME NEW c \in Flagged, c \in Ancestors[b] PROVE c \in Below(b)
    OBVIOUS
  <2>1. PICK a \in Ancestors[c] : a \in failed
    BY DEF IInv, FlagsJustified, HasFailedAncestor
  <2>2. a = b
    BY <1>1, <2>1, AncestorsDown
  <2> QED
    BY <2>1, <2>2 DEF Below, Descends
<1>3. Flagged' = Flagged \ Below(b)
  BY <1>1, <1>2 DEF Flagged
<1> HIDE DEF clear
<1>4. TypeOK'
  BY <1>1 DEF IInv, TypeOK
<1>5. Links'
  BY <1>1 DEF IInv, Links
<1>6. FlagsJustified'
  <2> SUFFICES ASSUME NEW c \in Flagged, c \notin Below(b)
               PROVE  Ancestors[c] \cap failed' # {}
    BY <1>3 DEF FlagsJustified, HasFailedAncestor
  <2>1. PICK a \in Ancestors[c] : a \in failed
    BY DEF IInv, FlagsJustified, HasFailedAncestor
  <2>2. a \notin Below(b)
    <3> SUFFICES ASSUME a \in Below(b) PROVE FALSE
      OBVIOUS
    <3>1. b \in Ancestors[a] /\ c \in Block
      BY Types DEF IInv, Below, Descends
    <3>2. b \in Ancestors[c]
      BY <2>1, <3>1, AncestorsDown
    <3> QED
      BY <3>2 DEF Below, Descends
  <2>3. a \in failed'
    BY <1>1, <1>2, <2>1, <2>2 DEF Flagged
  <2> QED
    BY <2>1, <2>3
<1>7. TipGood'
  BY <1>1, <1>3 DEF IInv, TipGood
<1>8. Pruned'
  BY <1>1, WorseOrder, Types DEF IInv, Pruned, Beats
<1>9. Kept'
  <2> SUFFICES ASSUME NEW c \in linked, c \notin Flagged \/ c \in Below(b), ~Worse(c, tip, seqId)
               PROVE  c \in candidates'
    BY <1>1, <1>3 DEF Kept, Beats
  <2>1. CASE c \notin Flagged
    BY <1>1, <2>1 DEF IInv, Kept, Beats, Unlocked
  <2>2. CASE c \in Below(b)
    <3>1. c \in Flagged
      BY <2>2 DEF Below
    <3>2. c # tip
      BY <3>1, AncestorsSmallest, Types DEF IInv, TipGood
    <3>3. Worse(tip, c, seqId)
      BY <3>2, WorseOrder, Types DEF IInv
    <3> QED
      BY <1>1, <2>2, <3>3
  <2> QED
    BY <2>1, <2>2
<1>10. Section' /\ Target' /\ PruneLeavesCandidate'
  BY <1>1 DEF Section, Target, PruneLeavesCandidate, Unlocked
<1> QED
  BY <1>4, <1>5, <1>6, <1>7, <1>8, <1>9, <1>10 DEF IInv

-----------------------------------------------------------------------------
(* ActivateBestChain. *)

\* A call begins without a target.
LEMMA StartActivateInv ==
  ASSUME IInv, StartActivate
  PROVE  IInv'
<1> USE DEF StartActivate, tree
<1>1. TypeOK'
  BY Zenon DEF IInv, TypeOK, PC
<1>2. Links' /\ FlagsJustified' /\ TipGood' /\ Pruned' /\ Kept'
  BY DEF IInv, Links, FlagsJustified, HasFailedAncestor, TipGood, Pruned, Kept, Flagged, Beats, Unlocked
<1>3. Section' /\ Target' /\ PruneLeavesCandidate'
  BY DEF Section, Target, PruneLeavesCandidate, Unlocked
<1> QED
  BY <1>1, <1>2, <1>3 DEF IInv

\* A section begins at the tip, which a target from the section before is above.
LEMMA EnterSectionInv ==
  ASSUME IInv, EnterSection
  PROVE  IInv'
<1> USE DEF EnterSection, tree
<1>1. TypeOK'
  BY Zenon DEF IInv, TypeOK, PC
<1>2. Links' /\ FlagsJustified' /\ TipGood' /\ Pruned' /\ Kept'
  BY DEF IInv, Links, FlagsJustified, HasFailedAncestor, TipGood, Pruned, Kept, Flagged, Beats, Unlocked
<1>3. Section'
  <2>1. ~Worse(tip, tip, seqId)
    BY WorseOrder, Types DEF IInv
  <2> QED
    BY <2>1, Types DEF IInv, Section, TipGood, Flagged, Beats
<1>4. Target'
  <2> SUFFICES ASSUME mostWork # NoBlock
               PROVE  /\ mostWork \in candidates /\ Ancestors[mostWork] \cap Flagged = {}
                      /\ ~Worse(mostWork, tip, seqId)
    BY DEF Target, Flagged, Beats, Unlocked
  <2>1. mostWork \in candidates /\ Ancestors[mostWork] \cap Flagged = {} /\ Descends(mostWork, tip)
    BY DEF IInv, Target
  <2> QED
    BY <2>1, AncestorWorse, Types DEF IInv, Descends
<1>5. PruneLeavesCandidate'
  BY DEF PruneLeavesCandidate
<1> QED
  BY <1>1, <1>2, <1>3, <1>4, <1>5 DEF IInv

\* FindMostWorkChain drops only blocks that descend from a marked one, and the tip
\* the section began with is not among them.
LEMMA DropFailedCandidateInv ==
  ASSUME IInv, DropFailedCandidate
  PROVE  IInv'
<1> DEFINE c == BestCandidate
           t == FirstFailed(c)
           between == Ancestors[c] \ Ancestors[t]
<1>1. /\ pc = "find" /\ mostWork = NoBlock
      /\ candidates # {} /\ Ahead(c) \cap Flagged # {}
      /\ failedChild' = failedChild \cup between
      /\ unsaved' = unsaved \cup (between \ failedChild)
      /\ candidates' = candidates \ (between \cup {t})
      /\ UNCHANGED <<index, data, failed, linked, seqId, nBlockSequenceId, unlinked,
                     tip, pc, mostWork, startTip, oldTip, moved, pending, count>>
  BY DEF DropFailedCandidate, call
<1>2. c \in candidates /\ c \in Block /\ c \in linked
  BY <1>1, BestExists, Types DEF IInv
<1>3. t \in Ancestors[c] /\ t \in Flagged
  <2>1. \E u \in Ahead(c) \cap Flagged : \A v \in Ahead(c) \cap Flagged : Descends(u, v)
    <3>1. Ahead(c) \cap Flagged \subseteq Ancestors[c]
      BY DEF Ahead
    <3>2. \E u \in Ahead(c) \cap Flagged : \A v \in Ahead(c) \cap Flagged : v \in Ancestors[u]
      <4> DEFINE A == Ahead(c) \cap Flagged
      <4>1. A \subseteq Ancestors[c] /\ A # {} /\ c \in Block
        BY <1>1, <1>2, <3>1
      <4> HIDE DEF c, A
      <4>2. \E u \in A : \A v \in A : v \in Ancestors[u]
        BY <4>1, HighestExists
      <4> QED
        BY <4>2 DEF A
    <3> QED
      BY <3>2 DEF Descends
  <2>2. t \in Ahead(c) \cap Flagged
    BY <2>1 DEF FirstFailed
  <2> QED
    BY <2>2 DEF Ahead
<1>4. \A d \in between : d \in Block /\ d \in linked /\ t \in Ancestors[d]
  <2> SUFFICES ASSUME NEW d \in between
               PROVE  d \in Block /\ d \in linked /\ t \in Ancestors[d]
    OBVIOUS
  <2>1. d \in Block /\ Ancestors[d] \subseteq Ancestors[c]
    BY <1>2, AncestorsDown
  <2>2. t \in Ancestors[d]
    BY <1>2, <1>3, AncestorsChain
  <2> QED
    BY <1>2, <2>1, <2>2 DEF IInv, Links
<1> HIDE DEF c, t, between
<1>5. Flagged' = Flagged \cup between
  BY <1>1 DEF Flagged
<1>6. TypeOK'
  <2>1. between \subseteq index
    BY <1>4 DEF IInv, TypeOK
  <2>2. failedChild' \subseteq index' /\ unsaved' \subseteq failedChild' /\ candidates' \subseteq linked'
    BY <1>1, <2>1 DEF IInv, TypeOK
  <2> QED
    BY <1>1, <2>2 DEF IInv, TypeOK
<1>7. Links'
  BY <1>1 DEF IInv, Links
<1>8. FlagsJustified'
  <2>1. PICK a \in Ancestors[t] : a \in failed
    BY <1>3 DEF IInv, FlagsJustified, HasFailedAncestor
  <2>2. \A d \in between : a \in Ancestors[d]
    BY <1>4, <2>1, AncestorsDown
  <2> QED
    BY <1>1, <1>5, <2>1, <2>2 DEF IInv, FlagsJustified, HasFailedAncestor
<1>9. ASSUME NEW x \in Block, Ancestors[x] \cap (Flagged \cup Bad) = {}
      PROVE  Ancestors[x] \cap (Flagged' \cup Bad) = {}
  <2> SUFFICES ASSUME NEW d \in Ancestors[x], d \in between PROVE FALSE
    BY <1>5, <1>9
  <2>1. t \in Ancestors[x]
    BY <1>4, AncestorsDown
  <2> QED
    BY <1>3, <1>9, <2>1
<1>10. TipGood'
  BY <1>1, <1>9, Types DEF IInv, TipGood
<1>11. Pruned'
  BY <1>1 DEF IInv, Pruned, Beats
<1>12. Kept'
  BY <1>1, <1>3, <1>5 DEF IInv, Kept, Beats, Unlocked
<1>13. Section'
  BY <1>1, <1>9, Types DEF IInv, Section, Beats, Unlocked, Descends
<1>14. Target' /\ PruneLeavesCandidate'
  BY <1>1 DEF Target, PruneLeavesCandidate
<1> QED
  BY <1>6, <1>7, <1>8, <1>10, <1>11, <1>12, <1>13, <1>14 DEF IInv

\* The target is as good as the tip that the section began with, which is a
\* candidate itself; so there is a target.
LEMMA ChooseTargetInv ==
  ASSUME IInv, ChooseTarget
  PROVE  IInv'
<1>1. /\ pc = "find" /\ pc' = "chosen"
      /\ UNCHANGED <<tree, tip, startTip, oldTip, moved, pending, count>>
  BY DEF ChooseTarget
<1> USE DEF tree
<1>2. startTip \in candidates /\ startTip \in Block /\ candidates # {}
  BY <1>1, StartTipKept DEF Unlocked
<1>3. /\ mostWork' \in candidates /\ Ancestors[mostWork'] \cap Flagged = {}
      /\ ~Worse(mostWork', startTip, seqId)
  <2>1. CASE mostWork # NoBlock
    BY <1>1, <2>1 DEF IInv, Target, Beats, Unlocked, ChooseTarget
  <2>2. CASE mostWork = NoBlock
    <3>1. mostWork' = BestCandidate /\ Ahead(BestCandidate) \cap Flagged = {}
      BY <1>2, <2>2 DEF ChooseTarget
    <3>2. BestCandidate \in candidates /\ ~Worse(BestCandidate, startTip, seqId)
      BY <1>2, BestExists DEF IInv
    <3>3. Ancestors[BestCandidate] \cap Flagged = {}
      BY <3>1 DEF Ahead, IInv, TipGood
    <3> QED
      BY <3>1, <3>2, <3>3
  <2> QED
    BY <2>1, <2>2
<1>4. TypeOK'
  BY <1>1, <1>3, Types DEF IInv, TypeOK, PC
<1>5. Links' /\ FlagsJustified' /\ TipGood' /\ Pruned' /\ Kept'
  BY <1>1 DEF IInv, Links, FlagsJustified, HasFailedAncestor, TipGood, Pruned, Kept, Flagged, Beats, Unlocked
<1>6. Section'
  BY <1>1 DEF IInv, Section, Flagged, Beats, Unlocked
<1>7. Target'
  <2>1. mostWork' # NoBlock
    BY <1>3, Types, TreeAssumption DEF IInv
  <2> QED
    BY <1>1, <1>3, <2>1 DEF Target, Flagged, Beats
<1>8. PruneLeavesCandidate'
  BY <1>1 DEF PruneLeavesCandidate
<1> QED
  BY <1>4, <1>5, <1>6, <1>7, <1>8 DEF IInv

\* Where a section ends with a tip as good as its first one, what was kept is what
\* CheckBlockIndex asks for.
LEMMA KeptAtUnlock ==
  ASSUME IInv, ~Unlocked, tip' \in Block, UNCHANGED <<linked, failed, failedChild, seqId>>,
         \A c \in linked \ Flagged :
            ~Worse(c, tip', seqId) /\ ~Worse(c, startTip, seqId) => c \in candidates',
         ~Worse(tip', startTip, seqId), Unlocked'
  PROVE  Kept'
<1> SUFFICES ASSUME NEW c \in linked \ Flagged, ~Worse(c, tip', seqId) PROVE c \in candidates'
  BY DEF Kept, Flagged, Beats
<1>1. c \in Block /\ startTip \in Block /\ seqId \in [Block -> Nat]
  BY Types DEF IInv, Section
<1>2. ~Worse(c, startTip, seqId)
  BY <1>1, NotWorse
<1> QED
  BY <1>2

\* The section ends at once only at the tip it began with, or one as good.
LEMMA NothingToDoInv ==
  ASSUME IInv, NothingToDo
  PROVE  IInv' /\ ~Worse(tip', startTip, seqId)
<1>1. /\ pc = "chosen" /\ mostWork = tip /\ pc' = "idle"
      /\ UNCHANGED <<tree, tip, call, pending, count>>
  BY DEF NothingToDo, AfterSection, IInv, Target
<1> USE DEF tree, call
<1>2. ~Worse(tip', startTip, seqId)
  <2>1. mostWork # NoBlock
    BY <1>1 DEF IInv, Target
  <2> QED
    BY <1>1, <2>1 DEF IInv, Target, Beats, Unlocked
<1>3. TypeOK'
  BY <1>1 DEF IInv, TypeOK, PC
<1>4. Links' /\ FlagsJustified' /\ TipGood' /\ Pruned'
  BY <1>1 DEF IInv, Links, FlagsJustified, HasFailedAncestor, TipGood, Pruned, Flagged, Beats
<1>5. Kept'
  <2>1. \A c \in linked \ Flagged :
          ~Worse(c, tip, seqId) /\ ~Worse(c, startTip, seqId) => c \in candidates
    BY DEF IInv, Kept, Beats
  <2> QED
    BY <1>1, <1>2, <2>1, KeptAtUnlock, Types DEF IInv, Unlocked
<1>6. Section' /\ Target' /\ PruneLeavesCandidate'
  BY <1>1 DEF Section, Target, PruneLeavesCandidate, Unlocked
<1> QED
  BY <1>2, <1>3, <1>4, <1>5, <1>6 DEF IInv

\* A step begins.
LEMMA BeginStepInv ==
  ASSUME IInv, BeginStep
  PROVE  IInv'
<1> USE DEF BeginStep, tree
<1>1. TypeOK'
  BY Types DEF IInv, TypeOK, PC
<1>2. Links' /\ FlagsJustified' /\ TipGood' /\ Pruned' /\ Kept'
  BY Zenon DEF IInv, Links, FlagsJustified, HasFailedAncestor, TipGood, Pruned, Kept, Flagged, Beats, Unlocked
<1>3. Section' /\ Target' /\ PruneLeavesCandidate'
  BY DEF IInv, Section, Target, PruneLeavesCandidate, Flagged, Beats, Unlocked
<1> QED
  BY <1>1, <1>2, <1>3 DEF IInv

\* DisconnectTip towards the fork: the tip gets worse, and was no better than the
\* first one, so nothing has to become a candidate.
LEMMA DisconnectTipInv ==
  ASSUME IInv, DisconnectTip
  PROVE  IInv'
<1>1. /\ pc = "step" /\ ~Descends(mostWork, tip) /\ tip' = Parent[tip]
      /\ UNCHANGED <<tree, pc, call, pending, count>>
  BY DEF DisconnectTip
<1> USE DEF tree, call
<1>2. mostWork \in Block /\ startTip \in Block /\ tip \in Block /\ seqId \in [Block -> Nat]
  BY <1>1, Types DEF IInv, Target, Section, Unlocked
<1>3. tip # Genesis
  BY <1>1, <1>2, GenesisBelow DEF Descends
<1>4. /\ Parent[tip] \in Block /\ Parent[tip] \in Ancestors[tip]
      /\ Ancestors[Parent[tip]] \subseteq Ancestors[tip]
  BY <1>2, <1>3, AncestorsStep, AncestorsSmallest
<1>5. ~Worse(tip, Parent[tip], seqId)
  BY <1>2, <1>4, AncestorWorse
<1>6. ~Worse(startTip, tip, seqId)
  BY <1>1 DEF IInv, Section, Unlocked, Beats
<1>7. ~Worse(startTip, Parent[tip], seqId)
  BY <1>2, <1>4, <1>5, <1>6, NotWorse
<1>8. TypeOK'
  <2>1. Parent[tip] \in linked
    BY <1>2, <1>4, Types DEF IInv, Links
  <2> QED
    BY <1>1, <2>1 DEF IInv, TypeOK
<1>9. Links' /\ FlagsJustified' /\ TipGood'
  BY <1>1, <1>4 DEF IInv, Links, FlagsJustified, HasFailedAncestor, TipGood, Flagged
<1>10. Pruned'
  <2> SUFFICES ASSUME NEW c \in candidates PROVE ~Worse(c, Parent[tip], seqId)
    BY <1>1 DEF Pruned, Beats
  <2>1. ~Worse(c, tip, seqId) /\ c \in Block
    BY Types DEF IInv, Pruned, Beats
  <2> QED
    BY <1>2, <1>4, <1>5, <2>1, NotWorse
<1>11. Kept'
  <2> SUFFICES ASSUME NEW c \in linked \ Flagged, ~Worse(c, startTip, seqId) PROVE c \in candidates
    BY <1>1 DEF Kept, Beats, Flagged, Unlocked
  <2>1. c \in Block
    BY Types DEF IInv
  <2>2. ~Worse(c, tip, seqId)
    BY <1>2, <1>6, <2>1, NotWorse
  <2> QED
    BY <2>2 DEF IInv, Kept, Beats
<1>12. Section'
  BY <1>1, <1>7 DEF IInv, Section, Unlocked, Beats, Flagged
<1>13. Target' /\ PruneLeavesCandidate'
  BY <1>1 DEF IInv, Target, PruneLeavesCandidate, Unlocked, Beats, Flagged
<1> QED
  BY <1>8, <1>9, <1>10, <1>11, <1>12, <1>13 DEF IInv

\* ConnectTip: the target survives PruneBlockIndexCandidates, and a section that
\* ends here ends with a tip as good as its first one.
LEMMA ConnectTipInv ==
  ASSUME IInv, NEW b \in Block \ {Genesis}, ConnectTip(b)
  PROVE  IInv' /\ (Unlocked' => ~Worse(tip', startTip, seqId))
<1>1. /\ pc = "step" /\ Descends(mostWork, tip) /\ tip # mostWork
      /\ b \in Ancestors[mostWork] /\ b \notin Ancestors[tip] /\ Parent[b] = tip /\ b \notin Bad
      /\ tip' = b /\ candidates' = Prune(b)
      /\ UNCHANGED <<index, data, failed, failedChild, unsaved, linked, seqId, nBlockSequenceId,
                     unlinked, mostWork, startTip, oldTip, pending, count>>
  BY Zenon DEF ConnectTip, Ahead
<1>2. /\ mostWork \in Block /\ mostWork \in candidates /\ mostWork \in linked
      /\ Ancestors[mostWork] \cap Flagged = {} /\ ~Worse(mostWork, startTip, seqId)
      /\ startTip \in Block /\ tip \in Block /\ seqId \in [Block -> Nat]
  BY <1>1, Types DEF IInv, Target, Section, Unlocked, Beats
<1>3. ~Worse(mostWork, b, seqId) /\ ~Worse(b, tip, seqId)
  <2>1. tip \in Ancestors[b]
    BY <1>1, AncestorsStep, AncestorsSmallest
  <2> QED
    BY <1>1, <1>2, <2>1, AncestorWorse, Zenon
<1>4. mostWork \in Prune(b)
  BY <1>2, <1>3 DEF Prune
<1>5. /\ pc' \in {"step", "find", "idle", "open"}
      /\ pc' = "find" => Worse(b, startTip, seqId)
      /\ pc' \in {"idle", "open"} => ~Worse(b, startTip, seqId)
      /\ moved' = (moved \/ Work[b] > Work[oldTip] \/ b = mostWork)
  <2>1. Prune(b) # {}
    BY <1>4
  <2>2. CASE Work[b] > Work[oldTip] \/ b = mostWork
    <3>1. pc' = AfterStep(mostWork, b) /\ moved' = (moved \/ Work[b] > Work[oldTip] \/ b = mostWork)
      BY <2>1, <2>2 DEF ConnectTip
    <3> QED
      BY <3>1 DEF AfterStep, AfterSection
  <2>3. CASE ~(Work[b] > Work[oldTip] \/ b = mostWork)
    BY <1>1, <2>1, <2>3 DEF ConnectTip
  <2> QED
    BY <2>2, <2>3
<1>6. TypeOK'
  <2>1. b \in linked
    BY <1>1, <1>2, AncestorsDown DEF IInv, Links
  <2>2. Prune(b) \subseteq candidates
    BY DEF Prune
  <2>3. moved' \in BOOLEAN
    BY <1>5
  <2> QED
    BY <1>1, <1>5, <2>1, <2>2, <2>3 DEF IInv, TypeOK, PC
<1>7. Links' /\ FlagsJustified'
  BY <1>1 DEF IInv, Links, FlagsJustified, HasFailedAncestor, Flagged
<1>8. TipGood'
  <2>1. Ancestors[b] = {b} \cup Ancestors[tip]
    BY <1>1, AncestorsStep
  <2> QED
    BY <1>1, <1>2, <2>1 DEF IInv, TipGood, Flagged
<1>9. Pruned'
  BY <1>1 DEF Pruned, Prune, Beats
<1>10. \A c \in linked \ Flagged :
         ~Worse(c, b, seqId) /\ ~Worse(c, startTip, seqId) => c \in candidates'
  <2> SUFFICES ASSUME NEW c \in linked \ Flagged, ~Worse(c, b, seqId), ~Worse(c, startTip, seqId)
               PROVE  c \in candidates'
    OBVIOUS
  <2>1. c \in Block
    BY Types DEF IInv
  <2>2. ~Worse(c, tip, seqId)
    BY <1>2, <1>3, <2>1, NotWorse
  <2>3. c \in candidates
    BY <2>2 DEF IInv, Kept, Beats
  <2> QED
    BY <1>1, <2>3 DEF Prune
<1>11. Kept'
  <2>1. CASE Unlocked'
    <3>1. ~Unlocked /\ ~Worse(tip', startTip, seqId) /\ tip' \in Block
      BY <1>1, <1>5, <2>1, Zenon DEF Unlocked
    <3> QED
      BY <1>1, <1>10, <2>1, <3>1, KeptAtUnlock
  <2>2. CASE ~Unlocked'
    BY <1>1, <1>10, <2>2, Zenon DEF Kept, Beats, Flagged
  <2> QED
    BY <2>1, <2>2
<1>12. Section'
  <2>1. pc' = "find" => ~Worse(startTip, b, seqId)
    BY <1>2, <1>5, WorseOrder
  <2>2. /\ startTip \in linked
        /\ Ancestors[startTip] \cap (Flagged \cup Bad) = {}
    BY <1>1 DEF IInv, Section, Unlocked
  <2> QED
    BY <1>1, <1>5, <2>1, <2>2 DEF Section, Beats, Unlocked, Flagged, Descends
<1>13. Target'
  BY <1>1, <1>2, <1>4, <1>5, Zenon DEF IInv, Target, Beats, Unlocked, Flagged, Descends
<1>14. PruneLeavesCandidate'
  BY <1>5 DEF PruneLeavesCandidate
<1> QED
  BY <1>1, <1>5, <1>6, <1>7, <1>8, <1>9, <1>11, <1>12, <1>13, <1>14 DEF IInv, Unlocked

\* InvalidBlockFound: the block is no ancestor of the tip, nor of the tip that the
\* section began with, since those were connected once.
LEMMA ConnectTipFailsInv ==
  ASSUME IInv, NEW b \in Block \ {Genesis}, ConnectTipFails(b)
  PROVE  IInv' /\ (Unlocked' => ~Worse(tip', startTip, seqId))
<1>1. /\ pc = "step" /\ b \in Ancestors[mostWork] /\ b \in Bad
      /\ failed' = failed \cup {b} /\ candidates' = candidates \ {b}
      /\ mostWork' = NoBlock /\ moved' = TRUE
      /\ pc' = AfterStep(NoBlock, tip) /\ unsaved' = unsaved \ {b}
      /\ UNCHANGED <<index, data, failedChild, linked, seqId, nBlockSequenceId, unlinked,
                     tip, startTip, oldTip, pending, count>>
  BY Zenon DEF ConnectTipFails, Ahead
<1>2. /\ mostWork \in Block /\ mostWork \in linked
      /\ startTip \in Block /\ tip \in Block /\ seqId \in [Block -> Nat] /\ tip # NoBlock
  BY <1>1, Types, TreeAssumption, Zenon DEF IInv, Target, Section, Unlocked
<1>3. /\ pc' \in {"find", "open"}
      /\ pc' = "find" => Worse(tip, startTip, seqId)
      /\ pc' = "open" => ~Worse(tip, startTip, seqId)
  BY <1>1, <1>2 DEF AfterStep, AfterSection
<1>4. Flagged' = Flagged \cup {b}
  BY <1>1 DEF Flagged
<1>5. b \in linked /\ b \in index
  BY <1>1, <1>2, AncestorsDown DEF IInv, Links, TypeOK
<1>6. TypeOK'
  <2>1. failed' \subseteq index' /\ unsaved' \subseteq failedChild' /\ candidates' \subseteq linked'
    BY <1>1, <1>5 DEF IInv, TypeOK
  <2> QED
    BY <1>1, <1>3, <2>1 DEF IInv, TypeOK, PC
<1>7. Links' /\ TipGood' /\ Pruned'
  BY <1>1, <1>4 DEF IInv, Links, TipGood, Pruned, Beats
<1>8. FlagsJustified'
  <2>1. b \in Ancestors[b]
    BY AncestorsSmallest
  <2> QED
    BY <1>1, <1>4, <2>1 DEF IInv, FlagsJustified, HasFailedAncestor
<1>9. Kept'
  <2> SUFFICES ASSUME NEW c \in linked \ Flagged, c # b, ~Worse(c, tip, seqId),
                      ~Unlocked' => ~Worse(c, startTip, seqId)
               PROVE  c \in candidates
    BY <1>1, <1>4 DEF Kept, Beats
  <2>1. c \in Block
    BY Types DEF IInv
  <2>2. ~Worse(c, startTip, seqId)
    BY <1>2, <1>3, <2>1, NotWorse DEF Unlocked
  <2> QED
    BY <2>2 DEF IInv, Kept, Beats
<1>10. Section'
  <2>1. pc' = "find" => ~Worse(startTip, tip, seqId)
    BY <1>2, <1>3, WorseOrder
  <2>2. /\ startTip \in linked
        /\ Ancestors[startTip] \cap (Flagged \cup Bad) = {}
    BY <1>1 DEF IInv, Section, Unlocked
  <2> QED
    BY <1>1, <1>3, <1>4, <2>1, <2>2, Zenon DEF Section, Beats, Unlocked
<1>11. Target' /\ PruneLeavesCandidate'
  BY <1>1, <1>3, Zenon DEF Target, PruneLeavesCandidate
<1> QED
  BY <1>1, <1>3, <1>6, <1>7, <1>8, <1>9, <1>10, <1>11 DEF IInv, Unlocked

-----------------------------------------------------------------------------
(* Restart, and the theorems. *)

\* LoadBlockIndexDB rebuilds the sets from the written index: the marks that were
\* not saved are gone, and the others are justified as before.
LEMMA RestartInv ==
  ASSUME IInv, Restart
  PROVE  IInv'
<1> DEFINE child == failedChild \ unsaved
           zero  == [b \in Block |-> 0]
<1>1. /\ failedChild' = child /\ unsaved' = {}
      /\ seqId' = zero /\ nBlockSequenceId' = 1
      /\ unlinked' = {b \in data \ {Genesis} : Parent[b] \notin linked}
      /\ candidates' = AsGoodAs(tip, failed \cup child, zero)
      /\ pc' = "idle" /\ pending' = TRUE
      /\ mostWork' = NoBlock /\ startTip' = tip /\ oldTip' = tip /\ moved' = FALSE
      /\ count' = [count EXCEPT !.restart = @ + 1]
      /\ UNCHANGED <<index, data, failed, linked, tip>>
  BY DEF Restart
<1>2. Flagged' = failed \cup child /\ Flagged' \subseteq Flagged
  BY <1>1 DEF Flagged
<1>3. zero \in [Block -> Nat]
  OBVIOUS
<1> HIDE DEF child, zero
<1>4. unlinked' = data \ linked
  <2> SUFFICES ASSUME NEW b \in data, b \in Block
               PROVE  b # Genesis /\ Parent[b] \notin linked <=> b \notin linked
    BY <1>1, Types DEF IInv
  <2>1. CASE b = Genesis
    BY <2>1, GenesisBelow, AncestorsDown, Types DEF IInv, Links
  <2>2. CASE b # Genesis
    BY <2>2, AncestorsStep DEF IInv, Links
  <2> QED
    BY <2>1, <2>2
<1>5. TypeOK'
  <2>1. candidates' \subseteq linked'
    BY <1>1 DEF AsGoodAs
  <2>2. failedChild' \subseteq index' /\ unlinked' \subseteq data'
    BY <1>1, <1>4 DEF child, IInv, TypeOK
  <2>3. seqId' \in [Block -> Nat] /\ nBlockSequenceId' \in Nat /\ pc' \in PC
    BY <1>1, <1>3 DEF PC
  <2>4. {mostWork, startTip, oldTip}' \subseteq Block \cup {NoBlock}
    BY <1>1, Types DEF IInv
  <2>5. count' \in [{"header", "invalidate", "reconsider", "restart"} -> Nat]
    BY <1>1 DEF IInv, TypeOK
  <2> QED
    BY <1>1, <2>1, <2>2, <2>3, <2>4, <2>5, Zenon DEF IInv, TypeOK
<1>6. Links' /\ FlagsJustified' /\ TipGood'
  BY <1>1, <1>2, <1>4 DEF IInv, Links, FlagsJustified, HasFailedAncestor, TipGood
<1>7. Pruned' /\ Kept'
  BY <1>1, <1>2 DEF Pruned, Kept, Beats, AsGoodAs
<1>8. Section' /\ Target' /\ PruneLeavesCandidate'
  BY <1>1 DEF Section, Target, PruneLeavesCandidate, Unlocked
<1> QED
  BY <1>5, <1>6, <1>7, <1>8 DEF IInv

\* A step that changes nothing.
LEMMA StutterInv ==
  ASSUME IInv, UNCHANGED vars
  PROVE  IInv'
<1> USE DEF vars, tree, call
<1>1. TypeOK' /\ Links' /\ FlagsJustified' /\ TipGood' /\ Pruned'
  BY DEF IInv, TypeOK, Links, FlagsJustified, HasFailedAncestor, TipGood, Pruned, Flagged, Beats
<1>2. Kept' /\ Section' /\ Target' /\ PruneLeavesCandidate'
  BY DEF IInv, Kept, Section, Target, PruneLeavesCandidate, Flagged, Beats, Unlocked
<1> QED
  BY <1>1, <1>2 DEF IInv

\* Every step keeps the invariant, and one that leaves a section leaves a tip that is
\* as good as the section's first one.
LEMMA StepInv ==
  ASSUME IInv, CarefulOperator, [Next]_vars
  PROVE  IInv' /\ (LeavesSection => ~Worse(tip', startTip, seqId))
<1>1. CASE \E b \in Block \ {Genesis} :
             AcceptBlockHeader(b) \/ AcceptBlock(b) \/ InvalidateBlock(b)
  <2>1. PICK b \in Block \ {Genesis} : AcceptBlockHeader(b) \/ AcceptBlock(b) \/ InvalidateBlock(b)
    BY <1>1
  <2>2. Unlocked
    BY <2>1 DEF AcceptBlockHeader, AcceptBlock, InvalidateBlock
  <2> QED
    BY <2>1, <2>2, AcceptBlockHeaderInv, AcceptBlockInv, InvalidateBlockInv DEF Unlocked, LeavesSection
<1>2. CASE \E b \in Block : ReconsiderBlock(b)
  <2>1. PICK b \in Block : ReconsiderBlock(b)
    BY <1>2
  <2>2. Unlocked
    BY <2>1 DEF ReconsiderBlock
  <2> QED
    BY <2>1, <2>2, ReconsiderBlockInv DEF Unlocked, LeavesSection
<1>3. CASE Restart
  <2>1. Unlocked
    BY <1>3 DEF Restart
  <2> QED
    BY <1>3, <2>1, RestartInv DEF Unlocked, LeavesSection
<1>4. CASE StartActivate \/ EnterSection
  <2>1. Unlocked
    BY <1>4 DEF StartActivate, EnterSection, Unlocked
  <2> QED
    BY <1>4, <2>1, StartActivateInv, EnterSectionInv DEF Unlocked, LeavesSection
<1>5. CASE DropFailedCandidate \/ ChooseTarget \/ BeginStep \/ DisconnectTip
  <2>1. pc' \notin {"idle", "open"}
    BY <1>5 DEF DropFailedCandidate, ChooseTarget, BeginStep, DisconnectTip, Unlocked
  <2> QED
    BY <1>5, <2>1, DropFailedCandidateInv, ChooseTargetInv, BeginStepInv, DisconnectTipInv
       DEF LeavesSection
<1>6. CASE NothingToDo
  BY <1>6, NothingToDoInv
<1>7. CASE \E b \in Block \ {Genesis} : ConnectTip(b) \/ ConnectTipFails(b)
  BY <1>7, ConnectTipInv, ConnectTipFailsInv DEF LeavesSection, Unlocked
<1>8. CASE UNCHANGED vars
  BY <1>8, StutterInv DEF LeavesSection, vars
<1> QED
  BY <1>1, <1>2, <1>3, <1>4, <1>5, <1>6, <1>7, <1>8 DEF Next, Activate

\* CheckBlockIndex and PruneBlockIndexCandidates: in every block tree and however
\* blocks, headers, marks and restarts interleave with the sections of
\* ActivateBestChain, the candidates, the unlinked blocks and the failure flags are
\* what these functions assert, and no block of the active chain is marked invalid.
THEOREM BlockIndexSafe ==
  CarefulOperator => (Spec => [](BlockIndexSound /\ ActiveChainValid))
<1> SUFFICES ASSUME CarefulOperator PROVE Spec => [](BlockIndexSound /\ ActiveChainValid)
  OBVIOUS
<1>1. IInv /\ [Next]_vars => IInv'
  BY StepInv
<1> QED
  BY InitInv, InvImplies, <1>1, PTL DEF Spec

\* ActivateBestChain never releases cs_main with a tip that sorts worse than the one
\* it found when it took the lock, whatever it had to disconnect in between.
THEOREM SectionsLoseNothing ==
  CarefulOperator => (Spec => NoLossAtUnlock)
<1> SUFFICES ASSUME CarefulOperator PROVE Spec => NoLossAtUnlock
  OBVIOUS
<1>1. IInv /\ [Next]_vars => IInv'
  BY StepInv
<1>2. IInv /\ [Next]_vars => [LeavesSection => ~Worse(tip', startTip, seqId)]_vars
  BY StepInv
<1> QED
  BY InitInv, <1>1, <1>2, PTL DEF Spec, NoLossAtUnlock
=============================================================================
