----------------------------- MODULE BlockSync -----------------------------
(***************************************************************************)
(* A node fetching the chain of its peers (src/src/net_processing.cpp and  *)
(* AcceptBlock of src/src/validation.cpp).                                 *)
(*                                                                         *)
(* Headers-first synchronisation is off in this program                    *)
(* (HeadersFirstSyncingActive() is false): a node sends one getblocks per  *)
(* peer, the peer answers with inventories of at most Limit blocks, the    *)
(* node asks for the ones it does not know and processes each block when   *)
(* it arrives.  A block whose parent is unknown is dropped, and answered   *)
(* by another getblocks.                                                   *)
(*                                                                         *)
(* The peers run the same program: the module has both sides, the node     *)
(* that synchronises and the handlers that serve it, joined by a pair of   *)
(* queues per connection.  Blocks form a given tree, are valid and are     *)
(* proof of stake; every block adds the same work.  Time is abstracted: a  *)
(* timeout that may be due may happen.                                     *)
(***************************************************************************)
EXTENDS Integers, FiniteSets, Sequences, FiniteSetsExt, SequencesExt

CONSTANTS
  Peer,
  Preferred,     \* the peers with fPreferredDownload
  Block,         \* the blocks but for the genesis block
  Genesis, Nil,
  Parent,        \* [Block -> Block \cup {Genesis}]
  Scenarios,     \* what the instance looks at: [tip, peers, tips, fCloseToToday]
  Limit,         \* 500, the nLimit of getblocks
  MaxReorg,      \* -maxreorg
  InTransit,     \* MAX_BLOCKS_IN_TRANSIT_PER_PEER
  Window,        \* BLOCK_DOWNLOAD_WINDOW
  MaxConnects    \* bound of the instance: connections made

ASSUME BlockSyncAssumption ==
  /\ Preferred \subseteq Peer
  /\ Genesis \notin Block /\ Nil \notin Block \cup Peer \cup {Genesis}
  /\ Parent \in [Block -> Block \cup {Genesis}]
  /\ \A s \in Scenarios : /\ s.tip \in Block \cup {Genesis} /\ s.tips \subseteq Block \cup {Genesis}
                            /\ s.peers \subseteq Peer /\ s.fCloseToToday \in BOOLEAN
  /\ Limit > MaxReorg /\ MaxReorg > 0 /\ InTransit > 0 /\ Window > 0

VARIABLES
  scenario,  \* where the node starts, the peers that connect, the tips they may
             \* have, and whether the best header is less than six hours old
  index,     \* mapBlockIndex
  data,      \* those with BLOCK_HAVE_DATA
  tip,       \* chainActive.Tip()
  node,      \* mapNodeState and the CNode of every connected peer, or Nil
  inflight,  \* mapBlocksInFlight, to the peer alone
  counters,  \* [nSyncStarted, nQueuedValidatedHeaders]
  server,    \* the peer's side of every connection
  toServer, toNode,   \* [Peer -> sequence of messages]
  connects   \* connections made so far

vars == <<scenario, index, data, tip, node, inflight, counters, server, toServer, toNode, connects>>

----------------------------------------------------------------------------
(* The tree of blocks.                                                     *)

PathTo[b \in Block \cup {Genesis}] == IF b = Genesis THEN {b} ELSE PathTo[Parent[b]] \cup {b}

Ancestors == [b \in Block \cup {Genesis} |-> PathTo[b]]
Height == [b \in Block \cup {Genesis} |-> Cardinality(Ancestors[b]) - 1]

GetAncestor(b, h) == CHOOSE a \in Ancestors[b] : Height[a] = h

LastCommonAncestor(a, b) ==
  CHOOSE c \in Ancestors[a] \cap Ancestors[b] :
    \A d \in Ancestors[a] \cap Ancestors[b] : Height[d] <= Height[c]

\* The blocks after from on the way to b, up to a height.
Path(from, b, h) == [n \in 1..(h - Height[from]) |-> GetAncestor(b, Height[from] + n)]

----------------------------------------------------------------------------
(* Messages.  A locator names the chain it was made of: it is never longer *)
(* than the part of the chain that it lists block by block.                *)

GetBlocks(stop) == [type |-> "getblocks", locator |-> tip, stop |-> stop]
GetData(hashes) == [type |-> "getdata", hashes |-> hashes]
Inv(hashes) == [type |-> "inv", hashes |-> hashes]
BlockMsg(b) == [type |-> "block", hash |-> b]

Post(queue, p, m) == [queue EXCEPT ![p] = Append(@, m)]
Take(queue, p) == [queue EXCEPT ![p] = Tail(@)]

Connected == {p \in Peer : node[p] # Nil}

NewNode ==
  [pindexBestKnownBlock |-> Nil, hashLastUnknownBlock |-> Nil, pindexLastCommonBlock |-> Nil,
   fSyncStarted |-> FALSE, stalling |-> FALSE, vBlocksInFlight |-> <<>>, nBlocksInFlight |-> 0,
   vBlockRequested |-> {}]

NewServer(t) == [tip |-> t, known |-> Ancestors[t], invs |-> <<>>, getdata |-> <<>>, hashContinue |-> Nil]

Init ==
  /\ scenario \in Scenarios
  /\ tip = scenario.tip
  /\ index = Ancestors[tip] /\ data = index
  /\ node = [p \in Peer |-> Nil]
  /\ inflight = <<>>
  /\ counters = [nSyncStarted |-> 0, nQueuedValidatedHeaders |-> 0]
  /\ server \in [Peer -> {NewServer(t) : t \in scenario.tips}]
  /\ toServer = [p \in Peer |-> <<>>] /\ toNode = [p \in Peer |-> <<>>]
  /\ connects = 0

----------------------------------------------------------------------------
(* Connections.                                                            *)

InitializeNode(p) ==
  /\ p \in scenario.peers /\ node[p] = Nil
  /\ connects < MaxConnects
  /\ connects' = connects + 1
  /\ node' = [node EXCEPT ![p] = NewNode]
  /\ UNCHANGED <<scenario, index, data, tip, inflight, counters, server, toServer, toNode>>

\* mutant: the blocks in flight from a peer stay in flight when it goes
GiveBackNone(p) == inflight

SyncEnds(p) == IF node[p].fSyncStarted THEN 1 ELSE 0

\* The blocks in flight from the peer are given back; nQueuedValidatedHeaders
\* is not.  Both sides lose the connection and what was on its way.
GiveBack(p) == [b \in {c \in DOMAIN inflight : c \notin ToSet(node[p].vBlocksInFlight)} |-> inflight[b]]

FinalizeNode(p) ==
  /\ node[p] # Nil
  /\ counters' = [counters EXCEPT !.nSyncStarted = @ - SyncEnds(p)]
  /\ inflight' = GiveBack(p)
  /\ node' = [node EXCEPT ![p] = Nil]
  /\ server' = [server EXCEPT ![p].invs = <<>>, ![p].getdata = <<>>, ![p].hashContinue = Nil]
  /\ toServer' = [toServer EXCEPT ![p] = <<>>] /\ toNode' = [toNode EXCEPT ![p] = <<>>]
  /\ UNCHANGED <<scenario, index, data, tip, connects>>

----------------------------------------------------------------------------
(* Blocks in flight: st is [node, inflight, counters].                     *)

MarkBlockAsReceived(st, b) ==
  IF b \notin DOMAIN st.inflight THEN st ELSE
  LET p == st.inflight[b] IN
  [node |-> [st.node EXCEPT ![p].vBlocksInFlight = SelectSeq(@, LAMBDA c : c # b),
                            ![p].nBlocksInFlight = @ - 1, ![p].stalling = FALSE],
   inflight |-> [c \in DOMAIN st.inflight \ {b} |-> st.inflight[c]],
   counters |-> [st.counters EXCEPT !.nQueuedValidatedHeaders = @ - 1]]

MarkBlockAsInFlight(st, p, b) ==
  LET free == MarkBlockAsReceived(st, b) IN
  [node |-> [free.node EXCEPT ![p].vBlocksInFlight = Append(@, b), ![p].nBlocksInFlight = @ + 1],
   inflight |-> (b :> p) @@ free.inflight,
   counters |-> [free.counters EXCEPT !.nQueuedValidatedHeaders = @ + 1]]

\* UpdateBlockAvailability of a peer for the blocks it announces, one by one: the
\* last of the known ones with the most work is its best known block, the last of
\* the unknown ones is remembered, and taken up again when it is known.
UpdateBlockAvailability(s, hashes) ==
  LET known == SelectSeq(<<s.pindexBestKnownBlock, s.hashLastUnknownBlock>> \o hashes,
                         LAMBDA b : b \in index)
      unknown == SelectSeq(<<s.hashLastUnknownBlock>> \o hashes, LAMBDA b : b \notin index \cup {Nil})
      best == {n \in DOMAIN known : \A m \in DOMAIN known : Height[known[m]] <= Height[known[n]]}
  IN  [s EXCEPT !.pindexBestKnownBlock = IF best = {} THEN Nil ELSE known[Max(best)],
                !.hashLastUnknownBlock = IF unknown = <<>> THEN Nil ELSE Last(unknown)]

ProcessBlockAvailability(s) == UpdateBlockAvailability(s, <<>>)

\* One block of the walk of FindNextBlocksToDownload.
VisitBlock(w, b, p, count, windowEnd) ==
  IF w.done THEN w
  ELSE IF b \in data THEN [w EXCEPT !.common = b]
  ELSE IF b \in DOMAIN inflight THEN [w EXCEPT !.waitingfor = IF @ = Nil THEN inflight[b] ELSE @]
  ELSE IF Height[b] > windowEnd
  THEN [w EXCEPT !.done = TRUE,
                 !.staller = IF w.vBlocks = <<>> /\ w.waitingfor # p THEN w.waitingfor ELSE Nil]
  ELSE [w EXCEPT !.vBlocks = Append(@, b), !.done = Len(w.vBlocks) + 1 = count]

FindNextBlocksToDownload(p, count) ==
  LET s == ProcessBlockAvailability(node[p])
      best == s.pindexBestKnownBlock
      nothing == [state |-> s, vBlocks |-> <<>>, staller |-> Nil]
  IN  IF best = Nil THEN nothing ELSE IF Height[best] < Height[tip] THEN nothing ELSE
      LET guess == IF s.pindexLastCommonBlock # Nil THEN s.pindexLastCommonBlock ELSE tip
          start == LastCommonAncestor(guess, best)
          windowEnd == Height[start] + Window
          path == Path(start, best, Min({Height[best], windowEnd + 1}))
          walk == FoldLeft(LAMBDA w, b : VisitBlock(w, b, p, count, windowEnd),
                           [common |-> start, vBlocks |-> <<>>, waitingfor |-> Nil,
                            staller |-> Nil, done |-> FALSE], path)
      IN  [state |-> [s EXCEPT !.pindexLastCommonBlock = walk.common],
           vBlocks |-> walk.vBlocks, staller |-> walk.staller]

----------------------------------------------------------------------------
(* SendMessages of the node.                                               *)

fFetch(p) == p \in Preferred \/ Connected \cap Preferred = {}

StartSync(p) ==
  /\ node[p] # Nil /\ ~node[p].fSyncStarted
  /\ (counters.nSyncStarted = 0 /\ fFetch(p)) \/ scenario.fCloseToToday

\* The getdata of SendMessages, with the staller it finds.
FetchBlocks(p) ==
  LET found == FindNextBlocksToDownload(p, InTransit - node[p].nBlocksInFlight)
      st0 == [node |-> [node EXCEPT ![p] = found.state], inflight |-> inflight, counters |-> counters]
      st == FoldLeft(LAMBDA x, b : MarkBlockAsInFlight(x, p, b), st0, found.vBlocks)
      stall == st.node[p].nBlocksInFlight = 0 /\ found.staller # Nil
  IN  [node |-> IF stall THEN [st.node EXCEPT ![found.staller].stalling = TRUE] ELSE st.node,
       inflight |-> st.inflight, counters |-> st.counters,
       messages |-> IF found.vBlocks = <<>> THEN <<>> ELSE <<GetData(found.vBlocks)>>]

SendMessages(p) ==
  /\ node[p] # Nil
  /\ LET start == StartSync(p) IN
     \E st \in {IF fFetch(p) /\ node[p].nBlocksInFlight < InTransit THEN FetchBlocks(p)
                ELSE [node |-> node, inflight |-> inflight, counters |-> counters, messages |-> <<>>]} :
       /\ node' = [st.node EXCEPT ![p].fSyncStarted = @ \/ start]
       /\ counters' = [st.counters EXCEPT !.nSyncStarted = IF start THEN @ + 1 ELSE @]
       /\ inflight' = st.inflight
       /\ toServer' = [toServer EXCEPT
            ![p] = @ \o (IF start THEN <<GetBlocks(Nil)>> ELSE <<>>) \o st.messages]
  /\ UNCHANGED <<scenario, index, data, tip, server, toNode, connects>>

\* SendMessages finds that the peer stalls or that its first block in flight is
\* overdue, and disconnects it.
Timeout(p) ==
  /\ node[p] # Nil
  /\ node[p].stalling \/ node[p].vBlocksInFlight # <<>>
  /\ FinalizeNode(p)

----------------------------------------------------------------------------
(* Messages to the node.                                                   *)

\* The inv message: every block is noted, the unknown ones are asked for.
ReceiveInv(p) ==
  /\ node[p] # Nil /\ toNode[p] # <<>> /\ Head(toNode[p]).type = "inv"
  /\ LET hashes == Head(toNode[p]).hashes
         vToFetch == SelectSeq(hashes, LAMBDA b : b \notin index \cup DOMAIN inflight)
     IN  /\ node' = [node EXCEPT ![p] = UpdateBlockAvailability(@, hashes)]
         /\ toServer' = IF vToFetch = <<>> THEN toServer ELSE Post(toServer, p, GetData(vToFetch))
  /\ toNode' = Take(toNode, p)
  /\ UNCHANGED <<scenario, index, data, tip, inflight, counters, server, connects>>

\* ContextualCheckBlockHeader: the header of a block too far below the tip does
\* not get into mapBlockIndex.
AcceptedHeader(b) == Height[tip] - Height[b] < MaxReorg

\* The branch that AcceptBlock walks down from the parent to the active chain.
Branch(b) == Ancestors[Parent[b]] \ Ancestors[tip]

\* mutant: the length of the branch is not limited
AcceptedOnForkAnyDepth(b) == AcceptedHeader(b) /\ (tip = Parent[b] \/ Parent[b] \in data)

\* AcceptBlock's checks of a proof-of-stake block that is not on the tip: its
\* parent is on disk and the branch is shorter than the limit.  The header is
\* in mapBlockIndex by then.
AcceptedOnFork(b) ==
  /\ AcceptedHeader(b)
  /\ tip = Parent[b] \/ (Parent[b] \in data /\ Cardinality(Branch(b)) < MaxReorg)

\* ProcessNewBlock: AcceptBlock, then ActivateBestChain.
ProcessNewBlock(b) ==
  /\ index' = IF AcceptedHeader(b) THEN index \cup {b} ELSE index
  /\ data' = IF AcceptedOnFork(b) THEN data \cup {b} ELSE data
  /\ tip' = IF AcceptedOnFork(b) /\ Height[b] > Height[tip] THEN b ELSE tip

\* The block message: without its parent a block is dropped and getblocks is
\* sent up to it, or up to its parent when it was asked for that way before.
ReceiveBlock(p) ==
  /\ node[p] # Nil /\ toNode[p] # <<>> /\ Head(toNode[p]).type = "block"
  /\ LET b == Head(toNode[p]).hash
         stop == IF b \in node[p].vBlockRequested THEN Parent[b] ELSE b
         st == MarkBlockAsReceived([node |-> node, inflight |-> inflight, counters |-> counters], b)
     IN  \/ /\ Parent[b] \notin index
            /\ toServer' = Post(toServer, p, GetBlocks(stop))
            /\ node' = [node EXCEPT ![p].vBlockRequested = @ \cup {stop}]
            /\ UNCHANGED <<index, data, tip, inflight, counters>>
         \/ /\ Parent[b] \in index /\ b \notin index
            /\ ProcessNewBlock(b)
            /\ node' = st.node /\ inflight' = st.inflight /\ counters' = st.counters
            /\ UNCHANGED toServer
         \/ /\ b \in index
            /\ UNCHANGED <<index, data, tip, node, inflight, counters, toServer>>
  /\ toNode' = Take(toNode, p)
  /\ UNCHANGED <<scenario, server, connects>>

----------------------------------------------------------------------------
(* The peer.                                                               *)

\* getblocks: the blocks behind the fork, up to the stop block or to Limit.
ServeGetBlocks(p) ==
  /\ node[p] # Nil /\ toServer[p] # <<>> /\ Head(toServer[p]).type = "getblocks"
  /\ server[p].getdata = <<>>
  /\ LET m == Head(toServer[p])
         t == server[p].tip
         fork == LastCommonAncestor(m.locator, t)
         end == IF m.stop \in Ancestors[t] \ Ancestors[fork] THEN Height[m.stop] - 1 ELSE Height[t]
         sent == Path(fork, t, Min({end, Height[fork] + Limit}))
     IN  server' = [server EXCEPT
           ![p].invs = @ \o sent,
           ![p].hashContinue = IF Len(sent) = Limit THEN Last(sent) ELSE @]
  /\ toServer' = Take(toServer, p)
  /\ UNCHANGED <<scenario, index, data, tip, node, inflight, counters, toNode, connects>>

\* getdata: into vRecvGetData.
ServeGetData(p) ==
  /\ node[p] # Nil /\ toServer[p] # <<>> /\ Head(toServer[p]).type = "getdata"
  /\ server[p].getdata = <<>>
  /\ server' = [server EXCEPT ![p].getdata = Head(toServer[p]).hashes]
  /\ toServer' = Take(toServer, p)
  /\ UNCHANGED <<scenario, index, data, tip, node, inflight, counters, toNode, connects>>

\* mutant: a full inventory is never followed by that of the tip
ContinuesNever(p, b) == FALSE

Continues(p, b) == b = server[p].hashContinue

\* ProcessGetData: one block a time; the last one of a full inventory is
\* followed by an inventory of the tip.
ProcessGetData(p) ==
  /\ node[p] # Nil /\ server[p].getdata # <<>>
  /\ LET b == Head(server[p].getdata)
         s == server[p]
         send == /\ b \in s.known
                 /\ b \in Ancestors[s.tip] \/ Height[s.tip] - Height[b] < MaxReorg
         continue == send /\ Continues(p, b)
     IN  /\ server' = [server EXCEPT ![p].getdata = Tail(@),
                                     ![p].hashContinue = IF continue THEN Nil ELSE @]
         /\ toNode' = [toNode EXCEPT ![p] = @ \o (IF send THEN <<BlockMsg(b)>> ELSE <<>>)
                                              \o (IF continue THEN <<Inv(<<s.tip>>)>> ELSE <<>>)]
  /\ UNCHANGED <<scenario, index, data, tip, node, inflight, counters, toServer, connects>>

\* SendMessages of the peer.
SendInventory(p) ==
  /\ node[p] # Nil /\ server[p].invs # <<>>
  /\ toNode' = Post(toNode, p, Inv(server[p].invs))
  /\ server' = [server EXCEPT ![p].invs = <<>>]
  /\ UNCHANGED <<scenario, index, data, tip, node, inflight, counters, toServer, connects>>

\* The peer's chain moves on: UpdatedBlockTip announces the new tip.
UpdatedBlockTip(p) ==
  /\ p \in scenario.peers
  /\ \E t \in scenario.tips :
       /\ Height[t] > Height[server[p].tip]
       /\ server' = [server EXCEPT ![p].tip = t, ![p].known = @ \cup Ancestors[t],
                                   ![p].invs = IF node[p] = Nil THEN @ ELSE Append(@, t)]
  /\ UNCHANGED <<scenario, index, data, tip, node, inflight, counters, toServer, toNode, connects>>

----------------------------------------------------------------------------

Handle(p) ==
  \/ ReceiveInv(p) \/ ReceiveBlock(p)
  \/ ServeGetBlocks(p) \/ ServeGetData(p) \/ ProcessGetData(p) \/ SendInventory(p)

Next ==
  \E p \in Peer :
    \/ InitializeNode(p) \/ FinalizeNode(p) \/ Timeout(p)
    \/ SendMessages(p) \/ Handle(p)
    \/ UpdatedBlockTip(p)

Spec == Init /\ [][Next]_vars

\* The message threads of the node and of its peers keep running: a message
\* that is there is handled, and a SendMessages that starts the synchronisation
\* is called.
FairSpec ==
  Spec /\ \A p \in Peer : WF_vars(Handle(p)) /\ WF_vars(StartSync(p) /\ SendMessages(p))

----------------------------------------------------------------------------
(* Properties.                                                             *)

\* The node's tables of blocks and peers hold what their C++ types allow.
TypeOK ==
  /\ tip \in data /\ data \subseteq index /\ index \subseteq Block \cup {Genesis}
  /\ DOMAIN inflight \subseteq index \ data
  /\ counters.nSyncStarted \in 0..Cardinality(Peer)
  /\ \A p \in Connected : node[p].nBlocksInFlight \in 0..InTransit

\* mapBlocksInFlight and the lists of the peers name the same blocks, each for
\* one connected peer, and the counts of the peers are the lengths of their
\* lists, whatever is received, timed out and disconnected.
InFlightExact ==
  /\ \A b \in DOMAIN inflight : /\ inflight[b] \in Connected
                                /\ b \in ToSet(node[inflight[b]].vBlocksInFlight)
  /\ \A p \in Connected :
       /\ \A b \in ToSet(node[p].vBlocksInFlight) : b \in DOMAIN inflight /\ inflight[b] = p
       /\ IsInjective(node[p].vBlocksInFlight)
       /\ node[p].nBlocksInFlight = Len(node[p].vBlocksInFlight)

\* At most one peer is asked for the whole chain at a time while the node is
\* far behind, and nSyncStarted counts those that are.
OneSyncPeer ==
  /\ counters.nSyncStarted = Cardinality({p \in Connected : node[p].fSyncStarted})
  /\ ~scenario.fCloseToToday => counters.nSyncStarted <= 1

\* No peer is marked as stalling while it owes the node no block.
StallerOwes == \A p \in Connected : node[p].stalling => node[p].vBlocksInFlight # <<>>

\* A block arriving never makes the node give up MaxReorg blocks of its chain,
\* in whatever order the blocks of the branches arrive and from whichever peer.
ReorgBounded ==
  [][Height[tip] - Height[LastCommonAncestor(tip, tip')] < MaxReorg]_tip

\* The fork with the peer's chain is deeper than the node follows.
TooDeep(p) == Height[tip] - Height[LastCommonAncestor(tip, server[p].tip)] >= MaxReorg

\* In the end the node is at most n blocks behind the peers it synchronises
\* with, but for those on a fork that it does not follow.
Behind(n) ==
  \A p \in Connected :
    node[p].fSyncStarted => TooDeep(p) \/ Height[tip] + n >= Height[server[p].tip]

\* A node that keeps its peers ends at most two blocks behind them, however far
\* behind it starts, whenever their chains grow, and whatever inventories and
\* blocks cross on the way.
NearlyCatchesUp == <>[]Behind(2)

\* It ends on a chain as long as the peer's.
CatchesUp == <>[]Behind(0)

\* nQueuedValidatedHeaders is the "Number of blocks in flight with validated
\* headers" (net_processing.cpp:81).
QueuedExact == counters.nQueuedValidatedHeaders = Cardinality(DOMAIN inflight)

\* mapNodeState, mapBlocksInFlight and nSyncStarted agree: who is asked for what,
\* who is synchronised with, and who may be blamed for stalling.
NodeStateSound == TypeOK /\ InFlightExact /\ OneSyncPeer /\ StallerOwes
============================================================================
