--------------------------- MODULE MasternodeSync ---------------------------
(***************************************************************************)
(* CMasternodeSync: the stages in which a node fetches sporks, masternodes,*)
(* payment votes and budgets from its peers after it has caught up with    *)
(* the chain (masternode-sync.cpp, as it runs on main and test networks).  *)
(*                                                                         *)
(* Process runs on the masternode thread, its body every fifth second; the *)
(* message handler reports items as they arrive and asks                   *)
(* IsBlockchainSynced, which may reset the sync; so may the RPC command    *)
(* "mnsync reset".  No lock protects any of it.  Times are counted in      *)
(* calls of Process: an age is the number of calls since an event, capped  *)
(* where the code stops telling ages apart.                                *)
(***************************************************************************)
EXTENDS Integers, Sequences, FiniteSets, Functions

CONSTANTS
  Peer,
  Item,
  Has,           \* the items of each stage that the network has
  Spork8,        \* IsSporkActive(SPORK_8_MASTERNODE_PAYMENT_ENFORCEMENT)
  Races,         \* may other threads act inside GetNextAsset
  Retry,         \* calls of Process in the 60 s after a failure (12)
  Never,
  Envs           \* what the network and the operator do: a set of records
                 \* [order: the order in which the peers connect, old: those with
                 \* nVersion < ActiveProtocol(), prompt: the stages in which peers answer before
                 \* the next call of Process, upsets: which of "sleep", "loss" and
                 \* "reset" may happen, once, disconnects: how many]

Stages == {"list", "mnw", "budget"}
Assets == {"initial", "sporks", "failed", "finished"} \cup Stages

THRESHOLD == 2   \* MASTERNODE_SYNC_THRESHOLD
Attempts == THRESHOLD * 3
Quiet == 3       \* calls after which an item is more than TIMEOUT * 2 seconds old
Timeout == 5     \* calls in TIMEOUT * 5 seconds

ASSUME SyncAssumption ==
  /\ IsFiniteSet(Peer)
  /\ \A e \in Envs : /\ e.old \subseteq Peer /\ e.prompt \subseteq Stages
                     /\ e.upsets \subseteq {"sleep", "loss", "reset"}
  /\ Has \in [Stages -> SUBSET Item]
  /\ {Spork8, Races} \subseteq BOOLEAN
  /\ Retry \in Nat /\ Never \notin 0 .. Quiet

VARIABLES
  env,        \* the member of Envs of this behaviour
  sync,       \* the fields of CMasternodeSync
  pc,         \* where Process is: "wait", "peers" or "next"
  goal,       \* the asset GetNextAsset found when it looked
  recent,     \* the best block is less than an hour old
  conn,       \* vNodes: the connected peers, in the order of the loop
  fulfilled,  \* HasFulfilledRequest: the stages each peer was asked in
  answers,    \* answers the peers have yet to give
  listAsked,  \* mWeAskedForMasternodeList: asked for the list within three hours
  have,       \* the items that payments, list and budget manager hold
  enabled,    \* CountEnabled() > 0
  count       \* how often the bounded events happened

peers == <<env, conn, fulfilled, answers, listAsked>>
store == <<have, enabled>>
vars == <<sync, pc, goal, recent, peers, store, count>>

Age(n) == {Never} \cup 0 .. n

\* Every variable has its type.
TypeOK ==
  /\ sync \in [asset : Assets, attempt : 0 .. Attempts, started : 0 .. Timeout + 1,
               failure : 0 .. Retry + 1, last : [Stages -> Age(Quiet)],
               seen : [Stages -> [Item -> 0 .. THRESHOLD]],
               overdue : BOOLEAN, fBlockchainSynced : BOOLEAN]
  /\ pc \in {"wait", "peers", "next"} /\ goal \in Assets
  /\ recent \in BOOLEAN /\ enabled \in BOOLEAN
  /\ env \in Envs
  /\ IsInjective(conn) /\ Range(conn) \subseteq Peer /\ listAsked \subseteq Peer
  /\ fulfilled \in [Peer -> SUBSET (Stages \cup {"sporks"})]
  /\ answers \subseteq Range(conn) \X Stages
  /\ have \in [Stages -> SUBSET Item]

-----------------------------------------------------------------------------
(* The methods of CMasternodeSync, as functions of its fields. *)

\* overdue: now > lastProcess + 60 * 60, as it is with lastProcess = 0.
Reset ==
  [asset |-> "initial", attempt |-> 0, started |-> 0, failure |-> 0,
   last |-> [st \in Stages |-> Never],
   seen |-> [st \in Stages |-> [h \in Item |-> 0]],
   overdue |-> TRUE, fBlockchainSynced |-> FALSE]

IsSynced(s) == s.asset = "finished"

\* A best block that is out of reach (TRY_LOCK) or an import in progress counts
\* as one that is not recent.
IsBlockchainSynced(s) ==
  LET r == IF s.overdue THEN Reset ELSE s
  IN  [r EXCEPT !.overdue = FALSE, !.fBlockchainSynced = @ \/ recent]

Following ==
  [initial |-> "sporks", failed |-> "sporks", sporks |-> "list", list |-> "mnw",
   mnw |-> "budget", budget |-> "finished", finished |-> "finished"]

GetNextAsset(s, found) ==
  [s EXCEPT !.asset = Following[found], !.attempt = 0, !.started = 0]

\* AddedMasternodeList, AddedMasternodeWinner and AddedBudgetItem.  Their callers
\* store an item before they report it, so it is a known one, and counts twice.
Added(s, st, H) ==
  LET new == {h \in H : s.seen[st][h] < THRESHOLD}
  IN  [s EXCEPT !.last[st] = IF new = {} THEN @ ELSE 0,
                !.seen[st] = [h \in Item |-> IF h \in new THEN @[h] + 1 ELSE @[h]]]

\* Time goes by, for the ages that the current asset looks at.
Older(s) ==
  LET up(a, n) == IF a < n THEN a + 1 ELSE a
  IN  [s EXCEPT !.started = IF s.asset \in Stages THEN up(@, Timeout + 1) ELSE @,
                !.failure = IF s.asset = "failed" THEN up(@, Retry + 1) ELSE @,
                !.last = [st \in Stages |-> IF @[st] = Never THEN Never ELSE up(@[st], Quiet)]]

-----------------------------------------------------------------------------
Init ==
  /\ sync = Reset
  /\ pc = "wait" /\ goal = "initial"
  /\ recent = FALSE
  /\ env \in Envs
  /\ conn = <<>> /\ fulfilled = [p \in Peer |-> {}] /\ answers = {} /\ listAsked = {}
  /\ have = [st \in Stages |-> {}]
  /\ enabled = FALSE
  /\ count = [e \in {"upset", "disconnect"} |-> 0]

-----------------------------------------------------------------------------
(* Process, on the masternode thread. *)

Resync(s) ==
  IF IsSynced(s) \/ (s.asset = "failed" /\ s.failure > Retry) THEN Reset ELSE s

IdleFailed(s) == s.asset = "failed" /\ s.failure <= Retry

\* Nothing to do: finished, or failed less than a minute ago.
Idle(s) == (IsSynced(s) /\ enabled) \/ (s.asset = "failed" /\ s.failure <= Retry)

\* ThreadCheckMasternodes calls IsBlockchainSynced after Process in any case.
Process ==
  LET s0 == Older(sync)
      s1 == Resync(s0)
      s2 == IF s1.asset = "initial" THEN GetNextAsset(s1, "initial") ELSE s1
      s3 == IsBlockchainSynced(s2)
  IN  /\ pc = "wait"
      /\ answers \cap (Peer \X env.prompt) = {}
      /\ IF Idle(s0)
         THEN /\ sync' = IsBlockchainSynced(s0)
              /\ UNCHANGED <<pc, fulfilled>>
         ELSE /\ sync' = s3
              /\ fulfilled' = IF s1.asset = "initial"
                              THEN [p \in Peer |-> {}] ELSE fulfilled
              /\ pc' = IF ~s3.fBlockchainSynced /\ s3.asset \in Stages
                       THEN "wait" ELSE "peers"
      /\ UNCHANGED <<goal, recent, env, conn, answers, listAsked, store, count>>

\* Nothing new has come in for long enough, and enough peers have been asked.
ReadyUnasked(st) ==
  /\ sync.last[st] \in {Never, Quiet}
  /\ sync.attempt >= THRESHOLD

Ready(st) ==
  /\ sync.last[st] = Quiet
  /\ sync.attempt >= THRESHOLD

TimedOut(st) ==
  /\ sync.last[st] = Never
  /\ sync.attempt >= Attempts \/ sync.started > Timeout

\* The switch of GetNextAsset; its assignments follow in NextAsset.
GoOn == pc' = "next" /\ goal' = sync.asset

Fulfil(p, what) == fulfilled' = [fulfilled EXCEPT ![p] = @ \cup {what}]

\* The request, which DsegUpdate leaves out if the peer was asked not long ago.
Ask(p, st) ==
  /\ sync' = [sync EXCEPT !.attempt = @ + 1]
  /\ answers' = IF st = "list" /\ p \in listAsked THEN answers
                ELSE answers \cup {<<p, st>>}
  /\ listAsked' = IF st = "list" THEN listAsked \cup {p} ELSE listAsked

SporksAskedMore == sync.attempt > 2

\* The stage ends with the peer after the second that was asked.
SporksAsked == sync.attempt >= 2

SyncSporks(p) ==
  /\ pc = "peers" /\ sync.asset = "sporks" /\ "sporks" \notin fulfilled[p]
  /\ Fulfil(p, "sporks")
  /\ IF SporksAsked
     THEN GoOn /\ UNCHANGED sync
     ELSE /\ sync' = [sync EXCEPT !.attempt = @ + 1]
          /\ pc' = "wait" /\ UNCHANGED goal
  /\ UNCHANGED <<recent, env, conn, answers, listAsked, store, count>>

SyncList(p, st) ==
  /\ pc = "peers" /\ p \notin env.old /\ sync.asset = st
  /\ IF Ready(st)
     THEN GoOn /\ UNCHANGED <<sync, fulfilled, answers, listAsked>>
     ELSE /\ st \notin fulfilled[p]
          /\ Fulfil(p, st)
          /\ CASE TimedOut(st) /\ Spork8 ->
                    /\ sync' = [sync EXCEPT !.asset = "failed", !.attempt = 0, !.failure = 0]
                    /\ pc' = "wait" /\ UNCHANGED <<goal, answers, listAsked>>
               [] TimedOut(st) /\ ~Spork8 ->
                    GoOn /\ UNCHANGED <<sync, answers, listAsked>>
               [] ~TimedOut(st) /\ sync.attempt >= Attempts ->
                    pc' = "wait" /\ UNCHANGED <<sync, goal, answers, listAsked>>
               [] OTHER ->
                    Ask(p, st) /\ pc' = "wait" /\ UNCHANGED goal
  /\ UNCHANGED <<recent, env, conn, store, count>>

SyncBudget(p) ==
  /\ pc = "peers" /\ p \notin env.old /\ sync.asset = "budget"
  /\ IF Ready("budget") \/ TimedOut("budget")
     THEN GoOn /\ UNCHANGED <<sync, fulfilled, answers, listAsked>>
     ELSE /\ "budget" \notin fulfilled[p]
          /\ Fulfil(p, "budget")
          /\ pc' = "wait" /\ UNCHANGED goal
          /\ IF sync.attempt >= Attempts THEN UNCHANGED <<sync, answers, listAsked>>
             ELSE Ask(p, "budget")
  /\ UNCHANGED <<recent, env, conn, store, count>>

\* Whether SyncWithNode has anything to do with a peer.
HasWork(p) ==
  \/ sync.asset = "sporks" /\ "sporks" \notin fulfilled[p]
  \/ /\ sync.asset \in Stages /\ p \notin env.old
     /\ \/ sync.asset \notin fulfilled[p]
        \/ Ready(sync.asset)
        \/ sync.asset = "budget" /\ TimedOut("budget")

\* ForEachNodeContinueIf: the loop over the peers ends with the first that has
\* work.
SyncWithNode ==
  \E i \in DOMAIN conn :
    LET p == conn[i] IN
    /\ HasWork(p) /\ \A k \in 1 .. i - 1 : ~HasWork(conn[k])
    /\ SyncSporks(p) \/ SyncList(p, "list") \/ SyncList(p, "mnw") \/ SyncBudget(p)

NoPeerLeft ==
  /\ pc = "peers" /\ \A i \in DOMAIN conn : ~HasWork(conn[i])
  /\ pc' = "wait"
  /\ UNCHANGED <<sync, goal, recent, peers, store, count>>

\* The SPORKS stage counts its last request to the next stage.
NextAsset ==
  LET s == GetNextAsset(sync, goal)
  IN  /\ pc = "next"
      /\ sync' = IF goal = "sporks" THEN [s EXCEPT !.attempt = 1] ELSE s
      /\ fulfilled' = IF goal = "initial" THEN [p \in Peer |-> {}] ELSE fulfilled
      /\ pc' = "wait" /\ goal' = "initial"
      /\ UNCHANGED <<recent, env, conn, answers, listAsked, store, count>>

-----------------------------------------------------------------------------
(* The other threads, and the network. *)

Others == pc = "next" => Races

Upset(e) ==
  /\ e \in env.upsets /\ count.upset = 0
  /\ count' = [count EXCEPT !.upset = @ + 1]

\* An inv of a known item is reported at once.  The handlers of new items ask
\* IsBlockchainSynced first and drop the item if it is not.
Receive(st, H) ==
  LET s == IF H \subseteq have[st] THEN sync ELSE IsBlockchainSynced(sync)
      got == IF s.fBlockchainSynced THEN H ELSE H \cap have[st]
  IN  /\ sync' = Added(s, st, got)
      /\ have' = [have EXCEPT ![st] = @ \cup got]
      /\ enabled' = (enabled \/ (st = "list" /\ got # {}))

Answer(p, st) ==
  /\ <<p, st>> \in answers /\ Others
  /\ answers' = answers \ {<<p, st>>}
  /\ Receive(st, Has[st])
  /\ UNCHANGED <<pc, goal, recent, env, conn, fulfilled, listAsked, count>>

\* An item is relayed to the node without being asked for.
Announce(st, h) ==
  /\ conn # <<>> /\ Others /\ h \in Has[st]
  /\ Receive(st, {h})
  /\ UNCHANGED <<pc, goal, recent, peers, count>>

\* A message handler asks IsBlockchainSynced.
Query ==
  /\ Others
  /\ sync' = IsBlockchainSynced(sync)
  /\ UNCHANGED <<pc, goal, recent, peers, store, count>>

ResetCommand ==
  /\ Others /\ Upset("reset")
  /\ sync' = Reset
  /\ UNCHANGED <<pc, goal, recent, peers, store>>

BlockArrives ==
  /\ ~recent /\ Others
  /\ recent' = TRUE
  /\ UNCHANGED <<sync, pc, goal, peers, store, count>>

\* The computer sleeps for more than an hour.
Sleep ==
  /\ Upset("sleep") /\ pc = "wait"
  /\ sync' = [sync EXCEPT !.overdue = TRUE]
  /\ recent' = FALSE
  /\ conn' = <<>> /\ fulfilled' = [p \in Peer |-> {}] /\ answers' = {}
  /\ UNCHANGED <<pc, goal, env, listAsked, store>>

\* No masternode is enabled any more.
LoseMasternodes ==
  /\ enabled /\ Others /\ Upset("loss")
  /\ enabled' = FALSE
  /\ UNCHANGED <<sync, pc, goal, recent, peers, have>>

Connect(p) ==
  /\ p \notin Range(conn)
  /\ \E i \in DOMAIN env.order :
       p = env.order[i] /\ \A k \in 1 .. i - 1 : env.order[k] \in Range(conn)
  /\ conn' = Append(conn, p)
  /\ UNCHANGED <<env, sync, pc, goal, recent, fulfilled, answers, listAsked, store, count>>

Disconnect(p) ==
  /\ pc = "wait" /\ count.disconnect < env.disconnects
  /\ \E i \in DOMAIN conn :
       p = conn[i] /\ conn' = SubSeq(conn, 1, i - 1) \o SubSeq(conn, i + 1, Len(conn))
  /\ fulfilled' = [fulfilled EXCEPT ![p] = {}]
  /\ answers' = {a \in answers : a[1] # p}
  /\ count' = [count EXCEPT !.disconnect = @ + 1]
  /\ UNCHANGED <<env, sync, pc, goal, recent, listAsked, store>>

Next ==
  \/ Process \/ SyncWithNode \/ NoPeerLeft \/ NextAsset
  \/ \E p \in Peer, st \in Stages : Answer(p, st)
  \/ \E st \in Stages, h \in Item : Announce(st, h)
  \/ Query \/ ResetCommand \/ BlockArrives \/ Sleep \/ LoseMasternodes
  \/ \E p \in Peer : Connect(p) \/ Disconnect(p)

\* The masternode thread runs, peers connect and answer what they are asked, and
\* blocks arrive.  Nothing else need happen.
Fairness ==
  /\ WF_vars(Process \/ SyncWithNode \/ NoPeerLeft \/ NextAsset)
  /\ WF_vars(BlockArrives)
  /\ WF_vars(\E p \in Peer : Connect(p))
  /\ WF_vars(\E p \in Peer, st \in Stages : Answer(p, st))

Spec == Init /\ [][Next]_vars /\ Fairness

-----------------------------------------------------------------------------
(* Properties. *)

\* Process, "sporks synced but blockchain is not, wait": no stage after the list
\* is reached, and none is finished, before the chain has been found synced since
\* the last reset.
ChainFirst ==
  sync.asset \in {"mnw", "budget", "finished", "failed"} => sync.fBlockchainSynced

\* The timeouts of SyncWithNode under spork 8: past the masternode list and past
\* the payment votes only with an item of each since the last reset.
ItemsBeforeNext ==
  Spork8 =>
    /\ sync.asset \in {"mnw", "budget", "finished"} => sync.last["list"] # Never
    /\ sync.asset \in {"budget", "finished"} => sync.last["mnw"] # Never

\* IsBlockchainSynced and Process: a finished sync starts over only after a
\* sleep, the loss of all masternodes, or the operator's command.
FinishedStays ==
  [][IsSynced(sync) /\ ~IsSynced(sync') => sync.overdue \/ ~enabled \/ ResetCommand]_vars

\* The sync is finished for good.
Done == <>[](IsSynced(sync) /\ enabled)

\* ThreadCheckMasternodes, "try to sync from all available nodes, one step at a
\* time": with prompt peers and no upset the sync finishes, and a sync that has
\* to start over finishes again.
SyncFinishes == env.upsets = {} /\ env.prompt = Stages => Done

\* "// timeout" in SyncWithNode: no stage goes on for ever without an item.
StagesEnd ==
  \A st \in Stages :
    (sync.asset = st /\ sync.last[st] = Never) ~> (sync.asset # st \/ sync.last[st] # Never)

\* SyncWithNode and GetNextAsset go through the stages in their order: each one
\* after the chain, and after the items of those before it.
StagesInOrder == TypeOK /\ ChainFirst /\ ItemsBeforeNext
=============================================================================
