--------------------------- MODULE MasternodeList ---------------------------
(***************************************************************************)
(* The masternode list of the nodes of a network (src/src/masternodeman.cpp, *)
(* src/src/masternode.cpp, src/src/activemasternode.cpp).                  *)
(*                                                                         *)
(* One masternode: its controller (Cold) signs a broadcast (mnb), its own  *)
(* node (Hot) is activated by it and sends a ping (mnp) every few minutes, *)
(* and every node keeps an entry for it that is pre-enabled, enabled,      *)
(* expired and at last removed, as the age of the last ping says.  Both    *)
(* messages are announced and fetched on demand, out of the maps of what   *)
(* has been seen.                                                          *)
(*                                                                         *)
(* Times are ages in ticks, so that the behaviours are unbounded: what was *)
(* signed now has age 0, and Tick makes everything older, up to Old.  In   *)
(* every tick every running node does what its ThreadCheckMasternodes does *)
(* that often.  The clocks agree, the nodes are synchronised and within    *)
(* MNPING_DEPTH blocks of each other.                                      *)
(***************************************************************************)
EXTENDS Integers, FiniteSets, FiniteSetsExt

CONSTANTS
  Node, Cold, Hot, Nil,
  Mnb,           \* 1..n, the broadcasts that the controller makes
  Key,           \* [Mnb -> pubKeyMasternode]
  HotKey,        \* -masternodeprivkey of the node Hot
  PingSeconds,   \* MASTERNODE_PING_SECONDS, 5 minutes
  MinPing,       \* MASTERNODE_MIN_MNP_SECONDS, 10 minutes
  MinPingGap,    \* the same but for a minute
  BroadcastSeconds, \* MASTERNODE_MIN_MNB_SECONDS, 5 minutes
  Window,        \* 60 minutes, the age of a ping that is taken
  Expiration, Removal, \* 120 and 130 minutes
  MaxDown,       \* bound of the instance: ticks that a node is down
  Scenarios      \* what may happen: a set of records [nodes, starts, restarts,
                 \* crash, lossy, spends, reorg, otherThreads, coin]

ASSUME MasternodeListAssumption ==
  /\ {Cold, Hot} \subseteq Node /\ Mnb = 1..Cardinality(Mnb)
  /\ 0 < PingSeconds /\ PingSeconds < MinPingGap /\ MinPingGap <= MinPing
  /\ MinPing < Window /\ BroadcastSeconds < MinPing
  /\ Window < Expiration /\ Expiration < Removal

VARIABLES
  scenario,  \* the member of Scenarios of this behaviour
  up,        \* the nodes that run
  man,       \* [Node -> CMasternodeMan]
  status,    \* activeMasternode.status of Hot
  pending,   \* [Node -> broadcast between the look at its coin and Add, or Nil]
  coin,      \* [Node -> the collateral in the node's coins view]
  age,       \* [Mnb -> age of sigTime, or Nil before it is made]
  wire,      \* announcements and requests on their way
  due,       \* what ThreadCheckMasternodes has still to do in this tick
  away, restarts \* ticks that a node has been down; restarts so far

vars == <<scenario, up, man, status, pending, coin, age, wire, due, away, restarts>>

Old == 2 * Removal + 1

Empty == [entry |-> Nil, seen |-> [m \in Mnb |-> Nil], pings |-> {}, asked |-> 0]

Init ==
  /\ scenario \in Scenarios
  /\ up = scenario.nodes
  /\ man = [n \in Node |-> Empty]
  /\ status = "INITIAL"
  /\ pending = [n \in Node |-> Nil]
  /\ coin = [n \in Node |-> IF n = Cold THEN "ok" ELSE scenario.coin]
  /\ age = [m \in Mnb |-> Nil]
  /\ wire = {} /\ due = {} /\ away = 0 /\ restarts = 0

----------------------------------------------------------------------------
(* CMasternode.  An entry is [mnb, lastPing, spent]; s is the CMasternodeMan *)
(* of a node: its entry, mapSeenMasternodeBroadcast (to the age of         *)
(* lastPing), mapSeenMasternodePing and mWeAskedForMasternodeListEntry.    *)

\* The age of a broadcast's sigTime; one that is being made is new.
SigAge(m) == IF age[m] = Nil THEN 0 ELSE age[m]

\* As IsPingedWithin, at the exact time too.
IsPingedWithinOrAt(e, seconds, then) == e.lastPing - then <= seconds

\* The last ping is less than some time older than what was signed then.
IsPingedWithin(e, seconds, then) == e.lastPing - then < seconds

GetActiveState(e) ==
  CASE e.spent -> "VIN_SPENT"
    [] ~e.spent /\ ~IsPingedWithin(e, Removal, 0) -> "REMOVE"
    [] ~e.spent /\ IsPingedWithin(e, Removal, 0) /\ ~IsPingedWithin(e, Expiration, 0) -> "EXPIRED"
    [] ~e.spent /\ IsPingedWithin(e, Expiration, 0) ->
         IF SigAge(e.mnb) - e.lastPing < MinPing THEN "PRE_ENABLED" ELSE "ENABLED"

IsEnabled(e) == GetActiveState(e) = "ENABLED"
IsAvailableState(e) == GetActiveState(e) \in {"ENABLED", "PRE_ENABLED"}
IsBroadcastedWithin(e, seconds) == SigAge(e.mnb) < seconds

\* The ping is the entry's last one, and that of the broadcast that is served.
SetLastPing(s, sent) ==
  [s EXCEPT !.entry.lastPing = sent, !.pings = @ \cup {sent},
            !.seen[s.entry.mnb] = IF @ = Nil THEN Nil ELSE sent]

\* CMasternodePing::CheckAndUpdate for the lastPing of a broadcast
\* (fCheckSigTimeOnly).
CheckSigTimeOnly(s, sent, key) == sent < Window /\ (s.entry # Nil => Key[s.entry.mnb] = key)

\* What a handler leaves: the state, what it returned, whether it set nDos, and
\* what it announces to all peers.
Outcome(s, ok, dos, relay) == [state |-> s, ok |-> ok, dos |-> dos, relay |-> relay]
Mnp(sent) == [type |-> "mnp", id |-> sent]
MnbInv(m) == [type |-> "mnb", id |-> m]

\* CMasternodePing::CheckAndUpdate.
PingCheckAndUpdate(s, sent, key, fRequireAvailable) ==
  LET e == s.entry
      updated == SetLastPing(s, sent)
  IN  IF sent >= Window THEN Outcome(s, FALSE, TRUE, {})
      ELSE IF e = Nil THEN Outcome(s, FALSE, FALSE, {})
      ELSE IF fRequireAvailable /\ ~IsAvailableState(e) THEN Outcome(s, FALSE, TRUE, {})
      ELSE IF IsPingedWithin(e, MinPingGap, sent) THEN Outcome(s, FALSE, FALSE, {})
      ELSE IF Key[e.mnb] # key THEN Outcome(s, FALSE, TRUE, {})
      ELSE IF IsEnabled(updated.entry) THEN Outcome(updated, TRUE, FALSE, {Mnp(sent)})
      ELSE Outcome(updated, FALSE, FALSE, {})

\* The entry takes the newer broadcast; its ping counts as any other.
UpdateFromNewBroadcast(s, m, lastPing) ==
  IF m <= s.entry.mnb THEN Outcome(s, FALSE, FALSE, {})
  ELSE LET ping == PingCheckAndUpdate([s EXCEPT !.entry.mnb = m], lastPing, Key[m], FALSE)
       IN  Outcome(ping.state, TRUE, FALSE, ping.relay)

\* CMasternodeBroadcast::CheckAndUpdate.
MnbCheckAndUpdate(s, m, lastPing) ==
  LET e == s.entry
      update == UpdateFromNewBroadcast(s, m, lastPing)
  IN  IF ~CheckSigTimeOnly(s, lastPing, Key[m]) THEN Outcome(s, FALSE, TRUE, {})
      ELSE IF e = Nil THEN Outcome(s, TRUE, FALSE, {})
      ELSE IF e.mnb >= m THEN Outcome(s, FALSE, FALSE, {})
      ELSE IF ~IsEnabled(e) \/ IsBroadcastedWithin(e, BroadcastSeconds) THEN Outcome(s, TRUE, FALSE, {})
      ELSE Outcome(update.state, TRUE, FALSE,
                   update.relay \cup IF IsEnabled(update.state.entry) THEN {MnbInv(m)} ELSE {})

Add(s, m, lastPing) ==
  LET e == [mnb |-> m, lastPing |-> lastPing, spent |-> FALSE]
  IN  IF IsAvailableState(e) /\ s.entry = Nil THEN [s EXCEPT !.entry = e] ELSE s

----------------------------------------------------------------------------
(* CMasternodeMan and CActiveMasternode.                                   *)

\* RelayInv: an announcement to every peer.
Relay(n, invs) == {[inv |-> i, from |-> n, to |-> k] : i \in invs, k \in up \ {n}}

\* Whether the rest of CheckInputsAndAdd has nothing to do: the masternode itself,
\* already activated, or an enabled entry.
KnownHere(n, s, m) ==
  \/ n = Hot /\ status = "STARTED" /\ Key[m] = HotKey
  \/ s.entry # Nil /\ IsEnabled(s.entry)

\* CMasternodeBroadcast::CheckInputsAndAdd up to the look at the collateral: an
\* entry that is not enabled is removed, and a broadcast whose collateral is
\* too young is forgotten.
CheckInputs(n, s, m) ==
  LET removed == [s EXCEPT !.entry = Nil] IN
  IF KnownHere(n, s, m) THEN s
  ELSE IF coin[n] = "young" THEN [removed EXCEPT !.seen[m] = Nil]
  ELSE removed

\* ProcessMNBroadcast, up to that point.
ProcessMNBroadcast(x, lastPing) ==
  LET n == x.to
      m == x.inv.id
      checked == MnbCheckAndUpdate(man[n], m, lastPing)
      s == [checked.state EXCEPT !.seen[m] = lastPing]
  IN  /\ man' = [man EXCEPT ![n] = IF checked.ok THEN CheckInputs(n, s, m) ELSE checked.state]
      /\ pending' = [pending EXCEPT ![n] =
           IF checked.ok /\ ~KnownHere(n, s, m) /\ coin[n] = "ok"
           THEN [mnb |-> m, lastPing |-> lastPing] ELSE Nil]
      /\ wire' = (wire \ {x}) \cup Relay(n, checked.relay)

\* The rest of CheckInputsAndAdd.
AddMasternode(n) ==
  LET b == pending[n] IN
  /\ b # Nil
  /\ man' = [man EXCEPT ![n] = Add(@, b.mnb, b.lastPing)]
  /\ status' = IF n = Hot /\ Key[b.mnb] = HotKey THEN "STARTED" ELSE status
  /\ wire' = wire \cup Relay(n, {MnbInv(b.mnb)})
  /\ pending' = [pending EXCEPT ![n] = Nil]
  /\ UNCHANGED <<scenario, up, coin, age, due, away, restarts>>

\* ProcessMNPing: who sends a ping of an unknown masternode is asked for it.
ProcessMNPing(x) ==
  LET n == x.to
      checked == PingCheckAndUpdate(man[n], x.inv.id, HotKey, TRUE)
      AskForMN == ~checked.ok /\ ~checked.dos /\ man[n].entry = Nil /\ man[n].asked = 0
      request == [inv |-> [type |-> "getmnlist", id |-> 0], from |-> n, to |-> x.from]
  IN  /\ man' = [man EXCEPT ![n] = IF AskForMN THEN [checked.state EXCEPT !.asked = MinPing]
                                   ELSE checked.state]
      /\ wire' = (wire \ {x}) \cup Relay(n, checked.relay) \cup (IF AskForMN THEN {request} ELSE {})
      /\ UNCHANGED pending

\* ProcessGetMNList: an enabled masternode is announced to who asks for it.
ProcessGetMNList(x) ==
  LET e == man[x.to].entry
      served == e # Nil /\ IsEnabled(e)
      answer == [inv |-> MnbInv(e.mnb), from |-> x.to, to |-> x.from]
  IN  /\ man' = IF served THEN [man EXCEPT ![x.to].seen[e.mnb] = IF @ = Nil THEN e.lastPing ELSE @]
                ELSE man
      /\ wire' = (wire \ {x}) \cup (IF served THEN {answer} ELSE {})
      /\ UNCHANGED pending

\* AlreadyHave, and the sender's answer to the getdata: nothing, or the message.
Receive(x) ==
  LET n == x.to
      id == x.inv.id
      ignored == wire' = wire \ {x} /\ UNCHANGED <<man, pending>>
  IN  /\ pending[n] = Nil
      /\ \/ /\ x.inv.type = "mnb"
            /\ IF man[n].seen[id] # Nil \/ man[x.from].seen[id] = Nil THEN ignored
               ELSE ProcessMNBroadcast(x, man[x.from].seen[id])
         \/ /\ x.inv.type = "mnp"
            /\ IF id \in man[n].pings \/ id \notin man[x.from].pings THEN ignored ELSE ProcessMNPing(x)
         \/ /\ x.inv.type = "getmnlist"
            /\ ProcessGetMNList(x)
      /\ UNCHANGED <<scenario, up, status, coin, age, due, away, restarts>>

\* A message is lost, with the connection that carried it.
Lose(x) ==
  /\ scenario.lossy
  /\ wire' = wire \ {x}
  /\ UNCHANGED <<scenario, up, man, status, pending, coin, age, due, away, restarts>>

\* CheckAndRemove(true): expired entries go too.
ToRemoveExpired(e) == e # Nil /\ GetActiveState(e) \in {"REMOVE", "VIN_SPENT", "EXPIRED"}

\* The states in which CheckAndRemove removes an entry.
ToRemove(e) == e # Nil /\ GetActiveState(e) \in {"REMOVE", "VIN_SPENT"}

\* The broadcasts that were seen are kept.
ForgottenNot(s) == [s EXCEPT !.asked = 0]

\* What has been seen of a masternode that is removed.
Forgotten(s) == [s EXCEPT !.seen = [m \in Mnb |-> Nil], !.asked = 0]

\* CheckAndRemove.  (mWeAskedForMasternodeListEntry and mapSeenMasternodePing
\* lose what has run out in Tick.)
Cleaned(s) ==
  LET t == IF ToRemove(s.entry) THEN [Forgotten(s) EXCEPT !.entry = Nil] ELSE s
  IN  [t EXCEPT !.seen = [m \in Mnb |-> IF @[m] # Nil /\ @[m] > 2 * Removal THEN Nil ELSE @[m]]]

CheckAndRemove(n) ==
  /\ <<n, "CheckAndRemove">> \in due
  /\ due' = due \ {<<n, "CheckAndRemove">>}
  /\ man' = [man EXCEPT ![n] = Cleaned(@)]
  /\ UNCHANGED <<scenario, up, status, pending, coin, age, wire, away, restarts>>

\* SendMasternodePing sends one as soon as the last one is that old.
PingDue(e) == ~IsPingedWithin(e, PingSeconds, 0)

\* CActiveMasternode::ManageStatus and SendMasternodePing.
ManageStatus ==
  LET s == man[Hot]
      e == s.entry
      found == status = "INITIAL" /\ e # Nil /\ Key[e.mnb] = HotKey
      started == status = "STARTED" \/ found
  IN  /\ <<Hot, "ManageStatus">> \in due
      /\ due' = due \ {<<Hot, "ManageStatus">>}
      /\ status' = IF started /\ e # Nil THEN "STARTED" ELSE "NOT_CAPABLE"
      /\ IF started /\ e # Nil /\ PingDue(e)
         THEN /\ man' = [man EXCEPT ![Hot] = SetLastPing(@, 0)]
              /\ wire' = wire \cup Relay(Hot, {Mnp(0)})
         ELSE UNCHANGED <<man, wire>>
      /\ UNCHANGED <<scenario, up, pending, coin, age, away, restarts>>

\* startmasternode at the controller: CMasternodeBroadcast::Create, which asks
\* for a collateral with enough confirmations, and RelayMNB with
\* UpdateMasternodeList.
StartMasternode(m) ==
  LET s == [man[Cold] EXCEPT !.pings = @ \cup {0}, !.seen[m] = 0]
  IN  /\ Cold \in up /\ coin[Cold] = "ok"
      /\ m <= scenario.starts
      /\ age[m] = Nil
      /\ m > 1 => age[m - 1] # Nil /\ age[m - 1] > 0
      /\ age' = [age EXCEPT ![m] = 0]
      /\ man' = [man EXCEPT ![Cold] = IF s.entry = Nil
           THEN [s EXCEPT !.entry = [mnb |-> m, lastPing |-> 0, spent |-> FALSE]]
           ELSE UpdateFromNewBroadcast(s, m, 0).state]
      /\ wire' = wire \cup Relay(Cold, {MnbInv(m)})
      /\ UNCHANGED <<scenario, up, status, pending, coin, due, away, restarts>>
----------------------------------------------------------------------------
(* The blocks, the time and the operators.                                 *)

\* Only an enabled entry is marked.
SetSpentEnabled(s) ==
  IF s.entry = Nil THEN s ELSE [s EXCEPT !.entry.spent = IsEnabled(s.entry)]

\* CheckSpentCollaterals marks the entry.
SetSpent(s) == IF s.entry = Nil THEN s ELSE [s EXCEPT !.entry.spent = TRUE]

\* A block connects at a node: the collateral ripens, or is spent.  Blocks that
\* the message handler connects do not come between its look at the coin and Add.
ConnectTip(n) ==
  /\ n \in up
  /\ pending[n] = Nil \/ scenario.otherThreads
  /\ \/ /\ coin[n] \in {"mempool", "young"}
        /\ coin' = [coin EXCEPT ![n] = IF @ = "mempool" THEN "young" ELSE "ok"]
        /\ UNCHANGED man
     \/ /\ coin[n] = "ok" /\ scenario.spends
        /\ coin' = [coin EXCEPT ![n] = "spent"]
        /\ man' = [man EXCEPT ![n] = SetSpent(@)]
  /\ UNCHANGED <<scenario, up, status, pending, age, wire, due, away, restarts>>

\* The block of the spend is disconnected; nothing tells the masternode list.
DisconnectTip(n) ==
  /\ scenario.reorg
  /\ n \in up /\ pending[n] = Nil /\ coin[n] = "spent"
  /\ coin' = [coin EXCEPT ![n] = "ok"]
  /\ UNCHANGED <<scenario, up, man, status, pending, age, wire, due, away, restarts>>

Tasks(n) == {<<n, "CheckAndRemove">>} \cup IF n = Hot THEN {<<n, "ManageStatus">>} ELSE {}

Older(a) == IF a = Nil THEN Nil ELSE Min({a + 1, Old})

\* Time passes: a tick of PingSeconds.  What ThreadCheckMasternodes had to do
\* is done, and what was announced has arrived, or is lost.
Tick ==
  /\ due = {} /\ pending = [n \in Node |-> Nil]
  /\ scenario.lossy \/ wire = {}
  /\ up # scenario.nodes => away < MaxDown
  /\ man' = [n \in Node |->
       [man[n] EXCEPT !.entry = IF @ = Nil THEN Nil ELSE [@ EXCEPT !.lastPing = Older(@)],
                      !.seen = [m \in Mnb |-> Older(@[m])],
                      !.pings = {a + 1 : a \in @} \ {Window},
                      !.asked = Max({0, @ - 1})]]
  /\ age' = [m \in Mnb |-> Older(age[m])]
  /\ wire' = {}
  /\ due' = UNION {Tasks(n) : n \in up}
  /\ away' = IF up = scenario.nodes THEN 0 ELSE away + 1
  /\ UNCHANGED <<scenario, up, status, pending, coin, restarts>>

\* A node stops.  PrepareShutdown writes mncache.dat, without the marks of spent
\* collaterals; a crash leaves the file as it was, here empty.
Stop(n, s) ==
  /\ up = scenario.nodes /\ restarts < scenario.restarts
  /\ up' = up \ {n}
  /\ restarts' = restarts + 1
  /\ away' = 0
  /\ man' = [man EXCEPT ![n] = s]
  /\ status' = IF n = Hot THEN "INITIAL" ELSE status
  /\ pending' = [pending EXCEPT ![n] = Nil]
  /\ wire' = {x \in wire : n \notin {x.from, x.to}}
  /\ due' = {t \in due : t[1] # n}
  /\ UNCHANGED <<scenario, coin, age>>

\* What CMasternodeDB writes and reads: fCollateralSpent is not part of it.
Stored(s) == IF s.entry = Nil THEN s ELSE [s EXCEPT !.entry.spent = FALSE]

Shutdown(n) == pending[n] = Nil /\ Stop(n, Stored(man[n]))

Crash(n) == scenario.crash /\ Stop(n, Empty)

\* The node runs again, and ThreadCheckMasternodes begins with CheckAndRemove.
\* The list is asked for (DsegUpdate), unless the peer answered such a request
\* less than three hours ago.
Start(n) ==
  /\ n \in scenario.nodes \ up
  /\ up' = up \cup {n}
  /\ due' = due \cup Tasks(n)
  /\ \E asked \in SUBSET (up \ {n}) :
       wire' = wire \cup {[inv |-> [type |-> "getmnlist", id |-> 0], from |-> n, to |-> k] : k \in asked}
  /\ UNCHANGED <<scenario, man, status, pending, coin, age, away, restarts>>

Step ==
  \/ \E x \in wire : Receive(x)
  \/ \E n \in Node : AddMasternode(n) \/ CheckAndRemove(n) \/ Start(n)
  \/ ManageStatus
  \/ Tick

Next ==
  \/ Step
  \/ \E x \in wire : Lose(x)
  \/ \E m \in Mnb : StartMasternode(m)
  \/ \E n \in Node : ConnectTip(n) \/ DisconnectTip(n) \/ Shutdown(n) \/ Crash(n)

Spec == Init /\ [][Next]_vars

\* Threads run, messages arrive, stopped nodes are started again, time passes,
\* the controller makes the first broadcast, and a young collateral ripens.
FairSpec ==
  Spec /\ WF_vars(Step) /\ WF_vars(StartMasternode(1))
       /\ \A n \in Node : WF_vars(ConnectTip(n) /\ coin[n] # "ok") /\ WF_vars(Start(n))

----------------------------------------------------------------------------
(* Properties.                                                             *)

\* Entries, seen maps, announcements and the broadcast being added hold ages in the
\* ranges that the checks of the code leave.
TypeOK ==
  LET Entry == [mnb : Mnb, lastPing : 0..Old, spent : BOOLEAN]
      Inv == [type : {"mnb", "mnp", "getmnlist"}, id : 0..Old]
  IN  /\ scenario \in Scenarios /\ up \subseteq Node
      /\ \A n \in Node :
           /\ man[n].entry = Nil \/ man[n].entry \in Entry
           /\ \A m \in Mnb : man[n].seen[m] = Nil \/ man[n].seen[m] \in 0..Old
           /\ man[n].pings \subseteq 0..(Window - 1) /\ man[n].asked \in 0..MinPing
           /\ pending[n] = Nil \/ pending[n] \in [mnb : Mnb, lastPing : 0..(Window - 1)]
           /\ coin[n] \in {"mempool", "young", "ok", "spent"}
      /\ status \in {"INITIAL", "NOT_CAPABLE", "STARTED"}
      /\ wire \subseteq [inv : Inv, from : Node, to : Node]
      /\ away \in 0..MaxDown /\ restarts \in 0..scenario.restarts

Latest == IF \E m \in Mnb : age[m] # Nil THEN Max({m \in Mnb : age[m] # Nil}) ELSE Nil

\* A node that has no entry for the masternode, but could have one, does not hold
\* its latest broadcast for one it has already seen: CheckAndRemove forgets the
\* broadcasts of what it removes ("this will allow is to get it back without them
\* sending a brand new mnb"), and CheckInputsAndAdd the ones that come too early.
NotShutOut ==
  \A n \in up : man[n].entry = Nil /\ pending[n] = Nil /\ coin[n] = "ok" /\ Latest # Nil /\ ~scenario.reorg
                => man[n].seen[Latest] = Nil

\* Nothing is left to do in this tick.
Settled == due = {} /\ wire = {} /\ pending = [n \in Node |-> Nil]

\* When no message is lost and nothing restarts, the pings of a masternode that has
\* started keep every available entry younger than the gap under which a ping
\* comes too early: a ping that is refused for that reason is followed by one
\* that is taken.
PingsKeepUp ==
  Settled /\ status = "STARTED" /\ ~scenario.lossy /\ scenario.restarts = 0
  => \A n \in scenario.nodes : man[n].entry # Nil /\ IsAvailableState(man[n].entry)
                     => man[n].entry.lastPing < MinPingGap

\* The list holds no masternode whose collateral is spent without knowing it, as
\* long as the node does not restart and only the message handler connects
\* blocks.
SpentKnown ==
  \A n \in up : scenario.restarts = 0 /\ ~scenario.otherThreads /\ coin[n] = "spent" /\ man[n].entry # Nil
                => man[n].entry.spent

Listed == status = "STARTED" /\ \A n \in scenario.nodes : man[n].entry # Nil
EnabledEverywhere == \A n \in scenario.nodes : man[n].entry # Nil /\ IsEnabled(man[n].entry)

\* The masternode ends up enabled in every list, for good, when no message is
\* lost and its collateral is not spent: at once if no node restarts, and from
\* when it is in every list if nodes are down for less than Removal.  Nobody
\* has to send a new broadcast, and pings that come too early, or while a list
\* still has the entry as pre-enabled, do no harm.
StaysListed ==
  ~scenario.lossy /\ ~scenario.spends /\ ~scenario.crash
  => /\ scenario.restarts = 0 /\ scenario.coin = "ok" => <>[]EnabledEverywhere
     /\ Listed ~> []EnabledEverywhere

\* The lists hold ages in the ranges that the checks leave, and know which
\* collaterals are spent.
ListSound == TypeOK /\ SpentKnown
============================================================================
