------------------------------- MODULE Spork --------------------------------
(***************************************************************************)
(* Sporks: values that the holder of the spork key signs and that every    *)
(* node relays, keeps in memory and stores in its spork database           *)
(* (spork.cpp, sporkdb.cpp; the messages are dispatched by                 *)
(* net_processing.cpp and tiertwo_networksync.cpp).  For each spork the    *)
(* message with the latest time of signature counts.                       *)
(*                                                                         *)
(* A node has two threads here: the message handler, which takes one       *)
(* message at a time and releases CSporkManager::cs between checking a     *)
(* spork and storing it, and the RPC thread in UpdateSpork, which          *)
(* announces the new spork before it stores it.                            *)
(*                                                                         *)
(* The hash of a spork message leaves out its signature; here no two       *)
(* messages differ in the signing key only, so a message stands for its    *)
(* hash.  Messages of one connection may overtake each other.              *)
(***************************************************************************)
EXTENDS Integers, Sequences, FiniteSets, SequencesExt

CONSTANTS
  Node,
  Link,          \* the pairs of nodes that connect to each other
  Signer,        \* the nodes started with -sporkkey
  SporkDefs,     \* sporkDefs: the spork ids, in order
  Spork15,       \* SPORK_15_NEW_PROTOCOL_ENFORCEMENT_2
  Needed,        \* the sporks whose absence from the database fMissingSporks means
  Value, NoMsg,
  InitDb,        \* what the spork databases hold at first
  StaleTime,     \* a spork 15 signed up to then is stale (1578338986)
  FutureLimit,   \* how far a time of signature may lie ahead (2 hours)
  EnforceNew, RejectOld, \* nTime_EnforceNewSporkKey, nTime_RejectOldSporkKey
  SporkRequests, \* getsporks that MASTERNODE_SYNC_SPORKS sends before it ends (3)
  ClockAhead,    \* how far each node's clock is ahead
  SlowUpdate,    \* may others act between the two halves of UpdateSpork
  SameSecond,    \* may a spork be updated twice in one second
  Restartable,   \* the nodes that may stop and start
  MaxTime, MaxUpdates, MaxRestarts, MaxDisconnects  \* bounds

Id == Range(SporkDefs)
Msg == [id : Id, value : Value, time : 0 .. MaxTime + 1, key : {"new", "old"}]

ASSUME SporkAssumption ==
  /\ \A l \in Link : l \subseteq Node /\ Cardinality(l) = 2
  /\ Signer \subseteq Node /\ Restartable \subseteq Node
  /\ Needed \subseteq Id
  /\ NoMsg \notin Msg
  /\ InitDb \in [Node -> [Id -> Msg \cup {NoMsg}]]
  /\ \A n \in Node : ClockAhead[n] \in {0, 1}
  /\ {StaleTime, FutureLimit, EnforceNew, RejectOld, SporkRequests} \subseteq Int
  /\ {SlowUpdate, SameSecond} \subseteq BOOLEAN

VARIABLES
  now,       \* the time, by an exact clock
  active,    \* mapSporksActive of each node
  seen,      \* mapSporks
  db,        \* the spork database
  hasKey,    \* strMasterPrivKey is set
  checking,  \* the spork ProcessSporkMsg has found good and not stored yet
  writing,   \* the spork it has stored and relayed but not written to the database
  updating,  \* the spork UpdateSpork has relayed but not stored yet
  conn,      \* the connections
  banned,    \* the pairs one of which has banned the other
  asked,     \* fRequestedSporksIDB
  requests,  \* RequestedMasternodeAttempt in the SPORKS stage
  fulfilled, \* the peers a node has sent "getspork" to: HasFulfilledRequest
  msgs,      \* messages under way
  count      \* how often the bounded operations happened

node == <<active, seen, db, hasKey, checking, writing, updating>>
net == <<conn, banned, asked, requests, fulfilled, msgs>>
vars == <<now, node, net, count>>

Kinds == {"inv", "getdata", "spork", "getsporks"}

\* The sporks, the databases and the messages under way are well typed.
TypeOK ==
  /\ now \in 0 .. MaxTime
  /\ active \in [Node -> [Id -> Msg \cup {NoMsg}]]
  /\ db \in [Node -> [Id -> Msg \cup {NoMsg}]]
  /\ \A n \in Node : seen[n] \subseteq Msg
  /\ \A n \in Node, i \in Id : active[n][i] # NoMsg =>
       active[n][i].id = i /\ active[n][i] \in seen[n]
  /\ hasKey \in [Node -> BOOLEAN] /\ asked \in [Node -> BOOLEAN]
  /\ {checking, writing, updating} \subseteq [Node -> Msg \cup {NoMsg}]
  /\ conn \subseteq Link /\ banned \subseteq Link \ conn
  /\ requests \in [Node -> 0 .. SporkRequests]
  /\ fulfilled \in [Node -> SUBSET Node]
  /\ \A x \in msgs : x.kind \in Kinds /\ {x.from, x.to} \in conn
  /\ count \in [{"update", "restart", "disconnect"} -> Nat]

-----------------------------------------------------------------------------
(* Start of a node. *)

\* LoadSporksFromDB reads in the order of sporkDefs and, at a stale spork 15,
\* clears what it loaded, and the signer's key, and stops.
Stale(d) ==
  /\ Spork15 \in Id /\ d[Spork15] # NoMsg
  /\ d[Spork15].time <= StaleTime

Loaded(d) == IF Stale(d) THEN [i \in Id |-> NoMsg] ELSE d

LoadedSeen(d) ==
  LET pos(i) == CHOOSE k \in DOMAIN SporkDefs : SporkDefs[k] = i
  IN  {d[i] : i \in {j \in Id : Stale(d) => pos(j) < pos(Spork15)}} \ {NoMsg}

Init ==
  /\ now = 1
  /\ db = InitDb
  /\ active = [n \in Node |-> Loaded(InitDb[n])]
  /\ seen = [n \in Node |-> LoadedSeen(InitDb[n])]
  /\ hasKey = [n \in Node |-> n \in Signer /\ ~Stale(InitDb[n])]
  /\ checking = [n \in Node |-> NoMsg]
  /\ writing = checking /\ updating = checking
  /\ conn = {} /\ banned = {}
  /\ asked = [n \in Node |-> FALSE]
  /\ requests = [n \in Node |-> 0]
  /\ fulfilled = [n \in Node |-> {}]
  /\ msgs = {}
  /\ count = [o \in {"update", "restart", "disconnect"} |-> 0]

SignedBefore(m, t) == m # NoMsg => m.time < t

Clock(n) == now + ClockAhead[n]
Peers(n) == {p \in Node : {n, p} \in conn}

Message(k, n, p, b) == [kind |-> k, from |-> n, to |-> p, body |-> b]

\* CSporkMessage::Relay, to the peers of the moment.
Relay(n, m) == {Message("inv", n, p, m) : p \in Peers(n)}

\* What is lost with a connection.
Between(l) == {x \in msgs : {x.from, x.to} = l}

\* The halves of UpdateSpork follow each other at once unless SlowUpdate.
Scheduled == SlowUpdate \/ \A n \in Node : updating[n] = NoMsg

-----------------------------------------------------------------------------
(* UpdateSpork, called by the RPC command "spork". *)

UpdateSpork(n, i, v) ==
  LET m == [id |-> i, value |-> v, time |-> Clock(n), key |-> "new"]
  IN  /\ hasKey[n] /\ updating[n] = NoMsg /\ count.update < MaxUpdates
      /\ ~SameSecond => SignedBefore(active[n][i], m.time)
      /\ updating' = [updating EXCEPT ![n] = m]
      /\ msgs' = msgs \cup Relay(n, m)
      /\ count' = [count EXCEPT !.update = @ + 1]
      /\ UNCHANGED <<now, active, seen, db, hasKey, checking, writing,
                     conn, banned, asked, requests, fulfilled>>

StoreUpdate(n) ==
  LET m == updating[n]
  IN  /\ m # NoMsg
      /\ active' = [active EXCEPT ![n][m.id] = m]
      /\ seen' = [seen EXCEPT ![n] = @ \cup {m}]
      /\ updating' = [updating EXCEPT ![n] = NoMsg]
      /\ UNCHANGED <<now, db, hasKey, checking, writing, net, count>>

-----------------------------------------------------------------------------
(* The message handler.  MessageDispatcher takes "spork" and "getsporks". *)

HandlerFree(n) == checking[n] = NoMsg /\ writing[n] = NoMsg /\ Scheduled

\* An inv of a spork that is not in mapSporks is asked for.
ReceiveInv(x) ==
  /\ x.kind = "inv" /\ HandlerFree(x.to)
  /\ msgs' = (msgs \ {x}) \cup
             IF x.body \in seen[x.to] THEN {}
             ELSE {Message("getdata", x.to, x.from, x.body)}
  /\ UNCHANGED <<now, node, conn, banned, asked, requests, fulfilled, count>>

\* A spork that is not in mapSporks is not sent, and not asked for again.
ReceiveGetData(x) ==
  /\ x.kind = "getdata" /\ HandlerFree(x.to)
  /\ msgs' = (msgs \ {x}) \cup
             IF x.body \in seen[x.to] THEN {Message("spork", x.to, x.from, x.body)}
             ELSE {}
  /\ UNCHANGED <<now, node, conn, banned, asked, requests, fulfilled, count>>

ProcessGetSporks(x) ==
  /\ x.kind = "getsporks" /\ HandlerFree(x.to)
  /\ msgs' = (msgs \ {x}) \cup
             {Message("spork", x.to, x.from, m) :
                m \in {active[x.to][i] : i \in Id} \ {NoMsg}}
  /\ UNCHANGED <<now, node, conn, banned, asked, requests, fulfilled, count>>

TooFar(n, m) == m.time > Clock(n) + FutureLimit

NewerAny(n, m) == TRUE

Newer(n, m) == SignedBefore(active[n][m.id], m.time)

ValidSigNoWindow(n, m) == m.key = "new" \/ m.time < EnforceNew

ValidSig(n, m) ==
  m.key = "new" \/ (m.time < EnforceNew /\ Clock(n) < RejectOld)

\* ProcessSporkMsg up to the signature.  A spork from the future or with a bad
\* signature bans the peer it came from, which ends the connection.
CheckSpork(x) ==
  LET n == x.to
      m == x.body
      refused == TooFar(n, m) \/ (Newer(n, m) /\ ~ValidSig(n, m))
  IN  /\ x.kind = "spork" /\ HandlerFree(n)
      /\ IF refused
         THEN /\ conn' = conn \ {{n, x.from}}
              /\ banned' = banned \cup {{n, x.from}}
              /\ msgs' = msgs \ Between({n, x.from})
              /\ fulfilled' = [fulfilled EXCEPT ![n] = @ \ {x.from}, ![x.from] = @ \ {n}]
         ELSE msgs' = msgs \ {x} /\ UNCHANGED <<conn, banned, fulfilled>>
      /\ checking' = IF ~refused /\ Newer(n, m)
                     THEN [checking EXCEPT ![n] = m] ELSE checking
      /\ UNCHANGED <<now, active, seen, db, hasKey, writing, updating,
                     asked, requests, count>>

\* It is stored without another look at what is there now, and relayed.
StoreSpork(n) ==
  LET m == checking[n]
  IN  /\ m # NoMsg /\ Scheduled
      /\ active' = [active EXCEPT ![n][m.id] = m]
      /\ seen' = [seen EXCEPT ![n] = @ \cup {m}]
      /\ msgs' = msgs \cup Relay(n, m)
      /\ checking' = [checking EXCEPT ![n] = NoMsg]
      /\ writing' = [writing EXCEPT ![n] = m]
      /\ UNCHANGED <<now, db, hasKey, updating, conn, banned, asked, requests, fulfilled, count>>

WriteIfNone(d, m) == IF d[m.id] = NoMsg THEN [d EXCEPT ![m.id] = m] ELSE d

\* CSporkDB::WriteSpork.
Write(d, m) == [d EXCEPT ![m.id] = m]

WriteSpork(n) ==
  /\ writing[n] # NoMsg /\ Scheduled
  /\ db' = [db EXCEPT ![n] = Write(@, writing[n])]
  /\ writing' = [writing EXCEPT ![n] = NoMsg]
  /\ UNCHANGED <<now, active, seen, hasKey, checking, updating, net, count>>

-----------------------------------------------------------------------------
(* Connections, the requests that follow them, and restarts. *)

\* The VERSION handler asks the first peer for the sporks, and every peer while
\* needed ones are missing in the database.
MustAsk(n) == ~asked[n] \/ \E i \in Needed : db[n][i] = NoMsg

Connect(l) ==
  /\ l \in Link \ (conn \cup banned) /\ Scheduled
  /\ conn' = conn \cup {l}
  /\ asked' = [n \in Node |-> asked[n] \/ n \in l]
  /\ msgs' = msgs \cup {Message("getsporks", n, p, NoMsg) :
                          <<n, p>> \in {np \in l \X l : np[1] # np[2] /\ MustAsk(np[1])}}
  /\ UNCHANGED <<now, node, banned, requests, fulfilled, count>>

\* CMasternodeSync::SyncWithNode in the SPORKS stage.
SyncAskOnce(n, p) ==
  /\ p \in Peers(n) /\ requests[n] = 0 /\ Scheduled
  /\ requests' = [requests EXCEPT ![n] = @ + 1]
  /\ fulfilled' = [fulfilled EXCEPT ![n] = @ \cup {p}]
  /\ msgs' = msgs \cup {Message("getsporks", n, p, NoMsg)}
  /\ UNCHANGED <<now, node, conn, banned, asked, count>>

SyncAsk(n, p) ==
  /\ p \in Peers(n) \ fulfilled[n] /\ requests[n] < SporkRequests /\ Scheduled
  /\ requests' = [requests EXCEPT ![n] = @ + 1]
  /\ fulfilled' = [fulfilled EXCEPT ![n] = @ \cup {p}]
  /\ msgs' = msgs \cup {Message("getsporks", n, p, NoMsg)}
  /\ UNCHANGED <<now, node, conn, banned, asked, count>>

Disconnect(l) ==
  /\ l \in conn /\ count.disconnect < MaxDisconnects
  /\ conn' = conn \ {l}
  /\ msgs' = msgs \ Between(l)
  /\ fulfilled' = [n \in Node |-> IF n \in l THEN fulfilled[n] \ l ELSE fulfilled[n]]
  /\ count' = [count EXCEPT !.disconnect = @ + 1]
  /\ UNCHANGED <<now, node, banned, asked, requests>>

\* The process stops, wherever its threads are, and starts: SetPrivKey, then
\* LoadSporksFromDB.
Restart(n) ==
  /\ n \in Restartable /\ count.restart < MaxRestarts
  /\ active' = [active EXCEPT ![n] = Loaded(db[n])]
  /\ seen' = [seen EXCEPT ![n] = LoadedSeen(db[n])]
  /\ hasKey' = [hasKey EXCEPT ![n] = n \in Signer /\ ~Stale(db[n])]
  /\ checking' = [checking EXCEPT ![n] = NoMsg]
  /\ writing' = [writing EXCEPT ![n] = NoMsg]
  /\ updating' = [updating EXCEPT ![n] = NoMsg]
  /\ conn' = {l \in conn : n \notin l}
  /\ msgs' = {x \in msgs : n \notin {x.from, x.to}}
  /\ asked' = [asked EXCEPT ![n] = FALSE]
  /\ requests' = [requests EXCEPT ![n] = 0]
  /\ fulfilled' = [p \in Node |-> IF p = n THEN {} ELSE fulfilled[p] \ {n}]
  /\ count' = [count EXCEPT !.restart = @ + 1]
  /\ UNCHANGED <<now, db, banned>>

Tick ==
  /\ now < MaxTime /\ Scheduled
  /\ now' = now + 1
  /\ UNCHANGED <<node, net, count>>

Handle(n) ==
  \/ \E x \in {y \in msgs : y.to = n} :
       ReceiveInv(x) \/ ReceiveGetData(x) \/ ProcessGetSporks(x) \/ CheckSpork(x)
  \/ StoreSpork(n) \/ WriteSpork(n)

Next ==
  \/ \E n \in Node, i \in Id, v \in Value : UpdateSpork(n, i, v)
  \/ \E n \in Node : StoreUpdate(n) \/ Handle(n) \/ Restart(n)
  \/ \E n, p \in Node : SyncAsk(n, p)
  \/ \E l \in Link : Connect(l) \/ Disconnect(l)
  \/ Tick

\* Threads are scheduled, messages on a connection arrive, and a node keeps
\* trying to connect and to sync; updates, stops and failures of connections
\* need not happen.
Fairness ==
  /\ \A n \in Node : WF_vars(StoreUpdate(n)) /\ WF_vars(Handle(n))
  /\ \A n, p \in Node : WF_vars(SyncAsk(n, p))
  /\ \A l \in Link : WF_vars(Connect(l))

Spec == Init /\ [][Next]_vars /\ Fairness

-----------------------------------------------------------------------------
(* Properties. *)

\* ProcessSporkMsg, "spork in memory has been signed more recently": while a
\* node runs, the spork it goes by is never replaced by an older one, whatever
\* its two threads do in between.
NewestKept ==
  [][\A n \in Node, i \in Id :
       \/ active[n][i] = NoMsg
       \/ Restart(n)
       \/ active'[n][i] # NoMsg /\ active'[n][i].time >= active[n][i].time]_vars

\* WriteSpork after every accepted message: a node that does not sign, between
\* two messages, would start again with the very sporks it goes by.
FollowersOnDisk ==
  \A n \in Node \ Signer :
    checking[n] = NoMsg /\ writing[n] = NoMsg => Loaded(db[n]) = active[n]

\* The same for every node, "load previous sessions sporks if we have them".
RestartKeepsSporks ==
  \A n \in Node :
    checking[n] = NoMsg /\ writing[n] = NoMsg /\ updating[n] = NoMsg
      => Loaded(db[n]) = active[n]

\* ProcessSporkMsg's ban scores: a node that relays or answers as the code does
\* is not banned for a spork it took over in good faith, as long as sporks of the
\* old key are good.
HonestNotBanned == now < RejectOld => banned = {}

\* Relay, getsporks and the spork stage of the sync: in the end all nodes go by
\* the same sporks, whatever was updated or restarted on the way, unless the end
\* of the old key has separated them.  (Connections are lost less often than the
\* spork stage asks, MaxDisconnects < SporkRequests.)
SporksAgree == <>[](banned = {} => \A n, p \in Node : active[n] = active[p])

OldKeyHolders ==
  {n \in Node : \E m \in Range(active[n]) \cup Range(db[n]) \cup {checking[n]} :
                  m # NoMsg /\ m.key = "old"}

\* nTime_RejectOldSporkKey: from then on no further node goes by, has in its
\* database or is about to store a spork that the old key signed.
OldKeyConfined ==
  [][now >= RejectOld => OldKeyHolders' \subseteq OldKeyHolders]_vars

\* LoadSporksFromDB on a stale spork 15, "we know that the value is stale and
\* should ignore it": the other sporks in the database are loaded.
OnlyStaleIgnored ==
  [][\A n \in Node : Restart(n) =>
       \A i \in Id \ {Spork15} : active'[n][i] = db[n][i]]_vars

\* What a node holds after each message of ProcessSporkMsg: its database keeps up
\* with its memory, and it has banned nobody who follows the same rules.
SporksSound == TypeOK /\ FollowersOnDisk /\ HonestNotBanned
=============================================================================
