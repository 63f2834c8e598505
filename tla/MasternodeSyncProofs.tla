------------------------ MODULE MasternodeSyncProofs ------------------------
(***************************************************************************)
(* Proofs about MasternodeSync: the stages come in their order when no     *)
(* other thread acts inside GetNextAsset, and a finished sync starts over  *)
(* only for a reason, whatever acts there.                                 *)
(***************************************************************************)
EXTENDS MasternodeSync, SequenceTheorems, TLAPS

Fields ==
  [asset : Assets, attempt : 0 .. Attempts, started : 0 .. Timeout + 1,
   failure : 0 .. Retry + 1, last : [Stages -> Age(Quiet)],
   seen : [Stages -> [Item -> 0 .. THRESHOLD]],
   overdue : BOOLEAN, fBlockchainSynced : BOOLEAN]

-----------------------------------------------------------------------------
(* What the methods do to the fields. *)

\* Reset yields well typed fields and the first asset.
LEMMA ResetFacts ==
  /\ Reset \in Fields
  /\ Reset.asset = "initial" /\ Reset.fBlockchainSynced = FALSE
BY SyncAssumption
   DEF Reset, Fields, Assets, Stages, Attempts, THRESHOLD, Timeout, Quiet, Age

\* IsBlockchainSynced resets an overdue sync, and else only ever finds the chain
\* synced: it leaves the asset and the items alone.
LEMMA BlockchainSyncedFacts ==
  ASSUME NEW s \in Fields, recent \in BOOLEAN
  PROVE  LET r == IsBlockchainSynced(s)
         IN  /\ r \in Fields
             /\ s.overdue => r.asset = "initial"
             /\ ~ s.overdue => /\ r.asset = s.asset /\ r.last = s.last
                               /\ s.fBlockchainSynced => r.fBlockchainSynced
<1>1. CASE s.overdue
  BY <1>1, ResetFacts, Zenon DEF IsBlockchainSynced, Fields
<1>2. CASE ~ s.overdue
  BY <1>2, Zenon DEF IsBlockchainSynced, Fields
<1>q. QED BY <1>1, <1>2

\* GetNextAsset moves to the asset after the one it found.
LEMMA NextAssetFacts ==
  ASSUME NEW s \in Fields, NEW found \in Assets
  PROVE  LET r == GetNextAsset(s, found)
         IN  /\ r \in Fields /\ r.attempt = 0
             /\ r.asset = Following[found] /\ r.last = s.last
             /\ r.fBlockchainSynced = s.fBlockchainSynced
             /\ r.overdue = s.overdue
<1> DEFINE r == GetNextAsset(s, found)
<1>1. Following[found] \in Assets
  BY DEF Following, Assets, Stages
<1>2. r = [s EXCEPT !.asset = Following[found], !.attempt = 0, !.started = 0]
  BY DEF GetNextAsset
<1>3. 0 \in 0 .. Attempts /\ 0 \in 0 .. Timeout + 1
  BY DEF Attempts, THRESHOLD, Timeout
<1> HIDE DEF r
<1>4. r \in Fields
  BY <1>1, <1>2, <1>3, Zenon DEF Fields
<1>5. /\ r.attempt = 0 /\ r.asset = Following[found] /\ r.last = s.last
      /\ r.fBlockchainSynced = s.fBlockchainSynced /\ r.overdue = s.overdue
  BY <1>2 DEF Fields
<1>q. QED BY <1>4, <1>5 DEF r

\* Reporting items touches neither the asset nor what was found about the
\* chain, and an item that was seen stays seen.
LEMMA AddedFacts ==
  ASSUME NEW s \in Fields, NEW st \in Stages, NEW H \in SUBSET Item
  PROVE  LET r == Added(s, st, H)
         IN  /\ r \in Fields
             /\ r.asset = s.asset /\ r.overdue = s.overdue
             /\ r.fBlockchainSynced = s.fBlockchainSynced
             /\ \A x \in Stages : s.last[x] # Never => r.last[x] # Never
<1> DEFINE new == {h \in H : s.seen[st][h] < THRESHOLD}
           seen1 == [h \in Item |-> IF h \in new THEN s.seen[st][h] + 1 ELSE s.seen[st][h]]
           last1 == IF new = {} THEN s.last[st] ELSE 0
           r == Added(s, st, H)
<1>1. r = [s EXCEPT !.last = [s.last EXCEPT ![st] = last1],
                    !.seen = [s.seen EXCEPT ![st] = seen1]]
  BY DEF Added, Fields
<1>2. seen1 \in [Item -> 0 .. THRESHOLD]
  <2>1. s.seen[st] \in [Item -> 0 .. THRESHOLD]
    BY DEF Fields
  <2>q. QED BY <2>1 DEF THRESHOLD
<1>3. last1 \in Age(Quiet) /\ (s.last[st] # Never => last1 # Never)
  BY SyncAssumption DEF Fields, Age, Quiet
<1> HIDE DEF seen1, last1, r
<1>4. /\ r.last = [s.last EXCEPT ![st] = last1] /\ r.seen = [s.seen EXCEPT ![st] = seen1]
      /\ r.asset = s.asset /\ r.overdue = s.overdue
      /\ r.fBlockchainSynced = s.fBlockchainSynced
  BY <1>1 DEF Fields
<1>5. r.last \in [Stages -> Age(Quiet)] /\ r.seen \in [Stages -> [Item -> 0 .. THRESHOLD]]
  BY <1>2, <1>3, <1>4 DEF Fields
<1>6. r \in Fields
  BY <1>1, <1>4, <1>5, Zenon DEF Fields
<1>7. \A x \in Stages : s.last[x] # Never => r.last[x] # Never
  BY <1>3, <1>4 DEF Fields
<1>q. QED BY <1>4, <1>6, <1>7 DEF r

\* Ages grow up to their caps; an event that happened has happened.
LEMMA OlderFacts ==
  ASSUME NEW s \in Fields
  PROVE  LET r == Older(s)
         IN  /\ r \in Fields
             /\ r.asset = s.asset /\ r.overdue = s.overdue
             /\ r.fBlockchainSynced = s.fBlockchainSynced
             /\ \A x \in Stages : s.last[x] # Never => r.last[x] # Never
<1> DEFINE up(a, n) == IF a < n THEN a + 1 ELSE a
           started1 == IF s.asset \in Stages THEN up(s.started, Timeout + 1) ELSE s.started
           failure1 == IF s.asset = "failed" THEN up(s.failure, Retry + 1) ELSE s.failure
           last1 == [st \in Stages |-> IF s.last[st] = Never THEN Never
                                       ELSE up(s.last[st], Quiet)]
           r == Older(s)
<1>1. r = [s EXCEPT !.started = started1, !.failure = failure1, !.last = last1]
  BY DEF Older, Fields
<1>2. started1 \in 0 .. Timeout + 1
  BY DEF Fields, Timeout
<1>3. failure1 \in 0 .. Retry + 1
  BY SyncAssumption DEF Fields
<1>4. /\ last1 \in [Stages -> Age(Quiet)]
      /\ \A x \in Stages : s.last[x] # Never => last1[x] # Never
  <2>1. ASSUME NEW x \in Stages, s.last[x] # Never
        PROVE  up(s.last[x], Quiet) \in 0 .. Quiet
    <3>1. s.last[x] \in 0 .. Quiet
      BY <2>1 DEF Fields, Age
    <3>q. QED BY <3>1 DEF Quiet
  <2>2. Never \notin 0 .. Quiet
    BY SyncAssumption
  <2> HIDE DEF up
  <2>q. QED BY <2>1, <2>2 DEF Age
<1> HIDE DEF started1, failure1, last1, r
<1>5. /\ r.last = last1 /\ r.asset = s.asset /\ r.overdue = s.overdue
      /\ r.fBlockchainSynced = s.fBlockchainSynced
  BY <1>1 DEF Fields
<1>6. r \in Fields
  BY <1>1, <1>2, <1>3, <1>4, Zenon DEF Fields
<1>q. QED BY <1>4, <1>5, <1>6 DEF r

\* Resync starts over or leaves the fields alone.
LEMMA ResyncFacts ==
  ASSUME NEW s \in Fields
  PROVE  Resync(s) \in Fields /\ (Resync(s) = s \/ Resync(s).asset = "initial")
BY ResetFacts DEF Resync

-----------------------------------------------------------------------------
(***************************************************************************)
(* Types, and what GetNextAsset found.  Between its switch and its         *)
(* assignments another thread may reset the sync, and nothing else.        *)
(***************************************************************************)

TypeInv ==
  /\ TypeOK
  /\ conn \in Seq(Peer)
  /\ pc = "next" => /\ goal \in {"sporks"} \cup Stages
                    /\ sync.asset \in {goal, "initial"}

\* A new node has no peers and nothing to go on from.
LEMMA TypeInit == Init => TypeInv
<1> SUFFICES ASSUME Init PROVE TypeInv
  OBVIOUS
<1>1. sync \in Fields
  BY ResetFacts DEF Init
<1>2. IsInjective(conn) /\ Range(conn) \subseteq Peer /\ conn \in Seq(Peer)
  BY DEF Init, IsInjective, Range
<1>q. QED BY <1>1, <1>2, Zenon DEF Init, TypeInv, TypeOK, Fields, Assets

\* What the masternode thread and the message handler leave alone.
LEMMA PeersKept ==
  ASSUME TypeInv, UNCHANGED <<env, conn>>
  PROVE  /\ env' \in Envs /\ conn' \in Seq(Peer)
         /\ IsInjective(conn') /\ Range(conn') \subseteq Peer
BY DEF TypeInv, TypeOK

\* One call of Process.
LEMMA ProcessType ==
  ASSUME TypeInv, Process
  PROVE  TypeInv'
<1> DEFINE s0 == Older(sync)
           s1 == Resync(s0)
           s2 == IF s1.asset = "initial" THEN GetNextAsset(s1, "initial") ELSE s1
           s3 == IsBlockchainSynced(s2)
<1>1. sync \in Fields /\ recent \in BOOLEAN
  BY DEF TypeInv, TypeOK, Fields
<1>2. s0 \in Fields
  BY <1>1, OlderFacts
<1>3. s1 \in Fields
  BY <1>2, ResyncFacts
<1>4. s2 \in Fields
  BY <1>3, NextAssetFacts DEF Assets
<1>5. s3 \in Fields /\ IsBlockchainSynced(s0) \in Fields
  BY <1>1, <1>2, <1>4, BlockchainSyncedFacts
<1>6. /\ sync' \in {s3, IsBlockchainSynced(s0)} /\ pc = "wait" /\ pc' \in {"wait", "peers"}
      /\ fulfilled' \in {fulfilled, [p \in Peer |-> {}]}
      /\ UNCHANGED <<goal, recent, env, conn, answers, listAsked, have, enabled>>
  BY DEF Process, store
<1> HIDE DEF s0, s1, s2, s3
<1>7. sync' \in Fields
  BY <1>5, <1>6
<1>8. fulfilled' \in [Peer -> SUBSET (Stages \cup {"sporks"})]
  BY <1>6 DEF TypeInv, TypeOK
<1>q. QED BY <1>6, <1>7, <1>8, PeersKept DEF TypeInv, TypeOK, Fields

\* One request to one peer, or the decision to go on.
LEMMA SyncWithNodeType ==
  ASSUME TypeInv, SyncWithNode
  PROVE  TypeInv'
<1>1. sync \in Fields /\ fulfilled \in [Peer -> SUBSET (Stages \cup {"sporks"})]
  BY DEF TypeInv, TypeOK, Fields
<1>2. PICK i \in DOMAIN conn :
        \/ SyncSporks(conn[i]) \/ SyncList(conn[i], "list")
        \/ SyncList(conn[i], "mnw") \/ SyncBudget(conn[i])
  BY DEF SyncWithNode
<1> DEFINE p == conn[i]
<1>3. p \in Range(conn) /\ p \in Peer
  BY DEF TypeInv, TypeOK, Range
<1> HIDE DEF p
<1>4. ASSUME sync.attempt < Attempts
      PROVE  [sync EXCEPT !.attempt = sync.attempt + 1] \in Fields
  <2>1. sync.attempt + 1 \in 0 .. Attempts
    BY <1>1, <1>4 DEF Fields, Attempts, THRESHOLD
  <2>q. QED BY <1>1, <2>1 DEF Fields
<1>5. [sync EXCEPT !.asset = "failed", !.attempt = 0, !.failure = 0] \in Fields
  <2>1. 0 \in 0 .. Attempts /\ 0 \in 0 .. Retry + 1 /\ "failed" \in Assets
    BY SyncAssumption DEF Attempts, THRESHOLD, Assets
  <2>q. QED BY <1>1, <2>1, Zenon DEF Fields
<1>6. ASSUME NEW what \in Stages \cup {"sporks"}, Fulfil(p, what)
      PROVE  fulfilled' \in [Peer -> SUBSET (Stages \cup {"sporks"})]
  BY <1>1, <1>3, <1>6 DEF Fulfil
<1>7. ASSUME NEW st \in Stages, Ask(p, st), sync.attempt < Attempts
      PROVE  /\ sync' \in Fields
             /\ answers' \subseteq Range(conn) \X Stages /\ listAsked' \subseteq Peer
  BY <1>3, <1>4, <1>7 DEF Ask, TypeInv, TypeOK
<1>8. ASSUME GoOn, sync' = sync, sync.asset \in {"sporks"} \cup Stages
      PROVE  /\ pc' = "next" /\ goal' \in {"sporks"} \cup Stages
             /\ sync'.asset \in {goal', "initial"} /\ goal' \in Assets
  BY <1>8 DEF GoOn, Assets
<1> DEFINE Goal ==
      /\ sync' \in Fields /\ fulfilled' \in [Peer -> SUBSET (Stages \cup {"sporks"})]
      /\ answers' \subseteq Range(conn) \X Stages /\ listAsked' \subseteq Peer
      /\ \/ pc' = "wait" /\ goal' = goal
         \/ /\ pc' = "next" /\ goal' \in {"sporks"} \cup Stages
            /\ sync'.asset \in {goal', "initial"} /\ goal' \in Assets
      /\ UNCHANGED <<recent, env, conn, have, enabled>>
<1>9. ASSUME Goal PROVE TypeInv'
  <2>1. answers' \subseteq Range(conn') \X Stages
    BY <1>9
  <2>q. QED BY <1>9, <2>1, PeersKept DEF TypeInv, TypeOK, Fields
<1>10. answers \subseteq Range(conn) \X Stages /\ listAsked \subseteq Peer
  BY DEF TypeInv, TypeOK
<1>11. CASE SyncSporks(p)
  <2>1. /\ sync.asset = "sporks" /\ Fulfil(p, "sporks")
        /\ UNCHANGED <<recent, env, conn, answers, listAsked, have, enabled>>
    BY <1>11 DEF SyncSporks, store
  <2>2. CASE SporksAsked
    <3>1. GoOn /\ sync' = sync
      BY <1>11, <2>2 DEF SyncSporks
    <3>q. QED BY <1>1, <1>6, <1>8, <1>9, <1>10, <2>1, <3>1
  <2>3. CASE ~ SporksAsked
    <3>1. sync.attempt < Attempts
      BY <1>1, <2>3 DEF SporksAsked, Attempts, THRESHOLD, Fields
    <3>2. /\ sync' = [sync EXCEPT !.attempt = sync.attempt + 1]
          /\ pc' = "wait" /\ goal' = goal
      BY <1>11, <2>3 DEF SyncSporks
    <3>q. QED BY <1>4, <1>6, <1>9, <1>10, <2>1, <3>1, <3>2
  <2>q. QED BY <2>2, <2>3
<1>12. ASSUME NEW st \in {"list", "mnw"}, SyncList(p, st)
       PROVE  Goal
  <2> st \in Stages
    BY DEF Stages
  <2>1. sync.asset = st /\ UNCHANGED <<recent, env, conn, have, enabled>>
    BY <1>12 DEF SyncList, store
  <2>2. CASE Ready(st)
    <3>1. GoOn /\ UNCHANGED <<sync, fulfilled, answers, listAsked>>
      BY <1>12, <2>2 DEF SyncList
    <3>q. QED BY <1>1, <1>8, <1>10, <2>1, <3>1
  <2>3. CASE ~ Ready(st)
    <3>1. Fulfil(p, st)
      BY <1>12, <2>3 DEF SyncList
    <3>2. CASE TimedOut(st) /\ Spork8
      <4>1. /\ sync' = [sync EXCEPT !.asset = "failed", !.attempt = 0, !.failure = 0]
            /\ pc' = "wait" /\ UNCHANGED <<goal, answers, listAsked>>
        BY <1>12, <2>3, <3>2 DEF SyncList
      <4>q. QED BY <1>5, <1>6, <1>10, <2>1, <3>1, <4>1
    <3>3. CASE TimedOut(st) /\ ~ Spork8
      <4>1. GoOn /\ UNCHANGED <<sync, answers, listAsked>>
        BY <1>12, <2>3, <3>3 DEF SyncList
      <4>q. QED BY <1>1, <1>6, <1>8, <1>10, <2>1, <3>1, <4>1
    <3>4. CASE ~ TimedOut(st) /\ sync.attempt >= Attempts
      <4>1. pc' = "wait" /\ UNCHANGED <<sync, goal, answers, listAsked>>
        BY <1>12, <2>3, <3>4 DEF SyncList
      <4>q. QED BY <1>1, <1>6, <1>10, <2>1, <3>1, <4>1
    <3>5. CASE ~ TimedOut(st) /\ ~ (sync.attempt >= Attempts)
      <4>1. Ask(p, st) /\ pc' = "wait" /\ goal' = goal
        BY <1>12, <2>3, <3>5 DEF SyncList
      <4>2. sync.attempt < Attempts
        BY <1>1, <3>5 DEF Fields, Attempts, THRESHOLD
      <4>q. QED BY <1>6, <1>7, <2>1, <3>1, <4>1, <4>2
    <3>q. QED BY <3>2, <3>3, <3>4, <3>5
  <2>q. QED BY <2>2, <2>3
<1>13. CASE SyncBudget(p)
  <2> "budget" \in Stages
    BY DEF Stages
  <2>1. sync.asset = "budget" /\ UNCHANGED <<recent, env, conn, have, enabled>>
    BY <1>13 DEF SyncBudget, store
  <2>2. CASE Ready("budget") \/ TimedOut("budget")
    <3>1. GoOn /\ UNCHANGED <<sync, fulfilled, answers, listAsked>>
      BY <1>13, <2>2 DEF SyncBudget
    <3>q. QED BY <1>1, <1>8, <1>9, <1>10, <2>1, <3>1
  <2>3. CASE ~ (Ready("budget") \/ TimedOut("budget"))
    <3>1. Fulfil(p, "budget") /\ pc' = "wait" /\ goal' = goal
      BY <1>13, <2>3 DEF SyncBudget
    <3>2. CASE sync.attempt >= Attempts
      <4>1. UNCHANGED <<sync, answers, listAsked>>
        BY <1>13, <2>3, <3>2 DEF SyncBudget
      <4>q. QED BY <1>1, <1>6, <1>9, <1>10, <2>1, <3>1, <4>1
    <3>3. CASE ~ (sync.attempt >= Attempts)
      <4>1. Ask(p, "budget")
        BY <1>13, <2>3, <3>3 DEF SyncBudget
      <4>2. sync.attempt < Attempts
        BY <1>1, <3>3 DEF Fields, Attempts, THRESHOLD
      <4>q. QED BY <1>6, <1>7, <1>9, <2>1, <3>1, <4>1, <4>2
    <3>q. QED BY <3>2, <3>3
  <2>q. QED BY <2>2, <2>3
<1>q. QED BY <1>2, <1>9, <1>11, <1>12, <1>13 DEF p

\* A sequence without its i-th element, as vNodes after an erase.
Without(s, i) == SubSeq(s, 1, i - 1) \o SubSeq(s, i + 1, Len(s))

\* The peers that stay keep their order when one leaves vNodes.
LEMMA WithoutFacts ==
  ASSUME NEW S, NEW s \in Seq(S), NEW i \in DOMAIN s
  PROVE  /\ Without(s, i) \in Seq(S)
         /\ Len(Without(s, i)) = Len(s) - 1
         /\ \A k \in 1 .. Len(s) - 1 : Without(s, i)[k] = IF k < i THEN s[k] ELSE s[k + 1]
<1> DEFINE a == SubSeq(s, 1, i - 1)
           b == SubSeq(s, i + 1, Len(s))
<1>1. i \in 1 .. Len(s) /\ Len(s) \in Nat
  OBVIOUS
<1>2. a \in Seq(S) /\ Len(a) = i - 1 /\ \A k \in 1 .. i - 1 : a[k] = s[k]
  BY <1>1
<1>3. b \in Seq(S) /\ Len(b) = Len(s) - i /\ \A k \in 1 .. Len(s) - i : b[k] = s[i + k]
  BY <1>1
<1> HIDE DEF a, b
<1>4. a \o b \in Seq(S) /\ Len(a \o b) = Len(s) - 1
  BY <1>1, <1>2, <1>3
<1>5. ASSUME NEW k \in 1 .. Len(s) - 1
      PROVE  (a \o b)[k] = IF k < i THEN s[k] ELSE s[k + 1]
  <2>1. CASE k < i
    BY <1>1, <1>2, <1>3, <2>1
  <2>2. CASE ~ (k < i)
    <3>0. k \in 1 .. Len(a) + Len(b) /\ k > Len(a)
      BY <1>1, <1>2, <1>3, <2>2
    <3>1. (a \o b)[k] = b[k - Len(a)]
      <4>1. \A j \in 1 .. Len(a) + Len(b) :
              (a \o b)[j] = IF j <= Len(a) THEN a[j] ELSE b[j - Len(a)]
        BY <1>2, <1>3, ConcatProperties
      <4>2. ~ (k <= Len(a))
        BY <1>1, <1>2, <3>0
      <4>q. QED BY <3>0, <4>1, <4>2
    <3>2. k - (i - 1) \in 1 .. Len(s) - i /\ i + (k - (i - 1)) = k + 1
      BY <1>1, <2>2
    <3>q. QED BY <1>2, <1>3, <2>2, <3>1, <3>2
  <2>q. QED BY <2>1, <2>2, Zenon
<1>q. QED BY <1>4, <1>5, Zenon DEF Without, a, b

\* The assignments of GetNextAsset, with what its switch found.
LEMMA NextAssetType ==
  ASSUME TypeInv, NextAsset
  PROVE  TypeInv'
<1> DEFINE s == GetNextAsset(sync, goal)
<1>1. sync \in Fields /\ goal \in Assets
  BY DEF TypeInv, TypeOK, Fields
<1>2. s \in Fields
  BY <1>1, NextAssetFacts
<1>3. 1 \in 0 .. Attempts
  BY DEF Attempts, THRESHOLD
<1>4. /\ sync' \in {s, [s EXCEPT !.attempt = 1]} /\ pc' = "wait" /\ goal' = "initial"
      /\ fulfilled' \in {fulfilled, [p \in Peer |-> {}]}
      /\ UNCHANGED <<recent, env, conn, answers, listAsked, have, enabled>>
  BY DEF NextAsset, store
<1> HIDE DEF s
<1>5. [s EXCEPT !.attempt = 1] \in Fields
  BY <1>2, <1>3 DEF Fields
<1>6. sync' \in Fields
  BY <1>2, <1>4, <1>5
<1>7. fulfilled' \in [Peer -> SUBSET (Stages \cup {"sporks"})]
  BY <1>4 DEF TypeInv, TypeOK
<1>q. QED BY <1>4, <1>6, <1>7, PeersKept DEF TypeInv, TypeOK, Fields, Assets

\* Items that arrive leave the asset alone, unless the sync was overdue and the
\* handler's question reset it.
LEMMA ReceiveFacts ==
  ASSUME TypeInv, NEW st \in Stages, NEW H \in SUBSET Item, Receive(st, H)
  PROVE  /\ sync' \in Fields /\ have' \in [Stages -> SUBSET Item] /\ enabled' \in BOOLEAN
         /\ \/ sync.overdue /\ sync'.asset = "initial"
            \/ /\ sync'.asset = sync.asset
               /\ sync.fBlockchainSynced => sync'.fBlockchainSynced
               /\ \A x \in Stages : sync.last[x] # Never => sync'.last[x] # Never
<1> DEFINE s == IF H \subseteq have[st] THEN sync ELSE IsBlockchainSynced(sync)
           got == IF s.fBlockchainSynced THEN H ELSE H \cap have[st]
<1>1. sync \in Fields /\ recent \in BOOLEAN /\ have \in [Stages -> SUBSET Item]
  BY DEF TypeInv, TypeOK, Fields
<1>2. /\ s \in Fields
      /\ \/ sync.overdue /\ s.asset = "initial"
         \/ /\ s.asset = sync.asset /\ s.last = sync.last
            /\ sync.fBlockchainSynced => s.fBlockchainSynced
  <2>1. CASE H \subseteq have[st]
    BY <1>1, <2>1
  <2>2. CASE ~ (H \subseteq have[st])
    BY <1>1, <2>2, BlockchainSyncedFacts
  <2>q. QED BY <2>1, <2>2
<1>3. got \in SUBSET Item
  OBVIOUS
<1>4. /\ sync' = Added(s, st, got)
      /\ have' = [have EXCEPT ![st] = have[st] \cup got]
      /\ enabled' = (enabled \/ (st = "list" /\ got # {}))
  BY DEF Receive
<1> HIDE DEF s, got
<1>5. /\ sync' \in Fields /\ sync'.asset = s.asset
      /\ sync'.fBlockchainSynced = s.fBlockchainSynced
      /\ \A x \in Stages : s.last[x] # Never => sync'.last[x] # Never
  BY <1>2, <1>3, <1>4, AddedFacts
<1>6. have' \in [Stages -> SUBSET Item]
  BY <1>1, <1>3, <1>4
<1>7. enabled' \in BOOLEAN
  BY <1>4
<1>q. QED BY <1>2, <1>5, <1>6, <1>7

\* The message handler, the operator and the network.
LEMMA OthersType ==
  ASSUME TypeInv,
         \/ \E p \in Peer, st \in Stages : Answer(p, st)
         \/ \E st \in Stages, h \in Item : Announce(st, h)
         \/ Query \/ ResetCommand \/ BlockArrives \/ LoseMasternodes
  PROVE  TypeInv'
<1>1. sync \in Fields /\ recent \in BOOLEAN
  BY DEF TypeInv, TypeOK, Fields
<1>2. CASE \E p \in Peer, st \in Stages : Answer(p, st)
  <2> PICK p \in Peer, st \in Stages : Answer(p, st)
    BY <1>2
  <2>1. Has[st] \in SUBSET Item
    BY SyncAssumption
  <2>2. /\ Receive(st, Has[st]) /\ answers' = answers \ {<<p, st>>}
        /\ UNCHANGED <<pc, goal, recent, env, conn, fulfilled, listAsked>>
    BY DEF Answer
  <2>3. /\ sync' \in Fields /\ have' \in [Stages -> SUBSET Item] /\ enabled' \in BOOLEAN
        /\ sync'.asset \in {sync.asset, "initial"}
    BY <2>1, <2>2, ReceiveFacts
  <2>q. QED BY <2>2, <2>3, PeersKept DEF TypeInv, TypeOK, Fields
<1>3. CASE \E st \in Stages, h \in Item : Announce(st, h)
  <2> PICK st \in Stages, h \in Item : Announce(st, h)
    BY <1>3
  <2>1. Receive(st, {h}) /\ UNCHANGED <<pc, goal, recent, peers>>
    BY DEF Announce
  <2>2. /\ sync' \in Fields /\ have' \in [Stages -> SUBSET Item] /\ enabled' \in BOOLEAN
        /\ sync'.asset \in {sync.asset, "initial"}
    BY <2>1, ReceiveFacts
  <2>q. QED BY <2>1, <2>2, PeersKept, Zenon DEF TypeInv, TypeOK, Fields, peers
<1>4. CASE Query
  <2>1. sync' = IsBlockchainSynced(sync) /\ UNCHANGED <<pc, goal, recent, peers, store>>
    BY <1>4 DEF Query
  <2>2. sync' \in Fields /\ sync'.asset \in {sync.asset, "initial"}
    BY <1>1, <2>1, BlockchainSyncedFacts
  <2>q. QED BY <2>1, <2>2, PeersKept DEF TypeInv, TypeOK, Fields, peers, store
<1>5. CASE ResetCommand
  <2>1. sync' = Reset /\ UNCHANGED <<pc, goal, recent, peers, store>>
    BY <1>5 DEF ResetCommand
  <2>q. QED BY <2>1, ResetFacts, PeersKept DEF TypeInv, TypeOK, Fields, peers, store
<1>6. CASE BlockArrives
  BY <1>6, PeersKept DEF BlockArrives, TypeInv, TypeOK, peers, store
<1>7. CASE LoseMasternodes
  BY <1>7, PeersKept, Zenon DEF LoseMasternodes, TypeInv, TypeOK, peers, store
<1>q. QED BY <1>2, <1>3, <1>4, <1>5, <1>6, <1>7

\* Peers come and go, and a sleep drops them all.
LEMMA ConnectionType ==
  ASSUME TypeInv, Sleep \/ \E p \in Peer : Connect(p) \/ Disconnect(p)
  PROVE  TypeInv'
<1>1. /\ sync \in Fields /\ conn \in Seq(Peer) /\ IsInjective(conn)
      /\ answers \subseteq Range(conn) \X Stages
      /\ fulfilled \in [Peer -> SUBSET (Stages \cup {"sporks"})]
  BY DEF TypeInv, TypeOK, Fields
<1>2. CASE Sleep
  <2>1. /\ sync' = [sync EXCEPT !.overdue = TRUE] /\ pc = "wait" /\ recent' = FALSE
        /\ conn' = <<>> /\ fulfilled' = [p \in Peer |-> {}] /\ answers' = {}
        /\ UNCHANGED <<pc, goal, env, listAsked, have, enabled>>
    BY <1>2 DEF Sleep, store
  <2>2. sync' \in Fields
    BY <1>1, <2>1, Zenon DEF Fields
  <2>3. IsInjective(conn') /\ Range(conn') \subseteq Peer /\ conn' \in Seq(Peer)
    BY <2>1 DEF IsInjective, Range
  <2>q. QED BY <2>1, <2>2, <2>3, Zenon DEF TypeInv, TypeOK, Fields
<1>3. ASSUME NEW p \in Peer, Connect(p)
      PROVE  TypeInv'
  <2>1. /\ p \notin Range(conn) /\ conn' = Append(conn, p)
        /\ UNCHANGED <<env, sync, pc, goal, recent, fulfilled, answers, listAsked, have, enabled>>
    BY <1>3 DEF Connect, store
  <2>2. /\ conn' \in Seq(Peer) /\ Len(conn') = Len(conn) + 1 /\ conn'[Len(conn) + 1] = p
        /\ \A k \in 1 .. Len(conn) : conn'[k] = conn[k]
    BY <1>1, <2>1
  <2>3. Range(conn') \subseteq Peer
    BY <2>2 DEF Range
  <2>4. Range(conn) \subseteq Range(conn')
    BY <1>1, <2>2 DEF Range
  <2>5. IsInjective(conn')
    <3> SUFFICES ASSUME NEW k \in 1 .. Len(conn) + 1, NEW l \in 1 .. Len(conn) + 1,
                        conn'[k] = conn'[l]
                 PROVE  k = l
      BY <2>2 DEF IsInjective
    <3>1. \A m \in 1 .. Len(conn) : conn[m] # p
      BY <1>1, <2>1 DEF Range
    <3>q. QED BY <1>1, <2>2, <3>1 DEF IsInjective
  <2>6. answers' \subseteq Range(conn') \X Stages
    BY <1>1, <2>1, <2>4
  <2>q. QED BY <2>1, <2>2, <2>3, <2>5, <2>6 DEF TypeInv, TypeOK
<1>4. ASSUME NEW p \in Peer, Disconnect(p)
      PROVE  TypeInv'
  <2>1. /\ pc = "wait" /\ fulfilled' = [fulfilled EXCEPT ![p] = {}]
        /\ answers' = {a \in answers : a[1] # p}
        /\ UNCHANGED <<env, sync, pc, goal, recent, listAsked, have, enabled>>
    BY <1>4 DEF Disconnect, store
  <2>2. PICK i \in DOMAIN conn : p = conn[i] /\ conn' = Without(conn, i)
    BY <1>4, Zenon DEF Disconnect, Without
  <2>3. /\ conn' \in Seq(Peer) /\ Len(conn') = Len(conn) - 1
        /\ \A k \in 1 .. Len(conn) - 1 : conn'[k] = IF k < i THEN conn[k] ELSE conn[k + 1]
    BY <1>1, <2>2, WithoutFacts
  <2>4. Len(conn) \in Nat /\ i \in 1 .. Len(conn)
    BY <1>1
  <2>5. IsInjective(conn')
    <3> SUFFICES ASSUME NEW k \in 1 .. Len(conn) - 1, NEW l \in 1 .. Len(conn) - 1,
                        conn'[k] = conn'[l]
                 PROVE  k = l
      BY <2>3 DEF IsInjective
    <3> DEFINE at(m) == IF m < i THEN m ELSE m + 1
    <3>1. at(k) \in DOMAIN conn /\ at(l) \in DOMAIN conn
      BY <1>1, <2>4
    <3>2. conn[at(k)] = conn[at(l)]
      BY <2>3
    <3>3. at(k) = at(l)
      BY <1>1, <3>1, <3>2 DEF IsInjective
    <3>q. QED BY <2>4, <3>3
  <2>6. Range(conn') \subseteq Peer
    BY <2>3 DEF Range
  <2>7. ASSUME NEW q \in Range(conn), q # p
        PROVE  q \in Range(conn')
    <3>1. PICK k \in 1 .. Len(conn) : q = conn[k]
      BY <1>1, <2>7 DEF Range
    <3>2. k # i
      BY <2>2, <2>7, <3>1
    <3>3. CASE k < i
      <4>1. k \in 1 .. Len(conn) - 1 /\ conn'[k] = q
        BY <2>3, <2>4, <3>1, <3>3
      <4>q. QED BY <2>3, <2>4, <4>1 DEF Range
    <3>4. CASE k > i
      <4>1. k - 1 \in 1 .. Len(conn) - 1 /\ conn'[k - 1] = q
        BY <2>3, <2>4, <3>1, <3>4
      <4>q. QED BY <2>3, <2>4, <4>1 DEF Range
    <3>q. QED BY <2>4, <3>2, <3>3, <3>4
  <2>8. answers' \subseteq Range(conn') \X Stages
    BY <1>1, <2>1, <2>7
  <2>9. fulfilled' \in [Peer -> SUBSET (Stages \cup {"sporks"})]
    BY <1>1, <2>1
  <2>q. QED BY <2>1, <2>3, <2>5, <2>6, <2>8, <2>9 DEF TypeInv, TypeOK
<1>q. QED BY <1>2, <1>3, <1>4

\* Types are kept by every step.
LEMMA TypeStep == TypeInv /\ [Next]_vars => TypeInv'
<1> SUFFICES ASSUME TypeInv, [Next]_vars PROVE TypeInv'
  OBVIOUS
<1>1. CASE NoPeerLeft
  BY <1>1, PeersKept DEF NoPeerLeft, TypeInv, TypeOK, peers, store
<1>2. CASE UNCHANGED vars
  BY <1>2, PeersKept DEF vars, TypeInv, TypeOK, peers, store
<1>q. QED
  BY <1>1, <1>2, ProcessType, SyncWithNodeType, NextAssetType, OthersType, ConnectionType
     DEF Next

-----------------------------------------------------------------------------
(***************************************************************************)
(* The order of the stages.  Process lets a stage work only with the chain *)
(* synced, and a stage that is left has what it was left for.  Both must   *)
(* still hold at the assignments of GetNextAsset: they do when no other    *)
(* thread acts in between.                                                 *)
(***************************************************************************)

OrderInv ==
  /\ ChainFirst /\ ItemsBeforeNext
  /\ pc \in {"peers", "next"} /\ sync.asset \in Stages => sync.fBlockchainSynced
  /\ pc = "next" => /\ goal = sync.asset
                    /\ Spork8 /\ goal \in {"list", "mnw"} => sync.last[goal] # Never

\* What keeps OrderInv: the sync starts over, or stays in its asset with at least
\* what was found and seen before.
Restarts == sync'.asset \in {"initial", "sporks"}
Stays ==
  /\ sync'.asset = sync.asset
  /\ sync.fBlockchainSynced => sync'.fBlockchainSynced
  /\ \A x \in Stages : sync.last[x] # Never => sync'.last[x] # Never

\* A restart or a stay keeps the order, at any place but GetNextAsset.
LEMMA KeepsOrder ==
  ASSUME OrderInv, Restarts \/ Stays, pc' # "next",
         pc' = "peers" => pc = "peers" \/ (sync'.asset \in Stages => sync'.fBlockchainSynced)
  PROVE  OrderInv'
<1>1. CASE Restarts
  BY <1>1 DEF Restarts, OrderInv, ChainFirst, ItemsBeforeNext, Stages
<1>2. CASE Stays
  <2>1. \A x \in {"list", "mnw"} : sync.last[x] # Never => sync'.last[x] # Never
    BY <1>2 DEF Stays, Stages
  <2>2. ChainFirst' /\ ItemsBeforeNext'
    BY <1>2, <2>1 DEF Stays, OrderInv, ChainFirst, ItemsBeforeNext
  <2>q. QED BY <1>2, <2>2 DEF Stays, OrderInv
<1>q. QED BY <1>1, <1>2

\* Process: a stage goes on with its peers only when the chain is synced.
LEMMA ProcessOrder ==
  ASSUME TypeInv, OrderInv, Process
  PROVE  OrderInv'
<1> DEFINE s0 == Older(sync)
           s1 == Resync(s0)
           s2 == IF s1.asset = "initial" THEN GetNextAsset(s1, "initial") ELSE s1
           s3 == IsBlockchainSynced(s2)
<1>1. sync \in Fields /\ recent \in BOOLEAN
  BY DEF TypeInv, TypeOK, Fields
<1>2. /\ s0 \in Fields /\ s0.asset = sync.asset /\ s0.overdue = sync.overdue
      /\ s0.fBlockchainSynced = sync.fBlockchainSynced
      /\ \A x \in Stages : sync.last[x] # Never => s0.last[x] # Never
  BY <1>1, OlderFacts
<1>3. pc = "wait"
  BY DEF Process
<1>4. CASE Idle(s0)
  <2>1. sync' = IsBlockchainSynced(s0) /\ pc' = pc
    BY <1>4 DEF Process
  <2> HIDE DEF s0
  <2>2. Restarts \/ Stays
    BY <1>1, <1>2, <2>1, BlockchainSyncedFacts DEF Restarts, Stays
  <2>q. QED BY <1>3, <2>1, <2>2, KeepsOrder
<1>5. CASE ~ Idle(s0)
  <2>1. /\ sync' = s3
        /\ pc' = IF ~ s3.fBlockchainSynced /\ s3.asset \in Stages THEN "wait" ELSE "peers"
    BY <1>5 DEF Process
  <2>2. s1 \in Fields /\ (s1 = s0 \/ s1.asset = "initial")
    BY <1>2, ResyncFacts
  <2>3. s2 \in Fields /\ (s2 = s0 \/ s2.asset = "sporks")
    <3>1. CASE s1.asset = "initial"
      BY <2>2, <3>1, NextAssetFacts, Zenon DEF Assets, Following
    <3>2. CASE s1.asset # "initial"
      BY <2>2, <3>2
    <3>q. QED BY <3>1, <3>2
  <2> HIDE DEF s0, s1, s2
  <2>4. /\ s3 \in Fields
        /\ \/ s3.asset = "initial"
           \/ /\ s3.asset = s2.asset /\ s3.last = s2.last
              /\ s2.fBlockchainSynced => s3.fBlockchainSynced
    BY <1>1, <2>3, BlockchainSyncedFacts
  <2> HIDE DEF s3
  <2>5. Restarts \/ Stays
    BY <1>2, <2>1, <2>3, <2>4 DEF Restarts, Stays
  <2>6. pc' # "next" /\ (pc' = "peers" => (sync'.asset \in Stages => sync'.fBlockchainSynced))
    BY <2>1
  <2>q. QED BY <2>5, <2>6, KeepsOrder
<1>q. QED BY <1>4, <1>5

\* SyncWithNode: the timeouts and the quiet periods.
LEMMA SyncWithNodeOrder ==
  ASSUME TypeInv, OrderInv, SyncWithNode
  PROVE  OrderInv'
<1>1. sync \in Fields /\ Never \notin 0 .. Quiet
  BY SyncAssumption DEF TypeInv, TypeOK, Fields
<1>2. PICK i \in DOMAIN conn :
        \/ SyncSporks(conn[i]) \/ SyncList(conn[i], "list")
        \/ SyncList(conn[i], "mnw") \/ SyncBudget(conn[i])
  BY DEF SyncWithNode
<1> DEFINE p == conn[i]
<1> HIDE DEF p
<1>3. ASSUME NEW st \in Stages, Ask(p, st)
      PROVE  Stays
  BY <1>1, <1>3 DEF Ask, Stays, Fields
<1>4. ASSUME pc' = "wait", Stays PROVE OrderInv'
  BY <1>4, KeepsOrder
<1>5. ASSUME sync' = sync PROVE Stays
  BY <1>5 DEF Stays
<1>6. ASSUME GoOn, sync' = sync, pc = "peers",
             Spork8 /\ sync.asset \in {"list", "mnw"} => sync.last[sync.asset] # Never
      PROVE  OrderInv'
  BY <1>6 DEF GoOn, OrderInv, ChainFirst, ItemsBeforeNext
<1>7. ASSUME NEW st \in Stages, Ready(st) PROVE sync.last[st] # Never
  BY <1>1, <1>7 DEF Ready, Quiet
<1>8. CASE SyncSporks(p)
  <2>1. pc = "peers" /\ sync.asset = "sporks"
    BY <1>8 DEF SyncSporks
  <2>2. \/ GoOn /\ sync' = sync
        \/ sync' = [sync EXCEPT !.attempt = sync.attempt + 1] /\ pc' = "wait"
    BY <1>8 DEF SyncSporks
  <2>3. sync' = [sync EXCEPT !.attempt = sync.attempt + 1] => Stays
    BY <1>1 DEF Stays, Fields
  <2>q. QED BY <1>4, <1>6, <2>1, <2>2, <2>3
<1>9. ASSUME NEW st \in {"list", "mnw"}, SyncList(p, st)
      PROVE  OrderInv'
  <2> st \in Stages
    BY DEF Stages
  <2>1. pc = "peers" /\ sync.asset = st
    BY <1>9 DEF SyncList
  <2>2. CASE Ready(st)
    <3>1. GoOn /\ sync' = sync
      BY <1>9, <2>2 DEF SyncList
    <3>q. QED BY <1>6, <1>7, <2>1, <2>2, <3>1
  <2>3. CASE ~ Ready(st) /\ TimedOut(st) /\ Spork8
    <3>1. /\ sync' = [sync EXCEPT !.asset = "failed", !.attempt = 0, !.failure = 0]
          /\ pc' = "wait"
      BY <1>9, <2>3 DEF SyncList
    <3>2. /\ sync'.asset = "failed" /\ sync'.fBlockchainSynced = sync.fBlockchainSynced
          /\ sync.fBlockchainSynced
      BY <1>1, <2>1, <3>1 DEF Fields, OrderInv
    <3>q. QED BY <3>1, <3>2 DEF OrderInv, ChainFirst, ItemsBeforeNext
  <2>4. CASE ~ Ready(st) /\ TimedOut(st) /\ ~ Spork8
    <3>1. GoOn /\ sync' = sync
      BY <1>9, <2>4 DEF SyncList
    <3>q. QED BY <1>6, <2>1, <2>4, <3>1
  <2>5. CASE ~ Ready(st) /\ ~ TimedOut(st)
    <3>1. pc' = "wait" /\ (sync' = sync \/ Ask(p, st))
      BY <1>9, <2>5 DEF SyncList
    <3>q. QED BY <1>3, <1>4, <1>5, <3>1
  <2>q. QED BY <2>2, <2>3, <2>4, <2>5
<1>10. CASE SyncBudget(p)
  <2>1. /\ pc = "peers" /\ sync.asset = "budget"
        /\ \/ GoOn /\ sync' = sync
           \/ pc' = "wait" /\ (sync' = sync \/ Ask(p, "budget"))
    BY <1>10 DEF SyncBudget
  <2>q. QED BY <1>3, <1>4, <1>5, <1>6, <2>1 DEF Stages
<1>q. QED BY <1>2, <1>8, <1>9, <1>10 DEF p

\* GetNextAsset's assignments, to an asset that was found just before.
LEMMA NextAssetOrder ==
  ASSUME TypeInv, OrderInv, NextAsset
  PROVE  OrderInv'
<1> DEFINE s == GetNextAsset(sync, goal)
<1>1. sync \in Fields /\ goal \in Assets
  BY DEF TypeInv, TypeOK, Fields
<1>2. /\ s \in Fields /\ s.asset = Following[goal] /\ s.last = sync.last
      /\ s.fBlockchainSynced = sync.fBlockchainSynced
  BY <1>1, NextAssetFacts
<1>3. sync' \in {s, [s EXCEPT !.attempt = 1]} /\ pc = "next" /\ pc' = "wait"
  BY DEF NextAsset
<1> HIDE DEF s
<1>4. /\ sync'.asset = Following[goal] /\ sync'.last = sync.last
      /\ sync'.fBlockchainSynced = sync.fBlockchainSynced
  BY <1>2, <1>3 DEF Fields
<1>5. goal \in {"sporks"} \cup Stages /\ goal = sync.asset
  BY <1>3 DEF TypeInv, OrderInv
<1>6. CASE goal = "sporks"
  BY <1>3, <1>4, <1>6 DEF OrderInv, ChainFirst, ItemsBeforeNext, Following
<1>7. CASE goal \in Stages
  <2>1. sync.fBlockchainSynced
    BY <1>3, <1>5, <1>7 DEF OrderInv
  <2>2. Spork8 => \/ goal = "list" /\ sync.last["list"] # Never
                  \/ /\ goal \in {"mnw", "budget"}
                     /\ sync.last["list"] # Never /\ sync.last["mnw"] # Never
    BY <1>3, <1>5, <1>7 DEF OrderInv, ItemsBeforeNext, Stages
  <2>3. \/ goal = "list" /\ sync'.asset = "mnw"
        \/ goal = "mnw" /\ sync'.asset = "budget"
        \/ goal = "budget" /\ sync'.asset = "finished"
    BY <1>4, <1>7 DEF Following, Stages
  <2>q. QED BY <1>3, <1>4, <2>1, <2>2, <2>3 DEF OrderInv, ChainFirst, ItemsBeforeNext
<1>q. QED BY <1>5, <1>6, <1>7

\* The other threads: outside of GetNextAsset they restart the sync or leave it.
LEMMA OthersOrder ==
  ASSUME ~ Races, TypeInv, OrderInv,
         \/ \E p \in Peer, st \in Stages : Answer(p, st)
         \/ \E st \in Stages, h \in Item : Announce(st, h)
         \/ Query \/ ResetCommand \/ BlockArrives \/ LoseMasternodes
  PROVE  OrderInv'
<1>1. sync \in Fields /\ recent \in BOOLEAN /\ pc \in {"wait", "peers", "next"}
  BY DEF TypeInv, TypeOK, Fields
<1>2. pc # "next" /\ pc' = pc
  BY Zenon DEF Answer, Announce, Query, ResetCommand, BlockArrives, LoseMasternodes, Others
<1>3. CASE \E p \in Peer, st \in Stages : Answer(p, st)
  <2> PICK p \in Peer, st \in Stages : Answer(p, st)
    BY <1>3
  <2>1. Receive(st, Has[st]) /\ Has[st] \in SUBSET Item
    BY SyncAssumption, Zenon DEF Answer
  <2>2. Restarts \/ Stays
    BY <2>1, ReceiveFacts DEF Restarts, Stays
  <2>q. QED BY <1>2, <2>2, KeepsOrder
<1>4. CASE \E st \in Stages, h \in Item : Announce(st, h)
  <2> PICK st \in Stages, h \in Item : Announce(st, h)
    BY <1>4
  <2>1. Receive(st, {h}) /\ {h} \in SUBSET Item
    BY DEF Announce
  <2>2. Restarts \/ Stays
    BY <2>1, ReceiveFacts DEF Restarts, Stays
  <2>q. QED BY <1>2, <2>2, KeepsOrder
<1>5. CASE Query
  <2>1. Restarts \/ Stays
    BY <1>1, <1>5, BlockchainSyncedFacts DEF Query, Restarts, Stays
  <2>q. QED BY <1>2, <2>1, KeepsOrder
<1>6. CASE ResetCommand
  <2>1. Restarts
    BY <1>6, ResetFacts DEF ResetCommand, Restarts
  <2>q. QED BY <1>2, <2>1, KeepsOrder
<1>7. CASE BlockArrives \/ LoseMasternodes
  <2>1. Stays
    BY <1>7 DEF BlockArrives, LoseMasternodes, Stays
  <2>q. QED BY <1>2, <2>1, KeepsOrder
<1>q. QED BY <1>3, <1>4, <1>5, <1>6, <1>7

\* Every step keeps the order.
LEMMA OrderStep ==
  ASSUME ~ Races, TypeInv, OrderInv, [Next]_vars
  PROVE  OrderInv'
<1>1. CASE NoPeerLeft
  <2>1. Stays /\ pc' = "wait"
    BY <1>1 DEF NoPeerLeft, Stays
  <2>q. QED BY <2>1, KeepsOrder
<1>2. CASE Sleep
  <2>1. Stays /\ pc' = "wait"
    BY <1>2 DEF Sleep, Stays, TypeInv, TypeOK
  <2>q. QED BY <2>1, KeepsOrder
<1>3. CASE \E p \in Peer : Connect(p) \/ Disconnect(p)
  <2>1. UNCHANGED <<sync, pc, goal>>
    BY <1>3 DEF Connect, Disconnect
  <2>q. QED BY <2>1 DEF OrderInv, ChainFirst, ItemsBeforeNext
<1>4. CASE UNCHANGED vars
  BY <1>4 DEF vars, OrderInv, ChainFirst, ItemsBeforeNext
<1>q. QED
  BY <1>1, <1>2, <1>3, <1>4, ProcessOrder, SyncWithNodeOrder, NextAssetOrder, OthersOrder
     DEF Next

\* CMasternodeSync::Process and SyncWithNode: if no other thread resets the sync
\* between GetNextAsset's switch and its assignments, no stage after the list is
\* reached before the chain was found synced, and under spork 8 none before an
\* item of each earlier stage was seen, for any peers, items and disturbances.
THEOREM StagesSafe == ~ Races => (Spec => []StagesInOrder)
<1> SUFFICES ASSUME ~ Races PROVE Spec => []StagesInOrder
  OBVIOUS
<1>1. Init => TypeInv /\ OrderInv
  <2>1. Init => OrderInv
    BY ResetFacts DEF Init, OrderInv, ChainFirst, ItemsBeforeNext
  <2>q. QED BY <2>1, TypeInit
<1>2. TypeInv /\ OrderInv /\ [Next]_vars => (TypeInv /\ OrderInv)'
  BY TypeStep, OrderStep
<1>3. TypeInv /\ OrderInv => StagesInOrder
  BY DEF TypeInv, OrderInv, StagesInOrder
<1>q. QED BY <1>1, <1>2, <1>3, PTL DEF Spec

-----------------------------------------------------------------------------
(* A finished sync. *)

ForAReason == IsSynced(sync) /\ ~ IsSynced(sync') => sync.overdue \/ ~ enabled \/ ResetCommand

\* Process leaves a finished sync alone while masternodes are enabled.
LEMMA ProcessReason ==
  ASSUME TypeInv, Process
  PROVE  ForAReason
<1> SUFFICES ASSUME IsSynced(sync), ~ sync.overdue, enabled
             PROVE  IsSynced(sync')
  BY DEF ForAReason
<1>1. sync \in Fields /\ recent \in BOOLEAN
  BY DEF TypeInv, TypeOK, Fields
<1>2. Older(sync) \in Fields /\ Older(sync).asset = sync.asset /\ ~ Older(sync).overdue
  BY <1>1, OlderFacts
<1>3. Idle(Older(sync))
  BY <1>2 DEF Idle, IsSynced
<1>4. sync' = IsBlockchainSynced(Older(sync))
  BY <1>3 DEF Process
<1>q. QED BY <1>1, <1>2, <1>4, BlockchainSyncedFacts DEF IsSynced

\* No step but a reset with a reason leaves the last asset: GetNextAsset, if it
\* is in progress, found an earlier one, and the sync is no further since.
LEMMA StepReason ==
  ASSUME TypeInv, [Next]_vars
  PROVE  ForAReason
<1>1. sync \in Fields /\ recent \in BOOLEAN
  BY DEF TypeInv, TypeOK, Fields
<1>2. CASE SyncWithNode
  <2>1. sync.asset # "finished"
    BY <1>2 DEF SyncWithNode, SyncSporks, SyncList, SyncBudget
  <2>q. QED BY <2>1 DEF ForAReason, IsSynced
<1>3. CASE NextAsset
  <2>1. sync.asset # "finished"
    BY <1>3 DEF NextAsset, TypeInv, Stages
  <2>q. QED BY <2>1 DEF ForAReason, IsSynced
<1>4. CASE \E p \in Peer, st \in Stages : Answer(p, st)
  <2> PICK p \in Peer, st \in Stages : Answer(p, st)
    BY <1>4
  <2>1. Receive(st, Has[st]) /\ Has[st] \in SUBSET Item
    BY SyncAssumption DEF Answer
  <2>2. sync.overdue \/ sync'.asset = sync.asset
    BY <2>1, ReceiveFacts
  <2>q. QED BY <2>2 DEF ForAReason, IsSynced
<1>5. CASE \E st \in Stages, h \in Item : Announce(st, h)
  <2> PICK st \in Stages, h \in Item : Announce(st, h)
    BY <1>5
  <2>1. Receive(st, {h}) /\ {h} \in SUBSET Item
    BY DEF Announce
  <2>2. sync.overdue \/ sync'.asset = sync.asset
    BY <2>1, ReceiveFacts
  <2>q. QED BY <2>2 DEF ForAReason, IsSynced
<1>6. CASE Query
  BY <1>1, <1>6, BlockchainSyncedFacts DEF Query, ForAReason, IsSynced
<1>7. CASE ResetCommand
  BY <1>7 DEF ForAReason
<1>8. CASE Sleep
  <2>1. sync'.asset = sync.asset
    BY <1>1, <1>8 DEF Sleep, Fields
  <2>q. QED BY <2>1 DEF ForAReason, IsSynced
<1>9. CASE \/ NoPeerLeft \/ BlockArrives \/ LoseMasternodes
           \/ \E p \in Peer : Connect(p) \/ Disconnect(p)
           \/ UNCHANGED vars
  <2>1. sync' = sync
    BY <1>9 DEF NoPeerLeft, BlockArrives, LoseMasternodes, Connect, Disconnect, vars
  <2>q. QED BY <2>1 DEF ForAReason
<1>q. QED
  BY <1>2, <1>3, <1>4, <1>5, <1>6, <1>7, <1>8, <1>9, ProcessReason DEF Next

\* CMasternodeSync: a finished sync starts over only when it is overdue, no
\* masternode is enabled, or the operator resets it, also when other threads act
\* inside GetNextAsset.
THEOREM FinishedSyncStays == Spec => FinishedStays
<1>1. TypeInv /\ [Next]_vars
        => [IsSynced(sync) /\ ~IsSynced(sync') => sync.overdue \/ ~enabled \/ ResetCommand]_vars
  BY StepReason DEF ForAReason
<1>q. QED BY <1>1, TypeInit, TypeStep, PTL DEF Spec, FinishedStays
=============================================================================
