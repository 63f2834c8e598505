---------------------- MODULE MasternodePaymentsProofs ----------------------
(***************************************************************************)
(* Proofs about MasternodePayments: the tallies are exact, through         *)
(* restarts, crashes and the cleaning of old votes, and no two payees have *)
(* a majority for the same block.                                          *)
(***************************************************************************)
EXTENDS MasternodePayments, FiniteSetTheorems, TLAPS

(***************************************************************************)
(* The inductive invariant.  What is in memory and what is in              *)
(* mnpayments.dat are both books whose tallies are exact, the first less   *)
(* the votes that a thread has stored and not yet tallied.  Such a vote is *)
(* not old enough for CleanPaymentList: no block comes in between.  Every  *)
(* vote is by a masternode in the top of the list, or by this node, which  *)
(* ranks itself in the list it has.                                        *)
(***************************************************************************)

Tallies == [Payee \cup {NoPayee} -> Nat]

\* vs and bs as mapMasternodePayeeVotes and mapMasternodeBlocks.
Book(vs, bs) ==
  /\ DOMAIN bs \subseteq Heights
  /\ \A h \in DOMAIN bs : bs[h] \in Tallies
  /\ \A v \in vs : v.height \in DOMAIN bs
  /\ 0 \in DOMAIN bs => \A p \in Payee : bs[0][p] = 0

VotesFor(vs, h, p) == {v \in vs : v.height = h /\ v.payee = p}
InHand(ad, h, p) == {t \in Threads : ad[t].height = h /\ ad[t].payee = p}
TallyIn(bs, h, p) == IF h \in DOMAIN bs THEN bs[h][p] ELSE 0
Exact(vs, bs, ad) ==
  \A h \in Heights \ {0}, p \in Payee :
    TallyIn(bs, h, p) + Cardinality(InHand(ad, h, p)) = Cardinality(VotesFor(vs, h, p))

Idle == [t \in Threads |-> NoVote]

Typed ==
  /\ height \in BlockHeights
  /\ sent \subseteq Vote /\ votes \subseteq sent /\ file.votes \subseteq sent
  /\ lastHeight \in [Masternode -> Heights]
  /\ lastVote \in [Masternode -> Heights]
  /\ adding \in [Threads -> Vote \cup {NoVote}]
  /\ enabled \subseteq Masternode /\ keyKnown \subseteq Masternode

Books ==
  /\ Book(votes, blocks) /\ Exact(votes, blocks, adding)
  /\ Book(file.votes, file.blocks) /\ Exact(file.votes, file.blocks, Idle)

Fresh == \A t \in Threads : adding[t] # NoVote /\ adding[t].height # 0 => ~ Outdated(adding[t])

Voters == \A v \in sent : v.mn = Me \/ VoterRank(v.mn) <= TOTAL

IInv == Typed /\ Books /\ Fresh /\ Voters

-----------------------------------------------------------------------------
(* Votes, books and tallies. *)

\* Heights are counted from 0, the height of a vote without a payee.
LEMMA HeightFacts ==
  /\ Heights \subseteq Nat /\ 0 \in Heights /\ -1 \notin Heights
  /\ \A h \in BlockHeights : h + Ahead \in Heights \ {0}
<1>1. Ahead \in Nat /\ BlockHeights \subseteq Nat \ {0}
  BY PaymentsAssumption
<1>q. QED BY <1>1 DEF Heights

\* What a vote holds.
LEMMA VoteFacts ==
  ASSUME NEW v \in Vote
  PROVE  /\ v.mn \in Masternode /\ v.height \in Heights /\ v.payee \in Payee \cup {NoPayee}
         /\ v.height # 0 => v.payee \in Payee
         /\ v.height = 0 => v.payee = NoPayee
         /\ v # NoVote /\ v.height # -1
<1>1. /\ v.mn \in Masternode /\ v.height \in Heights /\ v.payee \in Payee \cup {NoPayee}
      /\ v.height # 0 => v.payee \in Payee
      /\ v.height = 0 => v.payee = NoPayee
  BY HeightFacts DEF Vote
<1>2. v.height # -1
  BY <1>1, HeightFacts
<1>q. QED BY <1>1, <1>2 DEF NoVote

\* The votes are told apart by what they hold.
LEMMA SameVote ==
  ASSUME NEW v \in Vote, NEW w \in Vote,
         v.mn = w.mn, v.height = w.height, v.payee = w.payee
  PROVE  v = w
BY DEF Vote

LEMMA MasternodeFinite == IsFiniteSet(Masternode)
<1>1. Len(Order) \in Nat /\ DOMAIN Order = 1 .. Len(Order)
  BY PaymentsAssumption
<1>2. IsFiniteSet(1 .. Len(Order))
  BY <1>1, FS_Interval
<1>3. Order \in Surjection(1 .. Len(Order), Masternode)
  BY <1>1, PaymentsAssumption DEF Surjection, Masternode
<1>q. QED BY <1>2, <1>3, FS_Surjection

\* A masternode has one vote for a payee in a block.
LEMMA VotesForFinite ==
  ASSUME NEW vs \in SUBSET Vote, NEW h, NEW p
  PROVE  IsFiniteSet(VotesFor(vs, h, p)) /\ Cardinality(VotesFor(vs, h, p)) \in Nat
<1> DEFINE V == VotesFor(vs, h, p)
           f == [v \in V |-> v.mn]
<1>1. f \in [V -> Masternode]
  BY VoteFacts DEF VotesFor
<1>2. \A v, w \in V : f[v] = f[w] => v = w
  BY SameVote DEF VotesFor
<1>3. f \in Injection(V, Masternode)
  BY <1>1, <1>2 DEF Injection, IsInjective
<1>4. IsFiniteSet(V)
  BY <1>3, MasternodeFinite, FS_Injection
<1>q. QED BY <1>4, FS_CardinalityType

LEMMA InHandFinite ==
  ASSUME NEW ad, NEW h, NEW p
  PROVE  IsFiniteSet(InHand(ad, h, p)) /\ Cardinality(InHand(ad, h, p)) \in Nat
<1>1. IsFiniteSet(Threads)
  <2>1. IsFiniteSet({"message"})
    BY FS_Singleton
  <2>2. IsFiniteSet({"message"} \cup {"block"})
    BY <2>1, FS_AddElement
  <2>3. Threads = {"message"} \cup {"block"}
    BY DEF Threads
  <2>q. QED BY <2>2, <2>3
<1>2. InHand(ad, h, p) \in SUBSET Threads
  BY DEF InHand
<1>3. IsFiniteSet(InHand(ad, h, p))
  BY <1>1, <1>2, FS_Subset
<1>q. QED BY <1>3, FS_CardinalityType

\* The entry that AddWinningMasternode makes for a block it has no entry for.
Opened(bs, v) ==
  IF v.height \in DOMAIN bs THEN bs
  ELSE [h \in DOMAIN bs \cup {v.height} |-> IF h = v.height THEN NoTally ELSE bs[h]]

LEMMA OpenedFacts ==
  ASSUME NEW vs, NEW bs, Book(vs, bs), NEW v \in Vote
  PROVE  /\ Book(vs \cup {v}, Opened(bs, v))
         /\ \A h \in Heights, p \in Payee :
              TallyIn(Opened(bs, v), h, p) = TallyIn(bs, h, p)
<1>1. v.height \in Heights
  BY VoteFacts
<1>2. NoTally \in Tallies /\ \A p \in Payee : NoTally[p] = 0
  BY DEF NoTally, Tallies
<1>3. CASE v.height \in DOMAIN bs
  <2>1. Opened(bs, v) = bs
    BY <1>3 DEF Opened
  <2>q. QED BY <1>3, <2>1 DEF Book
<1>4. CASE v.height \notin DOMAIN bs
  <2> DEFINE b == Opened(bs, v)
  <2>1. b = [h \in DOMAIN bs \cup {v.height} |-> IF h = v.height THEN NoTally ELSE bs[h]]
    BY <1>4 DEF Opened
  <2>2. /\ DOMAIN b = DOMAIN bs \cup {v.height} /\ b[v.height] = NoTally
        /\ \A h \in DOMAIN bs : b[h] = bs[h]
    BY <1>4, <2>1
  <2> HIDE DEF b
  <2>3. Book(vs \cup {v}, b)
    BY <1>1, <1>2, <2>2 DEF Book
  <2>4. \A h \in Heights, p \in Payee : TallyIn(b, h, p) = TallyIn(bs, h, p)
    BY <1>2, <1>4, <2>2 DEF TallyIn
  <2>q. QED BY <2>3, <2>4 DEF b
<1>q. QED BY <1>3, <1>4

\* A vote is stored, and in the hands of a thread.
LEMMA StoredExact ==
  ASSUME NEW vs \in SUBSET Vote, NEW bs, Book(vs, bs), NEW v \in Vote \ vs, NEW t \in Threads,
         NEW ad \in [Threads -> Vote \cup {NoVote}], ad[t] = NoVote, Exact(vs, bs, ad)
  PROVE  Exact(vs \cup {v}, Opened(bs, v), [ad EXCEPT ![t] = v])
<1> DEFINE ad2 == [ad EXCEPT ![t] = v]
           vs2 == vs \cup {v}
<1>0. ad2[t] = v /\ \A u \in Threads : u # t => ad2[u] = ad[u]
  OBVIOUS
<1> HIDE DEF ad2
<1> SUFFICES ASSUME NEW h \in Heights \ {0}, NEW p \in Payee
             PROVE  TallyIn(Opened(bs, v), h, p) + Cardinality(InHand(ad2, h, p))
                      = Cardinality(VotesFor(vs2, h, p))
  BY Zenon DEF Exact, ad2
<1>1. /\ TallyIn(Opened(bs, v), h, p) = TallyIn(bs, h, p)
      /\ TallyIn(bs, h, p) + Cardinality(InHand(ad, h, p)) = Cardinality(VotesFor(vs, h, p))
  BY OpenedFacts, Zenon DEF Exact
<1>2. /\ IsFiniteSet(InHand(ad, h, p)) /\ Cardinality(InHand(ad, h, p)) \in Nat
      /\ IsFiniteSet(VotesFor(vs, h, p)) /\ Cardinality(VotesFor(vs, h, p)) \in Nat
  BY InHandFinite, VotesForFinite
<1>3. TallyIn(bs, h, p) \in Nat
  BY DEF Book, TallyIn, Tallies
<1>4. t \notin InHand(ad, h, p)
  BY HeightFacts DEF InHand, NoVote
<1>5. CASE v.height = h /\ v.payee = p
  <2>1. InHand(ad2, h, p) = InHand(ad, h, p) \cup {t}
    BY <1>0, <1>4, <1>5 DEF InHand
  <2>2. VotesFor(vs2, h, p) = VotesFor(vs, h, p) \cup {v}
    BY <1>5 DEF VotesFor
  <2>3. v \notin VotesFor(vs, h, p)
    BY DEF VotesFor
  <2>4. Cardinality(InHand(ad2, h, p)) = Cardinality(InHand(ad, h, p)) + 1
    BY <1>2, <1>4, <2>1, FS_AddElement, Zenon
  <2>5. Cardinality(VotesFor(vs2, h, p)) = Cardinality(VotesFor(vs, h, p)) + 1
    BY <1>2, <2>2, <2>3, FS_AddElement, Zenon
  <2>q. QED BY <1>1, <1>2, <1>3, <2>4, <2>5
<1>6. CASE ~ (v.height = h /\ v.payee = p)
  <2>1. InHand(ad2, h, p) = InHand(ad, h, p)
    BY <1>0, <1>4, <1>6 DEF InHand
  <2>2. VotesFor(vs2, h, p) = VotesFor(vs, h, p)
    BY <1>6 DEF VotesFor
  <2>q. QED BY <1>1, <2>1, <2>2
<1>q. QED BY <1>5, <1>6

\* The tally after CMasternodeBlockPayees::AddPayee.
Tallied(bs, v) ==
  [h \in DOMAIN bs \cup {v.height} |->
     IF h = v.height
     THEN [(IF v.height \in DOMAIN bs THEN bs[v.height] ELSE NoTally) EXCEPT ![v.payee] = @ + 1]
     ELSE bs[h]]

LEMMA TalliedExact ==
  ASSUME NEW vs \in SUBSET Vote, NEW bs, Book(vs, bs), NEW t \in Threads,
         NEW ad \in [Threads -> Vote \cup {NoVote}], ad[t] # NoVote, Exact(vs, bs, ad)
  PROVE  /\ Book(vs, Tallied(bs, ad[t]))
         /\ Exact(vs, Tallied(bs, ad[t]), [ad EXCEPT ![t] = NoVote])
<1> DEFINE v == ad[t]
           ad2 == [ad EXCEPT ![t] = NoVote]
           old == IF v.height \in DOMAIN bs THEN bs[v.height] ELSE NoTally
           b == Tallied(bs, v)
<1>0. ad2[t] = NoVote /\ \A u \in Threads : u # t => ad2[u] = ad[u]
  OBVIOUS
<1>1. v \in Vote
  OBVIOUS
<1>2. /\ v.height \in Heights /\ v.payee \in Payee \cup {NoPayee}
      /\ v.height = 0 => v.payee \notin Payee
  BY <1>1, VoteFacts, PaymentsAssumption
<1>3. old \in Tallies /\ \A p \in Payee : TallyIn(bs, v.height, p) = old[p]
  BY DEF Book, NoTally, Tallies, TallyIn
<1>4. /\ DOMAIN b = DOMAIN bs \cup {v.height} /\ b[v.height] = [old EXCEPT ![v.payee] = @ + 1]
      /\ \A h \in DOMAIN bs : h # v.height => b[h] = bs[h]
  BY DEF Tallied
<1> HIDE DEF b, old, ad2
<1>5. /\ b[v.height] \in Tallies /\ b[v.height][v.payee] = old[v.payee] + 1
      /\ \A p \in Payee \cup {NoPayee} : p # v.payee => b[v.height][p] = old[p]
  BY <1>2, <1>3, <1>4 DEF Tallies
<1>6. Book(vs, b)
  <2>1. 0 \in DOMAIN b => \A p \in Payee : b[0][p] = 0
    <3>1. \A p \in Payee : TallyIn(bs, 0, p) = 0
      BY DEF Book, TallyIn
    <3>2. CASE v.height = 0
      BY <1>2, <1>3, <1>5, <3>1, <3>2
    <3>3. CASE v.height # 0
      BY <1>4, <3>1, <3>3 DEF TallyIn
    <3>q. QED BY <3>2, <3>3
  <2>q. QED BY <1>2, <1>4, <1>5, <2>1 DEF Book
<1>7. ASSUME NEW h \in Heights \ {0}, NEW p \in Payee
      PROVE  TallyIn(b, h, p) + Cardinality(InHand(ad2, h, p)) = Cardinality(VotesFor(vs, h, p))
  <2>1. /\ TallyIn(bs, h, p) + Cardinality(InHand(ad, h, p)) = Cardinality(VotesFor(vs, h, p))
        /\ TallyIn(bs, h, p) \in Nat
    BY DEF Exact, Book, TallyIn, Tallies
  <2>2. IsFiniteSet(InHand(ad, h, p)) /\ Cardinality(InHand(ad, h, p)) \in Nat
    BY InHandFinite
  <2>3. NoVote.height # h
    BY HeightFacts DEF NoVote
  <2>4. CASE v.height = h /\ v.payee = p
    <3>1. InHand(ad2, h, p) = InHand(ad, h, p) \ {t} /\ t \in InHand(ad, h, p)
      BY <1>0, <2>3, <2>4 DEF InHand
    <3>2. Cardinality(InHand(ad2, h, p)) = Cardinality(InHand(ad, h, p)) - 1
      <4>1. ASSUME NEW S, IsFiniteSet(S), NEW x \in S
            PROVE  Cardinality(S \ {x}) = Cardinality(S) - 1
        BY <4>1, FS_RemoveElement, Zenon
      <4>q. QED BY <2>2, <3>1, <4>1
    <3>3. TallyIn(b, h, p) = b[h][p] /\ b[h][p] = old[p] + 1
      BY <1>4, <1>5, <2>4, Zenon DEF TallyIn
    <3>4. TallyIn(bs, h, p) = old[p]
      BY <1>3, <2>4
    <3>q. QED BY <2>1, <2>2, <3>2, <3>3, <3>4
  <2>5. CASE ~ (v.height = h /\ v.payee = p)
    <3>1. InHand(ad2, h, p) = InHand(ad, h, p)
      BY <1>0, <2>3, <2>5 DEF InHand
    <3>2. TallyIn(b, h, p) = TallyIn(bs, h, p)
      <4>1. CASE h = v.height
        BY <1>3, <1>4, <1>5, <2>5, <4>1, Zenon DEF TallyIn
      <4>2. CASE h # v.height
        BY <1>4, <4>2 DEF TallyIn
      <4>q. QED BY <4>1, <4>2
    <3>q. QED BY <2>1, <3>1, <3>2
  <2>q. QED BY <2>4, <2>5
<1>8. Exact(vs, b, ad2)
  BY <1>7 DEF Exact
<1>q. QED BY <1>6, <1>8 DEF b, ad2

\* CleanPaymentList drops the votes of a block together with its tally, and none that
\* a thread is about to tally.
LEMMA CleanedExact ==
  ASSUME IInv
  PROVE  LET old == {v \in votes : Outdated(v)}
             bs  == [h \in DOMAIN blocks \ Cleaned(old) |-> blocks[h]]
         IN  Book(votes \ old, bs) /\ Exact(votes \ old, bs, adding)
<1> DEFINE old == {v \in votes : Outdated(v)}
           bs == [h \in DOMAIN blocks \ Cleaned(old) |-> blocks[h]]
<1>1. /\ DOMAIN bs = DOMAIN blocks \ Cleaned(old)
      /\ \A h \in DOMAIN bs : bs[h] = blocks[h]
  OBVIOUS
<1>2. \A v \in votes : v \in old <=> v.height \in Cleaned(old)
  BY DEF Cleaned, Outdated
<1>3. Book(votes, blocks) /\ Exact(votes, blocks, adding)
  BY DEF IInv, Books
<1>4. \A h \in Cleaned(old), t \in Threads : h # 0 => adding[t].height # h
  <2> SUFFICES ASSUME NEW h \in Cleaned(old), NEW t \in Threads, h # 0, adding[t].height = h
               PROVE  FALSE
    OBVIOUS
  <2>1. height - h > Limit /\ h \in Heights
    BY VoteFacts DEF Cleaned, Outdated, IInv, Typed
  <2>2. adding[t] # NoVote
    BY <2>1, HeightFacts DEF NoVote
  <2>q. QED BY <2>1, <2>2 DEF IInv, Fresh, Outdated
<1> HIDE DEF bs, old
<1>5. Book(votes \ old, bs)
  BY <1>1, <1>2, <1>3 DEF Book
<1>6. ASSUME NEW h \in Heights \ {0}, NEW p \in Payee
      PROVE  TallyIn(bs, h, p) + Cardinality(InHand(adding, h, p))
               = Cardinality(VotesFor(votes \ old, h, p))
  <2>1. CASE h \in Cleaned(old)
    <3>1. TallyIn(bs, h, p) = 0
      BY <1>1, <2>1 DEF TallyIn
    <3>2. InHand(adding, h, p) = {}
      BY <1>4, <2>1 DEF InHand
    <3>3. VotesFor(votes \ old, h, p) = {}
      BY <1>2, <2>1 DEF VotesFor
    <3>q. QED BY <3>1, <3>2, <3>3, FS_EmptySet
  <2>2. CASE h \notin Cleaned(old)
    <3>1. TallyIn(bs, h, p) = TallyIn(blocks, h, p)
      BY <1>1, <2>2 DEF TallyIn
    <3>2. VotesFor(votes \ old, h, p) = VotesFor(votes, h, p)
      BY <1>2, <2>2 DEF VotesFor
    <3>q. QED BY <1>3, <3>1, <3>2 DEF Exact
  <2>q. QED BY <2>1, <2>2
<1>7. Exact(votes \ old, bs, adding)
  BY <1>6 DEF Exact
<1>q. QED BY <1>5, <1>7 DEF bs, old

-----------------------------------------------------------------------------
(* The steps. *)

\* No votes, no tallies.
LEMMA EmptyBook == Book({}, << >>) /\ Exact({}, << >>, Idle)
<1>1. Book({}, << >>)
  BY DEF Book
<1>2. ASSUME NEW h \in Heights \ {0}, NEW p \in Payee
      PROVE  TallyIn(<< >>, h, p) + Cardinality(InHand(Idle, h, p))
               = Cardinality(VotesFor({}, h, p))
  <2>1. TallyIn(<< >>, h, p) = 0
    BY DEF TallyIn
  <2>2. InHand(Idle, h, p) = {} /\ VotesFor({}, h, p) = {}
    BY HeightFacts DEF InHand, Idle, NoVote, VotesFor
  <2>3. Cardinality({}) = 0
    BY FS_EmptySet
  <2>q. QED BY <2>1, <2>2, <2>3
<1>q. QED BY <1>1, <1>2 DEF Exact

\* A node that starts for the first time.
LEMMA InitInv == Init => IInv
<1> SUFFICES ASSUME Init PROVE IInv
  OBVIOUS
<1>1. Typed
  BY HeightFacts DEF Init, Typed, NoFile
<1>2. Book({}, << >>) /\ Exact({}, << >>, Idle)
  BY EmptyBook
<1>4. Books
  BY <1>2 DEF Books, Init, NoFile, Idle
<1>5. Fresh
  BY DEF Fresh, Init
<1>6. Voters
  BY DEF Voters, Init
<1>q. QED BY <1>1, <1>4, <1>5, <1>6 DEF IInv

\* A file in memory is a book with nothing in hand.
LEMMA ReadInv ==
  ASSUME IInv, NEW f, ReadFile(f), f.votes \subseteq sent, Book(f.votes, f.blocks),
         Exact(f.votes, f.blocks, Idle)
  PROVE  IInv'
<1>1. /\ file' = f /\ votes' = f.votes /\ blocks' = f.blocks /\ adding' = Idle
      /\ lastHeight' = [lastHeight EXCEPT ![Me] = 0] /\ lastVote' = [m \in Masternode |-> 0]
      /\ UNCHANGED <<height, sent, enabled, keyKnown>>
  BY DEF ReadFile, Idle
<1>2. Typed'
  BY <1>1, HeightFacts, Zenon DEF IInv, Typed, Idle
<1>3. Books'
  BY <1>1 DEF Books
<1>4. Fresh'
  BY <1>1 DEF Fresh, Idle
<1>5. Voters'
  BY <1>1 DEF IInv, Voters
<1>q. QED BY <1>2, <1>3, <1>4, <1>5 DEF IInv

\* PrepareShutdown writes what is in memory; a crash leaves what was written before.
LEMMA RestartInv ==
  ASSUME IInv, Restart \/ Crash
  PROVE  IInv'
<1>1. CASE Restart
  <2> DEFINE f == [votes |-> votes, blocks |-> blocks]
  <2>1. adding = Idle
    BY <1>1 DEF Restart, Idle, IInv, Typed
  <2>2. f.votes = votes /\ f.blocks = blocks /\ ReadFile(f)
    BY <1>1 DEF Restart
  <2> HIDE DEF f
  <2>q. QED BY <2>1, <2>2, ReadInv DEF IInv, Books, Typed
<1>2. CASE ReadFile(file)
  BY <1>2, ReadInv DEF IInv, Books, Typed
<1>3. CASE ReadFile(NoFile)
  <2>1. NoFile.votes = {} /\ NoFile.blocks = << >>
    BY DEF NoFile
  <2>q. QED BY <1>3, <2>1, EmptyBook, ReadInv, Zenon
<1>q. QED BY <1>1, <1>2, <1>3 DEF Crash

\* A step that leaves both books alone.
LEMMA SameBooks ==
  ASSUME IInv, UNCHANGED <<votes, blocks, adding, file>>, Typed', Voters',
         height' = height \/ adding = Idle
  PROVE  IInv'
<1>1. Books'
  BY DEF IInv, Books
<1>2. Fresh'
  BY DEF IInv, Fresh, Outdated, Idle
<1>q. QED BY <1>1, <1>2 DEF IInv

\* AddWinningMasternode up to the end of its lock.
LEMMA StoreInv ==
  ASSUME IInv, NEW t \in Threads, adding[t] = NoVote, NEW v \in Vote \ votes, StoreVote(t, v),
         file' = file, sent \subseteq sent', v \in sent', sent' \subseteq Vote,
         height' \in BlockHeights, height' = height \/ adding = Idle,
         v.height # 0 => ~ (height' - v.height > Limit),
         lastHeight' \in [Masternode -> Heights], lastVote' \in [Masternode -> Heights],
         enabled' = enabled, keyKnown' = keyKnown, Voters'
  PROVE  IInv'
<1>1. /\ votes' = votes \cup {v} /\ blocks' = Opened(blocks, v)
      /\ adding' = [adding EXCEPT ![t] = v]
  BY DEF StoreVote, Opened
<1>2. adding \in [Threads -> Vote \cup {NoVote}] /\ votes \in SUBSET Vote
  BY DEF IInv, Typed
<1>3. adding'[t] = v /\ \A u \in Threads : u # t => adding'[u] = adding[u]
  BY <1>1, <1>2
<1>4. Typed'
  BY <1>1, <1>2 DEF IInv, Typed
<1>5. Book(votes, blocks)' /\ Exact(votes, blocks, adding)'
  BY <1>1, <1>2, OpenedFacts, StoredExact, Zenon DEF IInv, Books
<1>6. Books'
  BY <1>5 DEF IInv, Books
<1>7. Fresh'
  BY <1>3 DEF IInv, Fresh, Outdated, Idle
<1>q. QED BY <1>4, <1>6, <1>7 DEF IInv

\* A vote for a block ahead is a vote, and not outdated.
LEMMA VoteForFacts ==
  ASSUME NEW m \in Masternode, NEW h \in BlockHeights, NEW p \in Payee \cup {NoPayee}
  PROVE  LET v == VoteFor(m, h + Ahead, p)
         IN  /\ v \in Vote /\ v.mn = m
             /\ v.height # 0 => v.height = h + Ahead /\ ~ (h - v.height > Limit)
<1>1. h + Ahead \in Heights \ {0} /\ h \in Nat /\ Ahead \in Nat /\ Limit \in Nat
  BY HeightFacts, PaymentsAssumption
<1>2. CASE h + Ahead \in BudgetBlocks \/ p = NoPayee
  <2>1. VoteFor(m, h + Ahead, p) = [mn |-> m, height |-> 0, payee |-> NoPayee]
    BY <1>2 DEF VoteFor
  <2>q. QED BY <2>1 DEF Vote
<1>3. CASE ~ (h + Ahead \in BudgetBlocks \/ p = NoPayee)
  <2>1. VoteFor(m, h + Ahead, p) = [mn |-> m, height |-> h + Ahead, payee |-> p]
    BY <1>3 DEF VoteFor
  <2>2. [mn |-> m, height |-> h + Ahead, payee |-> p] \in Vote
    BY <1>1, <1>3 DEF Vote
  <2>3. ~ (h - (h + Ahead) > Limit)
    BY <1>1
  <2>q. QED BY <2>1, <2>2, <2>3
<1>q. QED BY <1>2, <1>3

\* A block comes in, and this node votes or does not.
LEMMA NewBlockInv ==
  ASSUME ~ Stall, IInv, NEW h \in BlockHeights, NEW p \in Payee \cup {NoPayee}, NewBlock(h, p)
  PROVE  IInv'
<1> DEFINE v == VoteFor(Me, h + Ahead, p)
<1>1. /\ adding["block"] = NoVote /\ adding["message"] = NoVote /\ height' = h
      /\ ProcessBlock(h + Ahead, p) /\ UNCHANGED <<lastVote, enabled, keyKnown, file>>
  BY DEF NewBlock
<1>2. adding = Idle
  BY <1>1 DEF IInv, Typed, Idle, Threads
<1>3. Me \in Masternode /\ h + Ahead \in Heights
  BY PaymentsAssumption, HeightFacts
<1>4. /\ v \in Vote /\ v.mn = Me
      /\ v.height # 0 => v.height = h + Ahead /\ ~ (h - v.height > Limit)
  BY <1>3, VoteForFacts
<1>5. CASE /\ v \notin votes /\ lastHeight' = [lastHeight EXCEPT ![Me] = h + Ahead]
           /\ sent' = sent \cup {v} /\ StoreVote("block", v)
  <2> HIDE DEF v
  <2>1. /\ sent' \subseteq Vote /\ lastHeight' \in [Masternode -> Heights]
        /\ lastVote' \in [Masternode -> Heights]
    BY <1>1, <1>3, <1>4, <1>5 DEF IInv, Typed
  <2>2. Voters'
    BY <1>4, <1>5 DEF IInv, Voters
  <2>3. "block" \in Threads /\ v \in Vote \ votes /\ v \in sent' /\ sent \subseteq sent'
    BY <1>4, <1>5 DEF Threads
  <2>4. height' \in BlockHeights /\ (v.height # 0 => ~ (height' - v.height > Limit))
    BY <1>1, <1>4
  <2>q. QED BY <1>1, <1>2, <1>5, <2>1, <2>2, <2>3, <2>4, StoreInv
<1>6. CASE UNCHANGED <<lastHeight, sent, votes, blocks, adding>>
  <2>1. Typed'
    BY <1>1, <1>6 DEF IInv, Typed
  <2>2. Voters'
    BY <1>6 DEF IInv, Voters
  <2>q. QED BY <1>1, <1>2, <1>6, <2>1, <2>2, SameBooks
<1>q. QED BY <1>1, <1>5, <1>6 DEF ProcessBlock

\* Another masternode in the top votes.
LEMMA OtherVotesInv ==
  ASSUME IInv, NEW m \in Masternode, NEW p \in Payee \cup {NoPayee}, OtherVotes(m, p)
  PROVE  IInv'
<1> DEFINE v == VoteFor(m, height + Ahead, p)
<1>1. /\ VoterRank(m) <= TOTAL /\ lastHeight' = [lastHeight EXCEPT ![m] = height + Ahead]
      /\ sent' = sent \cup {v}
      /\ UNCHANGED <<height, votes, blocks, adding, lastVote, enabled, keyKnown, file>>
  BY DEF OtherVotes, InTop
<1>2. height \in BlockHeights
  BY DEF IInv, Typed
<1>3. v \in Vote /\ v.mn = m /\ height + Ahead \in Heights
  BY <1>2, VoteForFacts, HeightFacts
<1> HIDE DEF v
<1>4. Typed'
  BY <1>1, <1>3 DEF IInv, Typed
<1>5. Voters'
  BY <1>1, <1>3 DEF IInv, Voters
<1>q. QED BY <1>1, <1>4, <1>5, SameBooks

\* A vote arrives.
LEMMA ReceiveInv ==
  ASSUME IInv, NEW v \in sent, ReceiveWinner(v)
  PROVE  IInv'
<1>1. /\ adding["message"] = NoVote /\ v \in sent \ votes /\ InRange(v.height)
      /\ lastVote' = [lastVote EXCEPT ![v.mn] = v.height]
      /\ UNCHANGED <<height, sent, lastHeight, enabled, keyKnown, file>>
  BY DEF ReceiveWinner
<1>2. v \in Vote /\ v.mn \in Masternode /\ v.height \in Heights
  BY VoteFacts DEF IInv, Typed
<1>3. lastVote' \in [Masternode -> Heights]
  BY <1>1, <1>2 DEF IInv, Typed
<1>4. Voters'
  BY <1>1 DEF IInv, Voters
<1>5. ~ (height - v.height > Limit)
  <2>1. height \in Nat /\ v.height \in Nat /\ Back \in Nat /\ Limit \in Nat /\ Back <= Limit
    BY <1>2, HeightFacts, PaymentsAssumption, Zenon DEF IInv, Typed
  <2>2. height - Back <= v.height
    BY <1>1 DEF InRange
  <2>q. QED BY <2>1, <2>2
<1>6. CASE StoreVote("message", v)
  <2>1. "message" \in Threads /\ v \in Vote \ votes
    BY <1>1, <1>2 DEF Threads
  <2>2. sent' \subseteq Vote /\ height' \in BlockHeights /\ lastHeight' \in [Masternode -> Heights]
    BY <1>1 DEF IInv, Typed
  <2>q. QED BY <1>1, <1>3, <1>4, <1>5, <1>6, <2>1, <2>2, StoreInv
<1>7. CASE UNCHANGED <<votes, blocks, adding>>
  <2>1. Typed'
    BY <1>1, <1>3, <1>7 DEF IInv, Typed
  <2>q. QED BY <1>1, <1>4, <1>7, <2>1, SameBooks
<1>q. QED BY <1>6, <1>7 DEF ReceiveWinner

\* A thread tallies the vote it holds.
LEMMA AddPayeeInv ==
  ASSUME IInv, NEW t \in Threads, AddPayee(t)
  PROVE  IInv'
<1>1. /\ adding[t] # NoVote /\ blocks' = Tallied(blocks, adding[t])
      /\ adding' = [adding EXCEPT ![t] = NoVote]
      /\ UNCHANGED <<height, sent, lastHeight, votes, lastVote, enabled, keyKnown, file>>
  BY DEF AddPayee, Tallied
<1>2. adding \in [Threads -> Vote \cup {NoVote}] /\ votes \in SUBSET Vote
  BY DEF IInv, Typed
<1>3. Book(votes, blocks)' /\ Exact(votes, blocks, adding)'
  BY <1>1, <1>2, TalliedExact, Zenon DEF IInv, Books
<1>4. Books'
  BY <1>1, <1>3 DEF IInv, Books
<1>5. Typed'
  BY <1>1, <1>2 DEF IInv, Typed
<1>6. Fresh'
  <2>1. \A u \in Threads : adding'[u] = IF u = t THEN NoVote ELSE adding[u]
    BY <1>1, <1>2
  <2>q. QED BY <1>1, <2>1 DEF IInv, Fresh, Outdated
<1>7. Voters'
  BY <1>1 DEF IInv, Voters
<1>q. QED BY <1>4, <1>5, <1>6, <1>7 DEF IInv

\* CleanPaymentList.
LEMMA CleanInv ==
  ASSUME IInv, CleanPaymentList
  PROVE  IInv'
<1> DEFINE old == {v \in votes : Outdated(v)}
<1>1. /\ votes' = votes \ old /\ blocks' = [h \in DOMAIN blocks \ Cleaned(old) |-> blocks[h]]
      /\ UNCHANGED <<height, sent, lastHeight, lastVote, adding, enabled, keyKnown, file>>
  BY DEF CleanPaymentList
<1>2. Book(votes, blocks)' /\ Exact(votes, blocks, adding)'
  BY <1>1, CleanedExact
<1>3. Books'
  BY <1>1, <1>2 DEF IInv, Books
<1>4. Typed'
  BY <1>1 DEF IInv, Typed
<1>5. Fresh' /\ Voters'
  BY <1>1 DEF IInv, Fresh, Voters, Outdated
<1>q. QED BY <1>3, <1>4, <1>5 DEF IInv

\* Keys, and masternodes that stop.
LEMMA OthersInv ==
  ASSUME IInv, NEW m \in Masternode, LearnKey(m) \/ Disable(m) \/ RestartOther(m)
  PROVE  IInv'
<1>1. /\ UNCHANGED <<height, sent, votes, blocks, lastVote, adding, file>>
      /\ keyKnown' \subseteq Masternode /\ enabled' \subseteq Masternode
      /\ lastHeight' \in [Masternode -> Heights]
  BY HeightFacts DEF LearnKey, Disable, RestartOther, IInv, Typed
<1>2. Typed'
  BY <1>1 DEF IInv, Typed
<1>3. Voters'
  BY <1>1 DEF IInv, Voters
<1>q. QED BY <1>1, <1>2, <1>3, SameBooks

LEMMA StepInv ==
  ASSUME ~ Stall, IInv, [Next]_vars
  PROVE  IInv'
<1>1. CASE UNCHANGED vars
  <2>1. UNCHANGED <<height, sent, lastHeight, votes, blocks, lastVote, adding, enabled,
                    keyKnown, file>>
    BY <1>1 DEF vars
  <2>2. Typed'
    BY <2>1 DEF IInv, Typed
  <2>3. Voters'
    BY <2>1 DEF IInv, Voters
  <2>q. QED BY <2>1, <2>2, <2>3, SameBooks
<1>q. QED
  BY <1>1, NewBlockInv, OtherVotesInv, ReceiveInv, AddPayeeInv, OthersInv, CleanInv, RestartInv
     DEF Next

\* mapMasternodePayeeVotes and mapMasternodeBlocks agree: for any number of
\* masternodes, payees, blocks, restarts and crashes the tally of a payee is the number
\* of the votes for it, as long as a thread is not overtaken by blocks between the two
\* locks of AddWinningMasternode.
THEOREM VotesSafe == ~ Stall => (Spec => []VotesSound)
<1> SUFFICES ASSUME ~ Stall PROVE Spec => []VotesSound
  OBVIOUS
<1>1. IInv => VotesSound
  <2> SUFFICES ASSUME IInv PROVE VotesSound
    OBVIOUS
  <2>1. TypeOK
    BY Zenon DEF IInv, Typed, Books, Book, Tallies, TypeOK
  <2>2. TallyExact
    BY Zenon DEF IInv, Books, Exact, TallyExact, Tally, TallyIn, InHand, VotesFor
  <2>q. QED BY <2>1, <2>2 DEF VotesSound
<1>2. IInv /\ [Next]_vars => IInv'
  BY StepInv
<1>q. QED BY <1>1, <1>2, InitInv, PTL DEF Spec

-----------------------------------------------------------------------------
(* The majority. *)

\* Two majorities share a voter: 6 of 10 do even with this node as an eleventh.
Majority == VoterRank(Me) <= TOTAL \/ 2 * REQUIRED > TOTAL + 1

Electorate == {m \in Masternode : m = Me \/ VoterRank(m) <= TOTAL}

\* Those who may vote are fewer than two majorities.
LEMMA ElectorateSmall ==
  ASSUME Majority
  PROVE  /\ IsFiniteSet(Electorate) /\ Cardinality(Electorate) \in Nat
         /\ Cardinality(Electorate) < 2 * REQUIRED
<1> DEFINE T == {m \in Masternode : VoterRank(m) <= TOTAL}
           g == [m \in T |-> VoterRank(m)]
<1>1. /\ TOTAL \in Nat /\ REQUIRED \in Nat /\ 2 * REQUIRED > TOTAL
      /\ DOMAIN Order = 1 .. Len(Order) /\ Len(Order) \in Nat /\ Me \in Masternode
  BY PaymentsAssumption
<1>2. \A m \in Masternode : VoterRank(m) \in DOMAIN Order /\ Order[VoterRank(m)] = m
  BY DEF VoterRank, Masternode
<1>3. g \in [T -> 1 .. TOTAL]
  BY <1>1, <1>2
<1>4. \A m, n \in T : g[m] = g[n] => m = n
  BY <1>2
<1>5. g \in Injection(T, 1 .. TOTAL)
  BY <1>3, <1>4 DEF Injection, IsInjective
<1>6. IsFiniteSet(1 .. TOTAL) /\ Cardinality(1 .. TOTAL) = TOTAL
  <2>1. /\ IsFiniteSet(1 .. TOTAL)
        /\ Cardinality(1 .. TOTAL) = IF 1 > TOTAL THEN 0 ELSE TOTAL - 1 + 1
    BY <1>1, FS_Interval
  <2>q. QED BY <1>1, <2>1
<1>7. IsFiniteSet(T) /\ Cardinality(T) <= TOTAL
  BY <1>5, <1>6, FS_Injection
<1>8. Cardinality(T) \in Nat
  BY <1>7, FS_CardinalityType
<1>9. CASE VoterRank(Me) <= TOTAL
  <2>1. Electorate = T
    BY <1>1, <1>9 DEF Electorate
  <2>q. QED BY <1>1, <1>7, <1>8, <2>1
<1>10. CASE 2 * REQUIRED > TOTAL + 1
  <2>1. Electorate = T \cup {Me}
    BY <1>1 DEF Electorate
  <2> HIDE DEF T
  <2>2. /\ IsFiniteSet(T \cup {Me})
        /\ Cardinality(T \cup {Me}) \in {Cardinality(T), Cardinality(T) + 1}
    BY <1>7, FS_AddElement
  <2>q. QED BY <1>1, <1>7, <1>8, <1>10, <2>1, <2>2
<1>q. QED BY <1>9, <1>10 DEF Majority

\* Two payees with enough votes for a block have a voter in common.
LEMMA SharedVoter ==
  ASSUME IInv, Majority, NEW h \in Heights \ {0}, NEW p \in Payee, NEW q \in Payee, p # q,
         Cardinality(VotesFor(votes, h, p)) >= REQUIRED,
         Cardinality(VotesFor(votes, h, q)) >= REQUIRED
  PROVE  \E v \in votes : v.height = h /\ VotedTwice(v)
<1> DEFINE P == VotesFor(votes, h, p)
           Q == VotesFor(votes, h, q)
           S == P \cup Q
           f == [v \in S |-> v.mn]
<1>1. votes \in SUBSET Vote /\ votes \subseteq sent /\ REQUIRED \in Nat
  BY PaymentsAssumption DEF IInv, Typed
<1>2. /\ IsFiniteSet(P) /\ Cardinality(P) \in Nat
      /\ IsFiniteSet(Q) /\ Cardinality(Q) \in Nat
  BY <1>1, VotesForFinite
<1>3. P \cap Q = {}
  BY DEF VotesFor
<1>4. IsFiniteSet(S) /\ Cardinality(S) = Cardinality(P) + Cardinality(Q) - Cardinality(P \cap Q)
  BY <1>2, FS_Union
<1>5. Cardinality(P \cap Q) = 0
  BY <1>3, FS_EmptySet
<1>6. f \in [S -> Electorate]
  <2>1. \A v \in S : v \in votes
    BY DEF VotesFor
  <2>2. \A v \in S : v.mn \in Electorate
    BY <1>1, <2>1, VoteFacts DEF IInv, Voters, Electorate
  <2>q. QED BY <2>2
<1>7. Cardinality(Electorate) < Cardinality(S)
  <2>1. Cardinality(Electorate) \in Nat /\ Cardinality(Electorate) < 2 * REQUIRED
    BY ElectorateSmall
  <2>2. Cardinality(S) >= 2 * REQUIRED /\ Cardinality(S) \in Nat
    <3> HIDE DEF P, Q, S
    <3>1. Cardinality(S) = Cardinality(P) + Cardinality(Q)
      BY <1>2, <1>4, <1>5
    <3>2. Cardinality(P) >= REQUIRED /\ Cardinality(Q) >= REQUIRED
      BY DEF P, Q
    <3>q. QED BY <1>1, <1>2, <3>1, <3>2
  <2> HIDE DEF S
  <2>q. QED BY <1>1, <2>1, <2>2
<1>8. PICK v \in S, w \in S : v # w /\ f[v] = f[w]
  <2>1. IsFiniteSet(S) /\ IsFiniteSet(Electorate)
    BY <1>4, ElectorateSmall
  <2> HIDE DEF S, f
  <2>q. QED BY <1>6, <1>7, <2>1, FS_PigeonHole
<1>9. v \in votes /\ w \in sent /\ v.height = h /\ w.height = h /\ v.mn = w.mn
  BY <1>1, <1>8 DEF VotesFor
<1>q. QED BY <1>8, <1>9 DEF VotedTwice

\* What the tallies decide.
LEMMA WinnerFacts ==
  ASSUME IInv, Majority
  PROVE  OneWinner
<1> SUFFICES ASSUME NEW h \in DOMAIN blocks
             PROVE  /\ \A p \in GetPayee(h) : IsTransactionValid(h, p)
                    /\ \/ \E v \in votes : v.height = h /\ VotedTwice(v)
                       \/ Cardinality({p \in Payee : blocks[h][p] >= REQUIRED}) <= 1
  BY Zenon DEF OneWinner
<1> DEFINE W == {p \in Payee : blocks[h][p] >= REQUIRED}
<1>1. h \in Heights /\ blocks[h] \in Tallies /\ REQUIRED \in Nat /\ REQUIRED > 0
  <2>1. h \in Heights /\ blocks[h] \in Tallies
    BY DEF IInv, Books, Book
  <2>2. REQUIRED \in Nat /\ TOTAL \in Nat /\ REQUIRED <= TOTAL /\ 2 * REQUIRED > TOTAL
    BY PaymentsAssumption
  <2>q. QED BY <2>1, <2>2
<1>2. ASSUME NEW p \in GetPayee(h) PROVE IsTransactionValid(h, p)
  <2>1. /\ p \in DOMAIN blocks[h] /\ blocks[h][p] \in Nat
        /\ \A q \in DOMAIN blocks[h] : blocks[h][p] >= blocks[h][q] /\ blocks[h][q] \in Nat
    BY <1>1 DEF GetPayee, Tallies
  <2>q. QED BY <1>1, <2>1 DEF IsTransactionValid
<1>5. ASSUME NEW p \in W, NEW q \in W, p # q
      PROVE  \E v \in votes : v.height = h /\ VotedTwice(v)
  <2>1. h # 0
    BY <1>1 DEF IInv, Books, Book
  <2>2. ASSUME NEW x \in W PROVE Cardinality(VotesFor(votes, h, x)) >= REQUIRED
    <3>1. TallyIn(blocks, h, x) + Cardinality(InHand(adding, h, x))
            = Cardinality(VotesFor(votes, h, x))
      BY <1>1, <2>1 DEF IInv, Books, Exact
    <3>2. TallyIn(blocks, h, x) >= REQUIRED /\ TallyIn(blocks, h, x) \in Nat
      BY <1>1 DEF TallyIn, Tallies
    <3>3. Cardinality(InHand(adding, h, x)) \in Nat
      BY InHandFinite
    <3>q. QED BY <1>1, <3>1, <3>2, <3>3
  <2>q. QED BY <1>1, <1>5, <2>1, <2>2, SharedVoter
<1>6. W = {} \/ (\E x : W = {x}) \/ \E p, q \in W : p # q
  <2>1. ASSUME NEW x \in W, \A y \in W : y = x PROVE W = {x}
    BY <2>1
  <2>q. QED BY <2>1
<1> HIDE DEF W
<1>7. \/ \E v \in votes : v.height = h /\ VotedTwice(v)
      \/ Cardinality(W) <= 1
  <2>1. CASE W = {}
    <3>1. Cardinality(W) = 0
      BY <2>1, FS_EmptySet
    <3>q. QED BY <3>1
  <2>2. CASE \E x : W = {x}
    <3>1. Cardinality(W) = 1
      BY <2>2, FS_Singleton
    <3>q. QED BY <3>1
  <2>q. QED BY <1>5, <1>6, <2>1, <2>2, Zenon
<1>q. QED BY <1>2, <1>7 DEF W

\* FillBlockPayee and IsTransactionValid: the payee a staker takes is one that the same
\* tallies accept, and no two payees have enough votes for a block unless one of its
\* masternodes has voted twice, for any number of masternodes.
THEOREM OneWinnerSafe == ~ Stall /\ Majority => (Spec => []OneWinner)
<1> SUFFICES ASSUME ~ Stall, Majority PROVE Spec => []OneWinner
  OBVIOUS
<1>1. IInv => OneWinner
  BY WinnerFacts
<1>2. IInv /\ [Next]_vars => IInv'
  BY StepInv
<1>q. QED BY <1>1, <1>2, InitInv, PTL DEF Spec
=============================================================================
