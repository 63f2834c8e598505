------------------------- MODULE MasternodePayments -------------------------
(***************************************************************************)
(* CMasternodePayments: who is to be paid in a coming block                *)
(* (masternode-payments.cpp).  The masternodes that rank high for a block  *)
(* vote for a payee ten blocks ahead; every node counts the votes and      *)
(* refuses a block that does not pay a payee with enough of them.          *)
(*                                                                         *)
(* The state is that of one node, Me, which may be a masternode itself;    *)
(* of the other masternodes only what decides their votes is kept.  A vote *)
(* that has been sent is relayed by peers any number of times and in any   *)
(* order.  Heights keep their distances only: Ahead stands for 10, Future  *)
(* for 20, Back for 1.25 of the number of masternodes, Limit for the       *)
(* greater of that and 1000, and Late for the 100 blocks of -maxreorg.     *)
(***************************************************************************)
EXTENDS Integers, Sequences, FiniteSets

CONSTANTS
  Order,         \* the masternodes, best score first
  Me,            \* the active masternode of this node
  Payee, NoPayee,
  Ahead, Future, Back, Limit, Late,
  REQUIRED,      \* MNPAYMENTS_SIGNATURES_REQUIRED (6)
  TOTAL,         \* MNPAYMENTS_SIGNATURES_TOTAL (10)
  BudgetBlocks,  \* the heights where a budget is paid
  NewKeys,       \* masternodes whose current key this node has yet to learn
  Stall,         \* may blocks arrive while a thread is in AddWinningMasternode
  BlockHeights,  \* the heights of the blocks that come in
  MaxUpsets      \* bound

Masternode == {Order[k] : k \in DOMAIN Order}
Heights == {0} \cup {h + Ahead : h \in BlockHeights}
\* A vote without a payee is for height 0.
Vote == [mn : Masternode, height : Heights \ ({0} \cup BudgetBlocks), payee : Payee]
        \cup [mn : Masternode, height : {0}, payee : {NoPayee}]
NoVote == [mn |-> Me, height |-> -1, payee |-> NoPayee]

ASSUME PaymentsAssumption ==
  /\ Order \in Seq(Masternode)
  /\ Me \in Masternode /\ NewKeys \subseteq Masternode \ {Me}
  /\ {Ahead, Future, Back, Limit, Late} \subseteq Nat /\ BlockHeights \subseteq Nat \ {0}
  /\ Ahead <= Future /\ Back <= Limit /\ Late <= Limit
  /\ {REQUIRED, TOTAL} \subseteq Nat /\ REQUIRED <= TOTAL /\ 2 * REQUIRED > TOTAL
  /\ NoPayee \notin Payee
  /\ Stall \in BOOLEAN

VARIABLES
  height,      \* nBestHeight of the masternode manager
  sent,        \* votes that masternodes have relayed
  lastHeight,  \* nLastBlockHeight, of every masternode
  votes,       \* mapMasternodePayeeVotes
  blocks,      \* mapMasternodeBlocks: the heights it has, with their tallies
  lastVote,    \* mapMasternodesLastVote (0: none)
  adding,      \* thread -> the vote AddWinningMasternode has stored but not tallied
  enabled,     \* the masternodes that this node sees enabled
  keyKnown,    \* the masternodes whose current key this node has
  file,        \* mnpayments.dat
  upsets       \* restarts, masternodes disabled and late blocks so far

vars == <<height, sent, lastHeight, votes, blocks, lastVote, adding, enabled, keyKnown, file, upsets>>

Threads == {"message", "block"}
NoFile == [votes |-> {}, blocks |-> << >>]
NoTally == [p \in Payee \cup {NoPayee} |-> 0]

\* Votes, tallies and the cache file are well typed and in the kept range.
TypeOK ==
  /\ height \in BlockHeights
  /\ sent \subseteq Vote /\ votes \subseteq Vote
  /\ lastHeight \in [Masternode -> Heights]
  /\ DOMAIN blocks \subseteq Heights
  /\ \A h \in DOMAIN blocks : blocks[h] \in [Payee \cup {NoPayee} -> Nat]
  /\ lastVote \in [Masternode -> Heights]
  /\ adding \in [Threads -> Vote \cup {NoVote}]
  /\ enabled \subseteq Masternode /\ keyKnown \subseteq Masternode
  \* a vote that is counted is one this node has seen sent, and its block is known
  /\ \A v \in votes : v \in sent /\ v.height \in DOMAIN blocks

Init ==
  /\ height \in BlockHeights /\ \A h \in BlockHeights : height <= h
  /\ sent = {} /\ votes = {}
  /\ lastHeight = [m \in Masternode |-> 0]
  /\ blocks = << >>
  /\ lastVote = [m \in Masternode |-> 0]
  /\ adding = [t \in Threads |-> NoVote]
  /\ enabled = Masternode
  /\ keyKnown = Masternode \ NewKeys
  /\ file = NoFile
  /\ upsets = 0

-----------------------------------------------------------------------------
(* Blocks and votes for them. *)

Upset == upsets < MaxUpsets /\ upsets' = upsets + 1

VoterRank(m) == CHOOSE k \in DOMAIN Order : Order[k] = m

\* "Masternode not in the top": a rank of -1 passes.
InTop(r) == r <= TOTAL

\* GetMasternodeRank in this node's list: -1 for one that is not enabled.
Rank(m) ==
  IF m \in enabled THEN Cardinality({n \in enabled : VoterRank(n) <= VoterRank(m)}) ELSE -1

StoreVoteAnew(t, v) ==
  /\ votes' = votes \cup {v}
  /\ blocks' = [h \in DOMAIN blocks \cup {v.height} |->
                  IF h = v.height THEN NoTally ELSE blocks[h]]
  /\ adding' = [adding EXCEPT ![t] = v]

\* AddWinningMasternode up to the end of its lock.
StoreVote(t, v) ==
  /\ votes' = votes \cup {v}
  /\ blocks' = IF v.height \in DOMAIN blocks THEN blocks
               ELSE [h \in DOMAIN blocks \cup {v.height} |->
                       IF h = v.height THEN NoTally ELSE blocks[h]]
  /\ adding' = [adding EXCEPT ![t] = v]

\* The rest of it, CMasternodeBlockPayees::AddPayee, on whatever entry is there.
AddPayee(t) ==
  LET v == adding[t]
      tally == IF v.height \in DOMAIN blocks THEN blocks[v.height] ELSE NoTally
  IN  /\ v # NoVote
      /\ blocks' = [h \in DOMAIN blocks \cup {v.height} |->
                      IF h = v.height THEN [tally EXCEPT ![v.payee] = @ + 1] ELSE blocks[h]]
      /\ adding' = [adding EXCEPT ![t] = NoVote]
      /\ UNCHANGED <<height, sent, lastHeight, votes, lastVote, enabled, keyKnown, file, upsets>>

\* The vote for a block: the payee depends on the list of the masternode; a budget
\* block, or no payee, leaves height 0 and no payee in it.
VoteFor(m, h, p) ==
  IF h \in BudgetBlocks \/ p = NoPayee THEN [mn |-> m, height |-> 0, payee |-> NoPayee]
  ELSE [mn |-> m, height |-> h, payee |-> p]

NotVotedYet(m, h) == h > lastHeight[m]

\* ProcessBlock of this node.  AddWinningMasternode refuses a vote it has.
ProcessBlock(h, p) ==
  LET v == VoteFor(Me, h, p)
  IN  IF Rank(Me) # -1 /\ InTop(Rank(Me)) /\ NotVotedYet(Me, h) /\ v \notin votes
      THEN /\ lastHeight' = [lastHeight EXCEPT ![Me] = h]
           /\ sent' = sent \cup {v}
           /\ StoreVote("block", v)
      ELSE p = NoPayee /\ UNCHANGED <<lastHeight, sent, votes, blocks, adding>>

\* ProcessNewBlock sets the best height to that of the block that came in, which
\* may be one of a branch that lost, and votes.
NewBlock(h, p) ==
  /\ h \in BlockHeights /\ h >= height - Late
  /\ adding["block"] = NoVote /\ (Stall \/ adding["message"] = NoVote)
  /\ height' = h
  /\ IF h < height THEN Upset ELSE UNCHANGED upsets
  /\ ProcessBlock(h + Ahead, p)
  /\ UNCHANGED <<lastVote, enabled, keyKnown, file>>

\* ProcessBlock of another masternode, with its own list.
OtherVotes(m, p) ==
  LET h == height + Ahead
      v == VoteFor(m, h, p)
  IN  /\ m # Me
      /\ InTop(VoterRank(m)) /\ NotVotedYet(m, h)
      /\ v \notin sent
      /\ lastHeight' = [lastHeight EXCEPT ![m] = h]
      /\ sent' = sent \cup {v}
      /\ UNCHANGED <<height, votes, blocks, adding, lastVote, enabled, keyKnown, file, upsets>>

-----------------------------------------------------------------------------
(* The message "mnw". *)

InRange(h) == height - Back <= h /\ h <= height + Future

\* CanVote, which remembers the height of the last vote only.
CanVote(m, h) == lastVote[m] # h

ReceiveWinner(v) ==
  /\ adding["message"] = NoVote
  /\ v \in sent \ votes /\ InRange(v.height)
  /\ InTop(Rank(v.mn))
  /\ CanVote(v.mn, v.height)
  /\ lastVote' = [lastVote EXCEPT ![v.mn] = v.height]
  /\ IF v.mn \in keyKnown THEN StoreVote("message", v)
     ELSE UNCHANGED <<votes, blocks, adding>>
  /\ UNCHANGED <<height, sent, lastHeight, enabled, keyKnown, file, upsets>>

\* AskForMN has been answered with the current broadcast.
LearnKey(m) ==
  /\ m \notin keyKnown
  /\ keyKnown' = keyKnown \cup {m}
  /\ UNCHANGED <<height, sent, lastHeight, votes, blocks, lastVote, adding, enabled, file, upsets>>

Disable(m) ==
  /\ m \in enabled
  /\ enabled' = enabled \ {m}
  /\ Upset
  /\ UNCHANGED <<height, sent, lastHeight, votes, blocks, lastVote, adding, keyKnown, file>>

-----------------------------------------------------------------------------
(* The masternode thread, and restarts. *)

Outdated(v) == height - v.height > Limit

Cleaned(old) == {v.height : v \in old}

CleanPaymentList ==
  LET old == {v \in votes : Outdated(v)}
  IN  /\ old # {}
      /\ votes' = votes \ old
      /\ blocks' = [h \in DOMAIN blocks \ Cleaned(old) |-> blocks[h]]
      /\ UNCHANGED <<height, sent, lastHeight, lastVote, adding, enabled, keyKnown, file, upsets>>

\* Another masternode stops and starts: nLastBlockHeight is not kept anywhere.
RestartOther(m) ==
  /\ m # Me
  /\ lastHeight' = [lastHeight EXCEPT ![m] = 0]
  /\ Upset
  /\ UNCHANGED <<height, sent, votes, blocks, lastVote, adding, enabled, keyKnown, file>>

ReadFileKeepsLast(f) ==
  /\ file' = f /\ votes' = f.votes /\ blocks' = f.blocks
  /\ adding' = [t \in Threads |-> NoVote]
  /\ lastHeight' = [lastHeight EXCEPT ![Me] = 0]
  /\ Upset
  /\ UNCHANGED <<height, sent, lastVote, enabled, keyKnown>>

\* This node starts with the votes and tallies of mnpayments.dat.
ReadFile(f) ==
  /\ file' = f /\ votes' = f.votes /\ blocks' = f.blocks
  /\ adding' = [t \in Threads |-> NoVote]
  /\ lastHeight' = [lastHeight EXCEPT ![Me] = 0]
  /\ lastVote' = [m \in Masternode |-> 0]
  /\ Upset
  /\ UNCHANGED <<height, sent, enabled, keyKnown>>

\* PrepareShutdown writes the file after the threads have stopped.
Restart ==
  /\ \A t \in Threads : adding[t] = NoVote
  /\ ReadFile([votes |-> votes, blocks |-> blocks])

\* A process that is killed leaves the file of its last stop, or one cut short,
\* which fails its checksum.
Crash ==
  /\ ReadFile(file) \/ ReadFile(NoFile)

Next ==
  \/ \E h \in BlockHeights, p \in Payee \cup {NoPayee} : NewBlock(h, p)
  \/ \E m \in Masternode, p \in Payee \cup {NoPayee} : OtherVotes(m, p)
  \/ \E v \in sent : ReceiveWinner(v)
  \/ \E t \in Threads : AddPayee(t)
  \/ \E m \in Masternode : LearnKey(m) \/ Disable(m) \/ RestartOther(m)
  \/ CleanPaymentList \/ Restart \/ Crash

\* Peers go on relaying votes, keys that were asked for arrive, threads run.
Fairness ==
  /\ \A v \in Vote : WF_vars(v \in sent /\ ReceiveWinner(v))
  /\ \A t \in Threads : WF_vars(AddPayee(t))
  /\ \A m \in Masternode : WF_vars(LearnKey(m))

Spec == Init /\ [][Next]_vars /\ Fairness

-----------------------------------------------------------------------------
(* What the tallies decide. *)

Tally(h, p) == IF h \in DOMAIN blocks THEN blocks[h][p] ELSE 0

GetPayeeLast(h) == {p \in DOMAIN blocks[h] : blocks[h][p] > 0}

\* GetPayee: one of the payees with most votes.
GetPayee(h) ==
  {p \in DOMAIN blocks[h] : blocks[h][p] > 0 /\ \A q \in DOMAIN blocks[h] :
                              blocks[h][p] >= blocks[h][q]}

\* IsTransactionValid for a block that pays payee p.
IsTransactionValid(h, p) ==
  LET enough == {q \in DOMAIN blocks[h] : blocks[h][q] >= REQUIRED}
  IN  enough = {} \/ p \in enough

-----------------------------------------------------------------------------
(* Properties. *)

\* AddWinningMasternode and CleanPaymentList keep two maps in step: the tally of a
\* block is the number of its votes, less those a thread is about to add.  (Votes
\* without a payee are for height 0, which nobody asks for.)
TallyExact ==
  \A h \in Heights \ {0}, p \in Payee :
    Tally(h, p) + Cardinality({t \in Threads : adding[t].height = h /\ adding[t].payee = p})
      = Cardinality({v \in votes : v.height = h /\ v.payee = p})

VotedTwice(v) == \E w \in sent : w.mn = v.mn /\ w.height = v.height /\ w # v

\* FillBlockPayee and IsTransactionValid: the payee that a staker takes from the
\* tallies is one that the same tallies accept, and unless a masternode has voted
\* twice no two payees have enough votes, so stakers with the votes of a majority
\* agree.
OneWinner ==
  \A h \in DOMAIN blocks :
    /\ \A p \in GetPayee(h) : IsTransactionValid(h, p)
    /\ \/ \E v \in votes : v.height = h /\ VotedTwice(v)
       \/ Cardinality({p \in Payee : blocks[h][p] >= REQUIRED}) <= 1

\* CanVote, "masternode already voted": at most one vote of a masternode counts
\* for a block.
OneVoteEach ==
  \A v, w \in votes : v.mn = w.mn /\ v.height = w.height => v = w

CountedFrom(voters) ==
  <>[](\A v \in sent :
         /\ v.mn \in voters /\ v.payee # NoPayee /\ ~VotedTwice(v)
         /\ InRange(v.height) /\ InTop(Rank(v.mn))
         => v \in votes)

\* Votes that arrive late, early or in any order: in the end every vote that is
\* still in range, from a masternode that has not voted twice and whose key was
\* known when it arrived, is counted.  It takes Back + Late <= Limit, up to 720
\* masternodes: else a late block can bring a vote back into range that has been
\* cleaned, and CanVote refuses it as one already cast.
VotesCounted == CountedFrom(Masternode \ NewKeys)

\* "It could just be a non-synced masternode", which AskForMN mends: the same for
\* every masternode.
AllVotesCounted == CountedFrom(Masternode)

\* mapMasternodePayeeVotes and mapMasternodeBlocks hold what their types allow and
\* agree with each other.
VotesSound == TypeOK /\ TallyExact
=============================================================================
