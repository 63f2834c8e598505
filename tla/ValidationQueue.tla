--------------------------- MODULE ValidationQueue ---------------------------
(***************************************************************************)
(* The queue of validation callbacks: CMainSignals                         *)
(* (validationinterface.cpp) on top of SingleThreadedSchedulerClient and   *)
(* CScheduler (scheduler.cpp), with the threads that generate callbacks,   *)
(* the threads that wait for them, the wallet as the subscriber that keeps *)
(* track of the last block, and the order of PrepareShutdown (init.cpp).   *)
(*                                                                         *)
(* Each lock of m_cs_callbacks_pending is one step, so other threads act   *)
(* between pushing a callback and deciding to schedule ProcessQueue, and   *)
(* between taking a callback and finishing it.  Scheduling a task is part  *)
(* of the step that decides it, and taking one part of the step it begins: *)
(* only the service threads see taskQueue, and they may be late anyway.    *)
(* The scheduler's other tasks are left out.  cs_main is explicit, since   *)
(* callbacks may need it (AutoCombineDust).  Blocks are the numbers of     *)
(* their heights: disconnecting and connecting again leads to the same     *)
(* block.                                                                  *)
(***************************************************************************)
EXTENDS Integers, Sequences, FiniteSets, Functions

CONSTANTS
  Service,      \* threads in CScheduler::serviceQueue (the program starts one)
  Chain,        \* the thread in ActivateBestChain: the message handler
  Rpc,          \* the HTTP workers
  Staker,       \* ThreadStakeMinter, if it runs: {} or one thread
  None,
  SyncLimit,    \* CallbacksPending() above which ActivateBestChain waits (10)
  Resend,       \* is sendrawtransaction called for what the mempool has already
  MaxHeight, MaxMoves, MaxCalls  \* bounds

Client == {Chain} \cup Rpc \cup Staker
Thread == Service \cup Client \cup {"shutoff"}

ASSUME ValidationQueueAssumption ==
  /\ IsFiniteSet(Service) /\ IsFiniteSet(Rpc) /\ IsFiniteSet(Staker)
  /\ None \notin Thread
  /\ Service \cap Client = {} /\ "shutoff" \notin Service \cup Client
  /\ Chain \notin Rpc \cup Staker /\ Rpc \cap Staker = {}
  /\ {SyncLimit, MaxHeight, MaxMoves, MaxCalls} \subseteq Nat
  /\ Resend \in BOOLEAN

VARIABLES
  pending,   \* m_callbacks_pending
  running,   \* m_are_callbacks_running
  tasks,     \* how many ProcessQueue are in taskQueue
  pc,        \* where each thread is
  call,      \* the callback a thread has taken from the queue
  prog,      \* what a client does after AddToProcessQueue
  fulfilled, \* the clients whose promise is set
  csMain,    \* who holds cs_main
  tip,       \* the height of the active chain
  last,      \* the wallet's m_last_block_processed and m_last_block_processed_height
  applied,   \* how many callbacks the subscribers have acted on
  sent,      \* how many callbacks have been generated
  must,      \* what sent was when the call a client is in began, and 0 outside
             \* of SyncWithValidationInterfaceQueue or BlockUntilSyncedToCurrentChain
  stage,     \* where PrepareShutdown is
  count      \* how often the bounded operations happened

queueVars == <<pending, running, tasks, sent>>
walletVars == <<last, applied>>
clientVars == <<prog, fulfilled, csMain, tip, must, count>>
vars == <<queueVars, pc, call, walletVars, clientVars, stage>>

Callback == [n : Nat, kind : {"connected", "disconnected", "added", "bestchain", "promise"},
             arg : Nat \cup Client]
NoCall == [n |-> 0, kind |-> "none", arg |-> 0]

\* The queue, the threads and the wallet's last block are well typed.
TypeOK ==
  /\ \A i \in DOMAIN pending : pending[i] \in Callback
  /\ running \in BOOLEAN /\ tasks \in Nat
  /\ pc \in [Thread -> {"idle", "call", "raii", "maybe", "next", "check", "gone"}]
  /\ \A t \in Thread : call[t] \in Callback \cup {NoCall}
  /\ \A c \in Client : Range(prog[c]) \subseteq {"promise", "unlock", "wait"}
  /\ fulfilled \subseteq Client
  /\ csMain \in Client \cup {None}
  /\ tip \in 0 .. MaxHeight
  /\ last \in [block : 0 .. MaxHeight, height : 0 .. MaxHeight]
  /\ {applied, sent} \subseteq Nat
  /\ must \in [Client -> Nat]
  /\ stage \in {"run", "stopRpc", "stopNet", "interrupted", "joined", "flushing", "flushed"}

Init ==
  /\ pending = <<>> /\ running = FALSE /\ tasks = 0
  /\ pc = [t \in Thread |-> "idle"]
  /\ call = [t \in Thread |-> NoCall]
  /\ prog = [c \in Client |-> <<>>] /\ fulfilled = {}
  /\ csMain = None /\ tip = 0 /\ applied = 0 /\ sent = 0
  /\ last = [block |-> 0, height |-> 0]
  /\ must = [c \in Client |-> 0]
  /\ stage = "run"
  /\ count = [calls |-> 0, moves |-> 0]

Goto(t, where) == pc' = [pc EXCEPT ![t] = where]

----------------------------------------------------------------------------
(* SingleThreadedSchedulerClient *)

\* AddToProcessQueue: emplace_back, then MaybeScheduleProcessQueue.
AddToProcessQueue(t, kind, arg) ==
  /\ sent' = sent + 1
  /\ pending' = Append(pending, [n |-> sent + 1, kind |-> kind, arg |-> arg])
  /\ Goto(t, "maybe")
  /\ UNCHANGED <<running, tasks>>

\* Where a thread goes on after AddToProcessQueue or ProcessQueue.
Back(t) == IF t \in Client THEN "next" ELSE "idle"

NothingToSchedule == running \/ pending = <<>>

MaybeScheduleProcessQueue(t) ==
  /\ pc[t] = "maybe"
  /\ tasks' = IF NothingToSchedule THEN tasks ELSE tasks + 1
  /\ Goto(t, Back(t))
  /\ UNCHANGED <<pending, running, sent, call, walletVars, clientVars, stage>>

\* Mutants stand before the definition they replace.
MayProcessAnyway == pending # <<>>
MayProcess == ~ running /\ pending # <<>>

\* ProcessQueue, up to taking the callback.
ProcessQueue(t) ==
  /\ IF MayProcess
     THEN /\ running' = TRUE
          /\ call' = [call EXCEPT ![t] = Head(pending)]
          /\ pending' = Tail(pending)
          /\ Goto(t, "call")
     ELSE UNCHANGED <<running, call, pending, pc>>
  /\ UNCHANGED <<sent, walletVars, clientVars, stage>>

\* CWallet::BlockConnected and BlockDisconnected, as to the last block.
LastBlock(cb) ==
  CASE cb.kind = "connected" -> [block |-> cb.arg, height |-> cb.arg]
    [] cb.kind = "disconnected" -> [block |-> cb.arg, height |-> cb.arg - 1]
    [] OTHER -> last

\* callback(): a promise is set; any other callback reaches the wallet,
\* which may take cs_main on the way.
RunCallback(t) ==
  /\ pc[t] = "call"
  /\ LET cb == call[t]
     IN /\ cb.kind # "promise" => csMain = None
        /\ fulfilled' = IF cb.kind = "promise" THEN fulfilled \cup {cb.arg} ELSE fulfilled
        /\ last' = LastBlock(cb)
        /\ applied' = cb.n
  /\ Goto(t, "raii")
  /\ UNCHANGED <<queueVars, call, prog, csMain, tip, must, count, stage>>

\* ~RAIICallbacksRunning, which goes on to MaybeScheduleProcessQueue.
AfterCallbackIdle == "idle"
AfterCallback == "maybe"

CallbackDone(t) ==
  /\ pc[t] = "raii"
  /\ running' = FALSE
  /\ call' = [call EXCEPT ![t] = NoCall]
  /\ Goto(t, AfterCallback)
  /\ UNCHANGED <<pending, tasks, sent, walletVars, clientVars, stage>>

\* A thread in CScheduler::serviceQueue takes a task that is due.
ServiceQueue(s) ==
  /\ pc[s] = "idle" /\ tasks > 0
  /\ tasks' = tasks - 1
  /\ ProcessQueue(s)

ServiceStep(s) == ServiceQueue(s) \/ RunCallback(s) \/ CallbackDone(s)

----------------------------------------------------------------------------
(* The threads that generate callbacks and wait for them *)

QueueTooLongNever == FALSE
QueueTooLong == Len(pending) > SyncLimit

\* One section of ActivateBestChain or InvalidateBlock under cs_main, which
\* moves the tip by a block and announces it.
MoveTip ==
  /\ stage \in {"run", "stopRpc"}
  /\ pc[Chain] = "idle" /\ ~ QueueTooLong /\ csMain = None
  /\ csMain' = Chain
  /\ prog' = [prog EXCEPT ![Chain] = <<"unlock">>]
  /\ count.moves < MaxMoves
  /\ count' = [count EXCEPT !.moves = @ + 1]
  /\ \/ /\ tip < MaxHeight /\ tip' = tip + 1
        /\ AddToProcessQueue(Chain, "connected", tip + 1)
     \/ /\ tip > 0 /\ tip' = tip - 1
        /\ AddToProcessQueue(Chain, "disconnected", tip)
  /\ UNCHANGED <<call, walletVars, fulfilled, must, stage>>

\* ActivateBestChain waits for a long queue; an RPC command waits for it.
CallSync(c) ==
  /\ pc[c] = "idle"
  /\ \/ /\ c = Chain /\ QueueTooLong
        /\ stage \in {"run", "stopRpc"} /\ count.moves < MaxMoves
        /\ UNCHANGED count
     \/ /\ c \in Rpc /\ stage = "run" /\ count.calls < MaxCalls
        /\ count' = [count EXCEPT !.calls = @ + 1]
  /\ must' = [must EXCEPT ![c] = sent]
  /\ Goto(c, "check")
  /\ UNCHANGED <<queueVars, call, walletVars, prog, fulfilled, csMain, tip, stage>>

\* CWallet::BlockUntilSyncedToCurrentChain, by a wallet command or the staker.
BlockUntilSyncedToCurrentChain(c) ==
  /\ c \in Rpc \cup Staker /\ pc[c] = "idle" /\ csMain = None
  /\ stage \in IF c \in Staker THEN {"run", "stopRpc", "stopNet"} ELSE {"run"}
  /\ count.calls < MaxCalls
  /\ count' = [count EXCEPT !.calls = @ + 1]
  /\ \/ last.block = tip /\ UNCHANGED <<pc, must>>
     \/ /\ last.block # tip
        /\ Goto(c, "check")
        /\ must' = [must EXCEPT ![c] = sent]
  /\ UNCHANGED <<queueVars, call, walletVars, prog, fulfilled, csMain, tip, stage>>

Return(c) ==
  /\ Goto(c, "idle")
  /\ must' = [must EXCEPT ![c] = 0]

NoNeedToWaitRunning == pending = <<>> \/ running
NoNeedToWait == pending = <<>>

\* SyncWithValidationInterfaceQueue
Sync(c) ==
  /\ pc[c] = "check"
  /\ IF NoNeedToWait
     THEN Return(c) /\ UNCHANGED <<queueVars, prog>>
     ELSE /\ AddToProcessQueue(c, "promise", c)
          /\ prog' = [prog EXCEPT ![c] = <<"wait">>]
          /\ UNCHANGED must
  /\ UNCHANGED <<call, walletVars, fulfilled, csMain, tip, count, stage>>

\* sendrawtransaction of a transaction the mempool takes, or has already.
SendRawTransaction(c) ==
  /\ c \in Rpc /\ pc[c] = "idle" /\ csMain = None
  /\ stage = "run" /\ count.calls < MaxCalls
  /\ count' = [count EXCEPT !.calls = @ + 1]
  /\ csMain' = c
  /\ \/ /\ AddToProcessQueue(c, "added", 0)
        /\ prog' = [prog EXCEPT ![c] = <<"promise", "unlock", "wait">>]
     \/ /\ Resend
        /\ Goto(c, "next")
        /\ prog' = [prog EXCEPT ![c] = <<"unlock", "wait">>]
        /\ UNCHANGED queueVars
  /\ UNCHANGED <<call, walletVars, fulfilled, tip, must, stage>>

\* What follows AddToProcessQueue in these.
Continue(c) ==
  /\ pc[c] = "next"
  /\ CASE Head(prog[c]) = "promise" ->
            /\ AddToProcessQueue(c, "promise", c)
            /\ UNCHANGED <<fulfilled, csMain, must>>
       [] Head(prog[c]) = "unlock" ->
            /\ csMain' = None
            /\ Goto(c, IF Len(prog[c]) = 1 THEN "idle" ELSE "next")
            /\ UNCHANGED <<queueVars, fulfilled, must>>
       [] Head(prog[c]) = "wait" ->
            /\ c \in fulfilled
            /\ fulfilled' = fulfilled \ {c}
            /\ Return(c)
            /\ UNCHANGED <<queueVars, csMain>>
  /\ prog' = [prog EXCEPT ![c] = Tail(@)]
  /\ UNCHANGED <<call, walletVars, tip, count, stage>>

ClientStep(c) == Sync(c) \/ Continue(c)

----------------------------------------------------------------------------
(* PrepareShutdown: StopHTTPServer joins the HTTP workers, CConnman::Stop  *)
(* the message handler, and the thread group with the scheduler and the    *)
(* staker is interrupted and joined; then the queue is flushed.            *)

Advance(from, to) == stage = from /\ stage' = to

StopServers ==
  /\ \/ Advance("run", "stopRpc")
     \/ Advance("stopRpc", "stopNet") /\ \A c \in Rpc : pc[c] = "idle"
     \/ Advance("stopNet", "interrupted") /\ pc[Chain] = "idle"
     \/ /\ Advance("interrupted", "joined")
        /\ \A t \in Service \cup Staker : pc[t] = "gone"
  /\ UNCHANGED <<queueVars, pc, call, walletVars, clientVars>>

\* An interrupted thread ends where it waits for work, tasks due or not.
Interrupted(t) ==
  /\ stage = "interrupted" /\ t \in Service \cup Staker /\ pc[t] = "idle"
  /\ Goto(t, "gone")
  /\ UNCHANGED <<queueVars, call, walletVars, clientVars, stage>>

AfterFlushDone == "flushed"
AfterFlush == "flushing"

\* FlushStateToDisk generates SetBestChain, FlushBackgroundCallbacks runs
\* ProcessQueue until the queue is empty.  Callbacks generated later are
\* dropped: "Any future callbacks will be dropped."
FlushStateToDisk ==
  /\ Advance("joined", AfterFlush)
  /\ AddToProcessQueue("shutoff", "bestchain", 0)
  /\ UNCHANGED <<call, walletVars, clientVars>>

EmptyQueue ==
  /\ stage = "flushing" /\ pc["shutoff"] = "idle"
  /\ IF pending # <<>>
     THEN ProcessQueue("shutoff") /\ UNCHANGED tasks
     ELSE stage' = "flushed" /\ UNCHANGED <<queueVars, pc, call, walletVars, clientVars>>

ShutdownStep ==
  StopServers \/ FlushStateToDisk \/ EmptyQueue \/ RunCallback("shutoff") \/ CallbackDone("shutoff")

Next ==
  \/ \E t \in Thread : MaybeScheduleProcessQueue(t) \/ Interrupted(t)
  \/ \E s \in Service : ServiceStep(s)
  \/ \E c \in Client : \/ ClientStep(c) \/ CallSync(c)
                       \/ BlockUntilSyncedToCurrentChain(c) \/ SendRawTransaction(c)
  \/ MoveTip
  \/ ShutdownStep

Spec == Init /\ [][Next]_vars

\* Threads keep running; whoever has begun to wait for the queue, or to shut
\* down, goes on.  New commands, blocks and the shutdown need not come.
FairSpec ==
  /\ Spec
  /\ \A t \in Thread : WF_vars(MaybeScheduleProcessQueue(t) \/ Interrupted(t))
  /\ \A s \in Service : WF_vars(ServiceStep(s))
  /\ \A c \in Client : WF_vars(ClientStep(c))
  /\ WF_vars(stage # "run" /\ ShutdownStep)

----------------------------------------------------------------------------
Begun == sent - Len(pending)
InCallback == {t \in Thread : pc[t] = "call"}
Current == IF InCallback = {} THEN 0 ELSE call[CHOOSE t \in InCallback : TRUE].n

Delivery == INSTANCE OrderedDelivery WITH begun <- Begun, current <- Current

\* Callbacks run one at a time, each once and in the order in which they were
\* generated, whatever threads service the scheduler and however the two
\* halves of AddToProcessQueue interleave with ProcessQueue.
ImplementsOrderedDelivery == Delivery!Spec

Returns(c) == must[c] # 0 /\ must'[c] = 0

\* When SyncWithValidationInterfaceQueue returns, every callback generated
\* before the call has begun to run.  (It may still be running: the function
\* returns at once when the queue is empty, running callback or not.)
SyncLeavesNothingQueued == [][\A c \in Client : Returns(c) => Begun >= must[c]]_vars

\* What validationinterface.h and wallet.h say: when that function returns,
\* the wallet has acted on every callback generated before the call, and
\* when BlockUntilSyncedToCurrentChain returns, it is at the current chain.
CaughtUp ==
  [][\A c \in Client :
       /\ Returns(c) => applied >= must[c]
       /\ BlockUntilSyncedToCurrentChain(c) /\ pc'[c] = "idle" => last.height = tip]_vars

\* ActivateBestChain does not run ahead of the subscribers: it begins a
\* section only with at most SyncLimit callbacks in the queue.
TipCallbacks == {cb \in Range(pending) : cb.kind \in {"connected", "disconnected"}}
QueueBounded == Cardinality(TipCallbacks) <= SyncLimit + 1

\* Nobody waits for ever on a promise or for cs_main: every command and every
\* section of ActivateBestChain ends, whatever callbacks need cs_main.
ClientsReturn == \A c \in Client : pc[c] # "idle" ~> pc[c] \in {"idle", "gone"}

\* SyncWithValidationInterfaceQueue and the commands that call it come back, and
\* then nothing that was generated before the call is still queued.
WaitersServed == SyncLeavesNothingQueued /\ ClientsReturn

\* PrepareShutdown comes to its end, with nothing that was generated before
\* the flush left undelivered.
ShutdownFinishes == stage = "stopRpc" ~> stage = "flushed" /\ applied = sent

\* The callbacks that wait stay within the limit of ActivateBestChain, and a thread
\* only ever holds what its place in the code allows.
CallbacksBounded == TypeOK /\ QueueBounded
=============================================================================
