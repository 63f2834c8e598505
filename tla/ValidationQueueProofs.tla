------------------------ MODULE ValidationQueueProofs -----------------------
(***************************************************************************)
(* Proofs about ValidationQueue: the inductive invariant of the queue and  *)
(* its threads; the delivery of the callbacks one at a time and in order;  *)
(* and who waits: ActivateBestChain, which keeps the queue of block        *)
(* callbacks within its limit, and the callers of                          *)
(* SyncWithValidationInterfaceQueue, who return after what was generated   *)
(* before.                                                                 *)
(***************************************************************************)
EXTENDS ValidationQueue, FiniteSetTheorems, TLAPS

(***************************************************************************)
(* The inductive invariant.  The queue holds the callbacks after the last  *)
(* one begun, without a gap.  At most one thread is between taking a       *)
(* callback and the end of RAIICallbacksRunning; while it is there, its    *)
(* callback is the last one begun and m_are_callbacks_running is set.      *)
(***************************************************************************)

Places == {"idle", "call", "raii", "maybe", "next", "check", "gone"}
Queued ==
  {cb \in Callback :
     /\ cb.n # 0
     /\ cb.kind \in {"connected", "disconnected"} => cb.arg \in 1 .. MaxHeight
     /\ cb.kind = "promise" => cb.arg \in Client}

Queue ==
  /\ sent \in Nat /\ pending \in Seq(Queued)
  /\ Len(pending) <= sent
  /\ \A i \in 1 .. Len(pending) : pending[i].n = Begun + i

AtWork(t) == pc[t] \in {"call", "raii"}

Workers ==
  /\ running \in BOOLEAN /\ tasks \in Nat
  /\ pc \in [Thread -> Places]
  /\ call \in [Thread -> Queued \cup {NoCall}]
  /\ \A t \in Thread : AtWork(t) => running /\ call[t] \in Queued /\ call[t].n = Begun
  /\ \A t, u \in Thread : AtWork(t) /\ AtWork(u) => t = u

\* What a client has yet to do after AddToProcessQueue.
Progs == {<<"unlock">>, <<"wait">>, <<"unlock", "wait">>, <<"promise", "unlock", "wait">>}

Clients ==
  /\ prog \in [Client -> {<<>>} \cup Progs]
  /\ \A c \in Client : pc[c] \in {"idle", "maybe", "next", "check", "gone"}
  /\ \A c \in Client : pc[c] \in {"maybe", "next"} => prog[c] \in Progs
  /\ fulfilled \subseteq Client
  /\ csMain \in Client \cup {None}
  /\ tip \in 0 .. MaxHeight
  /\ last \in [block : 0 .. MaxHeight, height : 0 .. MaxHeight]
  /\ applied \in Nat
  /\ must \in [Client -> Nat]

Before == {"run", "stopRpc", "stopNet", "interrupted", "joined"}

Shutdown ==
  /\ stage \in Before \cup {"flushing", "flushed"}
  /\ stage \in Before => pc["shutoff"] = "idle"

IInv == Queue /\ Workers /\ Clients /\ Shutdown

\* The empty queue of a node that starts.
LEMMA InitInv == Init => IInv
<1> SUFFICES ASSUME Init PROVE IInv
  OBVIOUS
<1> USE ValidationQueueAssumption DEF Init
<1>1. Queue
  BY DEF Queue, Begun
<1>2. Workers
  BY Zenon DEF Workers, Places, AtWork
<1>3. Clients
  BY DEF Clients, Client, Thread
<1>4. Shutdown
  BY DEF Shutdown, Before, Thread
<1>q. QED BY <1>1, <1>2, <1>3, <1>4 DEF IInv

-----------------------------------------------------------------------------
(* The two ends of the queue. *)

\* AddToProcessQueue appends the next number; what has begun stays.
LEMMA AppendQueue ==
  ASSUME Queue, NEW t \in Thread, NEW kind, NEW arg, AddToProcessQueue(t, kind, arg),
         kind \in {"connected", "disconnected", "added", "bestchain", "promise"},
         arg \in Nat \cup Client,
         kind \in {"connected", "disconnected"} => arg \in 1 .. MaxHeight,
         kind = "promise" => arg \in Client
  PROVE  /\ Queue' /\ Begun' = Begun
         /\ sent' = sent + 1 /\ UNCHANGED <<running, tasks>> /\ Goto(t, "maybe")
         /\ Len(pending') = Len(pending) + 1
         /\ pending'[Len(pending) + 1] = [n |-> sent + 1, kind |-> kind, arg |-> arg]
         /\ \A i \in 1 .. Len(pending) : pending'[i] = pending[i]
<1> DEFINE cb == [n |-> sent + 1, kind |-> kind, arg |-> arg]
<1>1. /\ sent' = sent + 1 /\ pending' = Append(pending, cb)
      /\ UNCHANGED <<running, tasks>> /\ Goto(t, "maybe")
  BY DEF AddToProcessQueue
<1>2. sent \in Nat /\ pending \in Seq(Queued) /\ Len(pending) \in Nat /\ Len(pending) <= sent
  BY DEF Queue
<1>3. cb \in Queued /\ cb.n = sent + 1
  BY <1>2 DEF Queued, Callback
<1> HIDE DEF cb
<1>4. /\ pending' \in Seq(Queued) /\ Len(pending') = Len(pending) + 1
      /\ pending'[Len(pending) + 1] = cb
      /\ \A i \in 1 .. Len(pending) : pending'[i] = pending[i]
  BY <1>1, <1>2, <1>3
<1>5. Begun' = Begun
  BY <1>1, <1>2, <1>4 DEF Begun
<1>6. ASSUME NEW i \in 1 .. Len(pending')
      PROVE  pending'[i].n = Begun' + i
  <2>1. CASE i \in 1 .. Len(pending)
    BY <1>4, <1>5, <2>1 DEF Queue
  <2>2. CASE i = Len(pending) + 1
    BY <1>2, <1>3, <1>4, <1>5, <2>2 DEF Begun
  <2>q. QED BY <1>2, <1>4, <2>1, <2>2
<1>7. Queue'
  BY <1>1, <1>2, <1>4, <1>6 DEF Queue
<1>q. QED BY <1>1, <1>4, <1>5, <1>7 DEF cb

\* ProcessQueue takes the callback with the number after the last one begun.
LEMMA TailQueue ==
  ASSUME Queue, pending # <<>>, pending' = Tail(pending), sent' = sent
  PROVE  /\ Queue' /\ Begun' = Begun + 1
         /\ Head(pending) \in Queued /\ Head(pending).n = Begun + 1
         /\ Len(pending') = Len(pending) - 1
         /\ \A i \in 1 .. Len(pending') : pending'[i] = pending[i + 1]
<1>1. /\ sent \in Nat /\ pending \in Seq(Queued) /\ Len(pending) \in Nat
      /\ Len(pending) <= sent /\ Len(pending) > 0
  BY DEF Queue
<1>2. /\ pending' \in Seq(Queued) /\ Len(pending') = Len(pending) - 1
      /\ \A i \in 1 .. Len(pending') : pending'[i] = pending[i + 1]
  BY <1>1
<1>3. Begun' = Begun + 1
  BY <1>1, <1>2 DEF Begun
<1>4. Head(pending) = pending[1] /\ 1 \in 1 .. Len(pending)
  BY <1>1
<1>5. Head(pending) \in Queued /\ Head(pending).n = Begun + 1
  BY <1>1, <1>4 DEF Queue
<1>6. ASSUME NEW i \in 1 .. Len(pending')
      PROVE  pending'[i].n = Begun' + i
  <2>1. i + 1 \in 1 .. Len(pending)
    BY <1>1, <1>2
  <2>2. pending[i + 1].n = Begun + (i + 1)
    BY <2>1 DEF Queue
  <2>3. Begun \in Int
    BY <1>1 DEF Begun
  <2>q. QED BY <1>2, <1>3, <2>2, <2>3
<1>7. Queue'
  BY <1>1, <1>2, <1>6 DEF Queue
<1>q. QED BY <1>2, <1>3, <1>5, <1>7

\* A queue that is left alone.
LEMMA SameQueue ==
  ASSUME Queue, UNCHANGED <<pending, sent>>
  PROVE  Queue' /\ Begun' = Begun
BY DEF Queue, Begun

\* A thread that runs no callback goes on to a place where it runs none.
LEMMA SameWorkers ==
  ASSUME Workers, NEW t \in Thread, ~ AtWork(t),
         NEW w \in {"idle", "maybe", "next", "check", "gone"}, Goto(t, w),
         UNCHANGED <<running, call>>, tasks' \in Nat, Begun' = Begun
  PROVE  Workers' /\ InCallback' = InCallback
<1>1. pc' \in [Thread -> Places]
  BY DEF Workers, Goto, Places
<1>2. \A u \in Thread : pc'[u] = IF u = t THEN w ELSE pc[u]
  BY DEF Workers, Goto
<1>3. \A u \in Thread : AtWork(u)' <=> AtWork(u)
  BY <1>2 DEF AtWork
<1>4. InCallback' = InCallback
  BY <1>2 DEF InCallback, AtWork
<1>5. Workers'
  BY <1>1, <1>3 DEF Workers
<1>q. QED BY <1>4, <1>5

\* The threads are distinct.
LEMMA Threads ==
  /\ \A c \in Client : c \in Thread /\ c # "shutoff" /\ c \notin Service
  /\ \A t \in Service : t \in Thread /\ t # "shutoff" /\ t \notin Client
  /\ "shutoff" \in Thread /\ "shutoff" \notin Client
  /\ Chain \in Client /\ Rpc \subseteq Client /\ Staker \subseteq Client
BY ValidationQueueAssumption DEF Thread, Client

\* A step of another thread leaves the clients where they are.
LEMMA SameClients ==
  ASSUME Clients, UNCHANGED <<clientVars, walletVars>>, \A c \in Client : pc'[c] = pc[c]
  PROVE  Clients'
BY DEF Clients, clientVars, walletVars

\* A step of a client.
LEMMA StepClients ==
  ASSUME Clients, Workers, NEW c \in Client,
         NEW w \in {"idle", "maybe", "next", "check", "gone"}, Goto(c, w),
         NEW pr \in {<<>>} \cup Progs, prog' = [prog EXCEPT ![c] = pr],
         w \in {"maybe", "next"} => pr \in Progs,
         fulfilled' \subseteq Client, csMain' \in Client \cup {None},
         tip' \in 0 .. MaxHeight, must' \in [Client -> Nat], UNCHANGED walletVars
  PROVE  Clients'
<1>1. \A d \in Client : pc'[d] = IF d = c THEN w ELSE pc[d]
  BY Threads DEF Workers, Goto
<1>2. prog' \in [Client -> {<<>>} \cup Progs]
  BY DEF Clients
<1>3. \A d \in Client : prog'[d] = IF d = c THEN pr ELSE prog[d]
  BY DEF Clients
<1>4. \A d \in Client : pc'[d] \in {"idle", "maybe", "next", "check", "gone"}
  BY <1>1 DEF Clients
<1>5. \A d \in Client : pc'[d] \in {"maybe", "next"} => prog'[d] \in Progs
  BY <1>1, <1>3, Zenon DEF Clients
<1>q. QED BY <1>2, <1>4, <1>5 DEF Clients, walletVars

\* A step of another thread leaves PrepareShutdown where it is.
LEMMA SameShutdown ==
  ASSUME Shutdown, stage' = stage, pc'["shutoff"] = pc["shutoff"]
  PROVE  Shutdown'
BY DEF Shutdown

\* Where Goto leads the others.
LEMMA GotoOthers ==
  ASSUME Workers, NEW t \in Thread, NEW w, Goto(t, w)
  PROVE  /\ pc'[t] = w
         /\ \A u \in Thread : u # t => pc'[u] = pc[u]
BY DEF Workers, Goto

-----------------------------------------------------------------------------
(* What a step does to the abstract delivery. *)

Silent == sent' = sent /\ Begun' = Begun /\ Current' = Current
Sends == sent' = sent + 1 /\ Begun' = Begun /\ Current' = Current
Begins ==
  /\ Current = 0 /\ Begun < sent
  /\ Begun' = Begun + 1 /\ Current' = Begun + 1 /\ sent' = sent
Ends == Current # 0 /\ Current' = 0 /\ sent' = sent /\ Begun' = Begun

Delivers == Silent \/ Sends \/ Begins \/ Ends

\* These are the steps of OrderedDelivery.
LEMMA DeliversStep == Delivers => [Delivery!Next]_Delivery!vars
BY DEF Delivers, Silent, Sends, Begins, Ends, Delivery!Next, Delivery!Send, Delivery!Begin,
       Delivery!End, Delivery!vars

\* The callback that is running is the one of the thread that runs it.
LEMMA CurrentFacts ==
  ASSUME Workers
  PROVE  /\ (\A t \in Thread : pc[t] # "call") => Current = 0
         /\ \A t \in Thread : pc[t] = "call" => Current = call[t].n
<1>1. (\A t \in Thread : pc[t] # "call") => InCallback = {}
  BY DEF InCallback
<1>2. ASSUME NEW t \in Thread, pc[t] = "call"
      PROVE  InCallback = {t}
  BY <1>2 DEF InCallback, Workers, AtWork
<1>3. ASSUME NEW t \in Thread, pc[t] = "call"
      PROVE  Current = call[t].n
  <2>1. InCallback = {t}
    BY <1>2, <1>3
  <2>2. (CHOOSE u \in InCallback : TRUE) = t
    BY <2>1
  <2>q. QED BY <2>1, <2>2 DEF Current
<1>q. QED BY <1>1, <1>3 DEF Current

\* With the same threads in the same callbacks the current one is the same.
LEMMA SameCurrent ==
  ASSUME InCallback' = InCallback, call' = call
  PROVE  Current' = Current
BY DEF Current

-----------------------------------------------------------------------------
(* The queue's own steps. *)

\* MaybeScheduleProcessQueue, by any thread.
LEMMA MaybeInv ==
  ASSUME IInv, NEW t \in Thread, MaybeScheduleProcessQueue(t)
  PROVE  IInv' /\ Delivers
<1> USE DEF IInv
<1>1. /\ pc[t] = "maybe" /\ Goto(t, Back(t)) /\ tasks' \in {tasks, tasks + 1}
      /\ UNCHANGED <<pending, running, sent, call, walletVars, clientVars, stage>>
  BY DEF MaybeScheduleProcessQueue
<1>2. Back(t) \in {"next", "idle"} /\ (t \in Client <=> Back(t) = "next")
  BY DEF Back
<1>3. Queue' /\ Begun' = Begun
  BY <1>1, SameQueue
<1>4. tasks' \in Nat /\ ~ AtWork(t)
  BY <1>1 DEF Workers, AtWork
<1>5. Workers' /\ InCallback' = InCallback
  BY <1>1, <1>2, <1>3, <1>4, SameWorkers
<1>6. Current' = Current
  BY <1>1, <1>5, SameCurrent
<1>7. pc'[t] = Back(t) /\ \A u \in Thread : u # t => pc'[u] = pc[u]
  BY <1>1, GotoOthers
<1>8. Clients'
  <2>1. CASE t \in Client
    <3>1. prog[t] \in Progs /\ prog \in [Client -> {<<>>} \cup Progs]
      BY <1>1, <2>1 DEF Clients
    <3>2. prog' = [prog EXCEPT ![t] = prog[t]]
      BY <1>1, <3>1 DEF clientVars
    <3>3. /\ fulfilled' \subseteq Client /\ csMain' \in Client \cup {None}
          /\ tip' \in 0 .. MaxHeight /\ must' \in [Client -> Nat]
      BY <1>1 DEF Clients, clientVars
    <3>q. QED BY <1>1, <1>2, <2>1, <3>1, <3>2, <3>3, StepClients, Zenon
  <2>2. CASE t \notin Client
    BY <1>1, <1>7, <2>2, SameClients, Threads
  <2>q. QED BY <2>1, <2>2
<1>9. Shutdown'
  <2>1. CASE t = "shutoff"
    BY <1>1, <2>1 DEF Shutdown
  <2>2. CASE t # "shutoff"
    BY <1>1, <1>7, <2>2, Threads, SameShutdown
  <2>q. QED BY <2>1, <2>2
<1>q. QED BY <1>1, <1>3, <1>5, <1>6, <1>8, <1>9 DEF Delivers, Silent

\* ProcessQueue, by a service thread or by FlushBackgroundCallbacks.
LEMMA ProcessQueueInv ==
  ASSUME IInv, NEW t \in Thread, t \notin Client, pc[t] = "idle", tasks' \in Nat,
         t = "shutoff" => stage \notin Before, ProcessQueue(t)
  PROVE  IInv' /\ Delivers
<1> USE DEF IInv
<1>1. UNCHANGED <<sent, walletVars, clientVars, stage>>
  BY DEF ProcessQueue
<1>2. CASE MayProcess
  <2>1. /\ running' = TRUE /\ call' = [call EXCEPT ![t] = Head(pending)]
        /\ pending' = Tail(pending) /\ Goto(t, "call")
        /\ running = FALSE /\ pending # <<>>
    BY <1>2 DEF ProcessQueue, MayProcess, Workers
  <2>2. /\ Queue' /\ Begun' = Begun + 1
        /\ Head(pending) \in Queued /\ Head(pending).n = Begun + 1
    BY <1>1, <2>1, TailQueue
  <2>3. \A u \in Thread : ~ AtWork(u)
    BY <2>1 DEF Workers
  <2>4. pc'[t] = "call" /\ \A u \in Thread : u # t => pc'[u] = pc[u]
    BY <2>1, GotoOthers
  <2>5. /\ call' \in [Thread -> Queued \cup {NoCall}]
        /\ call'[t] = Head(pending)
    BY <2>1, <2>2 DEF Workers
  <2>6. pc' \in [Thread -> Places]
    BY <2>1 DEF Workers, Goto, Places
  <2>7. \A u \in Thread : AtWork(u)' <=> u = t
    BY <2>3, <2>4 DEF AtWork
  <2>8. Workers'
    BY <2>1, <2>2, <2>5, <2>6, <2>7 DEF Workers
  <2>9. Clients'
    BY <1>1, <2>4, SameClients, Threads
  <2>10. Shutdown'
    <3>1. CASE t = "shutoff"
      BY <1>1, <3>1 DEF Shutdown
    <3>2. CASE t # "shutoff"
      BY <1>1, <2>4, <3>2, Threads, SameShutdown
    <3>q. QED BY <3>1, <3>2
  <2>11. Current = 0
    BY <2>3, CurrentFacts DEF AtWork
  <2>12. Current' = Begun + 1
    <3>1. (InCallback = {t})'
      BY <2>4, <2>7 DEF InCallback, AtWork
    <3>2. (CHOOSE u \in InCallback' : TRUE) = t
      BY <3>1
    <3>3. Current' = call'[t].n
      BY <3>1, <3>2 DEF Current
    <3>q. QED BY <2>2, <2>5, <3>3
  <2>13. Begun < sent
    <3>1. sent \in Nat /\ Len(pending) \in Nat /\ Len(pending) # 0
      BY <2>1 DEF Queue
    <3>q. QED BY <3>1 DEF Begun
  <2>q. QED
    BY <1>1, <2>2, <2>8, <2>9, <2>10, <2>11, <2>12, <2>13 DEF Delivers, Begins
<1>3. CASE ~ MayProcess
  <2>1. UNCHANGED <<running, call, pending, pc>>
    BY <1>3 DEF ProcessQueue
  <2>2. Queue' /\ Begun' = Begun
    BY <1>1, <2>1, SameQueue
  <2>3. Workers'
    BY <2>1, <2>2 DEF Workers, AtWork
  <2>4. Clients' /\ Shutdown'
    BY <1>1, <2>1, SameClients, SameShutdown
  <2>5. Current' = Current
    BY <2>1 DEF Current, InCallback
  <2>q. QED BY <1>1, <2>2, <2>3, <2>4, <2>5 DEF Delivers, Silent
<1>q. QED BY <1>2, <1>3

\* callback(): the wallet's last block stays within the chain.
LEMMA RunCallbackInv ==
  ASSUME IInv, NEW t \in Thread, t \notin Client, RunCallback(t)
  PROVE  IInv' /\ Delivers
<1> USE DEF IInv
<1> DEFINE cb == call[t]
<1>1. /\ pc[t] = "call" /\ Goto(t, "raii") /\ last' = LastBlock(cb) /\ applied' = cb.n
      /\ fulfilled' = IF cb.kind = "promise" THEN fulfilled \cup {cb.arg} ELSE fulfilled
      /\ UNCHANGED <<queueVars, call, prog, csMain, tip, must, count, stage>>
  BY DEF RunCallback
<1>2. cb \in Queued
  BY <1>1 DEF Workers, AtWork
<1>3. pc'[t] = "raii" /\ \A u \in Thread : u # t => pc'[u] = pc[u]
  BY <1>1, GotoOthers
<1>4. Queue' /\ Begun' = Begun
  BY <1>1, SameQueue DEF queueVars
<1>5. Workers'
  <2>1. pc' \in [Thread -> Places]
    BY <1>1 DEF Workers, Goto, Places
  <2>2. \A u \in Thread : AtWork(u)' <=> AtWork(u)
    BY <1>1, <1>3 DEF AtWork
  <2>q. QED BY <1>1, <1>4, <2>1, <2>2 DEF Workers, queueVars
<1>6. last' \in [block : 0 .. MaxHeight, height : 0 .. MaxHeight] /\ applied' \in Nat
  <2> HIDE DEF cb
  <2>1. cb.n \in Nat
    BY <1>2 DEF Queued, Callback
  <2>2. CASE cb.kind \in {"connected", "disconnected"}
    <3>1. cb.arg \in 1 .. MaxHeight /\ MaxHeight \in Nat
      BY <1>2, <2>2, ValidationQueueAssumption DEF Queued
    <3>2. cb.arg \in 0 .. MaxHeight /\ cb.arg - 1 \in 0 .. MaxHeight
      BY <3>1
    <3>q. QED BY <1>1, <2>1, <2>2, <3>2 DEF LastBlock
  <2>3. CASE cb.kind \notin {"connected", "disconnected"}
    BY <1>1, <2>1, <2>3 DEF LastBlock, Clients
  <2>q. QED BY <2>2, <2>3
<1>7. fulfilled' \subseteq Client
  BY <1>1, <1>2 DEF Queued, Clients
<1>8. Clients'
  BY <1>1, <1>3, <1>6, <1>7, Threads, Zenon DEF Clients
<1>9. Shutdown'
  <2>1. CASE t = "shutoff"
    BY <1>1, <2>1 DEF Shutdown
  <2>2. CASE t # "shutoff"
    BY <1>1, <1>3, <2>2, Threads, SameShutdown
  <2>q. QED BY <2>1, <2>2
<1>10. Current # 0
  BY <1>1, <1>2, CurrentFacts DEF Queued
<1>11. Current' = 0
  <2>1. \A u \in Thread : pc'[u] # "call"
    BY <1>1, <1>3 DEF Workers, AtWork
  <2>2. InCallback' = {}
    BY <2>1 DEF InCallback
  <2>q. QED BY <2>2 DEF Current
<1>q. QED
  BY <1>1, <1>4, <1>5, <1>8, <1>9, <1>10, <1>11 DEF Delivers, Ends, queueVars

\* ~RAIICallbacksRunning: nobody is at work any more.
LEMMA CallbackDoneInv ==
  ASSUME IInv, NEW t \in Thread, t \notin Client, CallbackDone(t)
  PROVE  IInv' /\ Delivers
<1> USE DEF IInv
<1>1. /\ pc[t] = "raii" /\ running' = FALSE /\ call' = [call EXCEPT ![t] = NoCall]
      /\ Goto(t, "maybe")
      /\ UNCHANGED <<pending, tasks, sent, walletVars, clientVars, stage>>
  BY DEF CallbackDone, AfterCallback
<1>2. pc'[t] = "maybe" /\ \A u \in Thread : u # t => pc'[u] = pc[u]
  BY <1>1, GotoOthers
<1>3. Queue' /\ Begun' = Begun
  BY <1>1, SameQueue
<1>4. \A u \in Thread : ~ AtWork(u)'
  BY <1>1, <1>2 DEF Workers, AtWork
<1>5. Workers'
  <2>1. pc' \in [Thread -> Places]
    BY <1>1 DEF Workers, Goto, Places
  <2>2. call' \in [Thread -> Queued \cup {NoCall}]
    BY <1>1 DEF Workers
  <2>q. QED BY <1>1, <1>4, <2>1, <2>2, Zenon DEF Workers
<1>6. Clients'
  BY <1>1, <1>2, SameClients, Threads
<1>7. Shutdown'
  <2>1. CASE t = "shutoff"
    BY <1>1, <2>1 DEF Shutdown
  <2>2. CASE t # "shutoff"
    BY <1>1, <1>2, <2>2, Threads, SameShutdown
  <2>q. QED BY <2>1, <2>2
<1>8. Current = 0
  <2>1. \A u \in Thread : pc[u] # "call"
    BY <1>1 DEF Workers, AtWork
  <2>q. QED BY <2>1, CurrentFacts
<1>9. Current' = 0
  <2>1. InCallback' = {}
    BY <1>4 DEF InCallback, AtWork
  <2>q. QED BY <2>1 DEF Current
<1>q. QED BY <1>1, <1>3, <1>5, <1>6, <1>7, <1>8, <1>9 DEF Delivers, Silent

\* A service thread takes a task and runs ProcessQueue.
LEMMA ServiceInv ==
  ASSUME IInv, NEW s \in Service, ServiceStep(s)
  PROVE  IInv' /\ Delivers
<1>1. s \in Thread /\ s # "shutoff" /\ s \notin Client
  BY Threads
<1>2. CASE ServiceQueue(s)
  <2>1. pc[s] = "idle" /\ ProcessQueue(s) /\ tasks > 0 /\ tasks' = tasks - 1
    BY <1>2 DEF ServiceQueue
  <2>2. tasks' \in Nat
    BY <2>1 DEF IInv, Workers
  <2>q. QED BY <1>1, <2>1, <2>2, ProcessQueueInv
<1>3. CASE RunCallback(s)
  BY <1>1, <1>3, RunCallbackInv
<1>4. CASE CallbackDone(s)
  BY <1>1, <1>4, CallbackDoneInv
<1>q. QED BY <1>2, <1>3, <1>4 DEF ServiceStep

-----------------------------------------------------------------------------
(* The clients. *)

\* A client adds a callback and goes on with pr.
LEMMA ClientAdds ==
  ASSUME IInv, NEW c \in Client, NEW kind, NEW arg, AddToProcessQueue(c, kind, arg),
         kind \in {"connected", "disconnected", "added", "bestchain", "promise"},
         arg \in Nat \cup Client,
         kind \in {"connected", "disconnected"} => arg \in 1 .. MaxHeight,
         kind = "promise" => arg \in Client,
         NEW pr \in Progs, prog' = [prog EXCEPT ![c] = pr],
         fulfilled' \subseteq Client, csMain' \in Client \cup {None},
         tip' \in 0 .. MaxHeight, must' \in [Client -> Nat],
         UNCHANGED <<walletVars, call, stage>>
  PROVE  IInv' /\ Delivers
<1> USE DEF IInv
<1>1. c \in Thread /\ c # "shutoff"
  BY Threads
<1>2. /\ Queue' /\ Begun' = Begun /\ sent' = sent + 1
      /\ UNCHANGED <<running, tasks>> /\ Goto(c, "maybe")
  BY <1>1, AppendQueue, Zenon
<1>3. ~ AtWork(c) /\ tasks' \in Nat
  BY <1>2, Zenon DEF Clients, AtWork, Workers
<1>4. Workers' /\ InCallback' = InCallback
  BY <1>1, <1>2, <1>3, SameWorkers
<1>5. Clients'
  BY <1>2, StepClients, Zenon
<1>6. Shutdown'
  BY <1>1, <1>2, GotoOthers, SameShutdown, Threads
<1>7. Current' = Current
  BY <1>4, SameCurrent
<1>q. QED BY <1>2, <1>4, <1>5, <1>6, <1>7 DEF Delivers, Sends

\* A client moves on without touching the queue.
LEMMA ClientMoves ==
  ASSUME IInv, NEW c \in Client,
         NEW w \in {"idle", "maybe", "next", "check", "gone"}, Goto(c, w),
         NEW pr \in {<<>>} \cup Progs, prog' = [prog EXCEPT ![c] = pr],
         w \in {"maybe", "next"} => pr \in Progs,
         fulfilled' \subseteq Client, csMain' \in Client \cup {None},
         tip' = tip, must' \in [Client -> Nat],
         UNCHANGED <<queueVars, walletVars, call, stage>>
  PROVE  IInv' /\ Delivers
<1> USE DEF IInv
<1>1. c \in Thread /\ c # "shutoff" /\ tip' \in 0 .. MaxHeight
  BY Threads DEF Clients
<1>2. Queue' /\ Begun' = Begun
  BY SameQueue DEF queueVars
<1>3. ~ AtWork(c) /\ tasks' \in Nat
  BY Zenon DEF Clients, AtWork, Workers, queueVars
<1>4. Workers' /\ InCallback' = InCallback
  BY <1>1, <1>2, <1>3, SameWorkers DEF queueVars
<1>5. Clients'
  BY <1>1, StepClients, Zenon
<1>6. Shutdown'
  BY <1>1, GotoOthers, SameShutdown, Threads
<1>7. Current' = Current
  BY <1>4, SameCurrent
<1>q. QED BY <1>2, <1>4, <1>5, <1>6, <1>7 DEF Delivers, Silent, queueVars

\* A section of ActivateBestChain.
LEMMA MoveTipInv ==
  ASSUME IInv, MoveTip
  PROVE  IInv' /\ Delivers
<1>1. /\ csMain' = Chain /\ prog' = [prog EXCEPT ![Chain] = <<"unlock">>]
      /\ UNCHANGED <<call, walletVars, fulfilled, must, stage>>
  BY DEF MoveTip
<1>2. /\ Chain \in Client /\ <<"unlock">> \in Progs /\ MaxHeight \in Nat
      /\ fulfilled \subseteq Client /\ tip \in 0 .. MaxHeight /\ must \in [Client -> Nat]
  BY Threads, ValidationQueueAssumption DEF Progs, IInv, Clients
<1>3. CASE tip < MaxHeight /\ tip' = tip + 1 /\ AddToProcessQueue(Chain, "connected", tip + 1)
  <2>1. tip + 1 \in 1 .. MaxHeight /\ tip' \in 0 .. MaxHeight /\ tip + 1 \in Nat
    BY <1>2, <1>3
  <2>q. QED BY <1>1, <1>2, <1>3, <2>1, ClientAdds, Zenon
<1>4. CASE tip > 0 /\ tip' = tip - 1 /\ AddToProcessQueue(Chain, "disconnected", tip)
  <2>1. tip \in 1 .. MaxHeight /\ tip' \in 0 .. MaxHeight /\ tip \in Nat
    BY <1>2, <1>4
  <2>q. QED BY <1>1, <1>2, <1>4, <2>1, ClientAdds, Zenon
<1>q. QED BY <1>3, <1>4 DEF MoveTip

\* What a client that changes nothing else keeps.
LEMMA ClientKeeps ==
  ASSUME IInv
  PROVE  /\ \A c \in Client : prog = [prog EXCEPT ![c] = prog[c]]
         /\ \A c \in Client : prog[c] \in {<<>>} \cup Progs
         /\ fulfilled \subseteq Client /\ csMain \in Client \cup {None}
         /\ must \in [Client -> Nat] /\ sent \in Nat
         /\ \A c \in Client : [must EXCEPT ![c] = sent] \in [Client -> Nat]
         /\ \A c \in Client : [must EXCEPT ![c] = 0] \in [Client -> Nat]
BY DEF IInv, Clients, Queue

\* The calls that wait for the queue begin.
LEMMA CallInv ==
  ASSUME IInv, NEW c \in Client, CallSync(c) \/ BlockUntilSyncedToCurrentChain(c)
  PROVE  IInv' /\ Delivers
<1>1. UNCHANGED <<queueVars, call, walletVars, prog, fulfilled, csMain, tip, stage>>
  BY DEF CallSync, BlockUntilSyncedToCurrentChain
<1>2. CASE Goto(c, "check") /\ must' = [must EXCEPT ![c] = sent]
  <2>1. prog' = [prog EXCEPT ![c] = prog[c]]
    BY <1>1, ClientKeeps
  <2>q. QED BY <1>1, <1>2, <2>1, ClientKeeps, ClientMoves, Zenon
<1>3. CASE UNCHANGED <<pc, must>>
  <2>1. Queue' /\ Begun' = Begun
    BY <1>1, SameQueue DEF IInv, queueVars
  <2>2. Workers'
    BY <1>1, <1>3, <2>1 DEF IInv, Workers, AtWork, queueVars
  <2>3. Clients' /\ Shutdown'
    BY <1>1, <1>3, SameShutdown DEF IInv, Clients, walletVars
  <2>4. Current' = Current
    BY <1>1, <1>3 DEF Current, InCallback
  <2>q. QED BY <1>1, <2>1, <2>2, <2>3, <2>4 DEF IInv, Delivers, Silent, queueVars
<1>q. QED BY <1>2, <1>3 DEF CallSync, BlockUntilSyncedToCurrentChain

\* SyncWithValidationInterfaceQueue.
LEMMA SyncInv ==
  ASSUME IInv, NEW c \in Client, Sync(c)
  PROVE  IInv' /\ Delivers
<1>1. UNCHANGED <<call, walletVars, fulfilled, csMain, tip, stage>>
  BY DEF Sync
<1>2. tip \in 0 .. MaxHeight
  BY DEF IInv, Clients
<1>3. CASE NoNeedToWait
  <2>1. /\ Goto(c, "idle") /\ must' = [must EXCEPT ![c] = 0]
        /\ UNCHANGED <<queueVars, prog>>
    BY <1>3 DEF Sync, Return
  <2>2. prog' = [prog EXCEPT ![c] = prog[c]]
    BY <2>1, ClientKeeps
  <2>q. QED BY <1>1, <2>1, <2>2, ClientKeeps, ClientMoves, Zenon
<1>4. CASE ~ NoNeedToWait
  <2>1. /\ AddToProcessQueue(c, "promise", c)
        /\ prog' = [prog EXCEPT ![c] = <<"wait">>] /\ must' = must
    BY <1>4 DEF Sync
  <2>2. <<"wait">> \in Progs
    BY DEF Progs
  <2>q. QED BY <1>1, <1>2, <2>1, <2>2, ClientKeeps, ClientAdds, Zenon
<1>q. QED BY <1>3, <1>4

\* sendrawtransaction.
LEMMA SendRawInv ==
  ASSUME IInv, NEW c \in Client, SendRawTransaction(c)
  PROVE  IInv' /\ Delivers
<1>1. csMain' = c /\ UNCHANGED <<call, walletVars, fulfilled, tip, must, stage>>
  BY DEF SendRawTransaction
<1>2. tip \in 0 .. MaxHeight
  BY DEF IInv, Clients
<1>3. CASE /\ AddToProcessQueue(c, "added", 0)
           /\ prog' = [prog EXCEPT ![c] = <<"promise", "unlock", "wait">>]
  <2>1. <<"promise", "unlock", "wait">> \in Progs
    BY DEF Progs
  <2>q. QED BY <1>1, <1>2, <1>3, <2>1, ClientKeeps, ClientAdds, Zenon
<1>4. CASE /\ Goto(c, "next") /\ prog' = [prog EXCEPT ![c] = <<"unlock", "wait">>]
           /\ UNCHANGED queueVars
  <2>1. <<"unlock", "wait">> \in Progs
    BY DEF Progs
  <2>q. QED BY <1>1, <1>4, <2>1, ClientKeeps, ClientMoves, Zenon
<1>q. QED BY <1>3, <1>4 DEF SendRawTransaction

\* The head and the rest of what a client has yet to do.
LEMMA ProgFacts ==
  ASSUME NEW p \in Progs
  PROVE  \/ p = <<"unlock">> /\ Head(p) = "unlock" /\ Len(p) = 1 /\ Tail(p) = <<>>
         \/ p = <<"wait">> /\ Head(p) = "wait" /\ Tail(p) = <<>>
         \/ p = <<"unlock", "wait">> /\ Head(p) = "unlock" /\ Len(p) = 2 /\ Tail(p) = <<"wait">>
         \/ /\ p = <<"promise", "unlock", "wait">>
            /\ Head(p) = "promise" /\ Tail(p) = <<"unlock", "wait">>
<1>1. CASE p = <<"unlock">>
  <2>1. Head(p) = "unlock" /\ Len(p) = 1 /\ Tail(p) = <<>>
    BY <1>1
  <2>q. QED BY <1>1, <2>1
<1>2. CASE p = <<"wait">>
  <2>1. Head(p) = "wait" /\ Tail(p) = <<>>
    BY <1>2
  <2>q. QED BY <1>2, <2>1
<1>3. CASE p = <<"unlock", "wait">>
  <2>1. Head(p) = "unlock" /\ Len(p) = 2 /\ Tail(p) = <<"wait">>
    BY <1>3
  <2>q. QED BY <1>3, <2>1
<1>4. CASE p = <<"promise", "unlock", "wait">>
  <2>1. Head(p) = "promise" /\ Tail(p) = <<"unlock", "wait">>
    BY <1>4
  <2>q. QED BY <1>4, <2>1
<1>q. QED BY <1>1, <1>2, <1>3, <1>4 DEF Progs

\* What follows AddToProcessQueue.
LEMMA ContinueInv ==
  ASSUME IInv, NEW c \in Client, Continue(c)
  PROVE  IInv' /\ Delivers
<1> DEFINE p == prog[c]
<1>1. /\ pc[c] = "next" /\ prog' = [prog EXCEPT ![c] = Tail(p)]
      /\ UNCHANGED <<call, walletVars, tip, stage>>
  BY DEF Continue
<1>2. p \in Progs /\ tip \in 0 .. MaxHeight
  BY <1>1 DEF IInv, Clients
<1>3. CASE Head(p) = "promise"
  <2>1. AddToProcessQueue(c, "promise", c) /\ UNCHANGED <<fulfilled, csMain, must>>
    BY <1>3, Zenon DEF Continue
  <2>2. Tail(p) \in Progs
    BY <1>2, <1>3, ProgFacts, Zenon DEF Progs
  <2> HIDE DEF p
  <2>q. QED BY <1>1, <1>2, <2>1, <2>2, ClientKeeps, ClientAdds, Zenon
<1>4. CASE Head(p) = "unlock"
  <2>1. /\ csMain' = None /\ Goto(c, IF Len(p) = 1 THEN "idle" ELSE "next")
        /\ UNCHANGED <<queueVars, fulfilled, must>>
    BY <1>4, Zenon DEF Continue
  <2>2. Tail(p) \in {<<>>} \cup Progs /\ (Len(p) # 1 => Tail(p) \in Progs)
    BY <1>2, <1>4, ProgFacts, Zenon DEF Progs
  <2> DEFINE w == IF Len(p) = 1 THEN "idle" ELSE "next"
  <2>3. /\ w \in {"idle", "maybe", "next", "check", "gone"}
        /\ w \in {"maybe", "next"} => Tail(p) \in Progs
    BY <2>2
  <2>4. Goto(c, w)
    BY <2>1
  <2> HIDE DEF p, w
  <2>q. QED BY <1>1, <2>1, <2>2, <2>3, <2>4, ClientKeeps, ClientMoves, Zenon
<1>5. CASE Head(p) = "wait"
  <2>1. /\ fulfilled' = fulfilled \ {c} /\ Goto(c, "idle")
        /\ must' = [must EXCEPT ![c] = 0] /\ UNCHANGED <<queueVars, csMain>>
    BY <1>5, Zenon DEF Continue, Return
  <2>2. Tail(p) \in {<<>>} \cup Progs
    BY <1>2, <1>5, ProgFacts, Zenon DEF Progs
  <2>3. fulfilled' \subseteq Client
    BY <2>1, ClientKeeps
  <2> HIDE DEF p
  <2>q. QED BY <1>1, <2>1, <2>2, <2>3, ClientKeeps, ClientMoves, Zenon
<1>q. QED BY <1>2, <1>3, <1>4, <1>5, ProgFacts

-----------------------------------------------------------------------------
(* PrepareShutdown. *)

\* The stages up to the flush, and threads that end.
LEMMA StopInv ==
  ASSUME IInv, StopServers \/ \E t \in Thread : Interrupted(t)
  PROVE  IInv' /\ Delivers
<1>1. CASE StopServers
  <2>1. /\ UNCHANGED <<queueVars, pc, call, walletVars, clientVars>>
        /\ stage \in Before /\ stage' \in Before
    BY <1>1 DEF StopServers, Advance, Before
  <2>2. Queue' /\ Begun' = Begun
    BY <2>1, SameQueue DEF IInv, queueVars
  <2>3. Workers'
    BY <2>1, <2>2 DEF IInv, Workers, AtWork, queueVars
  <2>4. Clients'
    BY <2>1, SameClients DEF IInv
  <2>5. Shutdown'
    BY <2>1 DEF IInv, Shutdown
  <2>6. Current' = Current
    BY <2>1 DEF Current, InCallback
  <2>q. QED BY <2>1, <2>2, <2>3, <2>4, <2>5, <2>6 DEF IInv, Delivers, Silent, queueVars
<1>2. ASSUME NEW t \in Thread, Interrupted(t)
      PROVE  IInv' /\ Delivers
  <2>1. /\ t \in Service \cup Staker /\ pc[t] = "idle" /\ Goto(t, "gone")
        /\ UNCHANGED <<queueVars, call, walletVars, clientVars, stage>>
    BY <1>2 DEF Interrupted
  <2>2. CASE t \in Staker
    <3>1. t \in Client
      BY <2>2, Threads
    <3>2. prog' = [prog EXCEPT ![t] = prog[t]] /\ UNCHANGED <<fulfilled, csMain, tip, must>>
      BY <2>1, <3>1, ClientKeeps DEF clientVars
    <3>q. QED BY <2>1, <3>1, <3>2, ClientKeeps, ClientMoves, Zenon
  <2>3. CASE t \in Service
    <3>1. t # "shutoff" /\ t \notin Client
      BY <2>3, Threads
    <3>2. Queue' /\ Begun' = Begun
      BY <2>1, SameQueue DEF IInv, queueVars
    <3>3. ~ AtWork(t) /\ tasks' \in Nat
      BY <2>1 DEF AtWork, IInv, Workers, queueVars
    <3>4. Workers' /\ InCallback' = InCallback
      BY <2>1, <3>2, <3>3, SameWorkers DEF IInv, queueVars
    <3>5. \A u \in Thread : u # t => pc'[u] = pc[u]
      BY <2>1, GotoOthers DEF IInv
    <3>6. Clients' /\ Shutdown'
      BY <2>1, <3>1, <3>5, SameClients, SameShutdown, Threads DEF IInv
    <3>7. Current' = Current
      BY <2>1, <3>4, SameCurrent
    <3>q. QED BY <2>1, <3>2, <3>4, <3>6, <3>7 DEF IInv, Delivers, Silent, queueVars
  <2>q. QED BY <2>1, <2>2, <2>3
<1>q. QED BY <1>1, <1>2

\* FlushStateToDisk, with the thread of PrepareShutdown idle until then.
LEMMA FlushInv ==
  ASSUME IInv, FlushStateToDisk
  PROVE  IInv' /\ Delivers
<1> USE DEF IInv
<1>1. /\ stage = "joined" /\ stage' = "flushing" /\ AddToProcessQueue("shutoff", "bestchain", 0)
      /\ UNCHANGED <<call, walletVars, clientVars>>
  BY DEF FlushStateToDisk, Advance, AfterFlush
<1>2. "shutoff" \in Thread /\ "shutoff" \notin Client
  BY Threads
<1>3. /\ Queue' /\ Begun' = Begun /\ sent' = sent + 1
      /\ UNCHANGED <<running, tasks>> /\ Goto("shutoff", "maybe")
  BY <1>1, <1>2, AppendQueue, Zenon
<1>4. ~ AtWork("shutoff") /\ tasks' \in Nat
  BY <1>1, <1>3 DEF Shutdown, Before, AtWork, Workers
<1>5. Workers' /\ InCallback' = InCallback
  BY <1>1, <1>2, <1>3, <1>4, SameWorkers
<1>6. \A u \in Thread : u # "shutoff" => pc'[u] = pc[u]
  BY <1>2, <1>3, GotoOthers
<1>7. Clients'
  BY <1>1, <1>2, <1>6, SameClients, Threads
<1>8. Shutdown'
  BY <1>1 DEF Shutdown, Before
<1>9. Current' = Current
  BY <1>1, <1>5, SameCurrent
<1>q. QED BY <1>3, <1>5, <1>7, <1>8, <1>9 DEF Delivers, Sends

\* FlushBackgroundCallbacks.
LEMMA EmptyQueueInv ==
  ASSUME IInv, EmptyQueue
  PROVE  IInv' /\ Delivers
<1>1. /\ stage = "flushing" /\ pc["shutoff"] = "idle"
      /\ "shutoff" \in Thread /\ "shutoff" \notin Client
  BY Threads DEF EmptyQueue
<1>2. CASE pending # <<>>
  <2>1. ProcessQueue("shutoff") /\ tasks' = tasks
    BY <1>2 DEF EmptyQueue
  <2>2. tasks' \in Nat /\ stage \notin Before
    BY <1>1, <2>1 DEF IInv, Workers, Before
  <2>q. QED BY <1>1, <2>1, <2>2, ProcessQueueInv
<1>3. CASE pending = <<>>
  <2>1. stage' = "flushed" /\ UNCHANGED <<queueVars, pc, call, walletVars, clientVars>>
    BY <1>3 DEF EmptyQueue
  <2>2. Queue' /\ Begun' = Begun
    BY <2>1, SameQueue DEF IInv, queueVars
  <2>3. Workers'
    BY <2>1, <2>2 DEF IInv, Workers, AtWork, queueVars
  <2>4. Clients'
    BY <2>1, SameClients DEF IInv
  <2>5. Shutdown'
    BY <2>1 DEF Shutdown, Before
  <2>6. Current' = Current
    BY <2>1 DEF Current, InCallback
  <2>q. QED BY <2>1, <2>2, <2>3, <2>4, <2>5, <2>6 DEF IInv, Delivers, Silent, queueVars
<1>q. QED BY <1>2, <1>3

\* Nothing happens.
LEMMA StutterInv ==
  ASSUME IInv, UNCHANGED vars
  PROVE  IInv' /\ Delivers
<1>1. UNCHANGED <<queueVars, pc, call, walletVars, clientVars, stage>>
  BY DEF vars
<1>2. Queue' /\ Begun' = Begun
  BY <1>1, SameQueue DEF IInv, queueVars
<1>3. Workers'
  BY <1>1, <1>2 DEF IInv, Workers, AtWork, queueVars
<1>4. Clients' /\ Shutdown'
  BY <1>1, SameClients, SameShutdown DEF IInv
<1>5. Current' = Current
  BY <1>1 DEF Current, InCallback
<1>q. QED BY <1>1, <1>2, <1>3, <1>4, <1>5 DEF IInv, Delivers, Silent, queueVars

\* Every step keeps the invariant and is a step of the delivery, or none.
LEMMA StepInv ==
  ASSUME IInv, [Next]_vars
  PROVE  IInv' /\ Delivers
<1>1. CASE ShutdownStep
  <2>1. "shutoff" \in Thread /\ "shutoff" \notin Client
    BY Threads
  <2>q. QED
    BY <1>1, <2>1, StopInv, FlushInv, EmptyQueueInv, RunCallbackInv, CallbackDoneInv
       DEF ShutdownStep
<1>2. CASE \E c \in Client : \/ ClientStep(c) \/ CallSync(c)
                             \/ BlockUntilSyncedToCurrentChain(c) \/ SendRawTransaction(c)
  BY <1>2, SyncInv, ContinueInv, CallInv, SendRawInv DEF ClientStep
<1>3. CASE \E t \in Thread : MaybeScheduleProcessQueue(t) \/ Interrupted(t)
  BY <1>3, MaybeInv, StopInv
<1>4. CASE \E s \in Service : ServiceStep(s)
  BY <1>4, ServiceInv
<1>5. CASE MoveTip
  BY <1>5, MoveTipInv
<1>6. CASE UNCHANGED vars
  BY <1>6, StutterInv
<1>q. QED BY <1>1, <1>2, <1>3, <1>4, <1>5, <1>6 DEF Next

\* SingleThreadedSchedulerClient: callbacks run one at a time, each once and in the
\* order in which they were generated, for any number of service threads, clients
\* and blocks, through the whole of PrepareShutdown.
THEOREM DeliveryInOrder == Spec => ImplementsOrderedDelivery
<1>1. Init => Delivery!Init
  <2> SUFFICES ASSUME Init PROVE Delivery!Init
    OBVIOUS
  <2>1. Len(pending) = 0
    BY DEF Init
  <2>2. sent = 0
    BY DEF Init
  <2>0. Begun = 0
    BY <2>1, <2>2 DEF Begun
  <2>3. InCallback = {}
    BY DEF Init, InCallback
  <2>q. QED BY <2>0, <2>2, <2>3 DEF Delivery!Init, Current
<1>2. IInv /\ [Next]_vars => IInv'
  BY StepInv
<1>3. IInv /\ [Next]_vars => [Delivery!Next]_Delivery!vars
  BY StepInv, DeliversStep
<1>q. QED
  BY <1>1, <1>2, <1>3, InitInv, PTL DEF Spec, ImplementsOrderedDelivery, Delivery!Spec

-----------------------------------------------------------------------------
(* Who waits. *)

\* What a step does to the queue: ProcessQueue takes the first callback, a section of
\* ActivateBestChain appends to a queue within the limit, others append what is not
\* about the tip.
IsTip(cb) == cb.kind \in {"connected", "disconnected"}
QueueStep ==
  \/ pending' = pending
  \/ pending # <<>> /\ pending' = Tail(pending)
  \/ \E cb : /\ pending' = Append(pending, cb)
             /\ IsTip(cb) => Len(pending) <= SyncLimit

\* The promises of c that are not yet set.
Promised(cb, c) == cb.kind = "promise" /\ cb.arg = c
Asked(c) ==
  {pending[i].n : i \in {j \in 1 .. Len(pending) : Promised(pending[j], c)}}
    \cup {call[t].n : t \in {u \in Thread : pc[u] = "call" /\ Promised(call[u], c)}}

Waiting(c) == pc[c] \in {"maybe", "next"} /\ prog[c] \in {<<"wait">>, <<"unlock", "wait">>}

(***************************************************************************)
(* A promise that is queued or running is the only one of its client,      *)
(* which waits for it; it was generated after the call began.  When it is  *)
(* set, what was generated before the call has begun.                      *)
(***************************************************************************)
PInv(c) ==
  /\ must[c] <= sent
  /\ \A n \in Asked(c) : Waiting(c) /\ c \notin fulfilled /\ n > must[c]
  /\ \A n, m \in Asked(c) : n = m
  /\ c \in fulfilled => Waiting(c) /\ Begun >= must[c]

PromiseInv == \A c \in Client : PInv(c)

\* The step that SyncLeavesNothingQueued allows.
NothingLeft == \A c \in Client : Returns(c) => Begun >= must[c]

\* Every step is one of these on the queue.
LEMMA QueueSteps ==
  ASSUME IInv, [Next]_vars
  PROVE  QueueStep
<1>1. ASSUME NEW t, NEW kind, NEW arg, AddToProcessQueue(t, kind, arg),
             kind \in {"connected", "disconnected"} => Len(pending) <= SyncLimit
      PROVE  QueueStep
  <2> DEFINE cb == [n |-> sent + 1, kind |-> kind, arg |-> arg]
  <2>1. pending' = Append(pending, cb)
    BY <1>1 DEF AddToProcessQueue
  <2>2. IsTip(cb) => Len(pending) <= SyncLimit
    BY <1>1 DEF IsTip
  <2> HIDE DEF cb
  <2>q. QED BY <2>1, <2>2 DEF QueueStep
<1>2. ASSUME NEW t, ProcessQueue(t) PROVE QueueStep
  BY <1>2 DEF ProcessQueue, MayProcess, QueueStep
<1>3. ASSUME NEW t, RunCallback(t) \/ CallbackDone(t) PROVE QueueStep
  BY <1>3 DEF RunCallback, CallbackDone, QueueStep, queueVars
<1>4. CASE ShutdownStep
  <2>1. CASE FlushStateToDisk
    <3>1. AddToProcessQueue("shutoff", "bestchain", 0)
      BY <2>1 DEF FlushStateToDisk
    <3>q. QED BY <3>1, <1>1
  <2>2. CASE StopServers
    BY <2>2 DEF StopServers, QueueStep, queueVars
  <2>3. CASE EmptyQueue
    <3>1. ProcessQueue("shutoff") \/ UNCHANGED queueVars
      BY <2>3 DEF EmptyQueue
    <3>q. QED BY <3>1, <1>2 DEF QueueStep, queueVars
  <2>q. QED BY <1>3, <1>4, <2>1, <2>2, <2>3 DEF ShutdownStep
<1>5. ASSUME NEW c \in Client, ClientStep(c) \/ SendRawTransaction(c) PROVE QueueStep
  <2>1. CASE UNCHANGED queueVars
    BY <2>1 DEF QueueStep, queueVars
  <2>2. CASE AddToProcessQueue(c, "promise", c) \/ AddToProcessQueue(c, "added", 0)
    BY <2>2, <1>1
  <2>3. pc[c] = "next" => prog[c] \in Progs
    BY DEF IInv, Clients
  <2>4. Continue(c) => Head(prog[c]) \in {"promise", "unlock", "wait"}
    BY <2>3, ProgFacts DEF Continue
  <2>5. Continue(c) => UNCHANGED queueVars \/ AddToProcessQueue(c, "promise", c)
    BY <2>4, Zenon DEF Continue
  <2>6. Sync(c) => UNCHANGED queueVars \/ AddToProcessQueue(c, "promise", c)
    BY DEF Sync
  <2>7. SendRawTransaction(c) => UNCHANGED queueVars \/ AddToProcessQueue(c, "added", 0)
    BY DEF SendRawTransaction
  <2>q. QED BY <1>5, <2>1, <2>2, <2>5, <2>6, <2>7 DEF ClientStep
<1>6. CASE \E c \in Client : CallSync(c) \/ BlockUntilSyncedToCurrentChain(c)
  BY <1>6 DEF CallSync, BlockUntilSyncedToCurrentChain, QueueStep, queueVars
<1>7. CASE \E t \in Thread : MaybeScheduleProcessQueue(t) \/ Interrupted(t)
  BY <1>7 DEF MaybeScheduleProcessQueue, Interrupted, QueueStep, queueVars
<1>8. CASE \E s \in Service : ServiceStep(s)
  BY <1>2, <1>3, <1>8 DEF ServiceStep, ServiceQueue
<1>9. CASE MoveTip
  <2>1. Len(pending) <= SyncLimit
    <3>1. Len(pending) \in Nat /\ SyncLimit \in Nat /\ ~ (Len(pending) > SyncLimit)
      BY <1>9, ValidationQueueAssumption DEF MoveTip, QueueTooLong, IInv, Queue
    <3>q. QED BY <3>1
  <2>2. \/ AddToProcessQueue(Chain, "connected", tip + 1)
        \/ AddToProcessQueue(Chain, "disconnected", tip)
    BY <1>9 DEF MoveTip
  <2>q. QED BY <2>1, <2>2, <1>1
<1>10. CASE UNCHANGED vars
  BY <1>10 DEF vars, queueVars, QueueStep
<1>q. QED BY <1>4, <1>5, <1>6, <1>7, <1>8, <1>9, <1>10 DEF Next

\* The queue has no more callbacks about the tip than entries.
LEMMA TipCallbacksFinite ==
  ASSUME Queue
  PROVE  /\ IsFiniteSet(TipCallbacks) /\ Cardinality(TipCallbacks) \in Nat
         /\ Cardinality(TipCallbacks) <= Len(pending)
<1>1. Len(pending) \in Nat /\ DOMAIN pending = 1 .. Len(pending)
  BY DEF Queue
<1>2. IsFiniteSet(1 .. Len(pending)) /\ Cardinality(1 .. Len(pending)) = Len(pending)
  <2>1. ASSUME NEW n \in Nat
        PROVE  IsFiniteSet(1 .. n) /\ Cardinality(1 .. n) = n
    <3>1. 1 \in Int /\ n \in Int
      OBVIOUS
    <3>2. /\ IsFiniteSet(1 .. n)
          /\ Cardinality(1 .. n) = IF 1 > n THEN 0 ELSE n - 1 + 1
      BY <3>1, FS_Interval
    <3>q. QED BY <3>2
  <2>q. QED BY <1>1, <2>1
<1>3. pending \in Surjection(1 .. Len(pending), Range(pending))
  <2>1. pending \in [1 .. Len(pending) -> Range(pending)]
    BY <1>1 DEF Range, Queue
  <2>q. QED BY <1>1, <2>1 DEF Surjection, Range
<1>4. IsFiniteSet(Range(pending)) /\ Cardinality(Range(pending)) <= Len(pending)
  BY <1>2, <1>3, FS_Surjection
<1>5. TipCallbacks \in SUBSET Range(pending)
  BY DEF TipCallbacks
<1>6. IsFiniteSet(TipCallbacks) /\ Cardinality(TipCallbacks) <= Cardinality(Range(pending))
  BY <1>4, <1>5, FS_Subset
<1>7. Cardinality(TipCallbacks) \in Nat /\ Cardinality(Range(pending)) \in Nat
  BY <1>4, <1>6, FS_CardinalityType
<1>q. QED BY <1>1, <1>4, <1>6, <1>7

\* What a step adds to the callbacks about the tip.
LEMMA BoundedStep ==
  ASSUME IInv, IInv', QueueBounded, QueueStep
  PROVE  QueueBounded'
<1>1. Queue /\ Queue' /\ SyncLimit \in Nat
  BY ValidationQueueAssumption DEF IInv
<1>2. /\ IsFiniteSet(TipCallbacks) /\ Cardinality(TipCallbacks) \in Nat
      /\ Cardinality(TipCallbacks) <= Len(pending)
  BY <1>1, TipCallbacksFinite
<1>3. IsFiniteSet(TipCallbacks') /\ Cardinality(TipCallbacks') \in Nat
  <2>1. (/\ IsFiniteSet(TipCallbacks) /\ Cardinality(TipCallbacks) \in Nat
         /\ Cardinality(TipCallbacks) <= Len(pending))'
    BY <1>1, TipCallbacksFinite, PTL
  <2>q. QED BY <2>1
<1>4. ASSUME TipCallbacks' \subseteq TipCallbacks PROVE QueueBounded'
  <2>1. Cardinality(TipCallbacks') <= Cardinality(TipCallbacks)
    BY <1>2, <1>4, FS_Subset
  <2>q. QED BY <1>1, <1>2, <1>3, <2>1 DEF QueueBounded
<1>5. pending \in Seq(Queued) /\ Len(pending) \in Nat
  BY <1>1 DEF Queue
<1>6. CASE pending' = pending
  BY <1>4, <1>6 DEF TipCallbacks
<1>7. CASE pending # <<>> /\ pending' = Tail(pending)
  <2>1. Range(pending') \subseteq Range(pending)
    <3>1. \A i \in DOMAIN pending' : i + 1 \in DOMAIN pending /\ pending'[i] = pending[i + 1]
      BY <1>5, <1>7
    <3>q. QED BY <3>1 DEF Range
  <2>q. QED BY <1>4, <2>1 DEF TipCallbacks
<1>8. ASSUME NEW cb, pending' = Append(pending, cb), IsTip(cb) => Len(pending) <= SyncLimit
      PROVE  QueueBounded'
  <2>1. Range(pending') \subseteq Range(pending) \cup {cb}
    <3>1. \A i \in DOMAIN pending' : pending'[i] = cb \/ (i \in DOMAIN pending /\ pending'[i] = pending[i])
      BY <1>5, <1>8
    <3>q. QED BY <3>1 DEF Range
  <2>2. CASE ~ IsTip(cb)
    <3>1. TipCallbacks' \subseteq TipCallbacks
      BY <2>1, <2>2 DEF TipCallbacks, IsTip
    <3>q. QED BY <1>4, <3>1
  <2>3. CASE IsTip(cb)
    <3>1. TipCallbacks' \in SUBSET (TipCallbacks \cup {cb})
      BY <2>1 DEF TipCallbacks
    <3>2. /\ IsFiniteSet(TipCallbacks \cup {cb})
          /\ Cardinality(TipCallbacks \cup {cb}) \in {Cardinality(TipCallbacks), Cardinality(TipCallbacks) + 1}
      BY <1>2, FS_AddElement
    <3>3. Cardinality(TipCallbacks') <= Cardinality(TipCallbacks \cup {cb})
      BY <3>1, <3>2, FS_Subset
    <3>q. QED BY <1>1, <1>2, <1>3, <1>5, <1>8, <2>3, <3>2, <3>3 DEF QueueBounded
  <2>q. QED BY <2>2, <2>3
<1>q. QED BY <1>6, <1>7, <1>8 DEF QueueStep

\* ActivateBestChain does not run ahead of the subscribers by more than the limit,
\* and every thread is where its place in the code allows, for any number of
\* threads, blocks and commands.
THEOREM QueueStaysBounded == Spec => []CallbacksBounded
<1>1. IInv => TypeOK
  <2> SUFFICES ASSUME IInv PROVE TypeOK
    OBVIOUS
  <2>1. \A i \in DOMAIN pending : pending[i] \in Callback
    BY DEF IInv, Queue, Queued
  <2>2. \A t \in Thread : call[t] \in Callback \cup {NoCall}
    BY DEF IInv, Workers, Queued
  <2>3. \A c \in Client : Range(prog[c]) \subseteq {"promise", "unlock", "wait"}
    BY DEF IInv, Clients, Progs, Range
  <2>q. QED
    BY <2>1, <2>2, <2>3 DEF TypeOK, IInv, Queue, Workers, Clients, Shutdown, Before, Places
<1>2. Init => QueueBounded
  <2> SUFFICES ASSUME Init PROVE QueueBounded
    OBVIOUS
  <2>1. TipCallbacks = {}
    BY DEF Init, TipCallbacks, Range
  <2>q. QED BY <2>1, FS_EmptySet, ValidationQueueAssumption DEF QueueBounded
<1>3. IInv /\ [Next]_vars => IInv'
  BY StepInv
<1>4. IInv /\ QueueBounded /\ [Next]_vars => QueueBounded'
  BY StepInv, QueueSteps, BoundedStep
<1>5. IInv /\ QueueBounded => CallbacksBounded
  BY <1>1 DEF CallbacksBounded
<1>q. QED BY <1>2, <1>3, <1>4, <1>5, InitInv, PTL DEF Spec

-----------------------------------------------------------------------------
(* The promises of SyncWithValidationInterfaceQueue. *)

\* No step but AddToProcessQueue brings a promise.
LEMMA AskedSame ==
  ASSUME NEW c, pending' = pending,
         \A t \in Thread : pc'[t] = "call" => pc[t] = "call" /\ call'[t] = call[t]
  PROVE  Asked(c)' \subseteq Asked(c)
BY DEF Asked

\* ProcessQueue moves one from the queue to the thread.
LEMMA AskedTaken ==
  ASSUME NEW c, Queue, pending # <<>>, pending' = Tail(pending),
         NEW t \in Thread, call'[t] = Head(pending), \A u \in Thread : u # t => pc'[u] # "call"
  PROVE  Asked(c)' \subseteq Asked(c)
<1>1. pending \in Seq(Queued) /\ Len(pending) \in Nat /\ Len(pending) > 0
  BY DEF Queue
<1>2. \A i \in 1 .. Len(pending') : i + 1 \in 1 .. Len(pending) /\ pending'[i] = pending[i + 1]
  BY <1>1
<1>3. Head(pending) = pending[1] /\ 1 \in 1 .. Len(pending)
  BY <1>1
<1>4. ASSUME NEW n \in Asked(c)' PROVE n \in Asked(c)
  <2>1. CASE \E i \in 1 .. Len(pending') : Promised(pending'[i], c) /\ n = pending'[i].n
    <3>1. PICK i \in 1 .. Len(pending') : Promised(pending'[i], c) /\ n = pending'[i].n
      BY <2>1
    <3>2. i + 1 \in 1 .. Len(pending) /\ Promised(pending[i + 1], c) /\ n = pending[i + 1].n
      BY <1>2, <3>1
    <3>3. \E j \in 1 .. Len(pending) : Promised(pending[j], c) /\ n = pending[j].n
      BY <3>2
    <3>q. QED BY <3>3, Zenon DEF Asked
  <2>2. CASE \E u \in Thread : pc'[u] = "call" /\ Promised(call'[u], c) /\ n = call'[u].n
    BY <1>3, <2>2 DEF Asked
  <2>q. QED BY <2>1, <2>2 DEF Asked, Promised
<1>q. QED BY <1>4

\* AddToProcessQueue adds one if it is asked for.
LEMMA AskedAppended ==
  ASSUME NEW c, Queue, NEW cb, pending' = Append(pending, cb),
         \A t \in Thread : pc'[t] = "call" => pc[t] = "call" /\ call'[t] = call[t]
  PROVE  \A n \in Asked(c)' : n \in Asked(c) \/ (Promised(cb, c) /\ n = cb.n)
<1>1. pending \in Seq(Queued) /\ Len(pending) \in Nat
  BY DEF Queue
<1>2. \A i \in 1 .. Len(pending') :
        pending'[i] = cb \/ (i \in 1 .. Len(pending) /\ pending'[i] = pending[i])
  BY <1>1
<1>3. ASSUME NEW n \in Asked(c)' PROVE n \in Asked(c) \/ (Promised(cb, c) /\ n = cb.n)
  <2>1. CASE \E i \in 1 .. Len(pending') : Promised(pending'[i], c) /\ n = pending'[i].n
    BY <1>2, <2>1, Zenon DEF Asked
  <2>2. CASE \E u \in Thread : pc'[u] = "call" /\ Promised(call'[u], c) /\ n = call'[u].n
    BY <2>2 DEF Asked
  <2>q. QED BY <2>1, <2>2 DEF Asked, Promised
<1>q. QED BY <1>3

\* What has begun never shrinks.
LEMMA BegunGrows ==
  ASSUME IInv, IInv', Delivers
  PROVE  /\ Begun \in Nat /\ Begun' \in Nat /\ Begun' >= Begun
         /\ sent \in Nat /\ sent' \in Nat /\ sent' >= sent
         /\ \A c \in Client : must[c] \in Nat /\ must'[c] \in Nat
<1>1. sent \in Nat /\ Len(pending) \in Nat /\ Len(pending) <= sent
  BY DEF IInv, Queue
<1>2. sent' \in Nat /\ Len(pending') \in Nat /\ Len(pending') <= sent'
  BY DEF IInv, Queue
<1>3. Begun \in Nat /\ Begun' \in Nat
  BY <1>1, <1>2 DEF Begun
<1>4. Begun' \in {Begun, Begun + 1} /\ sent' \in {sent, sent + 1}
  BY DEF Delivers, Silent, Sends, Begins, Ends
<1>5. \A c \in Client : must[c] \in Nat /\ must'[c] \in Nat
  BY DEF IInv, Clients
<1>q. QED BY <1>1, <1>2, <1>3, <1>4, <1>5

\* A client that gets no promise and whose wait goes on, or is over.
LEMMA PromiseKept ==
  ASSUME IInv, IInv', Delivers, NEW c \in Client, PInv(c), Asked(c)' \subseteq Asked(c),
         c \in fulfilled' => c \in fulfilled, must'[c] <= sent',
         Waiting(c) /\ (Asked(c)' # {} \/ c \in fulfilled') => Waiting(c)' /\ must'[c] = must[c]
  PROVE  PInv(c)'
<1>1. /\ Begun \in Nat /\ Begun' \in Nat /\ Begun' >= Begun
      /\ must[c] \in Nat
  BY BegunGrows
<1>2. ASSUME NEW n \in Asked(c)' PROVE Waiting(c)' /\ c \notin fulfilled' /\ n > must'[c]
  <2>1. n \in Asked(c) /\ Asked(c)' # {}
    BY <1>2
  <2>2. Waiting(c) /\ c \notin fulfilled /\ n > must[c]
    BY <2>1 DEF PInv
  <2>q. QED BY <2>1, <2>2
<1>3. \A n, m \in Asked(c)' : n = m
  BY DEF PInv
<1>4. ASSUME c \in fulfilled' PROVE Waiting(c)' /\ Begun' >= must'[c]
  <2>1. Waiting(c) /\ Begun >= must[c]
    BY <1>4 DEF PInv
  <2>2. Waiting(c)' /\ must'[c] = must[c]
    BY <1>4, <2>1
  <2>q. QED BY <1>1, <2>1, <2>2
<1>q. QED BY <1>2, <1>3, <1>4 DEF PInv

\* A thread that is no client takes, runs or finishes a callback.
LEMMA ProcessPromise ==
  ASSUME IInv, IInv', Delivers, PromiseInv, NEW t \in Thread, t \notin Client, pc[t] = "idle",
         ProcessQueue(t)
  PROVE  PromiseInv' /\ NothingLeft
<1>1. UNCHANGED <<sent, clientVars>>
  BY DEF ProcessQueue
<1>2. prog' = prog /\ must' = must /\ fulfilled' = fulfilled
  BY <1>1 DEF clientVars
<1>3. \A c \in Client : pc'[c] = pc[c]
  BY GotoOthers, Threads DEF ProcessQueue, IInv
<1>4. ASSUME NEW c \in Client PROVE Asked(c)' \subseteq Asked(c)
  <2>1. CASE MayProcess
    <3>1. /\ call' = [call EXCEPT ![t] = Head(pending)] /\ pending' = Tail(pending)
          /\ Goto(t, "call") /\ running = FALSE /\ pending # <<>>
      BY <2>1 DEF ProcessQueue, MayProcess, IInv, Workers
    <3>2. call'[t] = Head(pending)
      BY <3>1 DEF IInv, Workers
    <3>3. \A u \in Thread : u # t => pc'[u] # "call"
      BY <3>1, GotoOthers DEF IInv, Workers, AtWork
    <3>q. QED BY <3>1, <3>2, <3>3, AskedTaken DEF IInv
  <2>2. CASE ~ MayProcess
    <3>1. UNCHANGED <<running, call, pending, pc>>
      BY <2>2 DEF ProcessQueue
    <3>q. QED BY <3>1, AskedSame
  <2>q. QED BY <2>1, <2>2
<1>5. ASSUME NEW c \in Client PROVE PInv(c)'
  <2>1. PInv(c) /\ must'[c] <= sent'
    BY <1>1, <1>2, Zenon DEF PromiseInv, PInv
  <2>2. Waiting(c) => Waiting(c)' /\ must'[c] = must[c]
    BY <1>2, <1>3 DEF Waiting
  <2>q. QED BY <1>2, <1>4, <2>1, <2>2, PromiseKept, Zenon
<1>q. QED BY <1>2, <1>5 DEF PromiseInv, NothingLeft, Returns

\* callback(): the promise that is set is the last callback begun, and was generated
\* after the call of its client.
LEMMA RunPromise ==
  ASSUME IInv, IInv', Delivers, PromiseInv, NEW t \in Thread, t \notin Client, RunCallback(t)
  PROVE  PromiseInv' /\ NothingLeft
<1> DEFINE cb == call[t]
<1>1. /\ pc[t] = "call" /\ Goto(t, "raii")
      /\ fulfilled' = IF cb.kind = "promise" THEN fulfilled \cup {cb.arg} ELSE fulfilled
      /\ UNCHANGED <<pending, sent, call, prog, must>>
  BY DEF RunCallback, queueVars
<1>2. \A u \in Thread : pc'[u] # "call"
  BY <1>1, GotoOthers DEF IInv, Workers, AtWork
<1>3. \A c \in Client : pc'[c] = pc[c]
  BY <1>1, GotoOthers, Threads, Zenon DEF IInv
<1>4. \A c \in Client : Asked(c)' \subseteq Asked(c)
  BY <1>1, <1>2, AskedSame, Zenon
<1>5. cb \in Queued /\ cb.n = Begun
  BY <1>1 DEF IInv, Workers, AtWork
<1>6. \A c \in Client : /\ Waiting(c)' <=> Waiting(c)
                        /\ must'[c] = must[c]
  BY <1>1, <1>3 DEF Waiting
<1>7. \A c \in Client : PInv(c) /\ must'[c] <= sent'
  BY <1>1 DEF PromiseInv, PInv
<1>8. ASSUME NEW c \in Client, ~ Promised(cb, c) PROVE PInv(c)'
  <2>1. c \in fulfilled' => c \in fulfilled
    BY <1>1, <1>8 DEF Promised
  <2>q. QED BY <1>4, <1>6, <1>7, <2>1, PromiseKept
<1>9. ASSUME NEW c \in Client, Promised(cb, c) PROVE PInv(c)'
  <2>1. cb.n \in Asked(c)
    BY <1>1, <1>9 DEF Asked
  <2>2. Waiting(c) /\ cb.n > must[c]
    BY <1>7, <2>1 DEF PInv
  <2>3. Begun' = Begun /\ Begun \in Nat /\ must[c] \in Nat
    BY <1>1, BegunGrows DEF Begun
  <2>4. Asked(c)' = {}
    <3>1. ASSUME NEW i \in 1 .. Len(pending), Promised(pending[i], c) PROVE FALSE
      <4>1. pending[i].n = Begun + i
        BY DEF IInv, Queue
      <4>2. pending[i].n \in Asked(c)
        BY <3>1 DEF Asked
      <4>3. pending[i].n = cb.n
        BY <1>7, <2>1, <4>2 DEF PInv
      <4>4. i > 0 /\ i \in Int
        BY DEF IInv, Queue
      <4>q. QED BY <1>5, <2>3, <4>1, <4>3, <4>4
    <3>q. QED BY <1>1, <1>2, <3>1 DEF Asked
  <2>5. Begun' >= must'[c]
    BY <1>5, <1>6, <2>2, <2>3
  <2>q. QED BY <1>6, <1>7, <2>2, <2>4, <2>5 DEF PInv
<1>q. QED BY <1>1, <1>8, <1>9 DEF PromiseInv, NothingLeft, Returns

\* ~RAIICallbacksRunning, MaybeScheduleProcessQueue, the stages of PrepareShutdown
\* and the threads that end: no call begins or returns.
LEMMA ElsewherePromise ==
  ASSUME IInv, IInv', Delivers, PromiseInv,
         UNCHANGED <<pending, sent, clientVars>>,
         \A t \in Thread : pc'[t] = "call" => pc[t] = "call" /\ call'[t] = call[t],
         \A c \in Client : Waiting(c) => Waiting(c)'
  PROVE  PromiseInv' /\ NothingLeft
<1>1. must' = must /\ fulfilled' = fulfilled
  BY DEF clientVars
<1>2. ASSUME NEW c \in Client PROVE PInv(c)'
  <2>1. Asked(c)' \subseteq Asked(c)
    BY AskedSame
  <2>2. PInv(c) /\ must'[c] <= sent'
    BY <1>1, Zenon DEF PromiseInv, PInv
  <2>q. QED BY <1>1, <2>1, <2>2, PromiseKept, Zenon
<1>q. QED BY <1>1, <1>2 DEF PromiseInv, NothingLeft, Returns

\* A step of a client, which no callback sees.
LEMMA ClientCalls ==
  ASSUME IInv, NEW c \in Client, NEW w \in {"idle", "maybe", "next", "check", "gone"},
         Goto(c, w), call' = call
  PROVE  /\ pc'[c] = w /\ \A t \in Thread : t # c => pc'[t] = pc[t]
         /\ \A t \in Thread : pc'[t] = "call" => pc[t] = "call" /\ call'[t] = call[t]
BY GotoOthers, Threads DEF IInv

\* The other clients wait as before.
LEMMA OtherClients ==
  ASSUME IInv, IInv', Delivers, PromiseInv, NEW c \in Client,
         NEW w \in {"idle", "maybe", "next", "check", "gone"}, Goto(c, w), call' = call,
         NEW pr, prog' = [prog EXCEPT ![c] = pr],
         NEW m \in Nat, must' = [must EXCEPT ![c] = m],
         fulfilled' \in {fulfilled, fulfilled \ {c}},
         \A d \in Client : d # c => Asked(d)' \subseteq Asked(d),
         PInv(c)', m = 0 /\ must[c] # 0 => Begun >= must[c]
  PROVE  PromiseInv' /\ NothingLeft
<1>1. \A d \in Client : d # c => /\ pc'[d] = pc[d] /\ prog'[d] = prog[d]
                                 /\ must'[d] = must[d]
  BY ClientCalls, Threads DEF IInv, Clients
<1>2. ASSUME NEW d \in Client, d # c PROVE PInv(d)'
  <2>1. Waiting(d)' <=> Waiting(d)
    BY <1>1, <1>2, Zenon DEF Waiting
  <2>2. PInv(d) /\ must[d] <= sent
    BY DEF PromiseInv, PInv
  <2>3. must'[d] <= sent'
    <3>1. must'[d] = must[d]
      BY <1>1, <1>2
    <3>q. QED BY <2>2, <3>1, BegunGrows
  <2>4. d \in fulfilled' => d \in fulfilled
    BY <1>2
  <2>q. QED BY <1>1, <1>2, <2>1, <2>2, <2>3, <2>4, PromiseKept, Zenon
<1>3. ASSUME NEW d \in Client, Returns(d) PROVE Begun >= must[d]
  <2>1. must'[c] = m
    BY Zenon DEF IInv, Clients
  <2>q. QED BY <1>1, <1>3, <2>1 DEF Returns
<1>q. QED BY <1>2, <1>3 DEF PromiseInv, NothingLeft

\* A client adds a callback that is no promise, from a place where it does not wait.
LEMMA AddsOther ==
  ASSUME IInv, IInv', Delivers, PromiseInv, NEW c \in Client, ~ Waiting(c),
         NEW kind, NEW arg, kind # "promise", AddToProcessQueue(c, kind, arg),
         NEW pr, prog' = [prog EXCEPT ![c] = pr], UNCHANGED <<must, fulfilled, call>>
  PROVE  PromiseInv' /\ NothingLeft
<1> DEFINE cb == [n |-> sent + 1, kind |-> kind, arg |-> arg]
<1>1. pending' = Append(pending, cb) /\ Goto(c, "maybe") /\ sent' = sent + 1
  BY DEF AddToProcessQueue
<1>2. \A d \in Client : ~ Promised(cb, d)
  BY DEF Promised
<1> HIDE DEF cb
<1>3. \A d \in Client : Asked(d)' \subseteq Asked(d)
  <2>1. \A t \in Thread : pc'[t] = "call" => pc[t] = "call" /\ call'[t] = call[t]
    BY <1>1, ClientCalls
  <2>q. QED BY <1>1, <1>2, <2>1, AskedAppended DEF IInv
<1>4. must' = [must EXCEPT ![c] = must[c]] /\ must[c] \in Nat
  BY Zenon DEF IInv, Clients
<1>5. PInv(c)'
  <2>1. PInv(c) /\ must'[c] <= sent'
    <3>1. PInv(c) /\ must[c] <= sent
      BY DEF PromiseInv, PInv
    <3>q. QED BY <3>1, BegunGrows
  <2>q. QED BY <1>3, <2>1, PromiseKept
<1>q. QED BY <1>1, <1>3, <1>4, <1>5, OtherClients, Zenon

\* A client adds its promise, and none of its promises is on the way.
LEMMA AddsPromise ==
  ASSUME IInv, IInv', Delivers, PromiseInv, NEW c \in Client, ~ Waiting(c),
         AddToProcessQueue(c, "promise", c),
         NEW pr \in {<<"wait">>, <<"unlock", "wait">>}, prog' = [prog EXCEPT ![c] = pr],
         UNCHANGED <<must, fulfilled, call>>
  PROVE  PromiseInv' /\ NothingLeft
<1> DEFINE cb == [n |-> sent + 1, kind |-> "promise", arg |-> c]
<1>1. pending' = Append(pending, cb) /\ Goto(c, "maybe") /\ sent' = sent + 1
  BY DEF AddToProcessQueue
<1>2. cb.n = sent + 1 /\ \A d \in Client : Promised(cb, d) => d = c
  BY DEF Promised
<1> HIDE DEF cb
<1>3. \A t \in Thread : pc'[t] = "call" => pc[t] = "call" /\ call'[t] = call[t]
  BY <1>1, ClientCalls
<1>4. \A d \in Client : d # c => Asked(d)' \subseteq Asked(d)
  BY <1>1, <1>2, <1>3, AskedAppended, Zenon DEF IInv
<1>5. must' = [must EXCEPT ![c] = must[c]] /\ must[c] \in Nat
  BY DEF IInv, Clients
<1>6. PInv(c)'
  <2>1. PInv(c) /\ must[c] <= sent /\ sent \in Nat
    BY BegunGrows DEF PromiseInv, PInv
  <2>2. Asked(c) = {} /\ c \notin fulfilled
    BY <2>1 DEF PInv
  <2>3. \A n \in Asked(c)' : n = sent + 1
    BY <1>1, <1>2, <1>3, <2>2, AskedAppended, Zenon DEF IInv
  <2>4. Waiting(c)'
    <3>1. pc'[c] = "maybe" /\ prog'[c] = pr
      BY <1>1, ClientCalls, Zenon DEF IInv, Clients
    <3>q. QED BY <3>1 DEF Waiting
  <2>5. must'[c] <= sent' /\ sent + 1 > must'[c]
    BY <1>1, <1>5, <2>1
  <2>q. QED BY <2>2, <2>3, <2>4, <2>5 DEF PInv
<1>q. QED BY <1>1, <1>4, <1>5, <1>6, OtherClients, Zenon

\* A client moves on without touching the queue: it waits on, or its wait is over.
LEMMA MovesOn ==
  ASSUME IInv, IInv', Delivers, PromiseInv, NEW c \in Client,
         NEW w \in {"idle", "maybe", "next", "check", "gone"}, Goto(c, w), call' = call,
         UNCHANGED <<pending, sent>>,
         NEW pr, prog' = [prog EXCEPT ![c] = pr],
         NEW m \in Nat, m <= sent, must' = [must EXCEPT ![c] = m],
         fulfilled' \in {fulfilled, fulfilled \ {c}},
         m = 0 /\ must[c] # 0 => Begun >= must[c],
         \/ ~ Waiting(c)
         \/ c \in fulfilled /\ c \notin fulfilled'
         \/ w = "next" /\ pr = <<"wait">> /\ m = must[c]
  PROVE  PromiseInv' /\ NothingLeft
<1>1. \A d \in Client : Asked(d)' \subseteq Asked(d)
  BY ClientCalls, AskedSame
<1>2. pc'[c] = w /\ prog'[c] = pr /\ must'[c] = m
  BY ClientCalls, Zenon DEF IInv, Clients
<1>3. PInv(c)
  BY DEF PromiseInv
<1>4. c \in fulfilled => Asked(c) = {}
  BY <1>3 DEF PInv
<1>5. Waiting(c) /\ (Asked(c)' # {} \/ c \in fulfilled') => Waiting(c)' /\ must'[c] = must[c]
  BY <1>1, <1>2, <1>4 DEF Waiting
<1>6. must'[c] <= sent'
  BY <1>2
<1>7. PInv(c)'
  BY <1>1, <1>3, <1>5, <1>6, PromiseKept
<1>q. QED BY <1>1, <1>7, OtherClients, Zenon

\* The calls begin, with a number that says what was generated before.
LEMMA CallPromise ==
  ASSUME IInv, IInv', Delivers, PromiseInv, NEW c \in Client,
         CallSync(c) \/ BlockUntilSyncedToCurrentChain(c)
  PROVE  PromiseInv' /\ NothingLeft
<1>1. pc[c] = "idle" /\ UNCHANGED <<pending, sent, call, prog, fulfilled>>
  BY DEF CallSync, BlockUntilSyncedToCurrentChain, queueVars
<1>2. ~ Waiting(c)
  BY <1>1 DEF Waiting
<1>3. CASE Goto(c, "check") /\ must' = [must EXCEPT ![c] = sent]
  <2>1. prog' = [prog EXCEPT ![c] = prog[c]] /\ sent \in Nat
    BY <1>1, ClientKeeps
  <2>2. must[c] <= sent /\ must[c] \in Nat
    BY ClientKeeps DEF PromiseInv, PInv
  <2>3. sent <= sent /\ (sent = 0 => must[c] = 0)
    BY <2>1, <2>2
  <2>q. QED BY <1>1, <1>2, <1>3, <2>1, <2>3, MovesOn, Zenon
<1>4. CASE UNCHANGED <<pc, must>>
  <2>1. \A d \in Client : Waiting(d)' <=> Waiting(d)
    BY <1>1, <1>4 DEF Waiting
  <2>2. ASSUME NEW d \in Client PROVE PInv(d)'
    <3>1. Asked(d)' \subseteq Asked(d)
      BY <1>1, <1>4, AskedSame
    <3>2. PInv(d) /\ must'[d] <= sent'
      BY <1>1, <1>4, Zenon DEF PromiseInv, PInv
    <3>q. QED BY <1>1, <1>4, <2>1, <3>1, <3>2, PromiseKept
  <2>q. QED BY <1>4, <2>2 DEF PromiseInv, NothingLeft, Returns
<1>q. QED BY <1>3, <1>4 DEF CallSync, BlockUntilSyncedToCurrentChain

\* SyncWithValidationInterfaceQueue returns with an empty queue, or asks.
LEMMA SyncPromise ==
  ASSUME IInv, IInv', Delivers, PromiseInv, NEW c \in Client, Sync(c)
  PROVE  PromiseInv' /\ NothingLeft
<1>1. pc[c] = "check" /\ UNCHANGED <<call, fulfilled>>
  BY DEF Sync
<1>2. ~ Waiting(c)
  BY <1>1 DEF Waiting
<1>3. CASE NoNeedToWait
  <2>1. /\ Goto(c, "idle") /\ must' = [must EXCEPT ![c] = 0] /\ pending = <<>>
        /\ UNCHANGED <<pending, sent, prog>>
    BY <1>3 DEF Sync, Return, queueVars, NoNeedToWait
  <2>2. prog' = [prog EXCEPT ![c] = prog[c]] /\ sent \in Nat
    BY <2>1, ClientKeeps
  <2>3. Len(pending) = 0
    BY <2>1
  <2>4. Begun = sent
    BY <2>2, <2>3 DEF Begun
  <2>5. Begun >= must[c]
    <3>1. must[c] <= sent /\ must[c] \in Nat
      BY ClientKeeps DEF PromiseInv, PInv
    <3>q. QED BY <2>2, <2>4, <3>1
  <2>6. 0 \in Nat /\ 0 <= sent
    BY <2>2
  <2>q. QED BY <1>1, <1>2, <2>1, <2>2, <2>5, <2>6, MovesOn, Zenon
<1>4. CASE ~ NoNeedToWait
  <2>1. /\ AddToProcessQueue(c, "promise", c)
        /\ prog' = [prog EXCEPT ![c] = <<"wait">>] /\ must' = must
    BY <1>4 DEF Sync
  <2>q. QED BY <1>1, <1>2, <2>1, AddsPromise, Zenon
<1>q. QED BY <1>3, <1>4

\* sendrawtransaction.
LEMMA SendRawPromise ==
  ASSUME IInv, IInv', Delivers, PromiseInv, NEW c \in Client, SendRawTransaction(c)
  PROVE  PromiseInv' /\ NothingLeft
<1>1. pc[c] = "idle" /\ UNCHANGED <<call, fulfilled, must>>
  BY DEF SendRawTransaction
<1>2. ~ Waiting(c)
  BY <1>1 DEF Waiting
<1>3. CASE /\ AddToProcessQueue(c, "added", 0)
           /\ prog' = [prog EXCEPT ![c] = <<"promise", "unlock", "wait">>]
  BY <1>1, <1>2, <1>3, AddsOther, Zenon
<1>4. CASE /\ Goto(c, "next") /\ prog' = [prog EXCEPT ![c] = <<"unlock", "wait">>]
           /\ UNCHANGED queueVars
  <2>1. must' = [must EXCEPT ![c] = must[c]] /\ must[c] \in Nat /\ must[c] <= sent
    BY <1>1, ClientKeeps DEF PromiseInv, PInv
  <2>2. UNCHANGED <<pending, sent>>
    BY <1>4 DEF queueVars
  <2>q. QED BY <1>1, <1>2, <1>4, <2>1, <2>2, MovesOn, Zenon
<1>q. QED BY <1>3, <1>4 DEF SendRawTransaction

\* What follows: a wait ends only when the promise is set.
LEMMA ContinuePromise ==
  ASSUME IInv, IInv', Delivers, PromiseInv, NEW c \in Client, Continue(c)
  PROVE  PromiseInv' /\ NothingLeft
<1> DEFINE p == prog[c]
<1>1. /\ pc[c] = "next" /\ prog' = [prog EXCEPT ![c] = Tail(p)] /\ call' = call
  BY DEF Continue
<1>2. p \in Progs
  BY <1>1 DEF IInv, Clients
<1>3. must[c] \in Nat /\ must[c] <= sent /\ sent \in Nat /\ must = [must EXCEPT ![c] = must[c]]
  BY ClientKeeps DEF PromiseInv, PInv
<1>4. CASE p = <<"promise", "unlock", "wait">>
  <2>1. Head(p) = "promise" /\ Tail(p) = <<"unlock", "wait">>
    BY <1>4
  <2>2. AddToProcessQueue(c, "promise", c) /\ UNCHANGED <<fulfilled, must>>
    BY <2>1, Zenon DEF Continue
  <2>3. ~ Waiting(c)
    <3>1. /\ <<"promise", "unlock", "wait">> # <<"wait">>
          /\ <<"promise", "unlock", "wait">> # <<"unlock", "wait">>
      OBVIOUS
    <3>q. QED BY <1>4, <3>1 DEF Waiting
  <2> HIDE DEF p
  <2>q. QED BY <1>1, <2>1, <2>2, <2>3, AddsPromise, Zenon
<1>5. CASE p = <<"unlock">>
  <2>1. Head(p) = "unlock" /\ Len(p) = 1 /\ Tail(p) = <<>>
    BY <1>5
  <2>2. Goto(c, "idle") /\ UNCHANGED <<pending, sent, fulfilled, must>>
    BY <2>1, Zenon DEF Continue, queueVars
  <2>3. ~ Waiting(c)
    <3>1. <<"unlock">> # <<"wait">> /\ <<"unlock">> # <<"unlock", "wait">>
      OBVIOUS
    <3>q. QED BY <1>5, <3>1 DEF Waiting
  <2> HIDE DEF p
  <2>q. QED BY <1>1, <1>3, <2>2, <2>3, MovesOn, Zenon
<1>6. CASE p = <<"unlock", "wait">>
  <2>1. Head(p) = "unlock" /\ Len(p) # 1 /\ Tail(p) = <<"wait">>
    BY <1>6
  <2>2. Goto(c, "next") /\ UNCHANGED <<pending, sent, fulfilled, must>>
    BY <2>1, Zenon DEF Continue, queueVars
  <2> HIDE DEF p
  <2>q. QED BY <1>1, <1>3, <2>1, <2>2, MovesOn, Zenon
<1>7. CASE p = <<"wait">>
  <2>1. Head(p) = "wait"
    BY <1>7
  <2>2. /\ c \in fulfilled /\ fulfilled' = fulfilled \ {c} /\ Goto(c, "idle")
        /\ must' = [must EXCEPT ![c] = 0] /\ UNCHANGED <<pending, sent>>
    BY <2>1, Zenon DEF Continue, Return, queueVars
  <2>3. Begun >= must[c]
    BY <2>2 DEF PromiseInv, PInv
  <2>4. 0 \in Nat /\ 0 <= sent
    BY <1>3
  <2> HIDE DEF p
  <2>q. QED BY <1>1, <2>2, <2>3, <2>4, MovesOn, Zenon
<1>q. QED BY <1>2, <1>4, <1>5, <1>6, <1>7 DEF Progs

\* PrepareShutdown's callback.
LEMMA FlushPromise ==
  ASSUME IInv, IInv', Delivers, PromiseInv, FlushStateToDisk
  PROVE  PromiseInv' /\ NothingLeft
<1> DEFINE cb == [n |-> sent + 1, kind |-> "bestchain", arg |-> 0]
<1>1. /\ pending' = Append(pending, cb) /\ Goto("shutoff", "maybe") /\ call' = call
      /\ UNCHANGED <<prog, must, fulfilled>> /\ sent' = sent + 1
  BY DEF FlushStateToDisk, AddToProcessQueue, clientVars
<1>2. \A d \in Client : ~ Promised(cb, d)
  BY DEF Promised
<1> HIDE DEF cb
<1>3. \A t \in Thread : pc'[t] = "call" => pc[t] = "call" /\ call'[t] = call[t]
  BY <1>1, GotoOthers, Threads DEF IInv
<1>4. \A d \in Client : Waiting(d)' <=> Waiting(d)
  BY <1>1, GotoOthers, Threads DEF IInv, Waiting
<1>5. ASSUME NEW d \in Client PROVE PInv(d)'
  <2>1. Asked(d)' \subseteq Asked(d)
    BY <1>1, <1>2, <1>3, AskedAppended DEF IInv
  <2>2. PInv(d) /\ must[d] <= sent
    BY DEF PromiseInv, PInv
  <2>3. must'[d] <= sent'
    BY <1>1, <2>2, BegunGrows
  <2>q. QED BY <1>1, <1>4, <2>1, <2>2, <2>3, PromiseKept
<1>q. QED BY <1>1, <1>5 DEF PromiseInv, NothingLeft, Returns

\* Every step keeps the promises.
LEMMA StepPromise ==
  ASSUME IInv, PromiseInv, [Next]_vars
  PROVE  PromiseInv' /\ NothingLeft
<1>1. IInv' /\ Delivers
  BY StepInv
<1>2. ASSUME NEW t \in Thread, t \notin Client, RunCallback(t)
      PROVE  PromiseInv' /\ NothingLeft
  BY <1>1, <1>2, RunPromise
<1>3. ASSUME NEW t \in Thread, t \notin Client, CallbackDone(t)
      PROVE  PromiseInv' /\ NothingLeft
  <2>1. /\ pc[t] = "raii" /\ call' = [call EXCEPT ![t] = NoCall] /\ Goto(t, "maybe")
        /\ UNCHANGED <<pending, sent, clientVars>>
    BY <1>3 DEF CallbackDone, AfterCallback
  <2>2. pc'[t] = "maybe" /\ \A u \in Thread : u # t => pc'[u] = pc[u] /\ call'[u] = call[u]
    BY <2>1, GotoOthers DEF IInv, Workers
  <2>3. \A c \in Client : Waiting(c) => Waiting(c)'
    BY <1>3, <2>1, <2>2, Threads DEF Waiting, clientVars
  <2>q. QED BY <1>1, <2>1, <2>2, <2>3, ElsewherePromise
<1>4. CASE \E s \in Service : ServiceStep(s)
  <2>1. PICK s \in Service : ServiceStep(s)
    BY <1>4
  <2>2. s \in Thread /\ s \notin Client
    BY Threads
  <2>3. CASE ServiceQueue(s)
    BY <1>1, <2>2, <2>3, ProcessPromise DEF ServiceQueue
  <2>q. QED BY <1>2, <1>3, <2>1, <2>2, <2>3 DEF ServiceStep
<1>5. CASE UNCHANGED <<pending, sent, clientVars, pc, call>>
  <2>1. \A c \in Client : Waiting(c) => Waiting(c)'
    BY <1>5 DEF Waiting, clientVars
  <2>q. QED BY <1>1, <1>5, <2>1, ElsewherePromise
<1>6. CASE ShutdownStep
  <2>1. "shutoff" \in Thread /\ "shutoff" \notin Client
    BY Threads
  <2>2. CASE StopServers
    BY <1>5, <2>2 DEF StopServers, queueVars
  <2>3. CASE EmptyQueue
    <3>1. \/ pc["shutoff"] = "idle" /\ ProcessQueue("shutoff")
          \/ UNCHANGED <<pending, sent, clientVars, pc, call>>
      BY <2>3 DEF EmptyQueue, queueVars
    <3>q. QED BY <1>1, <1>5, <2>1, <3>1, ProcessPromise
  <2>4. CASE FlushStateToDisk
    BY <1>1, <2>4, FlushPromise
  <2>q. QED BY <1>2, <1>3, <1>6, <2>1, <2>2, <2>3, <2>4 DEF ShutdownStep
<1>7. CASE \E t \in Thread : MaybeScheduleProcessQueue(t) \/ Interrupted(t)
  <2>1. PICK t \in Thread : MaybeScheduleProcessQueue(t) \/ Interrupted(t)
    BY <1>7
  <2>2. /\ UNCHANGED <<pending, sent, clientVars, call>>
        /\ \/ pc[t] = "maybe" /\ Goto(t, Back(t))
           \/ pc[t] = "idle" /\ Goto(t, "gone")
    BY <2>1 DEF MaybeScheduleProcessQueue, Interrupted, queueVars
  <2>3. /\ \A u \in Thread : u # t => pc'[u] = pc[u]
        /\ pc[t] = "idle" \/ (pc[t] = "maybe" /\ pc'[t] = Back(t))
        /\ pc'[t] \in {"idle", "next", "gone"}
    BY <2>2, GotoOthers DEF IInv, Back
  <2>4. \A c \in Client : Waiting(c) => Waiting(c)'
    BY <2>2, <2>3, Threads DEF Waiting, clientVars, Back
  <2>5. \A u \in Thread : pc'[u] = "call" => pc[u] = "call" /\ call'[u] = call[u]
    BY <2>2, <2>3
  <2>q. QED BY <1>1, <2>2, <2>4, <2>5, ElsewherePromise
<1>8. CASE \E c \in Client : \/ ClientStep(c) \/ CallSync(c)
                             \/ BlockUntilSyncedToCurrentChain(c) \/ SendRawTransaction(c)
  BY <1>1, <1>8, SyncPromise, ContinuePromise, CallPromise, SendRawPromise DEF ClientStep
<1>9. CASE MoveTip
  <2>1. /\ Chain \in Client /\ pc[Chain] = "idle" /\ prog' = [prog EXCEPT ![Chain] = <<"unlock">>]
        /\ UNCHANGED <<call, fulfilled, must>>
        /\ \/ AddToProcessQueue(Chain, "connected", tip + 1)
           \/ AddToProcessQueue(Chain, "disconnected", tip)
    BY <1>9, Threads DEF MoveTip
  <2>2. ~ Waiting(Chain)
    BY <2>1 DEF Waiting
  <2>q. QED BY <1>1, <2>1, <2>2, AddsOther, Zenon
<1>10. CASE UNCHANGED vars
  BY <1>5, <1>10 DEF vars, queueVars
<1>q. QED BY <1>4, <1>6, <1>7, <1>8, <1>9, <1>10 DEF Next

\* SyncWithValidationInterfaceQueue: when it returns, at once or after its promise,
\* every callback that was generated before the call has begun to run; so too for
\* the commands that wait through it.
THEOREM SyncServesTheQueue == Spec => SyncLeavesNothingQueued
<1>1. Init => PromiseInv
  <2> SUFFICES ASSUME Init, NEW c \in Client PROVE PInv(c)
    BY DEF PromiseInv
  <2>1. must[c] = 0 /\ sent = 0 /\ fulfilled = {}
    BY DEF Init
  <2>2. Asked(c) = {}
    BY DEF Init, Asked
  <2>q. QED BY <2>1, <2>2 DEF PInv
<1>2. IInv /\ [Next]_vars => IInv'
  BY StepInv
<1>3. IInv /\ PromiseInv /\ [Next]_vars
        => PromiseInv' /\ [\A c \in Client : Returns(c) => Begun >= must[c]]_vars
  BY StepPromise DEF NothingLeft
<1>q. QED BY <1>1, <1>2, <1>3, InitInv, PTL DEF Spec, SyncLeavesNothingQueued
=============================================================================
