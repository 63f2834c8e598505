----------------------------- MODULE CheckQueue -----------------------------
(***************************************************************************)
(* CCheckQueue (checkqueue.h): the worker threads that verify the scripts  *)
(* of a block, and the thread that connects the block, the master, which   *)
(* adds the checks of one transaction after the other and then joins the   *)
(* workers until all are done.  CCheckQueueControl ties one such session   *)
(* to a scope of ConnectBlock.                                             *)
(*                                                                         *)
(* A step is a critical section under mutex, or the execution of a batch   *)
(* outside of it.  Waiting on a condition variable ends by a notification, *)
(* spuriously, or by the interruption of the thread group at shutdown; an  *)
(* interruption leaves the counters as they are and, on the master, makes  *)
(* the destructor of the control wait once more.  "The order of booleans   *)
(* doesn't matter": a batch is any set of nNow checks of the queue.        *)
(***************************************************************************)
EXTENDS Integers, FiniteSets, FiniteSetsExt

CONSTANTS
  Worker, Master,
  Check,           \* the script checks a block may have
  Bad,             \* those that fail
  nBatchSize,
  MasterInGroup,   \* may the master be interrupted (ThreadImport, ThreadStakeMinter)
  MaxSessions      \* bound on the blocks connected

ASSUME CheckQueueAssumption ==
  /\ IsFiniteSet(Worker) /\ Master \notin Worker
  /\ IsFiniteSet(Check) /\ Bad \subseteq Check
  /\ nBatchSize \in Nat \ {0}
  /\ MasterInGroup \in BOOLEAN
  /\ MaxSessions \in Nat

Thread == Worker \cup {Master}

VARIABLES
  queue, nIdle, nTotal, fAllOk, nTodo,  \* the members of CCheckQueue
  pc,        \* where each thread is in Loop
  batch,     \* its vChecks, whose size is nNow
  fOk,       \* its fOk
  phase,     \* where the master is in the life of its CCheckQueueControl
  added,     \* the checks of the present, or else of the last, session
  verdict,   \* what the last Wait returned to ConnectBlock
  pending,   \* the threads interrupted that have not noticed yet
  sessions

queueVars == <<queue, nIdle, nTotal, fAllOk, nTodo>>
loopVars == <<pc, batch, fOk>>
controlVars == <<phase, added, verdict, pending, sessions>>
vars == <<queueVars, loopVars, controlVars>>

\* The counters of CCheckQueue never run below zero, and every thread is at a place of Loop.
TypeOK ==
  /\ queue \subseteq Check
  /\ {nIdle, nTotal, nTodo} \subseteq Nat
  /\ fAllOk \in BOOLEAN
  /\ pc \in [Thread -> {"out", "enter", "waiting", "woken", "working", "finished", "gone"}]
  /\ batch \in [Thread -> SUBSET Check]
  /\ fOk \in [Thread -> BOOLEAN]
  /\ phase \in {"none", "open", "wait", "unwind", "aborted"}
  /\ added \subseteq Check
  /\ verdict \in {"none", "ok", "failed"}
  /\ pending \subseteq Thread
  /\ sessions \in 0 .. MaxSessions

Init ==
  /\ queue = {} /\ nIdle = 0 /\ nTotal = 0 /\ fAllOk = TRUE /\ nTodo = 0
  /\ pc = [t \in Thread |-> IF t = Master THEN "out" ELSE "enter"]
  /\ batch = [t \in Thread |-> {}]
  /\ fOk = [t \in Thread |-> TRUE]
  /\ phase = "none" /\ added = {} /\ verdict = "none"
  /\ pending = {} /\ sessions = 0

----------------------------------------------------------------------------
(* Loop, from the top of its while: t sleeps, returns or takes a batch.    *)
(* total, idle, ok and todo are the counters as the section found or left  *)
(* them so far; wake is the state of the threads after its notifications.  *)

BatchSize(total, idle) ==
  Max({1, Min({nBatchSize, Cardinality(queue) \div (total + idle + 1)})})

\* Mutants stand before the definition they replace.
MayReturnBeforeDone(t, todo) == t = Master
MayReturn(t, todo) == t = Master /\ todo = 0

Sleep(t, total, idle, ok, todo, wake) ==
  /\ queue = {} /\ ~ MayReturn(t, todo)
  /\ nIdle' = idle + 1
  /\ pc' = [wake EXCEPT ![t] = "waiting"]
  /\ batch' = [batch EXCEPT ![t] = {}]
  /\ nTotal' = total /\ fAllOk' = ok /\ nTodo' = todo
  /\ UNCHANGED <<queue, fOk, phase, added, verdict, pending, sessions>>

Left(total) == total - 1

Return(t, total, idle, ok, todo, wake) ==
  /\ queue = {} /\ MayReturn(t, todo)
  /\ nTotal' = Left(total)
  /\ fAllOk' = TRUE
  /\ verdict' = IF phase # "wait" THEN verdict ELSE IF ok THEN "ok" ELSE "failed"
  /\ phase' = "none"
  /\ pc' = [wake EXCEPT ![t] = "out"]
  /\ batch' = [batch EXCEPT ![t] = {}]
  /\ nIdle' = idle /\ nTodo' = todo
  /\ UNCHANGED <<queue, fOk, added, pending, sessions>>
Take(t, total, idle, ok, todo, wake) ==
  /\ queue # {}
  /\ \E b \in kSubset(BatchSize(total, idle), queue) :
       /\ queue' = queue \ b
       /\ batch' = [batch EXCEPT ![t] = b]
  /\ fOk' = [fOk EXCEPT ![t] = ok]
  /\ pc' = [wake EXCEPT ![t] = "working"]
  /\ nIdle' = idle /\ nTotal' = total /\ fAllOk' = ok /\ nTodo' = todo
  /\ UNCHANGED <<phase, added, verdict, pending, sessions>>

Section(t, total, idle, ok, todo, wake) ==
  \/ Sleep(t, total, idle, ok, todo, wake)
  \/ Return(t, total, idle, ok, todo, wake)
  \/ Take(t, total, idle, ok, todo, wake)

----------------------------------------------------------------------------
(* The ways into that section. *)

FirstIteration(t) ==
  /\ pc[t] = "enter"
  /\ Section(t, nTotal + 1, nIdle, fAllOk, nTodo, pc)

NotifyMasterIfOk(t, todo) ==
  IF todo = 0 /\ t # Master /\ pc[Master] = "waiting" /\ fOk[t]
  THEN [pc EXCEPT ![Master] = "woken"] ELSE pc
NotifyMaster(t, todo) ==
  IF todo = 0 /\ t # Master /\ pc[Master] = "waiting"
  THEN [pc EXCEPT ![Master] = "woken"] ELSE pc

AllOkLast(t) == fOk[t]
AllOk(t) == fAllOk /\ fOk[t]

CleanUp(t) ==
  /\ pc[t] = "finished"
  /\ LET todo == nTodo - Cardinality(batch[t])
     IN Section(t, nTotal, nIdle, AllOk(t), todo, NotifyMaster(t, todo))

WokenStaysIdle(t) ==
  /\ pc[t] = "woken"
  /\ Section(t, nTotal, nIdle, fAllOk, nTodo, pc)
Woken(t) ==
  /\ pc[t] = "woken"
  /\ Section(t, nTotal, nIdle - 1, fAllOk, nTodo, pc)

\* Outside the mutex: the checks of the batch, until one fails.
Execute(t) ==
  /\ pc[t] = "working"
  /\ fOk' = [fOk EXCEPT ![t] = fOk[t] /\ batch[t] \cap Bad = {}]
  /\ pc' = [pc EXCEPT ![t] = "finished"]
  /\ UNCHANGED <<queueVars, batch, controlVars>>

----------------------------------------------------------------------------
(* The master's CCheckQueueControl in ConnectBlock. *)

IsIdle == nTotal = nIdle /\ nTodo = 0 /\ fAllOk = TRUE

\* The constructor, with its assertion that the queue is unused.
Control ==
  /\ phase = "none" /\ sessions < MaxSessions
  /\ phase' = IF IsIdle THEN "open" ELSE "aborted"
  /\ added' = {} /\ verdict' = "none"
  /\ sessions' = sessions + 1
  /\ UNCHANGED <<queueVars, loopVars, pending>>

Todo(b) == nTodo + Cardinality(b)

\* condWorker is notified once for one check and to all for several.
Add(b) ==
  LET asleep == {w \in Worker : pc[w] = "waiting"}
  IN /\ phase = "open"
     /\ queue' = queue \cup b
     /\ nTodo' = Todo(b)
     /\ added' = added \cup b
     /\ \E wake \in SUBSET asleep :
          /\ Cardinality(wake) = CASE b = {} -> 0
                                 [] Cardinality(b) = 1 -> Min({1, Cardinality(asleep)})
                                 [] OTHER -> Cardinality(asleep)
          /\ pc' = [t \in Thread |-> IF t \in wake THEN "woken" ELSE pc[t]]
     /\ UNCHANGED <<nIdle, nTotal, fAllOk, batch, fOk, phase, verdict, pending, sessions>>

\* ConnectBlock reaches control.Wait().
Wait ==
  /\ phase = "open"
  /\ phase' = "wait"
  /\ pc' = [pc EXCEPT ![Master] = "enter"]
  /\ UNCHANGED <<queueVars, batch, fOk, added, verdict, pending, sessions>>

\* ConnectBlock returns before it: the destructor waits, the result is lost.
Destroy ==
  /\ phase = "open"
  /\ phase' = "unwind"
  /\ pc' = [pc EXCEPT ![Master] = "enter"]
  /\ UNCHANGED <<queueVars, batch, fOk, added, verdict, pending, sessions>>

----------------------------------------------------------------------------
(* The condition variables, and threadGroup.interrupt_all() at shutdown.   *)

Spurious(t) ==
  /\ pc[t] = "waiting"
  /\ pc' = [pc EXCEPT ![t] = "woken"]
  /\ UNCHANGED <<queueVars, batch, fOk, controlVars>>

InterruptAll ==
  /\ pending = {} /\ \E w \in Worker : pc[w] # "gone"
  /\ pending' = {t \in Thread : /\ pc[t] # "gone"
                                /\ t = Master => MasterInGroup}
  /\ UNCHANGED <<queueVars, loopVars, phase, added, verdict, sessions>>

\* cond.wait throws: a worker ends, the master unwinds into the destructor.
Throw(t) ==
  /\ t \in pending /\ pc[t] \in {"waiting", "woken"}
  /\ pending' = pending \ {t}
  /\ pc' = [pc EXCEPT ![t] = IF t = Master THEN "enter" ELSE "gone"]
  /\ phase' = IF t = Master THEN "unwind" ELSE phase
  /\ UNCHANGED <<queueVars, batch, fOk, added, verdict, sessions>>

Step(t) == FirstIteration(t) \/ CleanUp(t) \/ Woken(t) \/ Execute(t)

Next ==
  \/ \E t \in Thread : Step(t) \/ Spurious(t) \/ Throw(t)
  \/ Control
  \/ \E b \in SUBSET (Check \ added) : Add(b)
  \/ Wait \/ Destroy
  \/ InterruptAll

Spec == Init /\ [][Next]_vars

\* Every thread keeps running, and cond.wait notices an interruption.
FairSpec == Spec /\ \A t \in Thread : WF_vars(Step(t)) /\ WF_vars(Throw(t))

----------------------------------------------------------------------------
Holding == {t \in Thread : batch[t] # {}}

\* nTodo counts the checks in the queue and in the threads' own batches, and
\* no check is in two places: none is lost, and none is counted off twice.
TodoExact ==
  /\ nTodo = Cardinality(queue \cup UNION {batch[t] : t \in Thread})
  /\ \A t \in Thread : batch[t] \cap queue = {}
  /\ \A t, u \in Thread : t # u => batch[t] \cap batch[u] = {}

\* The assertion of CCheckQueueControl: whenever a block begins, the queue
\* is idle, whatever the workers were doing when the last one ended, and
\* also after threads were interrupted while they waited.
ControlFindsIdle == phase # "aborted"

\* The guarantee of CCheckQueueControl: outside of a session no thread holds
\* a check of the block, not even after an early return or an interruption.
FinishedBeforeContinuing ==
  phase \in {"none", "aborted"} => queue = {} /\ Holding = {}

\* What ConnectBlock is told is whether every check it added succeeds: no
\* failure is forgotten when batches finish in any order, none is left over
\* from an earlier block.
VerdictExact ==
  verdict # "none" => (verdict = "ok") = (added \cap Bad = {})

\* The master always returns from Wait: no wake-up is lost, and the workers
\* may all be interrupted meanwhile.
WaitReturns == phase \in {"wait", "unwind"} ~> phase = "none"

\* The counters of CCheckQueue: nTodo is exact between any two critical sections,
\* and nIdle and nTotal agree whenever a CCheckQueueControl asserts it.
QueueSound == TypeOK /\ TodoExact /\ ControlFindsIdle
=============================================================================
