-------------------------- MODULE CheckQueueProofs --------------------------
(***************************************************************************)
(* CheckQueue is safe for any number of workers, checks and blocks and for *)
(* any nBatchSize, interruptions and spurious wake-ups included.           *)
(*                                                                         *)
(* Every step of Loop is one critical section, entered in one of three     *)
(* ways and left in one of three.  Mid is what holds at the top of the     *)
(* while loop, inside the section: the thread t belongs to the queue, but  *)
(* neither sleeps nor holds a check.  The proof shows that every way in    *)
(* leads to Mid and every way out from Mid to the invariant.               *)
(***************************************************************************)
EXTENDS CheckQueue, FiniteSetTheorems, TLAPS

Where == {"out", "enter", "waiting", "woken", "working", "finished", "gone"}
Busy(where) == {t \in Thread : where[t] \in {"working", "finished"}}
Asleep(where) == {t \in Thread : where[t] \in {"waiting", "woken"}}
Held(S) == UNION {batch[t] : t \in S}

\* nIdle also counts the threads that were interrupted while they waited, as
\* nTotal does: the difference of the two is the number of busy threads.
Counted ==
  /\ nTotal = nIdle + Cardinality(Busy(pc))
  /\ Cardinality(Asleep(pc)) <= nIdle

\* The checks are with the threads that run them, and belong to the block.
Placed ==
  /\ TodoExact
  /\ \A t \in Thread : batch[t] # {} <=> t \in Busy(pc)
  /\ queue \cup Held(Thread) \subseteq added

\* The master is in Loop while its control waits, and the queue is at rest when
\* there is no control.
InPhase ==
  /\ phase \in {"none", "open"} => pc[Master] = "out"
  /\ phase \in {"wait", "unwind"} => pc[Master] \notin {"out", "gone"}
  /\ phase # "aborted"
  /\ phase = "none" => queue = {} /\ Held(Thread) = {} /\ fAllOk

\* A failure is known to fAllOk, or to the fOk of the thread that found it, or
\* its check has not been run; and only failures make these false.
Judged ==
  /\ verdict # "none" => phase = "none"
  /\ VerdictExact
  /\ ~fAllOk => added \cap Bad # {}
  /\ phase # "none" /\ fAllOk => added \cap Bad \subseteq queue \cup Held(Thread)
  /\ \A t \in Busy(pc) : ~fOk[t] => added \cap Bad # {}
  /\ \A t \in Thread : pc[t] = "finished" /\ fOk[t] => batch[t] \cap Bad = {}

IInv == TypeOK /\ Counted /\ Placed /\ InPhase /\ Judged

Mid(t, total, idle, ok, todo, wake) ==
  /\ total \in Nat /\ idle \in Nat /\ todo \in Nat /\ ok \in BOOLEAN
  /\ wake \in [Thread -> Where]
  /\ total = idle + 1 + Cardinality(Busy(wake) \ {t})
  /\ Cardinality(Asleep(wake) \ {t}) <= idle
  /\ todo = Cardinality(queue \cup Held(Thread \ {t}))
  /\ \A u \in Thread \ {t} : /\ u \in Busy(wake) <=> u \in Busy(pc)
                             /\ wake[u] = "finished" => pc[u] = "finished"
  /\ t = Master => phase \in {"wait", "unwind"}
  /\ t # Master => /\ phase \in {"none", "open"} => wake[Master] = "out"
                   /\ phase \in {"wait", "unwind"} => wake[Master] \notin {"out", "gone"}
  /\ phase = "none" => ok
  /\ ~ok => added \cap Bad # {}
  /\ phase # "none" /\ ok => added \cap Bad \subseteq queue \cup Held(Thread \ {t})

-----------------------------------------------------------------------------
(* Sets of threads and batches. *)

\* Every set of threads or of checks is finite.
LEMMA Finite ==
  /\ IsFiniteSet(Thread)
  /\ \A S \in SUBSET Thread : IsFiniteSet(S) /\ Cardinality(S) \in Nat
  /\ \A S \in SUBSET Check : IsFiniteSet(S) /\ Cardinality(S) \in Nat
<1>1. IsFiniteSet(Thread)
  BY CheckQueueAssumption, FS_AddElement DEF Thread
<1>2. \A S \in SUBSET Thread : IsFiniteSet(S) /\ Cardinality(S) \in Nat
  BY <1>1, FS_Subset, FS_CardinalityType
<1>3. \A S \in SUBSET Check : IsFiniteSet(S) /\ Cardinality(S) \in Nat
  BY CheckQueueAssumption, FS_Subset, FS_CardinalityType
<1> QED
  BY <1>1, <1>2, <1>3

\* A thread that goes elsewhere is counted where it goes.
LEMMA Moved ==
  ASSUME NEW t \in Thread, NEW wake \in [Thread -> Where], NEW x \in Where,
         NEW moved, moved = [wake EXCEPT ![t] = x]
  PROVE  /\ Cardinality(Busy(moved)) = Cardinality(Busy(wake) \ {t})
               + (IF x \in {"working", "finished"} THEN 1 ELSE 0)
         /\ Cardinality(Asleep(moved)) = Cardinality(Asleep(wake) \ {t})
               + (IF x \in {"waiting", "woken"} THEN 1 ELSE 0)
<1> DEFINE B == Busy(wake) \ {t}
           A == Asleep(wake) \ {t}
<1>1. /\ IsFiniteSet(A) /\ IsFiniteSet(B)
      /\ Cardinality(A) \in Nat /\ Cardinality(B) \in Nat
  BY Finite DEF Busy, Asleep
<1>2. /\ Cardinality(A \cup {t}) = Cardinality(A) + 1
      /\ Cardinality(B \cup {t}) = Cardinality(B) + 1
  BY <1>1, FS_AddElement, Zenon
<1>3. Busy(moved) = IF x \in {"working", "finished"} THEN B \cup {t} ELSE B
  BY DEF Busy, Where
<1>4. Asleep(moved) = IF x \in {"waiting", "woken"} THEN A \cup {t} ELSE A
  BY DEF Asleep, Where
<1> QED
  BY <1>1, <1>2, <1>3, <1>4

\* How many threads are busy or asleep, one of them left out.
LEMMA LeftOut ==
  ASSUME NEW t \in Thread, NEW wake \in [Thread -> Where]
  PROVE  /\ Cardinality(Busy(wake) \ {t}) = Cardinality(Busy(wake))
               - (IF wake[t] \in {"working", "finished"} THEN 1 ELSE 0)
         /\ Cardinality(Asleep(wake) \ {t}) = Cardinality(Asleep(wake))
               - (IF wake[t] \in {"waiting", "woken"} THEN 1 ELSE 0)
         /\ {Cardinality(Busy(wake)), Cardinality(Asleep(wake)),
             Cardinality(Busy(wake) \ {t}), Cardinality(Asleep(wake) \ {t})} \subseteq Nat
<1>1. /\ IsFiniteSet(Busy(wake)) /\ IsFiniteSet(Asleep(wake))
      /\ {Cardinality(Busy(wake)), Cardinality(Asleep(wake)),
          Cardinality(Busy(wake) \ {t}), Cardinality(Asleep(wake) \ {t})} \subseteq Nat
  BY Finite DEF Busy, Asleep
<1>2. /\ t \in Busy(wake) <=> wake[t] \in {"working", "finished"}
      /\ t \in Asleep(wake) <=> wake[t] \in {"waiting", "woken"}
  BY DEF Busy, Asleep
<1>3. /\ Cardinality(Busy(wake) \ {t}) = IF t \in Busy(wake) THEN Cardinality(Busy(wake)) - 1
                                          ELSE Cardinality(Busy(wake))
      /\ Cardinality(Asleep(wake) \ {t}) = IF t \in Asleep(wake) THEN Cardinality(Asleep(wake)) - 1
                                            ELSE Cardinality(Asleep(wake))
  BY <1>1, FS_RemoveElement, Zenon
<1> QED
  BY <1>1, <1>2, <1>3

\* BatchSize is at least one: a batch that is taken is not empty.
LEMMA BatchTaken ==
  ASSUME NEW total \in Nat, NEW idle \in Nat, queue \subseteq Check,
         NEW b \in kSubset(BatchSize(total, idle), queue)
  PROVE  b \subseteq queue /\ b # {}
<1> DEFINE m == Min({nBatchSize, Cardinality(queue) \div (total + idle + 1)})
<1>1. b \subseteq queue /\ Cardinality(b) = Max({1, m})
  BY DEF kSubset, BatchSize
<1>2. Cardinality(queue) \div (total + idle + 1) \in Int
  BY Finite
<1>3. m \in Int
  <2> DEFINE d == Cardinality(queue) \div (total + idle + 1)
  <2>1. nBatchSize \in Int /\ d \in Int
    BY <1>2, CheckQueueAssumption
  <2> HIDE DEF d
  <2>2. Min({nBatchSize, d}) \in Int
    BY <2>1 DEF Min
  <2> QED
    BY <2>2 DEF d
<1> HIDE DEF m
<1>4. Max({1, m}) >= 1
  BY <1>3 DEF Max
<1> QED
  BY <1>1, <1>4, FS_EmptySet

-----------------------------------------------------------------------------
(* The ways out of the section. *)

\* What is held after t's batch has been replaced by b.
LEMMA Replaced ==
  ASSUME TypeOK, NEW t \in Thread, NEW b, batch' = [batch EXCEPT ![t] = b]
  PROVE  /\ Held(Thread)' = Held(Thread \ {t}) \cup b
         /\ \A u \in Thread \ {t} : batch'[u] = batch[u]
         /\ batch'[t] = b
<1>1. /\ \A u \in Thread \ {t} : batch'[u] = batch[u]
      /\ batch'[t] = b
  BY DEF TypeOK
<1> QED
  BY <1>1 DEF Held

\* To sleep keeps the invariant.
LEMMA SleepKeeps ==
  ASSUME IInv, NEW t \in Thread, NEW total, NEW idle, NEW ok, NEW todo, NEW wake,
         Mid(t, total, idle, ok, todo, wake), Sleep(t, total, idle, ok, todo, wake)
  PROVE  IInv'
<1> USE DEF Sleep, IInv
<1>1. /\ Held(Thread)' = Held(Thread \ {t})
      /\ \A u \in Thread \ {t} : batch'[u] = batch[u]
      /\ batch'[t] = {}
  <2>1. TypeOK /\ batch' = [batch EXCEPT ![t] = {}]
    OBVIOUS
  <2> HIDE DEF Sleep, Return, IInv
  <2>2. /\ Held(Thread)' = Held(Thread \ {t}) \cup {}
        /\ \A u \in Thread \ {t} : batch'[u] = batch[u]
        /\ batch'[t] = {}
    BY <2>1, Replaced, Zenon
  <2> QED
    BY <2>2
<1>2. /\ wake \in [Thread -> Where] /\ pc' = [wake EXCEPT ![t] = "waiting"]
      /\ \A u \in Thread \ {t} : pc'[u] = wake[u]
      /\ pc'[t] = "waiting"
  BY DEF Mid, Where
<1>3. TypeOK'
  <2>1. idle \in Nat /\ total \in Nat /\ todo \in Nat
    BY DEF Mid
  <2>2. batch' \in [Thread -> SUBSET Check]
    BY DEF TypeOK
  <2>3. {nIdle', nTotal', nTodo'} \subseteq Nat /\ pc' \in [Thread -> Where]
    BY <1>2, <2>1 DEF Where
  <2> QED
    BY <2>2, <2>3 DEF TypeOK, Mid, Where
<1>4. Counted'
  <2>1. /\ Cardinality(Busy(pc')) = Cardinality(Busy(wake) \ {t}) + 0
        /\ Cardinality(Asleep(pc')) = Cardinality(Asleep(wake) \ {t}) + 1
    <3>1. "waiting" \in Where
      BY DEF Where
    <3>2. wake \in [Thread -> Where] /\ pc' = [wake EXCEPT ![t] = "waiting"]
      BY <1>2
    <3> HIDE DEF Sleep, Return, IInv
    <3>3. Cardinality(Busy(pc')) = Cardinality(Busy(wake) \ {t})
            + (IF "waiting" \in {"working", "finished"} THEN 1 ELSE 0)
      BY <3>1, <3>2, Moved, Zenon
    <3>4. Cardinality(Asleep(pc')) = Cardinality(Asleep(wake) \ {t})
            + (IF "waiting" \in {"waiting", "woken"} THEN 1 ELSE 0)
      BY <3>1, <3>2, Moved, Zenon
    <3> QED
      BY <3>3, <3>4
  <2>2. Busy(pc)' = Busy(pc') /\ Asleep(pc)' = Asleep(pc')
    BY DEF Busy, Asleep
  <2> QED
    BY <2>1, <2>2, <1>2, LeftOut DEF Counted, Mid
<1>5. \A u \in Thread : u \in Busy(pc)' <=> u # t /\ u \in Busy(pc)
  BY <1>2 DEF Busy, Mid
<1>6. Placed'
  <2>1. TodoExact'
    <3>1. nTodo' = Cardinality(queue' \cup Held(Thread)')
      BY <1>1, Zenon DEF Mid
    <3> QED
      BY <3>1, <1>1 DEF TodoExact, Placed, Held
  <2>2. (queue \cup Held(Thread) \subseteq added)'
    BY <1>1 DEF Placed, Held
  <2> QED
    BY <1>1, <1>5, <2>1, <2>2, Zenon DEF Placed
<1>7. InPhase'
  <2>1. (phase = "none" => queue = {} /\ Held(Thread) = {} /\ fAllOk)'
    BY <1>1 DEF InPhase, Mid, Held
  <2> QED
    BY <1>2, <2>1, Zenon DEF InPhase, Mid, Thread
<1>8. Judged'
  <2>1. (\A u \in Busy(pc) : ~fOk[u] => added \cap Bad # {})'
    BY <1>5 DEF Judged, Busy
  <2>2. (\A u \in Thread : pc[u] = "finished" /\ fOk[u] => batch[u] \cap Bad = {})'
    BY <1>1, <1>2 DEF Judged, Mid
  <2>3. (phase # "none" /\ fAllOk => added \cap Bad \subseteq queue \cup Held(Thread))'
    BY <1>1, Zenon DEF Mid
  <2> QED
    BY <2>1, <2>2, <2>3, Zenon DEF Judged, Mid, VerdictExact
<1> QED
  BY <1>3, <1>4, <1>6, <1>7, <1>8

\* The master returns only with the verdict of all checks it added.
LEMMA ReturnKeeps ==
  ASSUME IInv, NEW t \in Thread, NEW total, NEW idle, NEW ok, NEW todo, NEW wake,
         Mid(t, total, idle, ok, todo, wake), Return(t, total, idle, ok, todo, wake)
  PROVE  IInv'
<1> USE DEF Return, IInv
<1>1. /\ Held(Thread)' = Held(Thread \ {t})
      /\ \A u \in Thread \ {t} : batch'[u] = batch[u]
      /\ batch'[t] = {}
  <2>1. TypeOK /\ batch' = [batch EXCEPT ![t] = {}]
    OBVIOUS
  <2> HIDE DEF Sleep, Return, IInv
  <2>2. /\ Held(Thread)' = Held(Thread \ {t}) \cup {}
        /\ \A u \in Thread \ {t} : batch'[u] = batch[u]
        /\ batch'[t] = {}
    BY <2>1, Replaced, Zenon
  <2> QED
    BY <2>2
<1>2. /\ wake \in [Thread -> Where] /\ pc' = [wake EXCEPT ![t] = "out"]
      /\ \A u \in Thread \ {t} : pc'[u] = wake[u]
      /\ pc'[t] = "out" /\ t = Master /\ todo = 0
      /\ phase \in {"wait", "unwind"}
  BY DEF Mid, Where, MayReturn
<1>3. total \in Nat /\ idle \in Nat /\ total = idle + 1 + Cardinality(Busy(wake) \ {t})
  BY DEF Mid
<1>4. Cardinality(Busy(wake) \ {t}) \in Nat
  BY <1>2, LeftOut, Zenon
<1>5. TypeOK'
  <2>1. nTotal' \in Nat
    BY <1>3, <1>4 DEF Left
  <2> QED
    BY <1>2, <2>1, Zenon DEF TypeOK, Mid, Where
<1>6. Counted'
  <2>1. /\ Cardinality(Busy(pc')) = Cardinality(Busy(wake) \ {t}) + 0
        /\ Cardinality(Asleep(pc')) = Cardinality(Asleep(wake) \ {t}) + 0
    <3>1. "out" \in Where
      BY DEF Where
    <3>2. wake \in [Thread -> Where] /\ pc' = [wake EXCEPT ![t] = "out"]
      BY <1>2
    <3> HIDE DEF Sleep, Return, IInv
    <3>3. Cardinality(Busy(pc')) = Cardinality(Busy(wake) \ {t})
            + (IF "out" \in {"working", "finished"} THEN 1 ELSE 0)
      BY <3>1, <3>2, Moved, Zenon
    <3>4. Cardinality(Asleep(pc')) = Cardinality(Asleep(wake) \ {t})
            + (IF "out" \in {"waiting", "woken"} THEN 1 ELSE 0)
      BY <3>1, <3>2, Moved, Zenon
    <3> QED
      BY <3>3, <3>4
  <2>2. Busy(pc)' = Busy(pc') /\ Asleep(pc)' = Asleep(pc')
    BY DEF Busy, Asleep
  <2> QED
    BY <2>1, <2>2, <1>2, <1>3, <1>4, LeftOut DEF Counted, Mid, Left
<1>7. \A u \in Thread : u \in Busy(pc)' <=> u # t /\ u \in Busy(pc)
  BY <1>2 DEF Busy, Mid
<1>8. Held(Thread \ {t}) = {} /\ queue = {}
  <2>1. Held(Thread \ {t}) \subseteq Check
    BY DEF Held, TypeOK
  <2>2. IsFiniteSet(Held(Thread \ {t})) /\ Cardinality(queue \cup Held(Thread \ {t})) = 0
    BY <2>1, <1>2, Finite, Zenon DEF Mid
  <2>3. queue \cup Held(Thread \ {t}) = Held(Thread \ {t})
    OBVIOUS
  <2> QED
    BY <2>2, <2>3, FS_EmptySet
<1>9. Placed'
  <2>1. TodoExact'
    <3>1. nTodo' = Cardinality(queue' \cup Held(Thread)')
      BY <1>1, Zenon DEF Mid
    <3> QED
      BY <3>1, <1>1 DEF TodoExact, Placed, Held
  <2>2. (queue \cup Held(Thread) \subseteq added)'
    BY <1>1, <1>8
  <2> QED
    BY <1>1, <1>7, <2>1, <2>2, Zenon DEF Placed
<1>10. InPhase'
  BY <1>1, <1>2, <1>8 DEF InPhase
<1>11. Judged'
  <2>1. (\A u \in Busy(pc) : ~fOk[u] => added \cap Bad # {})'
    BY <1>7 DEF Judged, Busy
  <2>2. (\A u \in Thread : pc[u] = "finished" /\ fOk[u] => batch[u] \cap Bad = {})'
    BY <1>1, <1>2 DEF Judged, Mid
  <2>3. ok <=> added \cap Bad = {}
    BY <1>2, <1>8, Zenon DEF Mid
  <2>4. VerdictExact'
    BY <1>2, <2>3 DEF VerdictExact, Judged
  <2> QED
    BY <2>1, <2>2, <2>4, Zenon DEF Judged
<1> QED
  BY <1>5, <1>6, <1>9, <1>10, <1>11

\* A batch moves from the queue to the thread that takes it.
LEMMA TakeKeeps ==
  ASSUME IInv, NEW t \in Thread, NEW total, NEW idle, NEW ok, NEW todo, NEW wake,
         Mid(t, total, idle, ok, todo, wake), Take(t, total, idle, ok, todo, wake)
  PROVE  IInv'
<1> USE DEF IInv
<1>1. PICK b \in kSubset(BatchSize(total, idle), queue) :
        queue' = queue \ b /\ batch' = [batch EXCEPT ![t] = b]
  BY Zenon DEF Take
<1>2. b \subseteq queue /\ b # {} /\ queue \subseteq Check
  <2>1. total \in Nat /\ idle \in Nat /\ queue \subseteq Check
    BY DEF Mid, TypeOK
  <2> QED
    BY <2>1, BatchTaken
<1>3. /\ Held(Thread)' = Held(Thread \ {t}) \cup b
      /\ \A u \in Thread \ {t} : batch'[u] = batch[u]
      /\ batch'[t] = b
  <2>1. TypeOK
    OBVIOUS
  <2> HIDE DEF IInv
  <2> QED
    BY <2>1, <1>1, Replaced, Zenon
<1>4. queue' \cup Held(Thread)' = queue \cup Held(Thread \ {t})
  BY <1>1, <1>2, <1>3
<1>5. /\ wake \in [Thread -> Where] /\ pc' = [wake EXCEPT ![t] = "working"]
      /\ \A u \in Thread \ {t} : pc'[u] = wake[u]
      /\ pc'[t] = "working"
  BY DEF Mid, Where, Take
<1>6. /\ fOk \in [Thread -> BOOLEAN] /\ fOk' = [fOk EXCEPT ![t] = ok] /\ ok \in BOOLEAN
      /\ \A u \in Thread \ {t} : fOk'[u] = fOk[u]
      /\ fOk'[t] = ok
  BY DEF Mid, TypeOK, Take
<1>7. TypeOK'
  <2>1. idle \in Nat /\ total \in Nat /\ todo \in Nat
    BY DEF Mid
  <2>2. batch' \in [Thread -> SUBSET Check]
    BY <1>1, <1>2 DEF TypeOK
  <2>3. {nIdle', nTotal', nTodo'} \subseteq Nat /\ pc' \in [Thread -> Where]
    BY <1>5, <2>1 DEF Where, Take
  <2>4. fOk' \in [Thread -> BOOLEAN] /\ fAllOk' \in BOOLEAN
    BY <1>6 DEF Take
  <2> QED
    BY <1>1, <1>2, <2>2, <2>3, <2>4 DEF TypeOK, Where, Take
<1>8. Counted'
  <2>1. /\ Cardinality(Busy(pc')) = Cardinality(Busy(wake) \ {t}) + 1
        /\ Cardinality(Asleep(pc')) = Cardinality(Asleep(wake) \ {t}) + 0
    <3>1. "working" \in Where
      BY DEF Where
    <3>2. wake \in [Thread -> Where] /\ pc' = [wake EXCEPT ![t] = "working"]
      BY <1>5
    <3> HIDE DEF IInv
    <3>3. Cardinality(Busy(pc')) = Cardinality(Busy(wake) \ {t})
            + (IF "working" \in {"working", "finished"} THEN 1 ELSE 0)
      BY <3>1, <3>2, Moved, Zenon
    <3>4. Cardinality(Asleep(pc')) = Cardinality(Asleep(wake) \ {t})
            + (IF "working" \in {"waiting", "woken"} THEN 1 ELSE 0)
      BY <3>1, <3>2, Moved, Zenon
    <3> QED
      BY <3>3, <3>4
  <2>2. Busy(pc)' = Busy(pc') /\ Asleep(pc)' = Asleep(pc')
    BY DEF Busy, Asleep
  <2> QED
    <3>1. /\ Cardinality(Busy(wake) \ {t}) \in Nat /\ Cardinality(Asleep(wake) \ {t}) \in Nat
      BY <1>5, LeftOut, Zenon
    <3>2. /\ total = idle + 1 + Cardinality(Busy(wake) \ {t}) /\ idle \in Nat
          /\ Cardinality(Asleep(wake) \ {t}) <= idle
          /\ nTotal' = total /\ nIdle' = idle
      BY DEF Mid, Take
    <3> HIDE DEF IInv
    <3> QED
      BY <2>1, <2>2, <3>1, <3>2 DEF Counted
<1>9. \A u \in Thread : u \in Busy(pc)' <=> u = t \/ u \in Busy(pc)
  BY <1>5 DEF Busy, Mid
<1>10. Placed'
  <2>1. TodoExact'
    <3>1. nTodo' = Cardinality(queue' \cup Held(Thread)')
      BY <1>4, Zenon DEF Mid, Take
    <3>2. (\A u \in Thread : batch[u] \cap queue = {})'
      BY <1>1, <1>3 DEF Placed, TodoExact
    <3>3. \A u \in Thread \ {t} : batch'[u] \cap batch'[t] = {}
      BY <1>2, <1>3 DEF Placed, TodoExact
    <3>4. (\A u, v \in Thread : u # v => batch[u] \cap batch[v] = {})'
      BY <1>3, <3>3 DEF Placed, TodoExact
    <3> QED
      BY <3>1, <3>2, <3>4 DEF TodoExact, Held
  <2>2. (queue \cup Held(Thread) \subseteq added)'
    <3>1. Held(Thread \ {t}) \subseteq Held(Thread)
      BY DEF Held
    <3> QED
      BY <1>4, <3>1 DEF Placed, Take
  <2> QED
    BY <1>2, <1>3, <1>9, <2>1, <2>2 DEF Placed
<1>11. InPhase'
  <2>1. phase # "none"
    BY <1>2 DEF InPhase
  <2> QED
    BY <1>5, <2>1 DEF InPhase, Mid, Thread, Take
<1>12. Judged'
  <2>1. (\A u \in Busy(pc) : ~fOk[u] => added \cap Bad # {})'
    BY <1>6, <1>9 DEF Judged, Busy, Mid, Take
  <2>2. (\A u \in Thread : pc[u] = "finished" /\ fOk[u] => batch[u] \cap Bad = {})'
    BY <1>3, <1>5, <1>6 DEF Judged, Mid
  <2>3. (phase # "none" /\ fAllOk => added \cap Bad \subseteq queue \cup Held(Thread))'
    BY <1>4, Zenon DEF Mid, Take
  <2> QED
    BY <2>1, <2>2, <2>3, Zenon DEF Judged, Mid, VerdictExact, Take
<1> QED
  BY <1>7, <1>8, <1>10, <1>11, <1>12

\* Every way out of the section keeps the invariant.
LEMMA SectionKeeps ==
  ASSUME IInv, NEW t \in Thread, NEW total, NEW idle, NEW ok, NEW todo, NEW wake,
         Mid(t, total, idle, ok, todo, wake), Section(t, total, idle, ok, todo, wake)
  PROVE  IInv'
BY SleepKeeps, ReturnKeeps, TakeKeeps DEF Section

-----------------------------------------------------------------------------
(* The ways into the section. *)

\* A thread that holds nothing is counted off without a change of what is held.
LEMMA EmptyHanded ==
  ASSUME IInv, NEW t \in Thread, t \notin Busy(pc)
  PROVE  /\ Held(Thread \ {t}) = Held(Thread)
         /\ Busy(pc) \ {t} = Busy(pc)
         /\ nTodo = Cardinality(queue \cup Held(Thread))
<1>1. batch[t] = {}
  BY DEF IInv, Placed
<1>2. Held(Thread \ {t}) = Held(Thread)
  BY <1>1 DEF Held
<1> QED
  BY <1>2 DEF IInv, Placed, TodoExact, Held

\* What of Mid does not depend on how t came in.
LEMMA EnterMid ==
  ASSUME IInv, NEW t \in Thread, NEW total \in Nat, NEW idle \in Nat,
         t \notin Busy(pc), pc[t] \notin {"out", "gone"},
         total = idle + 1 + Cardinality(Busy(pc)),
         Cardinality(Asleep(pc) \ {t}) <= idle
  PROVE  Mid(t, total, idle, fAllOk, nTodo, pc)
<1> USE DEF IInv
<1>1. /\ Held(Thread \ {t}) = Held(Thread)
      /\ Busy(pc) \ {t} = Busy(pc)
      /\ nTodo = Cardinality(queue \cup Held(Thread))
  BY EmptyHanded, Zenon
<1>2. pc \in [Thread -> Where] /\ nTodo \in Nat /\ fAllOk \in BOOLEAN
  BY DEF TypeOK, Where
<1>3. /\ t = Master => phase \in {"wait", "unwind"}
      /\ phase \in {"none", "open"} => pc[Master] = "out"
      /\ phase \in {"wait", "unwind"} => pc[Master] \notin {"out", "gone"}
      /\ phase = "none" => fAllOk
  BY DEF InPhase, TypeOK
<1>4. /\ ~fAllOk => added \cap Bad # {}
      /\ phase # "none" /\ fAllOk => added \cap Bad \subseteq queue \cup Held(Thread \ {t})
  BY <1>1 DEF Judged
<1> HIDE DEF IInv
<1> QED
  BY <1>1, <1>2, <1>3, <1>4, Zenon DEF Mid

\* A thread that enters Loop.
LEMMA FirstIterationKeeps ==
  ASSUME IInv, NEW t \in Thread, FirstIteration(t)
  PROVE  IInv'
<1>1. t \notin Busy(pc) /\ pc[t] \notin {"out", "gone"}
  BY DEF FirstIteration, Busy
<1>2. /\ nTotal + 1 \in Nat /\ nIdle \in Nat /\ pc \in [Thread -> Where]
      /\ nTotal = nIdle + Cardinality(Busy(pc))
      /\ Cardinality(Asleep(pc)) <= nIdle
  BY DEF IInv, TypeOK, Counted, Where
<1>3. /\ nTotal + 1 = nIdle + 1 + Cardinality(Busy(pc))
      /\ Cardinality(Asleep(pc) \ {t}) <= nIdle
  <2>1. /\ Cardinality(Asleep(pc) \ {t}) = Cardinality(Asleep(pc))
             - (IF pc[t] \in {"waiting", "woken"} THEN 1 ELSE 0)
        /\ Cardinality(Busy(pc)) \in Nat /\ Cardinality(Asleep(pc)) \in Nat
    BY <1>2, LeftOut, Zenon
  <2> QED
    BY <1>2, <2>1
<1>4. Mid(t, nTotal + 1, nIdle, fAllOk, nTodo, pc)
  BY <1>1, <1>2, <1>3, EnterMid
<1> QED
  BY <1>4, SectionKeeps DEF FirstIteration

\* A thread that was woken: it counts itself off nIdle, which counted it.
LEMMA WokenKeeps ==
  ASSUME IInv, NEW t \in Thread, Woken(t)
  PROVE  IInv'
<1>1. pc[t] = "woken" /\ t \notin Busy(pc) /\ pc[t] \notin {"out", "gone"}
  BY DEF Woken, Busy
<1>2. /\ nTotal \in Nat /\ nIdle \in Nat /\ pc \in [Thread -> Where]
      /\ nTotal = nIdle + Cardinality(Busy(pc))
      /\ Cardinality(Asleep(pc)) <= nIdle
  BY DEF IInv, TypeOK, Counted, Where
<1>3. /\ Cardinality(Asleep(pc) \ {t}) = Cardinality(Asleep(pc)) - 1
      /\ {Cardinality(Busy(pc)), Cardinality(Asleep(pc)), Cardinality(Asleep(pc) \ {t})} \subseteq Nat
  BY <1>1, <1>2, LeftOut, Zenon
<1>4. /\ nIdle - 1 \in Nat
      /\ nTotal = (nIdle - 1) + 1 + Cardinality(Busy(pc))
      /\ Cardinality(Asleep(pc) \ {t}) <= nIdle - 1
  BY <1>2, <1>3
<1>5. Mid(t, nTotal, nIdle - 1, fAllOk, nTodo, pc)
  BY <1>1, <1>2, <1>4, EnterMid
<1> QED
  BY <1>5, SectionKeeps DEF Woken

\* A thread that has run its batch: the batch leaves nTodo, its result goes to
\* fAllOk, and the master is woken when nothing is left.
LEMMA CleanUpKeeps ==
  ASSUME IInv, NEW t \in Thread, CleanUp(t)
  PROVE  IInv'
<1> DEFINE todo == nTodo - Cardinality(batch[t])
           wake == NotifyMaster(t, todo)
           rest == queue \cup Held(Thread \ {t})
<1>1. /\ pc[t] = "finished" /\ t \in Busy(pc)
      /\ Section(t, nTotal, nIdle, AllOk(t), todo, wake)
  BY DEF CleanUp, Busy
<1>2. /\ pc \in [Thread -> Where] /\ fOk \in [Thread -> BOOLEAN]
      /\ nTotal \in Nat /\ nIdle \in Nat /\ fAllOk \in BOOLEAN
      /\ queue \subseteq Check /\ \A u \in Thread : batch[u] \subseteq Check
  BY DEF IInv, TypeOK, Where
<1>3. batch[t] # {} /\ batch[t] \cap queue = {} /\ \A u \in Thread \ {t} : batch[t] \cap batch[u] = {}
  BY <1>1 DEF IInv, Placed, TodoExact
<1>4. /\ rest \cap batch[t] = {}
      /\ queue \cup Held(Thread) = rest \cup batch[t]
  BY <1>3 DEF Held
<1>5. /\ IsFiniteSet(rest) /\ IsFiniteSet(batch[t])
      /\ Cardinality(rest) \in Nat /\ Cardinality(batch[t]) \in Nat
  <2>1. rest \subseteq Check
    BY <1>2 DEF Held
  <2> HIDE DEF rest
  <2> QED
    BY <2>1, <1>2, Finite
<1>6. todo = Cardinality(rest) /\ todo \in Nat
  <2>1. nTodo = Cardinality(rest \cup batch[t])
    BY <1>4, Zenon DEF IInv, Placed, TodoExact, Held
  <2> HIDE DEF rest
  <2>2. Cardinality(rest \cup batch[t]) = Cardinality(rest) + Cardinality(batch[t]) - Cardinality({})
    BY <1>4, <1>5, FS_Union
  <2> QED
    BY <1>5, <2>1, <2>2, FS_EmptySet
<1>7. /\ wake \in [Thread -> Where]
      /\ \A u \in Thread :
           \/ wake[u] = pc[u]
           \/ u = Master /\ t # Master /\ pc[u] = "waiting" /\ wake[u] = "woken"
  <2>1. Master \in Thread /\ "woken" \in Where
    BY DEF Thread, Where
  <2>2. \/ wake = pc
        \/ wake = [pc EXCEPT ![Master] = "woken"] /\ t # Master /\ pc[Master] = "waiting"
    BY DEF NotifyMaster
  <2> HIDE DEF wake
  <2>3. CASE wake = pc
    BY <1>2, <2>3
  <2>4. CASE wake = [pc EXCEPT ![Master] = "woken"] /\ t # Master /\ pc[Master] = "waiting"
    <3>1. wake \in [Thread -> Where]
      BY <1>2, <2>1, <2>4
    <3>2. \A u \in Thread : wake[u] = IF u = Master THEN "woken" ELSE pc[u]
      BY <1>2, <2>1, <2>4
    <3> QED
      BY <2>4, <3>1, <3>2
  <2> QED
    BY <2>2, <2>3, <2>4
<1>8. Busy(wake) = Busy(pc) /\ Asleep(wake) = Asleep(pc)
  <2> HIDE DEF wake
  <2> QED
    BY <1>7 DEF Busy, Asleep
<1>9. phase # "none"
  BY <1>3 DEF IInv, InPhase, Held
<1>10. /\ nTotal = nIdle + 1 + Cardinality(Busy(wake) \ {t})
       /\ Cardinality(Asleep(wake) \ {t}) <= nIdle
  <2>1. nTotal = nIdle + Cardinality(Busy(pc)) /\ Cardinality(Asleep(pc)) <= nIdle
    BY DEF IInv, Counted
  <2>2. /\ Cardinality(Busy(pc) \ {t}) = Cardinality(Busy(pc))
             - (IF pc[t] \in {"working", "finished"} THEN 1 ELSE 0)
        /\ Cardinality(Asleep(pc) \ {t}) = Cardinality(Asleep(pc))
             - (IF pc[t] \in {"waiting", "woken"} THEN 1 ELSE 0)
        /\ {Cardinality(Busy(pc)), Cardinality(Asleep(pc))} \subseteq Nat
    BY <1>2, LeftOut, Zenon
  <2> HIDE DEF wake
  <2> QED
    BY <1>1, <1>2, <1>8, <2>1, <2>2
<1>11. /\ AllOk(t) \in BOOLEAN
       /\ ~AllOk(t) => added \cap Bad # {}
       /\ AllOk(t) => added \cap Bad \subseteq rest
  <2>1. ~AllOk(t) => added \cap Bad # {}
    BY <1>1, <1>2 DEF AllOk, IInv, Judged
  <2>2. AllOk(t) => batch[t] \cap Bad = {} /\ added \cap Bad \subseteq queue \cup Held(Thread)
    BY <1>1, <1>9 DEF AllOk, IInv, Judged
  <2> QED
    BY <1>2, <1>4, <2>1, <2>2, Zenon DEF AllOk
<1>12. /\ t = Master => phase \in {"wait", "unwind"}
       /\ t # Master =>
            /\ phase \in {"none", "open"} => wake[Master] = "out"
            /\ phase \in {"wait", "unwind"} => wake[Master] \notin {"out", "gone"}
  <2> HIDE DEF wake
  <2> QED
    BY <1>1, <1>7 DEF IInv, InPhase, TypeOK, Thread
<1>13. \A u \in Thread \ {t} :
         /\ u \in Busy(wake) <=> u \in Busy(pc)
         /\ wake[u] = "finished" => pc[u] = "finished"
  <2> HIDE DEF wake
  <2> QED
    BY <1>7, <1>8
<1>14. Mid(t, nTotal, nIdle, AllOk(t), todo, wake)
  <2>1. todo = Cardinality(queue \cup Held(Thread \ {t})) /\ todo \in Nat
    BY <1>6
  <2>2. phase # "none" /\ AllOk(t) => added \cap Bad \subseteq queue \cup Held(Thread \ {t})
    BY <1>11
  <2> HIDE DEF todo, wake, rest
  <2> QED
    BY <1>2, <1>7, <1>9, <1>10, <1>11, <1>12, <1>13, <2>1, <2>2, Zenon DEF Mid
<1> HIDE DEF todo, wake
<1> QED
  BY <1>1, <1>14, SectionKeeps

-----------------------------------------------------------------------------
(* The other steps. *)

\* Steps that move threads from one place to another of the same kind.
LEMMA SameKind ==
  ASSUME IInv, UNCHANGED <<queueVars, batch>>, pc' \in [Thread -> Where],
         Busy(pc') = Busy(pc), Asleep(pc') \subseteq Asleep(pc)
  PROVE  Counted' /\ Held(Thread)' = Held(Thread) /\ Busy(pc)' = Busy(pc)
<1>1. /\ Asleep(pc)' = Asleep(pc') /\ Busy(pc)' = Busy(pc')
      /\ Held(Thread)' = Held(Thread)
  BY DEF Asleep, Busy, Held
<1>2. Cardinality(Asleep(pc')) <= Cardinality(Asleep(pc))
  <2>1. Asleep(pc) \subseteq Thread
    BY DEF Asleep
  <2> QED
    BY <2>1, Finite, FS_Subset
<1>3. {Cardinality(Asleep(pc')), Cardinality(Asleep(pc)), nIdle} \subseteq Nat
  BY Finite DEF Asleep, IInv, TypeOK
<1> QED
  BY <1>1, <1>2, <1>3 DEF Counted, IInv, queueVars

\* A batch is run outside the mutex.
LEMMA ExecuteKeeps ==
  ASSUME IInv, NEW t \in Thread, Execute(t)
  PROVE  IInv'
<1>1. /\ pc \in [Thread -> Where] /\ pc' = [pc EXCEPT ![t] = "finished"] /\ pc[t] = "working"
      /\ fOk \in [Thread -> BOOLEAN]
      /\ fOk' = [fOk EXCEPT ![t] = fOk[t] /\ batch[t] \cap Bad = {}]
      /\ UNCHANGED <<queueVars, batch, controlVars>>
  BY DEF Execute, IInv, TypeOK, Where
<1>2. /\ pc' \in [Thread -> Where] /\ fOk' \in [Thread -> BOOLEAN]
      /\ \A u \in Thread : pc'[u] = IF u = t THEN "finished" ELSE pc[u]
      /\ \A u \in Thread : u # t => fOk'[u] = fOk[u]
      /\ fOk'[t] <=> fOk[t] /\ batch[t] \cap Bad = {}
  BY <1>1, Zenon DEF Where
<1>3. Busy(pc') = Busy(pc) /\ Asleep(pc') = Asleep(pc)
  BY <1>1, <1>2 DEF Busy, Asleep
<1>4. Counted' /\ Held(Thread)' = Held(Thread) /\ Busy(pc)' = Busy(pc)
  BY <1>1, <1>2, <1>3, SameKind, Zenon
<1>5. TypeOK'
  BY <1>1, <1>2 DEF IInv, TypeOK, Where, queueVars, controlVars
<1>6. Placed'
  BY <1>1, <1>4 DEF IInv, Placed, TodoExact, queueVars, controlVars
<1>7. InPhase'
  BY <1>1, <1>2, <1>4 DEF IInv, InPhase, queueVars, controlVars, Thread
<1>8. Judged'
  <2>1. t \in Busy(pc) /\ batch[t] \subseteq added
    BY <1>1 DEF Busy, IInv, Placed, Held
  <2>2. (\A u \in Busy(pc) : ~fOk[u] => added \cap Bad # {})'
    BY <1>1, <1>2, <1>4, <2>1 DEF IInv, Judged, Busy, controlVars
  <2>3. (\A u \in Thread : pc[u] = "finished" /\ fOk[u] => batch[u] \cap Bad = {})'
    BY <1>1, <1>2 DEF IInv, Judged
  <2> QED
    BY <1>1, <1>4, <2>2, <2>3, Zenon DEF IInv, Judged, VerdictExact, queueVars, controlVars
<1> QED
  BY <1>4, <1>5, <1>6, <1>7, <1>8 DEF IInv

\* A wait that ends by itself or by an interruption.
LEMMA WaitEnds ==
  ASSUME IInv, NEW t \in Thread, NEW x \in {"woken", "enter", "gone"}, t = Master => x # "gone",
         pc' = [pc EXCEPT ![t] = x], pc[t] \in {"waiting", "woken"},
         UNCHANGED <<queueVars, batch, fOk, added, verdict, sessions>>,
         pending' \subseteq pending, phase' = phase \/ (t = Master /\ phase' = "unwind")
  PROVE  IInv'
<1>1. /\ pc \in [Thread -> Where]
      /\ UNCHANGED <<queue, nIdle, nTotal, fAllOk, nTodo, batch, fOk, added, verdict, sessions>>
  BY DEF IInv, TypeOK, Where, queueVars
<1>2. /\ pc' \in [Thread -> Where]
      /\ \A u \in Thread : pc'[u] = IF u = t THEN x ELSE pc[u]
  BY <1>1 DEF Where
<1>3. Busy(pc') = Busy(pc) /\ Asleep(pc') \subseteq Asleep(pc)
  BY <1>1, <1>2 DEF Busy, Asleep
<1>4. Counted' /\ Held(Thread)' = Held(Thread) /\ Busy(pc)' = Busy(pc)
  BY <1>1, <1>2, <1>3, SameKind, Zenon
<1>5. TypeOK'
  BY <1>1, <1>2 DEF IInv, TypeOK, Where, queueVars
<1>6. Placed'
  BY <1>1, <1>4 DEF IInv, Placed, TodoExact, queueVars
<1>7. t = Master => phase \in {"wait", "unwind"}
  BY <1>1 DEF IInv, InPhase, TypeOK
<1>8. InPhase'
  BY <1>1, <1>2, <1>4, <1>7 DEF IInv, InPhase, queueVars, Thread
<1>9. Judged'
  <2>1. (\A u \in Thread : pc[u] = "finished" /\ fOk[u] => batch[u] \cap Bad = {})'
    BY <1>1, <1>2 DEF IInv, Judged
  <2>2. (\A u \in Busy(pc) : ~fOk[u] => added \cap Bad # {})'
    BY <1>1, <1>4 DEF IInv, Judged
  <2> QED
    BY <1>1, <1>4, <1>7, <2>1, <2>2 DEF IInv, Judged, VerdictExact, queueVars
<1> QED
  BY <1>4, <1>5, <1>6, <1>8, <1>9 DEF IInv

\* A spurious wake-up, and an interruption, which leaves the counters alone.
LEMMA WaitEndsKeeps ==
  ASSUME IInv, NEW t \in Thread, Spurious(t) \/ Throw(t)
  PROVE  IInv'
<1>1. CASE Spurious(t)
  <2>1. /\ pc' = [pc EXCEPT ![t] = "woken"] /\ pc[t] \in {"waiting", "woken"}
        /\ phase' = phase \/ (t = Master /\ phase' = "unwind")
        /\ UNCHANGED <<queueVars, batch, fOk, added, verdict, sessions>> /\ pending' \subseteq pending
    BY <1>1 DEF Spurious, controlVars
  <2>2. "woken" \in {"woken", "enter", "gone"} /\ (t = Master => "woken" # "gone")
    BY <1>1
  <2> QED
    BY <2>1, <2>2, WaitEnds, Zenon
<1>2. CASE Throw(t) /\ t = Master
  <2>1. /\ pc' = [pc EXCEPT ![t] = "enter"] /\ pc[t] \in {"waiting", "woken"}
        /\ phase' = phase \/ (t = Master /\ phase' = "unwind")
        /\ UNCHANGED <<queueVars, batch, fOk, added, verdict, sessions>> /\ pending' \subseteq pending
    BY <1>2 DEF Throw
  <2>2. "enter" \in {"woken", "enter", "gone"} /\ (t = Master => "enter" # "gone")
    BY <1>2
  <2> QED
    BY <2>1, <2>2, WaitEnds, Zenon
<1>3. CASE Throw(t) /\ t # Master
  <2>1. /\ pc' = [pc EXCEPT ![t] = "gone"] /\ pc[t] \in {"waiting", "woken"}
        /\ phase' = phase \/ (t = Master /\ phase' = "unwind")
        /\ UNCHANGED <<queueVars, batch, fOk, added, verdict, sessions>> /\ pending' \subseteq pending
    BY <1>3 DEF Throw
  <2>2. "gone" \in {"woken", "enter", "gone"} /\ (t = Master => "gone" # "gone")
    BY <1>3
  <2> QED
    BY <2>1, <2>2, WaitEnds, Zenon
<1> QED
  BY <1>1, <1>2, <1>3

\* The assertion of CCheckQueueControl holds when a block begins.
LEMMA ControlKeeps ==
  ASSUME IInv, Control
  PROVE  IInv'
<1>1. queue = {} /\ Held(Thread) = {} /\ fAllOk /\ phase = "none"
  BY DEF Control, IInv, InPhase
<1>2. Busy(pc) = {}
  <2>1. \A t \in Thread : batch[t] = {}
    BY <1>1 DEF Held
  <2> QED
    BY <2>1 DEF IInv, Placed, Busy
<1>3. nTotal = nIdle /\ nTodo = 0
  <2>1. nTotal = nIdle + Cardinality(Busy(pc)) /\ nIdle \in Nat
    BY DEF IInv, Counted, TypeOK
  <2>2. nTodo = Cardinality(queue \cup Held(Thread))
    BY DEF IInv, Placed, TodoExact, Held
  <2> QED
    BY <1>1, <1>2, <2>1, <2>2, FS_EmptySet
<1>4. phase' = "open" /\ added' = {} /\ verdict' = "none" /\ UNCHANGED <<queueVars, loopVars, pending>>
  BY <1>1, <1>3 DEF Control, IsIdle, IInv, TypeOK
<1>5. TypeOK'
  <2>1. sessions' \in 0 .. MaxSessions
    BY CheckQueueAssumption DEF Control, IInv, TypeOK
  <2> QED
    BY <1>4, <2>1 DEF IInv, TypeOK, queueVars, loopVars
<1>6. Counted' /\ Held(Thread)' = {} /\ Busy(pc)' = {}
  BY <1>1, <1>2, <1>4 DEF IInv, Counted, Busy, Asleep, Held, queueVars, loopVars
<1>7. Placed'
  BY <1>1, <1>2, <1>4, <1>6 DEF IInv, Placed, TodoExact, queueVars, loopVars
<1>8. InPhase'
  BY <1>1, <1>4 DEF IInv, InPhase, loopVars
<1>9. Judged'
  <2>1. (\A t \in Thread : pc[t] = "finished" /\ fOk[t] => batch[t] \cap Bad = {})'
    BY <1>4 DEF IInv, Judged, loopVars
  <2> QED
    BY <1>1, <1>4, <1>6, <2>1 DEF Judged, VerdictExact, queueVars
<1> QED
  BY <1>5, <1>6, <1>7, <1>8, <1>9 DEF IInv

\* ConnectBlock adds the checks of one more transaction.
LEMMA AddKeeps ==
  ASSUME IInv, NEW b \in SUBSET (Check \ added), Add(b)
  PROVE  IInv'
<1> DEFINE old == queue \cup Held(Thread)
<1>1. PICK w \in SUBSET Worker :
        /\ \A t \in w : pc[t] = "waiting"
        /\ pc' = [t \in Thread |-> IF t \in w THEN "woken" ELSE pc[t]]
  BY DEF Add
<1>2. /\ phase = "open" /\ phase' = "open" /\ queue' = queue \cup b /\ added' = added \cup b
      /\ nTodo' = nTodo + Cardinality(b)
      /\ UNCHANGED <<nIdle, nTotal, fAllOk, batch, fOk, verdict, pending, sessions>>
  BY DEF Add, Todo
<1>3. pc \in [Thread -> Where] /\ pc' \in [Thread -> Where]
  BY <1>1 DEF IInv, TypeOK, Where
<1>4. Busy(pc') = Busy(pc) /\ Asleep(pc') = Asleep(pc)
  BY <1>1, <1>3 DEF Busy, Asleep, Thread
<1>5. Held(Thread)' = Held(Thread) /\ Busy(pc)' = Busy(pc) /\ Asleep(pc)' = Asleep(pc)
  BY <1>2, <1>4 DEF Held, Busy, Asleep
<1>6. old \subseteq Check /\ old \subseteq added /\ b \subseteq Check /\ old \cap b = {}
  BY DEF IInv, Placed, TypeOK, Held
<1>7. nTodo' = Cardinality(old \cup b) /\ nTodo' \in Nat
  <2>1. nTodo = Cardinality(old)
    BY DEF IInv, Placed, TodoExact, Held
  <2> HIDE DEF old
  <2>2. /\ IsFiniteSet(old) /\ IsFiniteSet(b)
        /\ Cardinality(old) \in Nat /\ Cardinality(b) \in Nat
    BY <1>6, Finite
  <2>3. Cardinality(old \cup b) = Cardinality(old) + Cardinality(b) - Cardinality({})
    BY <1>6, <2>2, FS_Union
  <2> QED
    BY <1>2, <2>1, <2>2, <2>3, FS_EmptySet
<1>8. TypeOK'
  BY <1>2, <1>3, <1>6, <1>7 DEF IInv, TypeOK, Where
<1>9. Counted'
  BY <1>2, <1>5 DEF IInv, Counted
<1>10. Placed'
  <2>1. nTodo' = Cardinality(queue' \cup Held(Thread)')
    <3>1. old \cup b = queue' \cup Held(Thread)'
      BY <1>2, <1>5
    <3> HIDE DEF old
    <3> QED
      BY <1>7, <3>1
  <2>2. \A t \in Thread : batch[t] \cap b = {}
    BY <1>6 DEF Held
  <2>3. TodoExact'
    BY <1>2, <2>1, <2>2 DEF IInv, Placed, TodoExact, Held
  <2> QED
    BY <1>2, <1>5, <1>6, <2>3 DEF IInv, Placed
<1>11. InPhase'
  BY <1>1, <1>2, CheckQueueAssumption DEF IInv, InPhase, Thread
<1>12. Judged'
  <2>1. (\A t \in Thread : pc[t] = "finished" /\ fOk[t] => batch[t] \cap Bad = {})'
    BY <1>1, <1>2 DEF IInv, Judged
  <2>2. (\A t \in Busy(pc) : ~fOk[t] => added \cap Bad # {})'
    BY <1>2, <1>5 DEF IInv, Judged
  <2>3. verdict' = "none"
    BY <1>2 DEF IInv, Judged
  <2> QED
    BY <1>2, <1>5, <2>1, <2>2, <2>3 DEF IInv, Judged, VerdictExact
<1> QED
  BY <1>8, <1>9, <1>10, <1>11, <1>12 DEF IInv

\* ConnectBlock waits, or returns early and lets the destructor wait.
LEMMA JoinKeeps ==
  ASSUME IInv, Wait \/ Destroy
  PROVE  IInv'
<1>1. /\ phase = "open" /\ phase' \in {"wait", "unwind"} /\ pc' = [pc EXCEPT ![Master] = "enter"]
      /\ UNCHANGED <<queueVars, batch, fOk, added, verdict, pending, sessions>>
  BY DEF Wait, Destroy
<1>2. Master \in Thread /\ pc \in [Thread -> Where] /\ pc[Master] = "out"
  BY <1>1 DEF IInv, InPhase, TypeOK, Where, Thread
<1>3. /\ pc' \in [Thread -> Where]
      /\ \A u \in Thread : pc'[u] = IF u = Master THEN "enter" ELSE pc[u]
  BY <1>1, <1>2 DEF Where
<1>4. Busy(pc') = Busy(pc) /\ Asleep(pc') = Asleep(pc)
  BY <1>2, <1>3 DEF Busy, Asleep
<1>5. Counted' /\ Held(Thread)' = Held(Thread) /\ Busy(pc)' = Busy(pc)
  BY <1>1, <1>3, <1>4, SameKind, Zenon
<1>6. TypeOK'
  BY <1>1, <1>3 DEF IInv, TypeOK, Where, queueVars
<1>7. Placed'
  BY <1>1, <1>5 DEF IInv, Placed, TodoExact, queueVars
<1>8. InPhase'
  BY <1>1, <1>2, <1>3 DEF InPhase
<1>9. Judged'
  <2>1. (\A u \in Thread : pc[u] = "finished" /\ fOk[u] => batch[u] \cap Bad = {})'
    BY <1>1, <1>3 DEF IInv, Judged
  <2>2. (\A u \in Busy(pc) : ~fOk[u] => added \cap Bad # {})'
    BY <1>1, <1>5 DEF IInv, Judged
  <2> QED
    BY <1>1, <1>5, <2>1, <2>2 DEF IInv, Judged, VerdictExact, queueVars
<1> QED
  BY <1>5, <1>6, <1>7, <1>8, <1>9 DEF IInv

\* Nothing of IInv but the type of pending can tell these steps from a stutter.
LEMMA QuietKeeps ==
  ASSUME IInv, InterruptAll \/ UNCHANGED vars
  PROVE  IInv'
<1>1. /\ UNCHANGED <<queueVars, loopVars, phase, added, verdict, sessions>>
      /\ pending' \subseteq Thread
  BY DEF InterruptAll, vars, controlVars, IInv, TypeOK
<1>2. TypeOK'
  BY <1>1 DEF IInv, TypeOK, queueVars, loopVars
<1>3. Counted' /\ Placed'
  BY <1>1 DEF IInv, Counted, Placed, TodoExact, Busy, Asleep, Held, queueVars, loopVars
<1>4. InPhase'
  BY <1>1 DEF IInv, InPhase, Held, queueVars, loopVars
<1>5. Judged'
  BY <1>1 DEF IInv, Judged, VerdictExact, Busy, Held, queueVars, loopVars
<1> QED
  BY <1>2, <1>3, <1>4, <1>5 DEF IInv

\* The queue starts with no thread in Loop.
LEMMA InitEstablishes == Init => IInv
<1> SUFFICES ASSUME Init PROVE IInv
  OBVIOUS
<1>1. TypeOK
  BY CheckQueueAssumption DEF Init, TypeOK
<1>2. Held(Thread) = {} /\ Busy(pc) = {} /\ Asleep(pc) = {}
  BY DEF Init, Held, Busy, Asleep
<1>3. Counted
  BY <1>2, FS_EmptySet DEF Counted, Init
<1>4. Placed
  <2>1. UNION {batch[t] : t \in Thread} = {}
    BY <1>2 DEF Held
  <2>2. \A t \in Thread : batch[t] = {}
    BY DEF Init
  <2> QED
    BY <1>2, <2>1, <2>2, FS_EmptySet DEF Placed, TodoExact, Init
<1>5. InPhase
  BY <1>2 DEF InPhase, Init, Thread
<1>6. Judged
  BY <1>2 DEF Judged, VerdictExact, Init
<1> QED
  BY <1>1, <1>3, <1>4, <1>5, <1>6 DEF IInv

\* CCheckQueue, for every number of workers and checks and every batch size:
\* its counters are exact and the assertion of CCheckQueueControl holds; no
\* check outlives the scope of ConnectBlock that added it; and Wait reports a
\* failure exactly if one of the checks of this block fails.  Interruptions of
\* waiting threads and spurious wake-ups may happen at any time.
THEOREM QueueSafe == Spec => [](QueueSound /\ FinishedBeforeContinuing /\ VerdictExact)
<1>1. IInv => QueueSound /\ FinishedBeforeContinuing /\ VerdictExact
  <2>1. IInv => QueueSound /\ VerdictExact
    BY DEF IInv, QueueSound, Placed, InPhase, ControlFindsIdle, Judged
  <2>2. IInv => FinishedBeforeContinuing
    BY DEF IInv, InPhase, FinishedBeforeContinuing, Holding, Held
  <2> QED
    BY <2>1, <2>2
<1>2. IInv /\ [Next]_vars => IInv'
  BY FirstIterationKeeps, CleanUpKeeps, WokenKeeps, ExecuteKeeps, WaitEndsKeeps,
     ControlKeeps, AddKeeps, JoinKeeps, QuietKeeps DEF Next, Step
<1> QED
  BY InitEstablishes, <1>1, <1>2, PTL DEF Spec
=============================================================================
