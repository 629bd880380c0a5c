--------------------------- MODULE CheckQueueProofs ---------------------------
(***************************************************************************)
(* Proofs about CheckQueue, for every number of workers and checks and     *)
(* every batch size: the verdict that Wait returns for a block is the      *)
(* conjunction of the block's own checks.  QueueInv is inductive.          *)
(***************************************************************************)
EXTENDS CheckQueue, FiniteSetTheorems, TLAPS

\* The provers, and their time, for a leaf that names none.
USE ZenonT(20), SMTT(40)

\* Removing a subset from a finite set removes as many elements.
LEMMA CardinalityLess ==
    ASSUME NEW A, IsFiniteSet(A), NEW B, B \subseteq A
    PROVE  /\ Cardinality(A \ B) = Cardinality(A) - Cardinality(B)
           /\ Cardinality(A \ B) \in Nat /\ Cardinality(B) \in Nat /\ Cardinality(A) \in Nat
           /\ Cardinality(A) = Cardinality(B) => A = B
<1>1. A \cap B = B
    OBVIOUS
<1>2. Cardinality(A \ B) = Cardinality(A) - Cardinality(B)
    BY <1>1, FS_Difference
<1>3. IsFiniteSet(A \ B) /\ IsFiniteSet(B)
    BY FS_Subset
<1>4. Cardinality(A \ B) \in Nat /\ Cardinality(B) \in Nat /\ Cardinality(A) \in Nat
    BY <1>3, FS_CardinalityType
<1>5. Cardinality(A) = Cardinality(B) => A = B
    BY <1>2, <1>3, <1>4, FS_EmptySet, SMTT(40)
<1> QED
    BY <1>2, <1>4, <1>5

\* Adding new elements adds as many.
LEMMA CardinalityMore ==
    ASSUME NEW A, IsFiniteSet(A), NEW B, IsFiniteSet(B), A \cap B = {}
    PROVE  Cardinality(A \cup B) = Cardinality(A) + Cardinality(B)
<1>1. Cardinality(A) \in Nat /\ Cardinality(B) \in Nat /\ Cardinality(A \cap B) = 0
    BY FS_CardinalityType, FS_EmptySet
<1>2. Cardinality(A \cup B) = Cardinality(A) + Cardinality(B) - Cardinality(A \cap B)
    BY FS_Union
<1> QED
    BY <1>1, <1>2, SMTT(40)

\* The checks of a queue are finitely many.
LEMMA FiniteChecks ==
    ASSUME NEW A, A \subseteq Check
    PROVE  IsFiniteSet(A)
BY CheckAssumption, FS_Subset

\* The invariant of the queue holds at the start.
LEMMA InitQueueInv == Init => QueueInv
<1> SUFFICES ASSUME Init PROVE QueueInv
    OBVIOUS
<1>1. Pending = {}
    BY DEF Init, Pending
<1>2. QueueTypes
    BY DEF Init, QueueTypes, Place, Thread
<1>3. Held
    BY DEF Init, Held, Thread
<1>4. VerdictSoFar
    BY <1>1, FS_EmptySet DEF Init, VerdictSoFar, Thread
<1>5. VerdictCorrect
    BY DEF Init, VerdictCorrect
<1> QED
    BY <1>2, <1>3, <1>4, <1>5 DEF QueueInv

-----------------------------------------------------------------------------
(* A thread at the lock accounts for its batch. *)

\* What is pending once t has accounted for its batch.
Rest(t) == Pending \ vChecks[t]

\* What nTodo is once t has accounted for its batch: the number of the checks pending
\* without it.
LEMMA TodoLess ==
    ASSUME QueueInv, NEW t \in Thread
    PROVE  TodoNow(t) = Cardinality(Rest(t)) /\ TodoNow(t) \in Nat
<1>1. vChecks[t] \subseteq Pending
    BY DEF QueueInv, QueueTypes, Pending
<1>2. IsFiniteSet(Pending)
    BY FiniteChecks DEF Pending
<1>3. /\ Cardinality(Rest(t)) = Cardinality(Pending) - Cardinality(vChecks[t])
      /\ Cardinality(Rest(t)) \in Nat
    BY <1>1, <1>2, CardinalityLess DEF Rest
<1>4. nTodo = Cardinality(Pending)
    BY DEF QueueInv, VerdictSoFar
<1> QED
    BY <1>3, <1>4 DEF TodoNow, nNow

\* The batch ends: nothing else that is pending is touched.
LEMMA PendingAccounted ==
    ASSUME QueueInv, NEW t \in Thread, NEW S \in SUBSET queue,
           vChecks' = [vChecks EXCEPT ![t] = S], queue' = queue \ S
    PROVE  Pending' = Rest(t)
BY SMTT(40) DEF QueueInv, QueueTypes, Held, Pending, Rest

\* The common verdict with that of t, once its batch is executed.
LEMMA AllOkAccounted ==
    ASSUME QueueInv, NEW t \in Thread, AtLock(t), pc[Master] # "out"
    PROVE  /\ AllOkNow(t) \in BOOLEAN
           /\ AllOkNow(t) => (added \ Rest(t)) \cap Bad = {}
           /\ ~AllOkNow(t) => added \cap Bad # {}
<1> USE DEF QueueInv, QueueTypes, Held, VerdictSoFar, AtLock, AllOkNow, Rest
<1>1. CASE vChecks[t] = {}
    BY <1>1
<1>2. CASE vChecks[t] # {}
    <2>1. pc[t] = "enter" /\ executed[t] = vChecks[t]
        BY <1>2
    <2>2. fAllOk /\ fOk[t] => (added \ (Pending \ vChecks[t])) \cap Bad = {}
        BY <2>1
    <2>3. ~(fAllOk /\ fOk[t]) => added \cap Bad # {}
        BY <1>2
    <2> QED
        BY <1>2, <2>2, <2>3
<1> QED
    BY <1>1, <1>2

\* Between blocks there is no batch to account for.
LEMMA NothingHeld ==
    ASSUME QueueInv, pc[Master] = "out", NEW t \in Thread
    PROVE  vChecks[t] = {} /\ AllOkNow(t) = TRUE
BY DEF QueueInv, QueueTypes, VerdictSoFar, Pending, AllOkNow

-----------------------------------------------------------------------------
(* The actions. *)

\* Starting the workers keeps it,
LEMMA StartKeeps ==
    ASSUME QueueInv, StartWorkerThreads
    PROVE  QueueInv'
<1> USE DEF QueueInv, StartWorkerThreads, session
<1>1. pc[Master] = "out" /\ Master \in Thread
    BY DEF VerdictSoFar, Thread
<1>2. \A t \in Thread : vChecks[t] = {} /\ executed[t] = {}
    BY <1>1, NothingHeld DEF Held
<1>3. Pending' = Pending /\ pc'[Master] = "out"
    BY <1>1, ThreadAssumption DEF Pending
<1>4. QueueTypes'
    BY DEF QueueTypes, Place
<1>5. Held'
    BY <1>2 DEF Held, QueueTypes
<1>6. VerdictSoFar'
    BY <1>1, <1>2, <1>3 DEF VerdictSoFar, QueueTypes
<1>7. VerdictCorrect'
    BY DEF VerdictCorrect
<1> QED
    BY <1>4, <1>5, <1>6, <1>7

\* as do the request to stop,
LEMMA StopKeeps ==
    ASSUME QueueInv, StopWorkerThreads
    PROVE  QueueInv'
<1> USE DEF QueueInv, StopWorkerThreads, session
<1>1. Master \in Thread /\ pc'[Master] = "out"
    BY ThreadAssumption DEF Thread, QueueTypes
<1>2. Pending' = Pending
    BY DEF Pending
<1>3. QueueTypes'
    BY DEF QueueTypes, Place
<1>4. Held'
    BY DEF Held, QueueTypes
<1>5. VerdictSoFar'
    BY <1>1, <1>2 DEF VerdictSoFar
<1>6. VerdictCorrect'
    BY DEF VerdictCorrect
<1> QED
    BY <1>3, <1>4, <1>5, <1>6

\* the join of the workers,
LEMMA JoinedKeeps ==
    ASSUME QueueInv, Joined
    PROVE  QueueInv'
<1> USE DEF QueueInv, Joined, local, session
<1>1. pc[Master] = "out"
    BY DEF VerdictSoFar, QueueTypes
<1>2. Pending' = Pending
    BY DEF Pending
<1>3. QueueTypes'
    BY DEF QueueTypes
<1>4. Held'
    BY DEF Held
<1>5. VerdictSoFar'
    BY <1>1, <1>2 DEF VerdictSoFar
<1>6. VerdictCorrect'
    BY DEF VerdictCorrect
<1> QED
    BY <1>3, <1>4, <1>5, <1>6

\* A new block starts from nothing pending and a positive verdict.
LEMMA ControlKeeps ==
    ASSUME QueueInv, Control
    PROVE  QueueInv'
<1> USE DEF QueueInv, Control, pool
<1>1. Master \in Thread /\ pc'[Master] = "adding"
    BY DEF Thread, QueueTypes
<1>2. Pending = {} /\ Pending' = {}
    BY DEF Pending, VerdictSoFar
<1>3. \A t \in Thread : vChecks[t] = {}
    BY NothingHeld
<1>4. QueueTypes'
    BY DEF QueueTypes, Place
<1>5. Held'
    BY <1>3, SMTT(40) DEF Held, QueueTypes
<1>6. VerdictSoFar'
    BY <1>1, <1>2, <1>3 DEF VerdictSoFar, QueueTypes
<1>7. VerdictCorrect'
    BY DEF VerdictCorrect
<1> QED
    BY <1>4, <1>5, <1>6, <1>7

\* adding checks,
LEMMA AddKeeps ==
    ASSUME QueueInv, NEW S \in SUBSET Check, Add(S)
    PROVE  QueueInv'
<1> USE DEF QueueInv
<1>1. /\ pc[Master] = "adding" /\ S \cap added = {}
      /\ queue' = queue \cup S /\ nTodo' = nTodo + Cardinality(S) /\ added' = added \cup S
      /\ UNCHANGED <<fAllOk, stop, vChecks, executed, fOk, started, verdict>>
    BY DEF Add
<1>2. /\ pc' \in [Thread -> Place]
      /\ \A t \in Thread : pc'[t] = pc[t] \/ (pc[t] = "asleep" /\ pc'[t] = "woken")
    BY DEF Add, Woken, QueueTypes, Place
<1>3. Master \in Thread /\ pc'[Master] = "adding"
    BY <1>1, <1>2 DEF Thread
<1>4. Pending' = Pending \cup S /\ Pending \cap S = {} /\ Pending \in SUBSET Check
    BY <1>1 DEF Pending, VerdictSoFar, QueueTypes
<1>5. /\ Cardinality(Pending') = Cardinality(Pending) + Cardinality(S)
      /\ Cardinality(Pending) \in Nat /\ Cardinality(S) \in Nat
    BY <1>4, CardinalityMore, FiniteChecks, FS_CardinalityType
<1>6. QueueTypes'
    BY <1>1, <1>2, <1>5, SMTT(40) DEF QueueTypes
<1>7. \A t \in Thread : vChecks[t] \subseteq Pending
    BY DEF Pending, QueueTypes
<1>8. Held'
    BY <1>1, <1>2, <1>4, <1>7 DEF Held
<1>9. nTodo' = Cardinality(Pending')
    BY <1>1, <1>5 DEF VerdictSoFar
<1>10. VerdictSoFar'
    BY <1>1, <1>3, <1>4, <1>9 DEF VerdictSoFar
<1>11. VerdictCorrect'
    BY <1>1 DEF VerdictCorrect, VerdictSoFar
<1> QED
    BY <1>6, <1>8, <1>10, <1>11

\* the start of the wait of the master,
LEMMA WaitKeeps ==
    ASSUME QueueInv, Wait
    PROVE  QueueInv'
<1> USE DEF QueueInv, Wait, pool, session
<1>1. Master \in Thread /\ pc'[Master] = "enter" /\ vChecks[Master] = {} /\ executed[Master] = {}
    BY DEF Thread, QueueTypes, Held
<1>2. Pending' = Pending
    BY DEF Pending
<1>3. QueueTypes'
    BY DEF QueueTypes, Place
<1>4. Held'
    BY <1>1, SMTT(40) DEF Held, QueueTypes
<1>5. VerdictSoFar'
    BY <1>1, <1>2 DEF VerdictSoFar, QueueTypes
<1>6. VerdictCorrect'
    BY DEF VerdictCorrect
<1> QED
    BY <1>3, <1>4, <1>5, <1>6

\* What Sleep, ReturnStopped and TakeBatch have in common: t accounts for its batch and
\* goes elsewhere, with the next batch S if it goes to execute.
LEMMA LoopKeeps ==
    ASSUME QueueInv, NEW t \in Thread, AtLock(t), NEW S \in SUBSET queue,
           NEW to \in {"asleep", "execute", "out"}, Move(t, to),
           S # {} => to = "execute",
           t = Master => to # "out",
           queue' = queue \ S,
           vChecks' = [vChecks EXCEPT ![t] = S],
           executed' = [executed EXCEPT ![t] = {}],
           \/ fOk' = [fOk EXCEPT ![t] = AllOkNow(t)]
           \/ S = {} /\ fOk' = fOk,
           nTodo' = TodoNow(t), fAllOk' = AllOkNow(t),
           UNCHANGED <<stop, started, added, verdict>>
    PROVE  QueueInv'
<1> USE DEF QueueInv
<1>1. AllOkNow(t) \in BOOLEAN
    BY DEF AllOkNow, QueueTypes
<1>2. /\ pc' \in [Thread -> Place]
      /\ pc'[t] = to
      /\ \A u \in Thread \ {t} : pc'[u] = pc[u] \/ (pc[u] = "asleep" /\ pc'[u] = "woken")
    BY DEF Move, Notified, QueueTypes, Place
<1>3. Master \in Thread /\ (pc'[Master] = "out" <=> pc[Master] = "out")
    BY <1>2 DEF Thread, AtLock
<1>4. Pending' = Rest(t)
    BY PendingAccounted
<1>5. nTodo' = Cardinality(Pending') /\ nTodo' \in Nat
    BY <1>4, TodoLess
<1>6. QueueTypes'
    BY <1>1, <1>2, <1>5 DEF QueueTypes
<1>7. Held'
    BY <1>2, SMTT(40) DEF Held, QueueTypes
<1>8. \A u \in Thread \ {t} : fOk'[u] = fOk[u] /\ vChecks'[u] = vChecks[u] /\ executed'[u] = executed[u]
    BY DEF QueueTypes
<1>9. executed'[t] = {} /\ (vChecks'[t] # {} => fOk'[t] = AllOkNow(t))
    BY DEF QueueTypes
<1>10. CASE pc[Master] = "out"
    <2>1. AllOkNow(t) = TRUE /\ Pending' = {}
        BY <1>4, <1>10, NothingHeld DEF VerdictSoFar, Rest
    <2> QED
        BY <1>3, <1>5, <1>6, <1>7, <1>8, <1>9, <1>10, <2>1 DEF VerdictSoFar, VerdictCorrect
<1>11. CASE pc[Master] # "out"
    <2>1. /\ AllOkNow(t) => (added \ Pending') \cap Bad = {}
          /\ ~AllOkNow(t) => added \cap Bad # {}
        BY <1>4, <1>11, AllOkAccounted
    <2>2. Pending' \subseteq added
        BY <1>4 DEF Rest, VerdictSoFar
    <2>3. \A u \in Thread : /\ fOk'[u] => executed'[u] \cap Bad = {}
                            /\ ~fOk'[u] /\ vChecks'[u] # {} => added \cap Bad # {}
        BY <1>8, <1>9, <2>1 DEF VerdictSoFar
    <2>4. VerdictSoFar'
        BY <1>3, <1>5, <1>11, <2>1, <2>2, <2>3 DEF VerdictSoFar
    <2>5. VerdictCorrect'
        BY DEF VerdictCorrect
    <2> QED
        BY <1>6, <1>7, <2>4, <2>5
<1> QED
    BY <1>10, <1>11

\* falling asleep,
LEMMA SleepKeeps ==
    ASSUME QueueInv, NEW t \in Thread, Sleep(t)
    PROVE  QueueInv'
<1>1. {} \in SUBSET queue /\ queue' = queue \ {}
    BY DEF Sleep
<1> QED
    BY <1>1, LoopKeeps DEF Sleep, Accounted, session

\* leaving after a request to stop,
LEMMA ReturnStoppedKeeps ==
    ASSUME QueueInv, NEW t \in Thread, ReturnStopped(t)
    PROVE  QueueInv'
<1>1. {} \in SUBSET queue /\ queue' = queue \ {}
    BY DEF ReturnStopped
<1>2. t # Master
    BY DEF ReturnStopped, AtLock, QueueInv, VerdictSoFar
<1> QED
    BY <1>1, <1>2, LoopKeeps DEF ReturnStopped, Accounted, session

\* taking a batch
LEMMA TakeBatchKeeps ==
    ASSUME QueueInv, NEW t \in Thread, NEW S \in SUBSET queue, TakeBatch(t, S)
    PROVE  QueueInv'
BY LoopKeeps DEF TakeBatch, session

\* One more check of the batch is executed, or skipped because fOk is false already.
LEMMA ExecuteKeeps ==
    ASSUME QueueInv, NEW t \in Thread, NEW c \in Check, Execute(t, c)
    PROVE  QueueInv'
<1> USE DEF QueueInv
<1>1. /\ pc[t] = "execute" /\ c \in vChecks[t]
      /\ executed' = [executed EXCEPT ![t] = @ \cup {c}]
      /\ fOk' = [fOk EXCEPT ![t] = @ /\ c \notin Bad]
      /\ UNCHANGED <<queue, nTodo, fAllOk, stop, vChecks, started, added, verdict>>
    BY DEF Execute, pool, session
<1>2. /\ pc' \in [Thread -> Place]
      /\ pc'[t] \in {"execute", "enter"} /\ (pc'[t] = "enter" => executed'[t] = vChecks[t])
      /\ \A u \in Thread \ {t} : pc'[u] = pc[u]
    BY <1>1 DEF Execute, QueueTypes, Place
<1>3. Master \in Thread /\ (pc'[Master] = "out" <=> pc[Master] = "out")
    BY <1>1, <1>2 DEF Thread
<1>4. Pending' = Pending /\ c \in added
    BY <1>1 DEF Pending, VerdictSoFar
<1>5. QueueTypes'
    BY <1>1, <1>2 DEF QueueTypes
<1>6. Held'
    BY <1>1, <1>2, SMTT(40) DEF Held, QueueTypes
<1>7. \A u \in Thread : /\ fOk'[u] => executed'[u] \cap Bad = {}
                        /\ ~fOk'[u] /\ vChecks'[u] # {} => added \cap Bad # {}
    BY <1>1, <1>4 DEF VerdictSoFar, QueueTypes
<1>8. VerdictSoFar'
    BY <1>1, <1>3, <1>4, <1>7 DEF VerdictSoFar
<1>9. VerdictCorrect'
    BY <1>1 DEF VerdictCorrect
<1> QED
    BY <1>5, <1>6, <1>8, <1>9

\* and waking up.
LEMMA WakeKeeps ==
    ASSUME QueueInv, NEW t \in Thread, WakeSpuriously(t)
    PROVE  QueueInv'
<1> USE DEF QueueInv, WakeSpuriously, pool, session
<1>1. Master \in Thread /\ (pc'[Master] = "out" <=> pc[Master] = "out")
    BY DEF Thread, QueueTypes
<1>2. Pending' = Pending
    BY DEF Pending
<1>3. QueueTypes'
    BY DEF QueueTypes, Place
<1>4. Held'
    BY SMTT(40) DEF Held, QueueTypes
<1>5. VerdictSoFar'
    BY <1>1, <1>2 DEF VerdictSoFar
<1>6. VerdictCorrect'
    BY DEF VerdictCorrect
<1> QED
    BY <1>3, <1>4, <1>5, <1>6

\* The master returns only when nothing is pending, so the common verdict covers
\* every check of the block.
LEMMA ReturnVerdictKeeps ==
    ASSUME QueueInv, ReturnVerdict
    PROVE  QueueInv'
<1> USE DEF QueueInv
<1>1. /\ Master \in Thread /\ AtLock(Master) /\ pc[Master] # "out"
      /\ queue' = queue \ {} /\ {} \in SUBSET queue
      /\ vChecks' = [vChecks EXCEPT ![Master] = {}]
      /\ executed' = [executed EXCEPT ![Master] = {}]
      /\ UNCHANGED <<stop, fOk, started, added>>
    BY DEF ReturnVerdict, Accounted, Thread, AtLock
<1>2. Pending' = Rest(Master)
    BY <1>1, PendingAccounted
<1>3. Rest(Master) = {} /\ nTodo' = 0
    <2>1. Cardinality(Rest(Master)) = 0 /\ nTodo' = 0
        BY <1>1, TodoLess DEF ReturnVerdict
    <2>2. IsFiniteSet(Rest(Master))
        BY FiniteChecks DEF Rest, Pending
    <2> QED
        BY <2>1, <2>2, FS_EmptySet
<1>4. /\ AllOkNow(Master) => added \cap Bad = {}
      /\ ~AllOkNow(Master) => added \cap Bad # {}
    BY <1>1, <1>3, AllOkAccounted
<1>5. /\ pc' \in [Thread -> Place]
      /\ pc'[Master] = "out"
      /\ \A u \in Thread \ {Master} : pc'[u] = pc[u]
    BY <1>1 DEF ReturnVerdict, Move, QueueTypes, Place
<1>6. QueueTypes'
    <2>1. queue' = queue /\ fAllOk' = TRUE
        BY DEF ReturnVerdict
    <2> QED
        BY <1>1, <1>3, <1>5, <2>1 DEF QueueTypes
<1>7. Held'
    BY <1>1, <1>5, SMTT(40) DEF Held, QueueTypes
<1>8. \A u \in Thread : /\ fOk'[u] => executed'[u] \cap Bad = {}
                        /\ ~fOk'[u] /\ vChecks'[u] # {} => added \cap Bad # {}
    BY <1>1 DEF VerdictSoFar, QueueTypes
<1>9. VerdictSoFar'
    BY <1>1, <1>2, <1>3, <1>5, <1>8, FS_EmptySet DEF VerdictSoFar, ReturnVerdict
<1>10. VerdictCorrect'
    BY <1>1, <1>4 DEF VerdictCorrect, ReturnVerdict
<1> QED
    BY <1>6, <1>7, <1>9, <1>10

\* Every step of Loop, Add, Wait and the destructor keeps the invariant of the queue.
LEMMA NextKeepsQueueInv == QueueInv /\ [Next]_vars => QueueInv'
<1> SUFFICES ASSUME QueueInv, [Next]_vars PROVE QueueInv'
    OBVIOUS
<1>1. CASE UNCHANGED vars
    BY <1>1 DEF vars, pool, local, session, QueueInv, QueueTypes, Held, VerdictSoFar,
                VerdictCorrect, Pending
<1>2. ASSUME NEW t \in Thread, Loop(t) PROVE QueueInv'
    BY <1>2, SleepKeeps, ReturnStoppedKeeps, TakeBatchKeeps, ExecuteKeeps DEF Loop
<1> QED
    BY <1>1, <1>2, StartKeeps, StopKeeps, JoinedKeeps, ControlKeeps, AddKeeps, WaitKeeps,
       ReturnVerdictKeeps, WakeKeeps DEF Next

\* What Wait returns for a block is true exactly when all checks added for that block
\* hold, for any number of worker threads and any batch size.
THEOREM VerdictIsCorrect == Spec => []VerdictCorrect
<1>1. QueueInv => VerdictCorrect
    BY DEF QueueInv
<1> QED
    BY <1>1, InitQueueInv, NextKeepsQueueInv, PTL DEF Spec

-----------------------------------------------------------------------------
(* The counters.  A step moves one thread into or out of the pool or of a  *)
(* condition variable, and leaves the other threads where they are: a      *)
(* notification wakes a thread, but does not take it out of the condition. *)

\* Any group of threads is finite, and has a number.
LEMMA FiniteThreads ==
    ASSUME NEW A, A \subseteq Thread
    PROVE  IsFiniteSet(A) /\ Cardinality(A) \in Nat
<1>1. IsFiniteSet(Thread)
    BY ThreadAssumption, FS_AddElement DEF Thread
<1> QED
    BY <1>1, FS_Subset, FS_CardinalityType

\* The counts of a set of threads with and without t.
LEMMA OneThread ==
    ASSUME NEW A \in SUBSET Thread, NEW t \in Thread
    PROVE  /\ Cardinality(A \cup {t}) = IF t \in A THEN Cardinality(A) ELSE Cardinality(A) + 1
           /\ Cardinality(A \ {t}) = IF t \in A THEN Cardinality(A) - 1 ELSE Cardinality(A)
BY FiniteThreads, FS_AddElement, FS_RemoveElement

\* No step of another kind changes the counts.
LEMMA CountSame ==
    ASSUME CountInv, QueueInv',
           pc' \in [Thread -> Place],
           \A t \in Thread : \/ pc'[t] = pc[t]
                             \/ pc[t] \in {"asleep", "woken"} /\ pc'[t] \in {"asleep", "woken"},
           UNCHANGED <<vChecks, nIdle, nTotal, sessions, verdict>>,
           started' = started, started' /\ ~stop' => ~stop
    PROVE  CountInv'
<1>1. InCondition' = InCondition /\ InPool' = InPool
    BY DEF InCondition, InPool
<1>2. Counted'
    BY <1>1 DEF Counted, CountInv
<1>3. ~started' => \A t \in Thread : pc'[t] = "out"
    BY DEF CountInv
<1> QED
    BY <1>2, <1>3 DEF CountInv

\* A thread at the lock is in the pool unless it comes for the first time, and is counted
\* as idle when it comes from the condition variable.
LEMMA AtLockCounted ==
    ASSUME CountInv, NEW t \in Thread, AtLock(t), ~stop
    PROVE  /\ IdleNow(t) = Cardinality(InCondition \ {t}) /\ IdleNow(t) \in Nat
           /\ TotalNow(t) = Cardinality(InPool \cup {t}) /\ TotalNow(t) \in Nat
           /\ t \notin InCondition \ {t} /\ started
<1>1. started /\ Counted
    BY DEF CountInv, AtLock
<1>2. InCondition \in SUBSET Thread /\ InPool \in SUBSET Thread
    BY DEF InCondition, InPool
<1>3. t \in InCondition <=> pc[t] = "woken"
    BY DEF InCondition, AtLock
<1>4. t \in InPool <=> ~FirstTime(t)
    BY DEF InPool, AtLock, FirstTime
<1>5. IdleNow(t) = Cardinality(InCondition \ {t})
    BY <1>1, <1>2, <1>3, OneThread DEF IdleNow, Counted
<1>6. TotalNow(t) = Cardinality(InPool \cup {t})
    BY <1>1, <1>2, <1>4, OneThread DEF TotalNow, Counted
<1>7. Cardinality(InCondition \ {t}) \in Nat /\ Cardinality(InPool \cup {t}) \in Nat
    BY <1>2, FiniteThreads
<1> QED
    BY <1>1, <1>5, <1>6, <1>7

\* Move puts t where it goes and leaves every other thread in its condition variable.
LEMMA MoveSets ==
    ASSUME CountInv, NEW t \in Thread, NEW to \in Place, Move(t, to),
           NEW S, vChecks' = [vChecks EXCEPT ![t] = S]
    PROVE  /\ InCondition' \ {t} = InCondition \ {t}
           /\ InPool' \ {t} = InPool \ {t}
           /\ t \in InCondition' <=> to \in {"asleep", "woken"}
           /\ to \in {"asleep", "execute"} => t \in InPool'
           /\ to = "out" => t \notin InPool'
           /\ InCondition' \in SUBSET Thread /\ InPool' \in SUBSET Thread
BY DEF Move, Notified, InCondition, InPool, CountInv, QueueInv, QueueTypes

\* A step of Loop that accounts for a batch keeps the counters right.
LEMMA CountMove ==
    ASSUME CountInv, QueueInv', NEW t \in Thread, AtLock(t), ~stop,
           NEW to \in {"asleep", "execute"}, Move(t, to),
           NEW S, vChecks' = [vChecks EXCEPT ![t] = S],
           nIdle' = IF to = "asleep" THEN IdleNow(t) + 1 ELSE IdleNow(t),
           nTotal' = TotalNow(t),
           UNCHANGED <<stop, started, sessions, verdict>>
    PROVE  CountInv'
<1>1. to \in Place
    BY DEF Place
<1>2. /\ InCondition' \ {t} = InCondition \ {t} /\ InPool' \ {t} = InPool \ {t}
      /\ t \in InCondition' <=> to = "asleep"
      /\ t \in InPool'
      /\ InCondition' \in SUBSET Thread /\ InPool' \in SUBSET Thread
    BY <1>1, MoveSets
<1>3. /\ IdleNow(t) = Cardinality(InCondition' \ {t}) /\ IdleNow(t) \in Nat
      /\ TotalNow(t) = Cardinality(InPool \cup {t}) /\ TotalNow(t) \in Nat /\ started
    BY <1>2, AtLockCounted
<1>4. InPool \cup {t} = InPool'
    BY <1>2
<1>5. Cardinality(InCondition') \in Nat
    BY <1>2, FiniteThreads
<1>6. nIdle' = Cardinality(InCondition')
    <2>1. Cardinality(InCondition' \ {t}) = IF t \in InCondition' THEN Cardinality(InCondition') - 1
                                                                  ELSE Cardinality(InCondition')
        BY <1>2, OneThread
    <2> QED
        BY <1>2, <1>3, <1>5, <2>1, SMTT(40)
<1>7. Counted'
    BY <1>3, <1>4, <1>6 DEF Counted
<1>8. nIdle' \in Nat /\ nTotal' \in Nat
    BY <1>3, <1>5, <1>6
<1> QED
    BY <1>3, <1>7, <1>8 DEF CountInv

\* Returning the verdict takes the master out of the pool, and out of nTotal.
LEMMA CountReturnVerdict ==
    ASSUME CountInv, QueueInv', ReturnVerdict
    PROVE  CountInv'
<1> DEFINE t == Master
<1>1. /\ t \in Thread /\ AtLock(t) /\ ~stop /\ Move(t, "out") /\ "out" \in Place
      /\ vChecks' = [vChecks EXCEPT ![t] = {}]
      /\ nIdle' = IdleNow(t) /\ nTotal' = TotalNow(t) - 1
      /\ UNCHANGED <<stop, started, sessions>>
      /\ verdict' \in {"none", "ok", "failed"}
    BY DEF ReturnVerdict, Accounted, Thread, Place
<1> HIDE DEF t
<1>2. /\ InCondition' \ {t} = InCondition \ {t} /\ InPool' \ {t} = InPool \ {t}
      /\ t \notin InCondition' /\ t \notin InPool'
      /\ InCondition' \in SUBSET Thread /\ InPool' \in SUBSET Thread
    BY <1>1, MoveSets
<1>3. /\ IdleNow(t) = Cardinality(InCondition \ {t}) /\ IdleNow(t) \in Nat
      /\ TotalNow(t) = Cardinality(InPool \cup {t}) /\ TotalNow(t) \in Nat /\ started
    BY <1>1, AtLockCounted
<1>4. InCondition' = InCondition \ {t} /\ InPool \cup {t} = InPool' \cup {t}
    BY <1>2
<1>5. Cardinality(InPool') \in Nat
    BY <1>2, FiniteThreads
<1>6. Cardinality(InPool' \cup {t}) = Cardinality(InPool') + 1
    BY <1>1, <1>2, OneThread
<1>7. nTotal' = Cardinality(InPool') /\ nIdle' = Cardinality(InCondition')
    <2>1. TotalNow(t) = Cardinality(InPool') + 1
        BY <1>3, <1>4, <1>6
    <2>2. nIdle' = Cardinality(InCondition')
        BY <1>1, <1>3, <1>4
    <2> QED
        BY <1>1, <1>5, <2>1, <2>2, SMTT(40)
<1>8. nIdle' \in Nat /\ nTotal' \in Nat
    BY <1>1, <1>3, <1>5, <1>7
<1>9. Counted'
    BY <1>7 DEF Counted
<1> QED
    BY <1>1, <1>3, <1>8, <1>9 DEF CountInv

\* Workers that leave because of the request to stop are no longer idle; nTotal is not
\* read again before StartWorkerThreads resets it.
LEMMA CountReturnStopped ==
    ASSUME CountInv, QueueInv', NEW t \in Thread, ReturnStopped(t)
    PROVE  CountInv'
<1>1. /\ AtLock(t) /\ Move(t, "out") /\ "out" \in Place /\ stop' = TRUE
      /\ vChecks' = [vChecks EXCEPT ![t] = {}]
      /\ nIdle' = IdleNow(t) /\ nTotal' = TotalNow(t)
      /\ UNCHANGED <<started, sessions, verdict>>
    BY DEF ReturnStopped, Accounted, Place, session, CountInv, QueueInv, QueueTypes
<1>2. /\ InCondition' \ {t} = InCondition \ {t} /\ t \notin InCondition'
      /\ InCondition' \in SUBSET Thread /\ InCondition \in SUBSET Thread
    BY <1>1, MoveSets DEF InCondition
<1>3. started
    BY <1>1 DEF CountInv, AtLock
<1>4. t \in InCondition <=> pc[t] = "woken"
    BY <1>1 DEF InCondition, AtLock
<1>5. nIdle' = Cardinality(InCondition \ {t})
    BY <1>1, <1>2, <1>4, OneThread DEF IdleNow, CountInv, Counted
<1>6. InCondition' = InCondition \ {t} /\ Cardinality(InCondition') \in Nat
    BY <1>2, FiniteThreads
<1>7. Counted' /\ nIdle' \in Nat
    BY <1>1, <1>5, <1>6 DEF Counted
<1>8. nTotal' \in Nat
    BY <1>1, SMTT(40) DEF TotalNow, CountInv
<1> QED
    BY <1>1, <1>3, <1>7, <1>8 DEF CountInv

\* Starting the workers leaves nobody idle that is not counted.
LEMMA CountStart ==
    ASSUME CountInv, QueueInv', StartWorkerThreads
    PROVE  CountInv'
<1>1. \A t \in Thread : pc[t] = "out" /\ vChecks[t] = {}
    BY NothingHeld DEF StartWorkerThreads, CountInv, Thread
<1>2. \A t \in Thread : pc'[t] \in {"enter", "out"} /\ vChecks'[t] = {}
    BY <1>1 DEF StartWorkerThreads
<1>3. InCondition' = {} /\ InPool' = {}
    BY <1>2 DEF InCondition, InPool
<1>4. nIdle' = 0 /\ nTotal' = 0 /\ started' = TRUE /\ UNCHANGED <<sessions, verdict>>
    BY DEF StartWorkerThreads, session
<1> QED
    BY <1>3, <1>4, FS_EmptySet DEF CountInv, Counted

\* The join of the workers changes no count.
LEMMA CountJoined ==
    ASSUME CountInv, QueueInv', Joined
    PROVE  CountInv'
<1>1. \A t \in Thread : pc'[t] = "out"
    BY DEF Joined, local, CountInv, QueueInv, QueueTypes, VerdictSoFar, Thread
<1>2. InCondition' = InCondition
    BY DEF Joined, local, InCondition
<1> QED
    BY <1>1, <1>2 DEF Joined, session, CountInv, Counted

\* Control and Wait move only the master, which is then in no condition variable and,
\* without a batch, not yet in the pool.
LEMMA CountMaster ==
    ASSUME CountInv, QueueInv', NEW to \in {"adding", "enter"},
           pc[Master] \in {"out", "adding"}, pc' = [pc EXCEPT ![Master] = to],
           started, UNCHANGED <<vChecks, nIdle, nTotal, started, stop>>,
           sessions' \in Nat, verdict' \in {"none", "ok", "failed"}
    PROVE  CountInv'
<1>1. Master \in Thread /\ vChecks[Master] = {}
    BY DEF Thread, CountInv, QueueInv, Held
<1>2. InCondition' = InCondition /\ InPool' = InPool
    BY <1>1 DEF InCondition, InPool, CountInv, QueueInv, QueueTypes
<1> QED
    BY <1>2 DEF CountInv, Counted

\* A stretch of Loop moves a thread between the counted groups.
LEMMA CountLoop ==
    ASSUME CountInv, QueueInv', NEW t \in Thread, Loop(t)
    PROVE  CountInv'
<1>1. CASE Sleep(t)
    BY <1>1, CountMove DEF Sleep, Accounted, session
<1>2. CASE ReturnStopped(t)
    BY <1>2, CountReturnStopped
<1>3. ASSUME NEW S \in SUBSET queue, TakeBatch(t, S) PROVE CountInv'
    BY <1>3, CountMove DEF TakeBatch, session
<1>4. ASSUME NEW c \in Check, Execute(t, c) PROVE CountInv'
    <2>1. /\ pc[t] = "execute" /\ vChecks[t] # {} /\ pc'[t] \in {"execute", "enter"}
          /\ \A u \in Thread \ {t} : pc'[u] = pc[u]
          /\ UNCHANGED <<vChecks, nIdle, nTotal, stop, started, sessions, verdict>>
        BY <1>4 DEF Execute, pool, session, CountInv, QueueInv, QueueTypes
    <2>2. InCondition' = InCondition /\ InPool' = InPool
        BY <2>1 DEF InCondition, InPool
    <2>3. started
        BY <2>1 DEF CountInv
    <2> QED
        BY <2>1, <2>2, <2>3 DEF CountInv, Counted
<1> QED
    BY <1>1, <1>2, <1>3, <1>4, Loop(t) DEF Loop

\* Every step keeps the counters exact.
LEMMA NextKeepsCountInv == CountInv /\ [Next]_vars => CountInv'
<1> SUFFICES ASSUME CountInv, [Next]_vars PROVE CountInv'
    OBVIOUS
<1> QueueInv' /\ pc' \in [Thread -> Place]
    BY NextKeepsQueueInv DEF CountInv, QueueInv, QueueTypes
<1>1. CASE UNCHANGED vars
    BY <1>1, CountSame DEF vars, pool, local, session
<1>2. CASE StopWorkerThreads
    BY <1>2, CountSame DEF StopWorkerThreads, session, CountInv, QueueInv, QueueTypes
<1>3. CASE Control
    BY <1>3, CountMaster, SMTT(40) DEF Control, pool, CountInv
<1>4. ASSUME NEW S \in SUBSET Check, Add(S) PROVE CountInv'
    <2>1. \A t \in Thread : pc'[t] = pc[t] \/ (pc[t] = "asleep" /\ pc'[t] = "woken")
        BY <1>4 DEF Add, Woken
    <2> QED
        BY <1>4, <2>1, CountSame DEF Add
<1>5. CASE Wait
    <2>1. started
        BY <1>5 DEF Wait, CountInv, Thread
    <2> QED
        BY <1>5, <2>1, CountMaster DEF Wait, pool, session, CountInv
<1>6. ASSUME NEW t \in Thread, WakeSpuriously(t) PROVE CountInv'
    BY <1>6, CountSame DEF WakeSpuriously, pool, session, CountInv, QueueInv, QueueTypes
<1> QED
    BY <1>1, <1>2, <1>3, <1>4, <1>5, <1>6, CountStart, CountJoined, CountReturnVerdict,
       CountLoop DEF Next

\* The counters are exact at the start.
LEMMA InitCountInv == Init => CountInv
<1> SUFFICES ASSUME Init PROVE CountInv
    OBVIOUS
<1>1. InCondition = {} /\ InPool = {}
    BY DEF Init, InCondition, InPool
<1> QED
    BY <1>1, InitQueueInv, FS_EmptySet DEF Init, CountInv, Counted

\* nIdle and nTotal are what they are documented to be, whatever wakes up when, so the
\* shares in which the queue is handed out are right and neither count goes below zero.
THEOREM CountersAreRight == Spec => [](TypeOK /\ Counted)
<1>1. CountInv => TypeOK /\ Counted
    BY DEF CountInv, QueueInv, QueueTypes, TypeOK
<1> QED
    BY <1>1, InitCountInv, NextKeepsCountInv, PTL DEF Spec

\* However the threads interleave, nIdle, nTotal and nTodo, which are unsigned in the code,
\* never wrap around, and no other variable leaves its type.
THEOREM CountersNeverWrap == Spec => []TypeOK
<1>1. TypeOK /\ Counted => TypeOK
    OBVIOUS
<1> QED
    BY <1>1, CountersAreRight, PTL

===============================================================================
