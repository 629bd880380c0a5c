------------------------------ MODULE CheckQueue ------------------------------
(***************************************************************************)
(* CCheckQueue of checkqueue.h: the pool of threads that verifies the      *)
(* scripts of a block.  The master adds checks through a                   *)
(* CCheckQueueControl, then joins the workers in Loop until all of them    *)
(* are done and takes the common verdict; the pool is used for one block   *)
(* after another.                                                          *)
(*                                                                         *)
(* An action is one stretch of code under m_mutex, or one check executed   *)
(* outside it.  A thread that waits on a condition variable is "asleep";   *)
(* a notification, or nothing at all, makes it "woken".  The queue is a    *)
(* set: the code notes that the order of its elements does not matter.     *)
(***************************************************************************)
EXTENDS Integers, FiniteSets

CONSTANTS
    Worker, Master,     \* the worker threads and the thread that owns the control object
    Check,              \* the verifications
    Bad,                \* those that return false
    nBatchSize,         \* the most a thread takes at once
    MaxSessions         \* a bound on the blocks verified

ASSUME ThreadAssumption == IsFiniteSet(Worker) /\ Master \notin Worker

ASSUME CheckAssumption == IsFiniteSet(Check) /\ Bad \in SUBSET Check

ASSUME SizeAssumption == nBatchSize \in Nat \ {0} /\ MaxSessions \in Nat

Thread == Worker \cup {Master}

VARIABLES
    queue,          \* checks not taken yet
    nIdle, nTotal, nTodo,
    fAllOk,
    stop,           \* m_request_stop
    pc,             \* where each thread is: outside Loop ("out"), adding checks, about to lock
                    \* ("enter"), in the condition variable, about to lock again, or executing
    vChecks,        \* the batch of each thread, until it is accounted for; nNow is its size
    executed,       \* the checks of the batch that were executed or skipped
    fOk,            \* each thread's own verdict
    started,        \* m_worker_threads is not empty
    added,          \* the checks added for the current block
    verdict,        \* what Wait returned for it
    sessions

pool == <<queue, nIdle, nTotal, nTodo, fAllOk, stop>>
local == <<pc, vChecks, executed, fOk>>
session == <<added, verdict, sessions>>
vars == <<pool, local, started, session>>

Init ==
    /\ queue = {} /\ nIdle = 0 /\ nTotal = 0 /\ nTodo = 0 /\ fAllOk = TRUE /\ stop = FALSE
    /\ pc = [t \in Thread |-> "out"]
    /\ vChecks = [t \in Thread |-> {}]
    /\ executed = [t \in Thread |-> {}]
    /\ fOk = [t \in Thread |-> TRUE]
    /\ started = FALSE
    /\ added = {} /\ verdict = "none" /\ sessions = 0

-----------------------------------------------------------------------------
(* The pool starts and stops. *)

StartWorkerThreads ==
    /\ ~started /\ ~stop
    /\ started' = TRUE
    /\ nIdle' = 0 /\ nTotal' = 0 /\ fAllOk' = TRUE
    /\ pc' = [t \in Thread |-> IF t \in Worker THEN "enter" ELSE pc[t]]
    /\ fOk' = [t \in Thread |-> IF t \in Worker THEN TRUE ELSE fOk[t]]
    /\ UNCHANGED <<queue, nTodo, stop, vChecks, executed, session>>

\* Mutated form: the request is made without a notification.
StopWorkerThreads_Silent ==
    /\ started /\ ~stop /\ pc[Master] = "out"
    /\ stop' = TRUE
    /\ UNCHANGED <<queue, nIdle, nTotal, nTodo, fAllOk, local, started, session>>

\* Shutdown stops the pool once no block is being verified.
StopWorkerThreads ==
    /\ started /\ ~stop /\ pc[Master] = "out"
    /\ stop' = TRUE
    /\ pc' = [t \in Thread |-> IF t \in Worker /\ pc[t] = "asleep" THEN "woken" ELSE pc[t]]
    /\ UNCHANGED <<queue, nIdle, nTotal, nTodo, fAllOk, vChecks, executed, fOk, started, session>>

\* All workers have returned from Loop.
Joined ==
    /\ stop
    /\ \A w \in Worker : pc[w] = "out"
    /\ stop' = FALSE /\ started' = FALSE
    /\ UNCHANGED <<queue, nIdle, nTotal, nTodo, fAllOk, local, session>>

-----------------------------------------------------------------------------
(* The master verifies a block. *)

\* A CCheckQueueControl is made for the next block.
Control ==
    /\ pc[Master] = "out" /\ started /\ ~stop
    /\ sessions < MaxSessions
    /\ sessions' = sessions + 1
    /\ added' = {} /\ verdict' = "none"
    /\ pc' = [pc EXCEPT ![Master] = "adding"]
    /\ UNCHANGED <<pool, vChecks, executed, fOk, started>>

\* One notification wakes some worker, several checks wake them all.
Woken(W) == [t \in Thread |-> IF t \in W /\ pc[t] = "asleep" THEN "woken" ELSE pc[t]]

Sleeping == {w \in Worker : pc[w] = "asleep"}

Add(S) ==
    /\ pc[Master] = "adding"
    /\ S \cap added = {}
    /\ queue' = queue \cup S
    /\ nTodo' = nTodo + Cardinality(S)
    /\ added' = added \cup S
    /\ \/ Cardinality(S) = 1 /\ Sleeping # {} /\ \E w \in Sleeping : pc' = Woken({w})
       \/ Cardinality(S) = 1 /\ Sleeping = {} /\ UNCHANGED pc
       \/ Cardinality(S) > 1 /\ pc' = Woken(Worker)
    /\ UNCHANGED <<nIdle, nTotal, fAllOk, stop, vChecks, executed, fOk, started, verdict, sessions>>

Wait ==
    /\ pc[Master] = "adding"
    /\ pc' = [pc EXCEPT ![Master] = "enter"]
    /\ fOk' = [fOk EXCEPT ![Master] = TRUE]
    /\ UNCHANGED <<pool, vChecks, executed, started, session>>

-----------------------------------------------------------------------------
(* Loop.  A thread that locks m_mutex from "enter" first accounts for the  *)
(* batch it has finished or, in its first iteration, joins the pool; one   *)
(* that comes from the condition variable is no longer idle.  Then it      *)
(* leaves, sleeps or takes the next batch.                                 *)

AtLock(t) == pc[t] \in {"enter", "woken"}
nNow(t) == Cardinality(vChecks[t])
FirstTime(t) == pc[t] = "enter" /\ vChecks[t] = {}
AllOkNow(t) == IF vChecks[t] # {} THEN fAllOk /\ fOk[t] ELSE fAllOk
TodoNow(t) == nTodo - nNow(t)
TotalNow(t) == IF FirstTime(t) THEN nTotal + 1 ELSE nTotal
\* Mutated form: a thread that wakes up stays counted as idle.
IdleNow_Kept(t) == nIdle

IdleNow(t) == IF pc[t] = "woken" THEN nIdle - 1 ELSE nIdle

\* Mutated form: the test for the last check is made before the batch is subtracted.
Notified_Before(t) == t # Master /\ vChecks[t] # {} /\ nTodo = 0 /\ pc[Master] = "asleep"

\* The worker that finishes the last check notifies the master.
Notified(t) == t # Master /\ vChecks[t] # {} /\ TodoNow(t) = 0 /\ pc[Master] = "asleep"

Accounted(t) ==
    /\ vChecks' = [vChecks EXCEPT ![t] = {}]
    /\ executed' = [executed EXCEPT ![t] = {}]

Move(t, to) ==
    pc' = [u \in Thread |-> IF u = t THEN to
                            ELSE IF u = Master /\ Notified(t) THEN "woken" ELSE pc[u]]

\* Mutated form: the verdict is not reset for the next block.
ReturnVerdict_Kept ==
    /\ AtLock(Master)
    /\ queue = {} /\ ~stop /\ TodoNow(Master) = 0
    /\ Move(Master, "out")
    /\ nTotal' = TotalNow(Master) - 1
    /\ nTodo' = TodoNow(Master)
    /\ nIdle' = IdleNow(Master)
    /\ verdict' = IF AllOkNow(Master) THEN "ok" ELSE "failed"
    /\ fAllOk' = AllOkNow(Master)
    /\ Accounted(Master)
    /\ UNCHANGED <<queue, stop, fOk, started, added, sessions>>

\* The master finds nothing left to do and takes the verdict.
ReturnVerdict ==
    /\ AtLock(Master)
    /\ queue = {} /\ ~stop /\ TodoNow(Master) = 0
    /\ Move(Master, "out")
    /\ nTotal' = TotalNow(Master) - 1
    /\ nTodo' = TodoNow(Master)
    /\ nIdle' = IdleNow(Master)
    /\ verdict' = IF AllOkNow(Master) THEN "ok" ELSE "failed"
    /\ fAllOk' = TRUE
    /\ Accounted(Master)
    /\ UNCHANGED <<queue, stop, fOk, started, added, sessions>>

Sleep(t) ==
    /\ AtLock(t)
    /\ queue = {} /\ ~stop
    /\ t = Master => TodoNow(t) # 0
    /\ Move(t, "asleep")
    /\ nIdle' = IdleNow(t) + 1
    /\ nTotal' = TotalNow(t)
    /\ nTodo' = TodoNow(t)
    /\ fAllOk' = AllOkNow(t)
    /\ Accounted(t)
    /\ UNCHANGED <<queue, stop, fOk, started, session>>

ReturnStopped(t) ==
    /\ AtLock(t)
    /\ stop
    /\ Move(t, "out")
    /\ nIdle' = IdleNow(t)
    /\ nTotal' = TotalNow(t)
    /\ nTodo' = TodoNow(t)
    /\ fAllOk' = AllOkNow(t)
    /\ Accounted(t)
    /\ UNCHANGED <<queue, stop, fOk, started, session>>

\* How many checks a thread takes: a share of the queue, at least one.
BatchSize(t) ==
    LET share == Cardinality(queue) \div (TotalNow(t) + IdleNow(t) + 1)
        capped == IF share > nBatchSize THEN nBatchSize ELSE share
    IN IF capped < 1 THEN 1 ELSE capped

\* Mutated form: the batch is counted as done when it is taken, and again later.
TakeBatch_Counted(t, S) ==
    /\ AtLock(t)
    /\ queue # {} /\ ~stop
    /\ S \subseteq queue /\ Cardinality(S) = BatchSize(t)
    /\ queue' = queue \ S
    /\ vChecks' = [vChecks EXCEPT ![t] = S]
    /\ executed' = [executed EXCEPT ![t] = {}]
    /\ fOk' = [fOk EXCEPT ![t] = AllOkNow(t)]
    /\ Move(t, "execute")
    /\ nIdle' = IdleNow(t)
    /\ nTotal' = TotalNow(t)
    /\ nTodo' = TodoNow(t) - Cardinality(S)
    /\ fAllOk' = AllOkNow(t)
    /\ UNCHANGED <<stop, started, session>>

TakeBatch(t, S) ==
    /\ AtLock(t)
    /\ queue # {} /\ ~stop
    /\ S \subseteq queue /\ Cardinality(S) = BatchSize(t)
    /\ queue' = queue \ S
    /\ vChecks' = [vChecks EXCEPT ![t] = S]
    /\ executed' = [executed EXCEPT ![t] = {}]
    /\ fOk' = [fOk EXCEPT ![t] = AllOkNow(t)]
    /\ Move(t, "execute")
    /\ nIdle' = IdleNow(t)
    /\ nTotal' = TotalNow(t)
    /\ nTodo' = TodoNow(t)
    /\ fAllOk' = AllOkNow(t)
    /\ UNCHANGED <<stop, started, session>>

\* One check, skipped when the verdict is known to be negative.
Execute(t, c) ==
    /\ pc[t] = "execute"
    /\ c \in vChecks[t] \ executed[t]
    /\ executed' = [executed EXCEPT ![t] = @ \cup {c}]
    /\ fOk' = [fOk EXCEPT ![t] = @ /\ c \notin Bad]
    /\ pc' = [pc EXCEPT ![t] = IF executed'[t] = vChecks[t] THEN "enter" ELSE @]
    /\ UNCHANGED <<pool, vChecks, started, session>>

\* A condition variable may return without a notification.
WakeSpuriously(t) ==
    /\ pc[t] = "asleep"
    /\ pc' = [pc EXCEPT ![t] = "woken"]
    /\ UNCHANGED <<pool, vChecks, executed, fOk, started, session>>

-----------------------------------------------------------------------------
Loop(t) ==
    \/ Sleep(t)
    \/ ReturnStopped(t)
    \/ \E S \in SUBSET queue : TakeBatch(t, S)
    \/ \E c \in Check : Execute(t, c)

Next ==
    \/ StartWorkerThreads
    \/ StopWorkerThreads
    \/ Joined
    \/ Control
    \/ \E S \in SUBSET Check : Add(S)
    \/ Wait
    \/ ReturnVerdict
    \/ \E t \in Thread : Loop(t)
    \/ \E t \in Thread : WakeSpuriously(t)

Spec == Init /\ [][Next]_vars

\* Every thread in Loop is scheduled again and again, and the owner of a control
\* object gets to Wait (its destructor calls it if nothing else does).
Fairness ==
    /\ \A t \in Thread : WF_vars(Loop(t))
    /\ WF_vars(ReturnVerdict)
    /\ WF_vars(Wait)
    /\ WF_vars(Joined)

FairSpec == Spec /\ Fairness

-----------------------------------------------------------------------------
Place == {"out", "adding", "enter", "asleep", "woken", "execute"}

\* Every variable has its type; in particular the unsigned counters do not wrap around.
TypeOK ==
    /\ queue \in SUBSET Check
    /\ nIdle \in Nat /\ nTotal \in Nat /\ nTodo \in Nat
    /\ fAllOk \in BOOLEAN /\ stop \in BOOLEAN /\ started \in BOOLEAN
    /\ pc \in [Thread -> Place]
    /\ vChecks \in [Thread -> SUBSET Check]
    /\ executed \in [Thread -> SUBSET Check]
    /\ fOk \in [Thread -> BOOLEAN]
    /\ added \in SUBSET Check
    /\ verdict \in {"none", "ok", "failed"}
    /\ sessions \in Nat

\* What Wait returns is the verdict on exactly the checks added for this block: true when
\* all of them hold, false when one does not, whatever the block before it was like.
VerdictCorrect ==
    /\ verdict = "ok" => added \cap Bad = {}
    /\ verdict = "failed" => added \cap Bad # {}

\* The threads in a condition variable, and those in Loop that have joined the pool.
InCondition == {t \in Thread : pc[t] \in {"asleep", "woken"}}
InPool == {t \in Thread : \/ pc[t] \in {"asleep", "woken", "execute"}
                          \/ pc[t] = "enter" /\ vChecks[t] # {}}

\* nIdle counts the threads in a condition variable, and nTotal those in Loop.
Counted ==
    /\ nIdle = Cardinality(InCondition)
    /\ started /\ ~stop => nTotal = Cardinality(InPool)

\* The master never sleeps for ever: each block gets its verdict.
BlockVerified == pc[Master] = "adding" ~> pc[Master] = "out"

\* Stopping the pool ends: no worker misses the request.
PoolStops == stop ~> ~started
-----------------------------------------------------------------------------
(* What CheckQueueProofs shows to be inductive. *)

\* The checks that are not accounted for: queued, or in a batch.
Pending == {c \in Check : c \in queue \/ \E t \in Thread : c \in vChecks[t]}

\* Every pending check has one holder, and a batch is held from taking it to accounting for it.
Held ==
    /\ \A t \in Thread : vChecks[t] \cap queue = {}
    /\ \A t, u \in Thread : t # u => vChecks[t] \cap vChecks[u] = {}
    /\ \A t \in Thread : executed[t] \subseteq vChecks[t]
    /\ \A t \in Thread : vChecks[t] # {} => pc[t] \in {"execute", "enter"}
    /\ \A t \in Thread : pc[t] = "enter" => executed[t] = vChecks[t]

\* nTodo counts the pending checks; fAllOk and fOk tell what the others returned.
VerdictSoFar ==
    /\ nTodo = Cardinality(Pending)
    /\ Pending \subseteq added
    /\ pc[Master] = "out" => Pending = {} /\ fAllOk
    /\ pc[Master] # "out" => /\ verdict = "none" /\ started /\ ~stop
                             /\ fAllOk => (added \ Pending) \cap Bad = {}
                             /\ ~fAllOk => added \cap Bad # {}
    /\ \A t \in Thread : /\ fOk[t] => executed[t] \cap Bad = {}
                         /\ ~fOk[t] /\ vChecks[t] # {} => added \cap Bad # {}

QueueTypes ==
    /\ queue \in SUBSET Check /\ added \in SUBSET Check
    /\ nTodo \in Nat
    /\ fAllOk \in BOOLEAN /\ stop \in BOOLEAN /\ started \in BOOLEAN
    /\ pc \in [Thread -> Place]
    /\ vChecks \in [Thread -> SUBSET Check]
    /\ executed \in [Thread -> SUBSET Check]
    /\ fOk \in [Thread -> BOOLEAN]

QueueInv == QueueTypes /\ Held /\ VerdictSoFar /\ VerdictCorrect

\* The counters, with what keeps them from going below zero.
CountInv ==
    /\ QueueInv /\ Counted
    /\ nIdle \in Nat /\ nTotal \in Nat /\ sessions \in Nat
    /\ verdict \in {"none", "ok", "failed"}
    /\ ~started => \A t \in Thread : pc[t] = "out"

===============================================================================
