------------------------------- MODULE Callbacks -------------------------------
(***************************************************************************)
(* The delivery of validation events: the task scheduler (scheduler.cpp),  *)
(* the SingleThreadedSchedulerClient that serialises events on it, and     *)
(* the list of subscribers (MainSignalsInstance in validationinterface.cpp *)
(* ), with the threads that add events, those that wait for the queue to   *)
(* drain, and the shutdown sequence of init.cpp.                           *)
(*                                                                         *)
(* An action is one stretch of code under newTaskMutex,                    *)
(* m_cs_callbacks_pending or m_mutex; every agent has a pc that says which *)
(* stretch comes next.  The scheduler's tasks are the ProcessQueue calls,  *)
(* due at once, and one periodic task.                                     *)
(***************************************************************************)
EXTENDS Naturals, Sequences, FiniteSets

CONSTANTS
    Service,        \* the threads that run serviceQueue
    Producer,       \* the threads that add events
    Late,           \* the producers that Shutdown joins after it has stopped the scheduler
    Main,           \* the thread that runs Shutdown
    Subscriber, NoSubscriber,
    AtStart,        \* the subscribers that start-up registers
    NoEvent,
    QueueLimit,     \* the length above which LimitValidationInterfaceQueue waits (10)
    MaxSteps        \* a bound on the events of each producer

ASSUME AgentAssumption ==
    /\ IsFiniteSet(Service) /\ IsFiniteSet(Producer) /\ Late \in SUBSET Producer
    /\ Service \cap Producer = {} /\ Main \notin Service \cup Producer

ASSUME ValueAssumption ==
    /\ IsFiniteSet(Subscriber) /\ AtStart \in SUBSET Subscriber
    /\ NoSubscriber \notin Subscriber /\ NoEvent \notin Nat
    /\ QueueLimit \in Nat /\ MaxSteps \in Nat

Agent == Service \cup Producer \cup {Main}

VARIABLES
    taskQueue,      \* the tasks by time: "process" and at most one "timer"
    timerDue,       \* the time of the queued timer has come
    stopRequested,
    pc,
    pending,        \* m_callbacks_pending: event numbers
    running,        \* m_are_callbacks_running
    current,        \* the event each agent executes
    added,          \* how many events were added
    syncs,          \* the events that only fulfil a promise
    executed,       \* the events executed
    waitsFor,       \* the event whose promise a producer waits for
    steps,          \* the iterations of ActivateBestChain of each producer
    flushes,        \* the ForceFlushStateToDisk calls of Shutdown
    mList,          \* m_list: the subscribers with an entry
    born,           \* the order of the list: entries are only put at its end; 0 if never
    count,          \* the reference count of its entries
    mMap,           \* m_map: the registered subscribers
    at,             \* the entry each agent's Iterate is at
    got             \* the events each subscriber was called with

scheduler == <<taskQueue, timerDue, stopRequested>>
client == <<pending, running, current, added, syncs, executed>>
waiting == <<waitsFor, steps, flushes>>
subscribers == <<mList, born, count, mMap, at, got>>
vars == <<scheduler, pc, client, waiting, subscribers>>

Init ==
    /\ taskQueue = <<"timer">> /\ timerDue = FALSE
    /\ stopRequested = FALSE
    /\ pc = [a \in Agent |-> IF a \in Service THEN "loop" ELSE IF a = Main THEN "up" ELSE "out"]
    /\ pending = <<>> /\ running = FALSE
    /\ current = [a \in Agent |-> NoEvent]
    /\ added = 0 /\ syncs = {} /\ executed = {}
    /\ waitsFor = [p \in Producer |-> NoEvent]
    /\ steps = [p \in Producer |-> 0] /\ flushes = 0
    /\ mList = AtStart /\ mMap = AtStart
    /\ \E order \in [AtStart -> 1 .. Cardinality(AtStart)] :
          /\ \A s, r \in AtStart : order[s] = order[r] => s = r
          /\ born = [s \in Subscriber |-> IF s \in AtStart THEN order[s] ELSE 0]
    /\ count = [s \in Subscriber |-> IF s \in AtStart THEN 1 ELSE 0]
    /\ at = [a \in Agent |-> NoSubscriber]
    /\ got = [s \in Subscriber |-> <<>>]

-----------------------------------------------------------------------------
(* CScheduler. *)

TimerQueued == \E i \in DOMAIN taskQueue : taskQueue[i] = "timer"

\* The service threads in newTaskScheduled: without a time limit, until a time to come,
\* or until a time that has come.
Waiters == {t \in Service : pc[t] \in {"asleep", "timed", "ready"}}

\* notify_one with the pc function f for everybody else: some waiter goes on, if there is one.
NotifyOne(f) ==
    \/ Waiters = {} /\ pc' = f
    \/ \E t \in Waiters : pc' = [f EXCEPT ![t] = "loop"]

\* Where a stretch of ProcessQueue or AddToProcessQueue returns to.
Back(a) ==
    CASE a \in Service -> "loop"
      [] a = Main -> IF flushes = 1 THEN "drain" ELSE "clear"
      [] OTHER -> IF waitsFor[a] = NoEvent THEN "out" ELSE "waiting"

\* The top of serviceQueue's loop.
ServiceLoop(t) ==
    /\ pc[t] = "loop"
    /\ \/ stopRequested /\ NotifyOne([pc EXCEPT ![t] = "exited"])
       \/ /\ ~stopRequested /\ taskQueue = <<>>
          /\ pc' = [pc EXCEPT ![t] = "asleep"]
       \/ /\ ~stopRequested /\ taskQueue # <<>>
          /\ pc' = [pc EXCEPT ![t] = IF Head(taskQueue) = "process" \/ timerDue
                                     THEN "ready" ELSE "timed"]
    /\ UNCHANGED <<scheduler, client, waiting, subscribers>>

\* wait_until has timed out: take the first task, whichever it is by now.
TakeTask(t) ==
    /\ pc[t] = "ready"
    /\ \/ /\ stopRequested \/ taskQueue = <<>>
          /\ pc' = [pc EXCEPT ![t] = "loop"]
          /\ UNCHANGED <<taskQueue, timerDue>>
       \/ /\ ~stopRequested /\ taskQueue # <<>>
          /\ pc' = [pc EXCEPT ![t] = Head(taskQueue)]
          /\ taskQueue' = Tail(taskQueue)
          /\ timerDue' = (timerDue /\ Head(taskQueue) # "timer")
    /\ UNCHANGED <<stopRequested, client, waiting, subscribers>>

\* The clock reaches the time of the periodic task.
TimerDue ==
    /\ TimerQueued /\ ~timerDue
    /\ timerDue' = TRUE
    /\ pc' = [a \in Agent |-> IF pc[a] = "timed" THEN "ready" ELSE pc[a]]
    /\ UNCHANGED <<taskQueue, stopRequested, client, waiting, subscribers>>

\* The mockscheduler RPC moves every task to an earlier time.
MockForward ==
    /\ pc[Main] \in {"up", "joinpeers"}
    /\ TimerQueued /\ ~timerDue
    /\ timerDue' = TRUE
    /\ NotifyOne(pc)
    /\ UNCHANGED <<taskQueue, stopRequested, client, waiting, subscribers>>

Repeat_Once(t) ==
    /\ pc[t] = "timer"
    /\ pc' = [pc EXCEPT ![t] = "loop"]
    /\ UNCHANGED <<scheduler, client, waiting, subscribers>>

\* Repeat: the task has run and is scheduled for later, behind all that is due.
Repeat(t) ==
    /\ pc[t] = "timer"
    /\ taskQueue' = Append(taskQueue, "timer")
    /\ timerDue' = FALSE
    /\ NotifyOne([pc EXCEPT ![t] = "loop"])
    /\ UNCHANGED <<stopRequested, client, waiting, subscribers>>

-----------------------------------------------------------------------------
(* SingleThreadedSchedulerClient. *)

\* The event is put in the queue; s says whether it fulfils the promise of a.
Enqueue(a, s) ==
    /\ added' = added + 1
    /\ pending' = Append(pending, added')
    /\ syncs' = IF s THEN syncs \cup {added'} ELSE syncs
    /\ pc' = [pc EXCEPT ![a] = "check"]
    /\ UNCHANGED <<running, current, executed>>

\* MaybeScheduleProcessQueue looks under its lock whether to schedule, and then does.
MaybeScheduleProcessQueue(a) ==
    /\ pc[a] = "check"
    /\ pc' = [pc EXCEPT ![a] = IF running \/ pending = <<>> THEN Back(a) ELSE "schedule"]
    /\ UNCHANGED <<scheduler, client, waiting, subscribers>>

\* A ProcessQueue call for now: before a periodic task that is not due.
Schedule(a) ==
    /\ pc[a] = "schedule"
    /\ taskQueue' = IF TimerQueued /\ ~timerDue
                    THEN SubSeq(taskQueue, 1, Len(taskQueue) - 1) \o <<"process", "timer">>
                    ELSE Append(taskQueue, "process")
    /\ NotifyOne([pc EXCEPT ![a] = Back(a)])
    /\ UNCHANGED <<timerDue, stopRequested, client, waiting, subscribers>>

\* ProcessQueue takes an event unless one is being executed.
ProcessQueue(a) ==
    /\ pc[a] = "process"
    /\ \/ /\ running \/ pending = <<>>
          /\ pc' = [pc EXCEPT ![a] = Back(a)]
          /\ UNCHANGED client
       \/ /\ ~running /\ pending # <<>>
          /\ running' = TRUE
          /\ current' = [current EXCEPT ![a] = Head(pending)]
          /\ pending' = Tail(pending)
          /\ pc' = [pc EXCEPT ![a] = "call"]
          /\ UNCHANGED <<added, syncs, executed>>
    /\ UNCHANGED <<scheduler, waiting, subscribers>>

\* A callback that fulfils a promise.
SetPromise(a) ==
    /\ pc[a] = "call" /\ current[a] \in syncs
    /\ executed' = executed \cup {current[a]}
    /\ pc' = [pc EXCEPT ![a] = "finish"]
    /\ UNCHANGED <<scheduler, pending, running, current, added, syncs, waiting, subscribers>>

CallbackDone_Unscheduled(a) ==
    /\ pc[a] = "finish"
    /\ running' = FALSE
    /\ current' = [current EXCEPT ![a] = NoEvent]
    /\ pc' = [pc EXCEPT ![a] = Back(a)]
    /\ UNCHANGED <<scheduler, pending, added, syncs, executed, waiting, subscribers>>

\* RAIICallbacksRunning: the next event may be taken.
CallbackDone(a) ==
    /\ pc[a] = "finish"
    /\ running' = FALSE
    /\ current' = [current EXCEPT ![a] = NoEvent]
    /\ pc' = [pc EXCEPT ![a] = "check"]
    /\ UNCHANGED <<scheduler, pending, added, syncs, executed, waiting, subscribers>>

-----------------------------------------------------------------------------
(* MainSignalsInstance. *)

Register(s) ==
    /\ born[s] = 0
    /\ pc[Main] \in {"up", "joinpeers"}
    /\ mList' = mList \cup {s}
    /\ born' = [born EXCEPT ![s] = Cardinality({x \in Subscriber : born[x] # 0}) + 1]
    /\ count' = [count EXCEPT ![s] = 1]
    /\ mMap' = mMap \cup {s}
    /\ UNCHANGED <<scheduler, pc, client, waiting, at, got>>

Unregister_Erased(s) ==
    /\ s \in mMap
    /\ count' = [count EXCEPT ![s] = @ - 1]
    /\ mList' = mList \ {s}
    /\ mMap' = mMap \ {s}
    /\ UNCHANGED <<scheduler, pc, client, waiting, born, at, got>>

Unregister(s) ==
    /\ s \in mMap
    /\ count' = [count EXCEPT ![s] = @ - 1]
    /\ mList' = {x \in mList : count'[x] # 0}
    /\ mMap' = mMap \ {s}
    /\ UNCHANGED <<scheduler, pc, client, waiting, born, at, got>>

\* The first of some entries, or none.
First(S) == IF S = {} THEN NoSubscriber ELSE CHOOSE x \in S : \A y \in S : born[x] <= born[y]

NextEntry_Restart(s) ==
    First({x \in mList \ {s} : s = NoSubscriber \/ count[s] = 1 \/ born[x] > born[s]})

\* The entry after s in the list, or the first one, or none.
NextEntry(s) == First({x \in mList : s = NoSubscriber \/ born[x] > born[s]})

\* Iterate releases the entry it comes from and calls the next one, without m_mutex.  It
\* runs for an event of the queue, or for BlockChecked in the thread that validates.
Iterate(a) ==
    /\ pc[a] \in {"call", "checked"} /\ current[a] \notin syncs
    /\ LET s == at[a]
           n == NextEntry(s)
           last == (n = NoSubscriber)
       IN /\ count' = [x \in Subscriber |-> IF x = s THEN count[x] - 1
                                            ELSE IF x = n THEN count[x] + 1 ELSE count[x]]
          /\ mList' = {x \in mList : count'[x] # 0}
          /\ at' = [at EXCEPT ![a] = n]
          /\ \/ /\ pc[a] = "call"
                /\ got' = IF last THEN got ELSE [got EXCEPT ![n] = Append(@, current[a])]
                /\ executed' = IF last THEN executed \cup {current[a]} ELSE executed
                /\ pc' = IF last THEN [pc EXCEPT ![a] = "finish"] ELSE pc
             \/ /\ pc[a] = "checked"
                /\ pc' = IF last THEN [pc EXCEPT ![a] = "signal"] ELSE pc
                /\ UNCHANGED <<got, executed>>
    /\ UNCHANGED <<scheduler, pending, running, current, added, syncs, waiting, born, mMap>>

-----------------------------------------------------------------------------
(* The producers: validation on behalf of peers, of RPC or of -reindex. *)

\* Shutdown has joined the thread.
Joined(p) == pc[Main] \notin {"up", "joinpeers"} \cup (IF p \in Late THEN {"joinscheduler", "joinlate"} ELSE {})

\* An iteration of ActivateBestChain starts with LimitValidationInterfaceQueue.
LimitValidationInterfaceQueue(p) ==
    /\ pc[p] = "out" /\ ~Joined(p)
    /\ steps[p] < MaxSteps
    /\ steps' = [steps EXCEPT ![p] = @ + 1]
    /\ pc' = [pc EXCEPT ![p] = IF Len(pending) > QueueLimit THEN "sync" ELSE "checked"]
    /\ UNCHANGED <<scheduler, client, waitsFor, flushes, subscribers>>

\* SyncWithValidationInterfaceQueue adds a promise to the queue and waits for it.
SyncWithValidationInterfaceQueue(p) ==
    /\ pc[p] = "sync"
    /\ Enqueue(p, TRUE)
    /\ waitsFor' = [waitsFor EXCEPT ![p] = added']
    /\ UNCHANGED <<scheduler, steps, flushes, subscribers>>

Synced(p) ==
    /\ pc[p] = "waiting" /\ waitsFor[p] \in executed
    /\ waitsFor' = [waitsFor EXCEPT ![p] = NoEvent]
    /\ pc' = [pc EXCEPT ![p] = "checked"]
    /\ UNCHANGED <<scheduler, client, steps, flushes, subscribers>>

\* CMainSignals: an event for the subscribers.
Signal(a) ==
    /\ pc[a] = "signal"
    /\ Enqueue(a, FALSE)
    /\ UNCHANGED <<scheduler, waiting, subscribers>>

-----------------------------------------------------------------------------
(* Shutdown. *)

\* Peers and RPC are stopped first: their threads are joined while events are still served.
StopProducers ==
    /\ pc[Main] = "up"
    /\ pc' = [pc EXCEPT ![Main] = "joinpeers"]
    /\ UNCHANGED <<scheduler, client, waiting, subscribers>>

StopScheduler_Early ==
    /\ pc[Main] = "joinpeers"
    /\ stopRequested' = TRUE
    /\ pc' = [a \in Agent |-> IF a = Main THEN "joinscheduler"
                              ELSE IF a \in Waiters THEN "loop" ELSE pc[a]]
    /\ UNCHANGED <<taskQueue, timerDue, client, waiting, subscribers>>

StopScheduler ==
    /\ pc[Main] = "joinpeers"
    /\ \A p \in Producer \ Late : pc[p] = "out"
    /\ stopRequested' = TRUE
    /\ pc' = [a \in Agent |-> IF a = Main THEN "joinscheduler"
                              ELSE IF a \in Waiters THEN "loop" ELSE pc[a]]
    /\ UNCHANGED <<taskQueue, timerDue, client, waiting, subscribers>>

JoinScheduler ==
    /\ pc[Main] = "joinscheduler"
    /\ \A t \in Service : pc[t] = "exited"
    /\ pc' = [pc EXCEPT ![Main] = "joinlate"]
    /\ UNCHANGED <<scheduler, client, waiting, subscribers>>

\* m_load_block is joined, the last of the producers, and the chainstate is flushed, which is one more event.
JoinLate ==
    /\ pc[Main] = "joinlate"
    /\ \A p \in Producer : pc[p] = "out"
    /\ flushes' = 1
    /\ pc' = [pc EXCEPT ![Main] = "signal"]
    /\ UNCHANGED <<scheduler, client, waitsFor, steps, subscribers>>

\* EmptyQueue executes what is left; then the chainstate is flushed again.
EmptyQueue ==
    /\ pc[Main] = "drain"
    /\ \/ /\ pending # <<>>
          /\ pc' = [pc EXCEPT ![Main] = "process"]
          /\ UNCHANGED flushes
       \/ /\ pending = <<>>
          /\ flushes' = 2
          /\ pc' = [pc EXCEPT ![Main] = "signal"]
    /\ UNCHANGED <<scheduler, client, waitsFor, steps, subscribers>>

\* Clear removes the subscribers, and the queue is destroyed with what is in it.
Clear ==
    /\ pc[Main] = "clear"
    /\ count' = [s \in Subscriber |-> IF s \in mMap THEN count[s] - 1 ELSE count[s]]
    /\ mList' = {s \in mList : count'[s] # 0}
    /\ mMap' = {}
    /\ pending' = <<>>
    /\ pc' = [pc EXCEPT ![Main] = "done"]
    /\ UNCHANGED <<scheduler, running, current, added, syncs, executed, waiting,
                   born, at, got>>

-----------------------------------------------------------------------------
\* What any agent does on behalf of ProcessQueue and AddToProcessQueue.
Client(a) ==
    \/ MaybeScheduleProcessQueue(a)
    \/ Schedule(a)
    \/ ProcessQueue(a)
    \/ SetPromise(a)
    \/ Iterate(a)
    \/ CallbackDone(a)
    \/ Signal(a)

ServiceQueue(t) == ServiceLoop(t) \/ TakeTask(t) \/ Repeat(t)

Produce(p) == SyncWithValidationInterfaceQueue(p) \/ Synced(p)

Shutdown == StopScheduler \/ JoinScheduler \/ JoinLate \/ EmptyQueue \/ Clear

Next ==
    \/ \E a \in Agent : Client(a)
    \/ \E t \in Service : ServiceQueue(t)
    \/ TimerDue \/ MockForward
    \/ \E s \in Subscriber : Register(s) \/ Unregister(s)
    \/ \E p \in Producer : LimitValidationInterfaceQueue(p) \/ Produce(p)
    \/ StopProducers
    \/ Shutdown

Spec == Init /\ [][Next]_vars

\* Every thread that can go on does, subscribers return from their callbacks, and time passes.
Fairness ==
    /\ \A a \in Agent : WF_vars(Client(a))
    /\ \A t \in Service : WF_vars(ServiceQueue(t))
    /\ \A p \in Producer : WF_vars(Produce(p))
    /\ WF_vars(TimerDue)
    /\ WF_vars(Shutdown)

FairSpec == Spec /\ Fairness

-----------------------------------------------------------------------------
Place == {"loop", "asleep", "timed", "ready", "exited", "timer", "process", "call", "finish",
          "check", "schedule", "out", "sync", "waiting", "checked", "signal",
          "up", "joinpeers", "joinscheduler", "joinlate", "drain", "clear", "done"}

\* Every variable has its type, and what waits in the queue is numbered.
TypeOK ==
    /\ taskQueue \in Seq({"process", "timer"})
    /\ timerDue \in BOOLEAN /\ stopRequested \in BOOLEAN /\ running \in BOOLEAN
    /\ pc \in [Agent -> Place]
    /\ pending \in Seq(Nat)
    /\ current \in [Agent -> Nat \cup {NoEvent}]
    /\ added \in Nat /\ syncs \in SUBSET (1 .. added) /\ executed \in SUBSET Nat
    /\ waitsFor \in [Producer -> Nat \cup {NoEvent}]
    /\ steps \in [Producer -> Nat] /\ flushes \in 0 .. 2
    /\ mList \in SUBSET Subscriber /\ mMap \in SUBSET Subscriber
    /\ born \in [Subscriber -> Nat] /\ count \in [Subscriber -> Nat]
    /\ at \in [Agent -> Subscriber \cup {NoSubscriber}]
    /\ got \in [Subscriber -> Seq(Nat)]

\* "Each subscriber will receive event callbacks in the order in which the events were
\* generated": none twice, and none left out between two that it got.
DeliveredInOrder ==
    \A s \in Subscriber : \A i \in 1 .. Len(got[s]) - 1 :
        /\ got[s][i] < got[s][i + 1]
        /\ \A e \in got[s][i] + 1 .. got[s][i + 1] - 1 : e \in syncs

\* An entry's count is the number of its executions, plus 1 if it is registered, and an
\* entry is in the list as long as that is not 0: no subscriber is called after its entry,
\* which keeps it alive, is gone.
CountExact ==
    \A s \in Subscriber :
        /\ count[s] = Cardinality({a \in Agent : at[a] = s}) + (IF s \in mMap THEN 1 ELSE 0)
        /\ s \in mList <=> count[s] > 0

\* Shutdown comes to its end: no thread that it joins waits for an event nobody executes.
ShutdownEnds == pc[Main] = "joinpeers" ~> pc[Main] = "done"

\* The periodic task runs again and again until the scheduler is stopped.
TimerKeepsRunning == []<>(stopRequested \/ \E t \in Service : pc[t] = "timer")

Executing == {a \in Agent : current[a] # NoEvent}

InExecution == IF Executing = {} THEN NoEvent ELSE current[CHOOSE a \in Executing : TRUE]

Queue == INSTANCE EventQueue WITH open <- pc[Main] # "done", current <- InExecution

\* Seen as one queue, events are executed serially, in order, and all of them, also those
\* that are pending when the scheduler stops; only the last flush of Shutdown is dropped.
ImplementsEventQueue == Queue!Spec

===============================================================================
