---------------------------- MODULE CallbacksProofs ----------------------------
(***************************************************************************)
(* What holds for every number of threads, producers and subscribers: the  *)
(* entries of the subscribers' list are counted exactly, every subscriber  *)
(* gets the events in order and without gaps, and the queue of events,     *)
(* with the threads that add to it and execute it and the shutdown, does   *)
(* what EventQueue says.                                                   *)
(***************************************************************************)
EXTENDS Callbacks, FiniteSetTheorems, WellFoundedInduction, TLAPS

\* The provers, and their time, for a leaf that names none.
USE ZenonT(20), SMTT(40)

-----------------------------------------------------------------------------
(* The inductive invariant. *)

\* The events up to this one were taken from the queue.
Taken == added - Len(pending)

\* Whom the event being executed still has to reach: those behind the entry Iterate is at.
Reached(a) == IF at[a] = NoSubscriber THEN 0 ELSE born[at[a]]

Outstanding(s) == \E a \in Agent : pc[a] = "call" /\ current[a] \notin syncs /\ born[s] > Reached(a)

\* Where the threads of each kind can be.
ServicePlace == {"loop", "asleep", "timed", "ready", "exited", "timer", "process", "call",
                 "finish", "check", "schedule"}

ProducerPlace == {"out", "sync", "waiting", "checked", "signal", "check", "schedule"}

JoinPlace == {"up", "joinpeers", "joinscheduler", "joinlate"}

MainPlace == JoinPlace \cup {"signal", "check", "schedule", "drain", "process", "call", "finish",
                             "clear", "done"}

PlaceOK ==
    /\ \A t \in Service : pc[t] \in ServicePlace
    /\ \A p \in Producer : pc[p] \in ProducerPlace
    /\ pc[Main] \in MainPlace

\* The stages of Shutdown: who can still add or execute events.
ShutdownOK ==
    /\ flushes = 0 <=> pc[Main] \in JoinPlace
    /\ pc[Main] = "joinlate" \/ flushes > 0 => \A t \in Service : pc[t] = "exited"
    /\ flushes > 0 => \A p \in Producer : pc[p] = "out"
    /\ flushes = 1 => pc[Main] \notin {"clear", "done"}
    /\ flushes = 2 => /\ pc[Main] \in {"signal", "check", "schedule", "clear", "done"}
                      /\ Len(pending) <= 1
                      /\ pc[Main] = "signal" => pending = <<>>

\* m_are_callbacks_running serialises the execution, and the queue holds what was added last.
SerialOK ==
    /\ \A a \in Agent : current[a] # NoEvent <=> pc[a] \in {"call", "finish"}
    /\ \A a \in Agent : current[a] # NoEvent => running /\ current[a] = Taken
    /\ running => \E a \in Agent : current[a] # NoEvent
    /\ \A a, b \in Agent : current[a] # NoEvent /\ current[b] # NoEvent => a = b
    /\ Len(pending) <= added
    /\ \A i \in 1 .. Len(pending) : pending[i] = Taken + i

\* An Iterate that is under way belongs to a call.
IterateOK ==
    \A a \in Agent : at[a] # NoSubscriber =>
        /\ pc[a] \in {"call", "checked"}
        /\ pc[a] = "call" => current[a] \notin syncs

\* Entries are put at the end of the list, and nobody is called who has no entry.
ListOK ==
    /\ \A s \in Subscriber : born[s] <= Cardinality({r \in Subscriber : born[r] # 0})
    /\ \A s, r \in Subscriber : born[s] = born[r] /\ born[s] # 0 => s = r
    /\ \A s \in mList : born[s] # 0
    /\ \A s \in Subscriber : born[s] = 0 => got[s] = <<>>

\* A subscriber in the list got the events up to the last one taken, but for promises and for
\* one that is on its way to it.
CaughtUp ==
    pc[Main] # "done" => \A s \in mList : got[s] # <<>> =>
        LET last == got[s][Len(got[s])] IN
            /\ last <= Taken
            /\ Outstanding(s) => last < Taken
            /\ \A e \in last + 1 .. Taken : e \in syncs \/ (e = Taken /\ Outstanding(s))

StageInv == TypeOK /\ PlaceOK /\ ShutdownOK

DeliveryInv == SerialOK /\ IterateOK /\ ListOK /\ CountExact /\ CaughtUp /\ DeliveredInOrder

IInv == StageInv /\ DeliveryInv

-----------------------------------------------------------------------------
(* Where a step leaves the threads. *)

\* Threads of different kinds are different.
LEMMA Agents ==
    /\ Main \in Agent /\ Main \notin Service /\ Main \notin Producer
    /\ \A t \in Service : t \in Agent /\ t # Main /\ t \notin Producer
    /\ \A p \in Producer : p \in Agent /\ p # Main /\ p \notin Service
    /\ \A a \in Agent : a \in Service \/ a \in Producer \/ a = Main
  BY AgentAssumption DEF Agent

\* notify_one only lets a waiting thread go on.
LEMMA Notified ==
    ASSUME TypeOK, NEW f \in [Agent -> Place], NotifyOne(f)
    PROVE  /\ pc' \in [Agent -> Place]
           /\ \A b \in Agent : \/ pc'[b] = f[b]
                               \/ /\ b \in Service /\ pc'[b] = "loop"
                                  /\ pc[b] \in {"asleep", "timed", "ready"}
  <1>1. CASE Waiters = {} /\ pc' = f
    BY <1>1
  <1>2. CASE \E t \in Waiters : pc' = [f EXCEPT ![t] = "loop"]
    <2>1. PICK t \in Waiters : pc' = [f EXCEPT ![t] = "loop"]
      BY <1>2
    <2>2. t \in Service /\ t \in Agent /\ pc[t] \in {"asleep", "timed", "ready"}
      BY <2>1, Agents DEF Waiters
    <2>3. "loop" \in Place
      BY DEF Place
    <2> QED BY <2>1, <2>2, <2>3
  <1> QED BY <1>1, <1>2 DEF NotifyOne

\* The kinds of places.
LEMMA Places ==
    /\ ServicePlace \subseteq Place /\ ProducerPlace \subseteq Place /\ MainPlace \subseteq Place
    /\ JoinPlace \subseteq MainPlace
  BY DEF ServicePlace, ProducerPlace, MainPlace, JoinPlace, Place

\* A step of service threads and of producers that are not joined does not disturb the stages.
LEMMA OthersMove ==
    ASSUME PlaceOK, ShutdownOK, flushes' = flushes, flushes \in 0 .. 2, pc'[Main] = pc[Main],
           flushes = 0 \/ pending' = pending,
           \A t \in Service : pc'[t] = pc[t] \/ (pc[t] # "exited" /\ pc'[t] \in ServicePlace),
           \A p \in Producer : pc'[p] = pc[p] \/ (flushes = 0 /\ pc'[p] \in ProducerPlace)
    PROVE  PlaceOK' /\ ShutdownOK'
  <1>1. PlaceOK'
    BY DEF PlaceOK
  <1>2. ShutdownOK'
    BY SMTT(40) DEF ShutdownOK
  <1> QED BY <1>1, <1>2

\* A step of Shutdown after it has joined the threads.
LEMMA MainMoves ==
    ASSUME PlaceOK, ShutdownOK, flushes' = flushes, flushes \in 1 .. 2,
           \A b \in Agent \ {Main} : pc'[b] = pc[b],
           pc'[Main] \in MainPlace \ JoinPlace,
           flushes = 1 => pc'[Main] \notin {"clear", "done"},
           flushes = 2 => /\ pc'[Main] \in {"check", "schedule", "clear", "done"}
                          /\ Len(pending') <= 1
    PROVE  PlaceOK' /\ ShutdownOK'
  <1>1. /\ \A t \in Service : pc'[t] = pc[t]
        /\ \A p \in Producer : pc'[p] = pc[p]
    BY Agents
  <1>2. PlaceOK'
    BY <1>1 DEF PlaceOK
  <1>3. ShutdownOK'
    BY <1>1, Places, SMTT(40) DEF ShutdownOK
  <1> QED BY <1>2, <1>3

-----------------------------------------------------------------------------
(* Types and stages. *)

\* At the start all is empty.
LEMMA InitStage == Init => StageInv
  <1> SUFFICES ASSUME Init PROVE StageInv
    OBVIOUS
  <1>1. pc \in [Agent -> Place]
    BY Agents DEF Init, Place
  <1>2. born \in [Subscriber -> Nat]
    <2>1. PICK order \in [AtStart -> 1 .. Cardinality(AtStart)] :
            born = [s \in Subscriber |-> IF s \in AtStart THEN order[s] ELSE 0]
      BY DEF Init
    <2>2. \A s \in AtStart : order[s] \in Nat
      BY <2>1, SMTT(40)
    <2> QED BY <2>1, <2>2
  <1>3. TypeOK
    <2>1. taskQueue \in Seq({"process", "timer"}) /\ pending \in Seq(Nat)
      BY SMTT(40) DEF Init
    <2>2. got \in [Subscriber -> Seq(Nat)]
      BY SMTT(40) DEF Init
    <2>3. /\ current \in [Agent -> Nat \cup {NoEvent}] /\ waitsFor \in [Producer -> Nat \cup {NoEvent}]
          /\ steps \in [Producer -> Nat] /\ count \in [Subscriber -> Nat]
          /\ at \in [Agent -> Subscriber \cup {NoSubscriber}]
      BY DEF Init
    <2>4. mList \in SUBSET Subscriber /\ mMap \in SUBSET Subscriber /\ added \in Nat /\ flushes \in 0 .. 2
      BY ValueAssumption, SMTT(40) DEF Init
    <2>5. timerDue \in BOOLEAN /\ stopRequested \in BOOLEAN /\ running \in BOOLEAN
      BY DEF Init
    <2>6. syncs \in SUBSET (1 .. added) /\ executed \in SUBSET Nat
      BY DEF Init
    <2> QED BY <1>1, <1>2, <2>1, <2>2, <2>3, <2>4, <2>5, <2>6 DEF TypeOK
  <1>4. PlaceOK
    BY Agents DEF Init, PlaceOK, ServicePlace, ProducerPlace, MainPlace, JoinPlace
  <1>5. ShutdownOK
    BY Agents, SMTT(40) DEF Init, ShutdownOK, JoinPlace
  <1> QED BY <1>3, <1>4, <1>5 DEF StageInv

\* Where Back leads to.
LEMMA BackPlace ==
    ASSUME NEW a \in Agent
    PROVE  /\ a \in Service => Back(a) = "loop"
           /\ a \in Producer => Back(a) \in {"out", "waiting"}
           /\ a = Main => Back(a) = IF flushes = 1 THEN "drain" ELSE "clear"
           /\ Back(a) \in Place
  BY Agents DEF Back, Place

\* The top of serviceQueue keeps the types, the places of the threads and the stage of
\* Shutdown.
LEMMA ServiceLoopStage ==
    ASSUME StageInv, NEW t \in Service, ServiceLoop(t)
    PROVE  StageInv'
  <1>1. "exited" \in Place /\ "asleep" \in Place /\ "ready" \in Place /\ "timed" \in Place
    BY DEF Place
  <1>2. /\ pc' \in [Agent -> Place]
        /\ \A b \in Agent : \/ pc'[b] = pc[b]
                            \/ b \in Service /\ pc[b] # "exited" /\ pc'[b] \in ServicePlace
    <2>1. CASE NotifyOne([pc EXCEPT ![t] = "exited"])
      <3>1. [pc EXCEPT ![t] = "exited"] \in [Agent -> Place]
        BY <1>1 DEF StageInv, TypeOK
      <3> QED BY <2>1, <3>1, Notified, Agents DEF ServiceLoop, StageInv, TypeOK, ServicePlace
    <2>2. CASE pc' = [pc EXCEPT ![t] = "asleep"]
      BY <2>2, <1>1, Agents DEF ServiceLoop, StageInv, TypeOK, ServicePlace
    <2>3. CASE pc' = [pc EXCEPT ![t] = IF Head(taskQueue) = "process" \/ timerDue
                                       THEN "ready" ELSE "timed"]
      BY <2>3, <1>1, Agents DEF ServiceLoop, StageInv, TypeOK, ServicePlace
    <2> QED BY <2>1, <2>2, <2>3 DEF ServiceLoop
  <1>3. TypeOK'
    BY <1>2 DEF ServiceLoop, StageInv, TypeOK, scheduler, client, waiting, subscribers
  <1>4. flushes' = flushes /\ pending' = pending /\ flushes \in 0 .. 2
    BY DEF ServiceLoop, StageInv, TypeOK, waiting, client
  <1>5. PlaceOK' /\ ShutdownOK'
    BY <1>2, <1>4, OthersMove, Agents DEF StageInv
  <1> QED BY <1>3, <1>5 DEF StageInv

\* So does taking a task: a service thread goes to ProcessQueue or to the periodic task.
LEMMA TakeTaskStage ==
    ASSUME StageInv, NEW t \in Service, TakeTask(t)
    PROVE  StageInv'
  <1>1. taskQueue # <<>> => Head(taskQueue) \in {"process", "timer"}
    BY SMTT(40) DEF StageInv, TypeOK
  <1>2. {"loop", "process", "timer"} \subseteq Place
    BY DEF Place
  <1>3. /\ pc' \in [Agent -> Place]
        /\ \A b \in Agent : \/ pc'[b] = pc[b]
                            \/ b \in Service /\ pc[b] # "exited" /\ pc'[b] \in ServicePlace
    <2>1. PICK x \in {"loop", "process", "timer"} : pc' = [pc EXCEPT ![t] = x]
      BY <1>1 DEF TakeTask
    <2> QED BY <2>1, <1>2, Agents DEF TakeTask, StageInv, TypeOK, ServicePlace
  <1>4. taskQueue' \in Seq({"process", "timer"}) /\ timerDue' \in BOOLEAN
    <2>1. taskQueue \in Seq({"process", "timer"}) /\ timerDue \in BOOLEAN
      BY DEF StageInv, TypeOK
    <2>2. CASE UNCHANGED <<taskQueue, timerDue>>
      BY <2>1, <2>2
    <2>3. CASE taskQueue # <<>> /\ taskQueue' = Tail(taskQueue) /\ timerDue' = (timerDue /\ Head(taskQueue) # "timer")
      <3>1. taskQueue' \in Seq({"process", "timer"})
        BY <2>1, <2>3, SMTT(40)
      <3>2. timerDue' \in BOOLEAN
        BY <2>3
      <3> QED BY <3>1, <3>2
    <2> QED BY <2>2, <2>3 DEF TakeTask
  <1>5. TypeOK'
    BY <1>3, <1>4 DEF TakeTask, StageInv, TypeOK, client, waiting, subscribers
  <1>6. flushes' = flushes /\ pending' = pending /\ flushes \in 0 .. 2
    BY DEF TakeTask, StageInv, TypeOK, waiting, client
  <1>7. PlaceOK' /\ ShutdownOK'
    BY <1>3, <1>6, OthersMove, Agents DEF StageInv
  <1> QED BY <1>5, <1>7 DEF StageInv

\* The clock only makes a waiting service thread go on.
LEMMA TimerDueStage ==
    ASSUME StageInv, TimerDue
    PROVE  StageInv'
  <1>1. /\ pc' \in [Agent -> Place]
        /\ \A b \in Agent : \/ pc'[b] = pc[b]
                            \/ b \in Service /\ pc[b] # "exited" /\ pc'[b] \in ServicePlace
    <2>1. "ready" \in Place
      BY DEF Place
    <2>2. \A b \in Agent : pc[b] = "timed" => b \in Service
      BY Agents DEF StageInv, PlaceOK, ProducerPlace, MainPlace, JoinPlace
    <2> QED BY <2>1, <2>2 DEF TimerDue, StageInv, TypeOK, ServicePlace
  <1>2. TypeOK'
    BY <1>1 DEF TimerDue, StageInv, TypeOK, client, waiting, subscribers
  <1>3. flushes' = flushes /\ pending' = pending /\ flushes \in 0 .. 2
    BY DEF TimerDue, StageInv, TypeOK, waiting, client
  <1>4. PlaceOK' /\ ShutdownOK'
    BY <1>1, <1>3, OthersMove, Agents DEF StageInv
  <1> QED BY <1>2, <1>4 DEF StageInv

\* The mockscheduler RPC only wakes a service thread.
LEMMA MockForwardStage ==
    ASSUME StageInv, MockForward
    PROVE  StageInv'
  <1>1. /\ pc' \in [Agent -> Place]
        /\ \A b \in Agent : \/ pc'[b] = pc[b]
                            \/ b \in Service /\ pc[b] # "exited" /\ pc'[b] \in ServicePlace
    BY Notified DEF MockForward, StageInv, TypeOK, ServicePlace
  <1>2. TypeOK'
    BY <1>1 DEF MockForward, StageInv, TypeOK, client, waiting, subscribers
  <1>3. flushes' = flushes /\ pending' = pending /\ flushes \in 0 .. 2
    BY DEF MockForward, StageInv, TypeOK, waiting, client
  <1>4. PlaceOK' /\ ShutdownOK'
    BY <1>1, <1>3, OthersMove, Agents DEF StageInv
  <1> QED BY <1>2, <1>4 DEF StageInv

\* The periodic task puts itself back and returns to the loop.
LEMMA RepeatStage ==
    ASSUME StageInv, NEW t \in Service, Repeat(t)
    PROVE  StageInv'
  <1>1. [pc EXCEPT ![t] = "loop"] \in [Agent -> Place]
    BY DEF StageInv, TypeOK, Place
  <1>2. /\ pc' \in [Agent -> Place]
        /\ \A b \in Agent : \/ pc'[b] = pc[b]
                            \/ b \in Service /\ pc[b] # "exited" /\ pc'[b] \in ServicePlace
    BY <1>1, Notified, Agents DEF Repeat, StageInv, TypeOK, ServicePlace
  <1>3. taskQueue' \in Seq({"process", "timer"})
    BY SMTT(40) DEF Repeat, StageInv, TypeOK
  <1>4. TypeOK'
    BY <1>2, <1>3 DEF Repeat, StageInv, TypeOK, client, waiting, subscribers
  <1>5. flushes' = flushes /\ pending' = pending /\ flushes \in 0 .. 2
    BY DEF Repeat, StageInv, TypeOK, waiting, client
  <1>6. PlaceOK' /\ ShutdownOK'
    BY <1>2, <1>5, OthersMove, Agents DEF StageInv
  <1> QED BY <1>4, <1>6 DEF StageInv


\* A step that brings one thread to x, and perhaps wakes another one, does not disturb the
\* stages when x is a place for it.
LEMMA AgentMoves ==
    ASSUME StageInv, NEW a \in Agent, NEW x, flushes' = flushes,
           \A b \in Agent : \/ pc'[b] = IF b = a THEN x ELSE pc[b]
                            \/ /\ b \in Service /\ pc'[b] = "loop"
                               /\ pc[b] \in {"asleep", "timed", "ready"},
           a \in Service => pc[a] # "exited" /\ x \in ServicePlace,
           a \in Producer => pc[a] # "out" /\ x \in ProducerPlace,
           a = Main => /\ flushes # 0 /\ x \in MainPlace \ JoinPlace
                       /\ flushes = 1 => x \notin {"clear", "done"}
                       /\ flushes = 2 => /\ x \in {"check", "schedule", "clear", "done"}
                                         /\ Len(pending') <= 1
    PROVE  PlaceOK' /\ ShutdownOK'
  <1>1. flushes \in 0 .. 2
    BY DEF StageInv, TypeOK
  <1>2. CASE a = Main
    <2>1. \A t \in Service : pc[t] = "exited"
      BY <1>1, <1>2, SMTT(40) DEF StageInv, ShutdownOK
    <2>2. \A b \in Agent \ {Main} : pc'[b] = pc[b]
      BY <1>2, <2>1
    <2>3. pc'[Main] = x
      BY <1>2, <2>1, Agents
    <2>4. flushes \in 1 .. 2
      BY <1>1, <1>2, SMTT(40)
    <2> QED BY <1>2, <2>2, <2>3, <2>4, MainMoves DEF StageInv
  <1>3. CASE a # Main
    <2>1. flushes = 0
      BY <1>1, <1>3, Agents, SMTT(40) DEF StageInv, ShutdownOK
    <2>2. pc'[Main] = pc[Main]
      BY <1>3, Agents
    <2>3. \A t \in Service : pc'[t] = pc[t] \/ (pc[t] # "exited" /\ pc'[t] \in ServicePlace)
      BY Agents DEF ServicePlace
    <2>4. \A p \in Producer : pc'[p] = pc[p] \/ (flushes = 0 /\ pc'[p] \in ProducerPlace)
      BY <2>1, Agents
    <2> QED BY <1>1, <2>1, <2>2, <2>3, <2>4, OthersMove DEF StageInv
  <1> QED BY <1>2, <1>3

\* The stages in which Shutdown works on the queue itself.
LEMMA MainStage ==
    ASSUME StageInv, pc[Main] \notin JoinPlace
    PROVE  flushes \in 1 .. 2 /\ (flushes = 2 => Len(pending) <= 1)
  BY SMTT(40) DEF StageInv, TypeOK, ShutdownOK

\* MaybeScheduleProcessQueue returns to where its caller came from, or goes on to schedule.
LEMMA MaybeScheduleStage ==
    ASSUME StageInv, NEW a \in Agent, MaybeScheduleProcessQueue(a)
    PROVE  StageInv'
  <1> DEFINE x == IF running \/ pending = <<>> THEN Back(a) ELSE "schedule"
  <1>1. x \in Place
    BY BackPlace DEF Place
  <1>2. pc' = [pc EXCEPT ![a] = x] /\ pc[a] = "check"
    BY DEF MaybeScheduleProcessQueue
  <1>3. UNCHANGED <<scheduler, client, waiting, subscribers>>
    BY DEF MaybeScheduleProcessQueue
  <1> HIDE DEF x
  <1>4. pc' \in [Agent -> Place] /\ \A b \in Agent : pc'[b] = IF b = a THEN x ELSE pc[b]
    BY <1>1, <1>2 DEF StageInv, TypeOK
  <1>5. TypeOK'
    BY <1>3, <1>4 DEF StageInv, TypeOK, scheduler, client, waiting, subscribers
  <1>6. a = Main => flushes \in 1 .. 2 /\ (flushes = 2 => Len(pending) <= 1)
    BY <1>2, MainStage DEF JoinPlace
  <1>7. /\ a \in Service => x \in ServicePlace
        /\ a \in Producer => x \in ProducerPlace
        /\ a = Main => x \in {"schedule", IF flushes = 1 THEN "drain" ELSE "clear"}
    BY BackPlace DEF x, ServicePlace, ProducerPlace
  <1>8. flushes' = flushes /\ pending' = pending
    BY <1>3 DEF waiting, client
  <1>9. a = Main => /\ flushes # 0 /\ x \in MainPlace \ JoinPlace
                    /\ flushes = 1 => x \notin {"clear", "done"}
                    /\ flushes = 2 => /\ x \in {"check", "schedule", "clear", "done"}
                                      /\ Len(pending') <= 1
    BY <1>6, <1>7, <1>8, SMTT(40) DEF MainPlace, JoinPlace
  <1>10. PlaceOK' /\ ShutdownOK'
    BY <1>2, <1>4, <1>7, <1>8, <1>9, AgentMoves
  <1> QED BY <1>5, <1>10 DEF StageInv

\* schedule adds a task and returns to where its caller came from.
LEMMA ScheduleStage ==
    ASSUME StageInv, NEW a \in Agent, Schedule(a)
    PROVE  StageInv'
  <1> DEFINE x == Back(a)
             f == [pc EXCEPT ![a] = x]
  <1>1. x \in Place
    BY BackPlace
  <1>2. NotifyOne(f) /\ pc[a] = "schedule"
    BY DEF Schedule
  <1>3. UNCHANGED <<timerDue, stopRequested, client, waiting, subscribers>>
    BY DEF Schedule
  <1>4. f \in [Agent -> Place] /\ \A b \in Agent : f[b] = IF b = a THEN x ELSE pc[b]
    BY <1>1 DEF StageInv, TypeOK
  <1>5. taskQueue' \in Seq({"process", "timer"})
    <2>1. taskQueue \in Seq({"process", "timer"})
      BY DEF StageInv, TypeOK
    <2>2. CASE taskQueue' = Append(taskQueue, "process")
      BY <2>1, <2>2, SMTT(40)
    <2>3. CASE TimerQueued /\ taskQueue' = SubSeq(taskQueue, 1, Len(taskQueue) - 1) \o <<"process", "timer">>
      <3>1. Len(taskQueue) \in Nat /\ Len(taskQueue) # 0
        BY <2>1, <2>3, SMTT(40) DEF TimerQueued
      <3>2. SubSeq(taskQueue, 1, Len(taskQueue) - 1) \in Seq({"process", "timer"})
        BY <2>1, <3>1, SMTT(40)
      <3>3. <<"process", "timer">> \in Seq({"process", "timer"})
        BY SMTT(40)
      <3> QED BY <2>3, <3>2, <3>3, SMTT(40)
    <2> QED BY <2>2, <2>3 DEF Schedule
  <1> HIDE DEF x, f
  <1>6. /\ pc' \in [Agent -> Place]
        /\ \A b \in Agent : \/ pc'[b] = f[b]
                            \/ /\ b \in Service /\ pc'[b] = "loop"
                               /\ pc[b] \in {"asleep", "timed", "ready"}
    BY <1>2, <1>4, Notified DEF StageInv
  <1>7. TypeOK'
    BY <1>3, <1>5, <1>6 DEF StageInv, TypeOK, client, waiting, subscribers
  <1>8. a = Main => flushes \in 1 .. 2 /\ (flushes = 2 => Len(pending) <= 1)
    BY <1>2, MainStage DEF JoinPlace
  <1>9. /\ a \in Service => x \in ServicePlace
        /\ a \in Producer => x \in ProducerPlace
        /\ a = Main => x = IF flushes = 1 THEN "drain" ELSE "clear"
    BY BackPlace DEF x, ServicePlace, ProducerPlace
  <1>10. flushes' = flushes /\ pending' = pending
    BY <1>3 DEF waiting, client
  <1>11. a = Main => /\ flushes # 0 /\ x \in MainPlace \ JoinPlace
                     /\ flushes = 1 => x \notin {"clear", "done"}
                     /\ flushes = 2 => /\ x \in {"check", "schedule", "clear", "done"}
                                       /\ Len(pending') <= 1
    BY <1>8, <1>9, <1>10, SMTT(40) DEF MainPlace, JoinPlace
  <1>12. PlaceOK' /\ ShutdownOK'
    BY <1>2, <1>4, <1>6, <1>9, <1>10, <1>11, AgentMoves, SMTT(40)
  <1> QED BY <1>7, <1>12 DEF StageInv


\* ProcessQueue takes the oldest event, or returns; in the last stage of Shutdown nobody
\* calls it.
LEMMA ProcessQueueStage ==
    ASSUME StageInv, NEW a \in Agent, ProcessQueue(a)
    PROVE  StageInv'
  <1>1. PICK x \in {Back(a), "call"} : pc' = [pc EXCEPT ![a] = x]
    BY DEF ProcessQueue
  <1>2. pc[a] = "process"
    BY DEF ProcessQueue
  <1>3. x \in Place
    BY BackPlace DEF Place
  <1>4. pc' \in [Agent -> Place] /\ \A b \in Agent : pc'[b] = IF b = a THEN x ELSE pc[b]
    BY <1>1, <1>3 DEF StageInv, TypeOK
  <1>5. /\ running' \in BOOLEAN
        /\ current' \in [Agent -> Nat \cup {NoEvent}]
        /\ pending' \in Seq(Nat)
        /\ UNCHANGED <<added, syncs, executed>>
    <2>1. /\ running \in BOOLEAN /\ current \in [Agent -> Nat \cup {NoEvent}]
          /\ pending \in Seq(Nat)
      BY DEF StageInv, TypeOK
    <2>2. CASE UNCHANGED client
      BY <2>1, <2>2 DEF client
    <2>3. CASE /\ ~running /\ pending # <<>>
               /\ running' = TRUE
               /\ current' = [current EXCEPT ![a] = Head(pending)]
               /\ pending' = Tail(pending)
               /\ UNCHANGED <<added, syncs, executed>>
      <3>1. Head(pending) \in Nat /\ Tail(pending) \in Seq(Nat)
        BY <2>1, <2>3, SMTT(40)
      <3> QED BY <2>1, <2>3, <3>1
    <2> QED BY <2>2, <2>3 DEF ProcessQueue
  <1>6. UNCHANGED <<scheduler, waiting, subscribers>>
    BY DEF ProcessQueue
  <1>7. TypeOK'
    BY <1>4, <1>5, <1>6 DEF StageInv, TypeOK, scheduler, waiting, subscribers
  <1>8. a = Main => flushes = 1
    BY <1>2, MainStage, SMTT(40) DEF JoinPlace, StageInv, ShutdownOK
  <1>9. /\ a \in Service => x \in ServicePlace
        /\ a = Main => x \in {"call", "drain"}
    BY <1>1, <1>8, BackPlace DEF ServicePlace
  <1>10. a \notin Producer
    BY <1>2 DEF StageInv, PlaceOK, ProducerPlace
  <1>11. flushes' = flushes
    BY <1>6 DEF waiting
  <1>12. a = Main => /\ flushes # 0 /\ x \in MainPlace \ JoinPlace
                     /\ flushes = 1 => x \notin {"clear", "done"}
                     /\ flushes = 2 => /\ x \in {"check", "schedule", "clear", "done"}
                                       /\ Len(pending') <= 1
    BY <1>8, <1>9, SMTT(40) DEF MainPlace, JoinPlace
  <1>13. PlaceOK' /\ ShutdownOK'
    BY <1>2, <1>4, <1>9, <1>10, <1>11, <1>12, AgentMoves, SMTT(40)
  <1> QED BY <1>7, <1>13 DEF StageInv

\* An agent that executes an event is a service thread or Shutdown that drains the queue.
LEMMA CallerStage ==
    ASSUME StageInv, NEW a \in Agent, pc[a] \in {"process", "call", "finish"}
    PROVE  /\ a \notin Producer
           /\ a = Main => flushes = 1
           /\ pc[Main] # "done"
  <1>1. a \notin Producer
    BY DEF StageInv, PlaceOK, ProducerPlace
  <1>2. a = Main => flushes = 1
    BY MainStage, SMTT(40) DEF JoinPlace, StageInv, ShutdownOK
  <1>3. flushes \in 0 .. 1
    BY <1>1, <1>2, Agents, SMTT(40) DEF StageInv, TypeOK, ShutdownOK
  <1>4. pc[Main] # "done"
    BY <1>3, SMTT(40) DEF StageInv, ShutdownOK, JoinPlace
  <1> QED BY <1>1, <1>2, <1>4

\* A fulfilled promise is an executed event.
LEMMA SetPromiseStage ==
    ASSUME StageInv, NEW a \in Agent, SetPromise(a)
    PROVE  StageInv'
  <1>1. pc[a] = "call" /\ pc' = [pc EXCEPT ![a] = "finish"]
    BY DEF SetPromise
  <1>2. pc' \in [Agent -> Place] /\ \A b \in Agent : pc'[b] = IF b = a THEN "finish" ELSE pc[b]
    BY <1>1 DEF StageInv, TypeOK, Place
  <1>3. executed' \in SUBSET Nat
    <2>1. executed \in SUBSET Nat /\ syncs \in SUBSET (1 .. added) /\ added \in Nat
      BY DEF StageInv, TypeOK
    <2>2. current[a] \in syncs /\ executed' = executed \cup {current[a]}
      BY DEF SetPromise
    <2>3. current[a] \in 1 .. added
      BY <2>1, <2>2
    <2>4. current[a] \in Nat
      BY <2>1, <2>3, SMTT(40)
    <2> QED BY <2>1, <2>2, <2>4
  <1>4. UNCHANGED <<scheduler, pending, running, current, added, syncs, waiting, subscribers>>
    BY DEF SetPromise
  <1>5. TypeOK'
    BY <1>2, <1>3, <1>4 DEF StageInv, TypeOK, scheduler, waiting, subscribers
  <1>6. a \notin Producer /\ (a = Main => flushes = 1)
    BY <1>1, CallerStage
  <1>7. flushes' = flushes
    BY <1>4 DEF waiting
  <1>8. "finish" \in ServicePlace /\ "finish" \in MainPlace \ JoinPlace
    BY DEF ServicePlace, MainPlace, JoinPlace
  <1>9. PlaceOK' /\ ShutdownOK'
    BY <1>1, <1>2, <1>6, <1>7, <1>8, AgentMoves, SMTT(40)
  <1> QED BY <1>5, <1>9 DEF StageInv

\* The end of a callback leads to MaybeScheduleProcessQueue.
LEMMA CallbackDoneStage ==
    ASSUME StageInv, NEW a \in Agent, CallbackDone(a)
    PROVE  StageInv'
  <1>1. pc[a] = "finish" /\ pc' = [pc EXCEPT ![a] = "check"]
    BY DEF CallbackDone
  <1>2. pc' \in [Agent -> Place] /\ \A b \in Agent : pc'[b] = IF b = a THEN "check" ELSE pc[b]
    BY <1>1 DEF StageInv, TypeOK, Place
  <1>3. running' \in BOOLEAN /\ current' \in [Agent -> Nat \cup {NoEvent}]
    BY DEF CallbackDone, StageInv, TypeOK
  <1>4. UNCHANGED <<scheduler, pending, added, syncs, executed, waiting, subscribers>>
    BY DEF CallbackDone
  <1>5. TypeOK'
    BY <1>2, <1>3, <1>4 DEF StageInv, TypeOK, scheduler, waiting, subscribers
  <1>6. a \notin Producer /\ (a = Main => flushes = 1)
    BY <1>1, CallerStage
  <1>7. flushes' = flushes
    BY <1>4 DEF waiting
  <1>8. "check" \in ServicePlace /\ "check" \in MainPlace \ JoinPlace
    BY DEF ServicePlace, MainPlace, JoinPlace
  <1>9. PlaceOK' /\ ShutdownOK'
    BY <1>1, <1>2, <1>6, <1>7, <1>8, AgentMoves, SMTT(40)
  <1> QED BY <1>5, <1>9 DEF StageInv


\* AddToProcessQueue, for an event or a promise, keeps the types and the stage of Shutdown.
LEMMA EnqueueStage ==
    ASSUME StageInv, NEW a \in Agent, NEW s \in BOOLEAN, Enqueue(a, s),
           pc[a] = "signal" \/ (pc[a] = "sync" /\ a \in Producer),
           waitsFor' \in [Producer -> Nat \cup {NoEvent}],
           UNCHANGED <<scheduler, steps, flushes, subscribers>>
    PROVE  StageInv'
  <1>1. pc' = [pc EXCEPT ![a] = "check"]
    BY DEF Enqueue
  <1>2. pc' \in [Agent -> Place] /\ \A b \in Agent : pc'[b] = IF b = a THEN "check" ELSE pc[b]
    BY <1>1 DEF StageInv, TypeOK, Place
  <1>3. added \in Nat /\ pending \in Seq(Nat) /\ syncs \in SUBSET (1 .. added)
    BY DEF StageInv, TypeOK
  <1>4. added' = added + 1 /\ pending' = Append(pending, added + 1) /\ syncs' \in SUBSET (syncs \cup {added + 1})
    BY DEF Enqueue
  <1>5. added' \in Nat /\ pending' \in Seq(Nat) /\ Len(pending') = Len(pending) + 1
    BY <1>3, <1>4, SMTT(40)
  <1>6. syncs' \in SUBSET (1 .. added')
    BY <1>3, <1>4, SMTT(40)
  <1>7. UNCHANGED <<running, current, executed>>
    BY DEF Enqueue
  <1>8. TypeOK'
    BY <1>2, <1>5, <1>6, <1>7 DEF StageInv, TypeOK, scheduler, subscribers
  <1>9. a \notin Service
    BY DEF StageInv, PlaceOK, ServicePlace
  <1>10. a = Main => flushes \in 1 .. 2 /\ pc[a] = "signal"
    BY MainStage, Agents DEF JoinPlace
  <1>11. a = Main => (flushes = 2 => Len(pending) = 0)
    BY <1>10, SMTT(40) DEF StageInv, ShutdownOK
  <1>12. "check" \in ProducerPlace /\ "check" \in MainPlace \ JoinPlace
    BY DEF ProducerPlace, MainPlace, JoinPlace
  <1>13. a = Main => /\ flushes # 0
                     /\ flushes = 2 => Len(pending') <= 1
    BY <1>5, <1>10, <1>11, SMTT(40)
  <1>14. PlaceOK' /\ ShutdownOK'
    BY <1>2, <1>9, <1>12, <1>13, AgentMoves
  <1> QED BY <1>8, <1>14 DEF StageInv

\* Only a producer adds a promise, and then waits for it.
LEMMA SyncStage ==
    ASSUME StageInv, NEW p \in Producer, SyncWithValidationInterfaceQueue(p)
    PROVE  StageInv'
  <1>1. waitsFor' \in [Producer -> Nat \cup {NoEvent}]
    BY SMTT(40) DEF SyncWithValidationInterfaceQueue, Enqueue, StageInv, TypeOK
  <1>2. UNCHANGED <<scheduler, steps, flushes, subscribers>> /\ Enqueue(p, TRUE) /\ pc[p] = "sync"
    BY DEF SyncWithValidationInterfaceQueue
  <1> QED BY <1>1, <1>2, EnqueueStage, Agents

\* A signal adds one event; in the last stage of Shutdown it is the only one in the queue.
LEMMA SignalStage ==
    ASSUME StageInv, NEW a \in Agent, Signal(a)
    PROVE  StageInv'
  <1>1. waitsFor' \in [Producer -> Nat \cup {NoEvent}]
    BY DEF Signal, waiting, StageInv, TypeOK
  <1>2. UNCHANGED <<scheduler, steps, flushes, subscribers>> /\ Enqueue(a, FALSE) /\ pc[a] = "signal"
    BY DEF Signal, waiting
  <1> QED BY <1>1, <1>2, EnqueueStage

\* LimitValidationInterfaceQueue is called by producers that Shutdown has not joined.
LEMMA LimitStage ==
    ASSUME StageInv, NEW p \in Producer, LimitValidationInterfaceQueue(p)
    PROVE  StageInv'
  <1>1. PICK x \in {"sync", "checked"} : pc' = [pc EXCEPT ![p] = x]
    BY DEF LimitValidationInterfaceQueue
  <1>2. pc' \in [Agent -> Place] /\ \A b \in Agent : pc'[b] = IF b = p THEN x ELSE pc[b]
    BY <1>1, Agents DEF StageInv, TypeOK, Place
  <1>3. steps' \in [Producer -> Nat]
    BY SMTT(40) DEF LimitValidationInterfaceQueue, StageInv, TypeOK
  <1>4. UNCHANGED <<scheduler, client, waitsFor, flushes, subscribers>>
    BY DEF LimitValidationInterfaceQueue
  <1>5. TypeOK'
    BY <1>2, <1>3, <1>4 DEF StageInv, TypeOK, scheduler, client, subscribers
  <1>6. pc[Main] \in JoinPlace
    BY DEF LimitValidationInterfaceQueue, Joined, JoinPlace
  <1>7. flushes = 0 /\ flushes' = flushes /\ pending' = pending
    BY <1>4, <1>6 DEF StageInv, ShutdownOK, client
  <1>8. x \in ProducerPlace
    BY DEF ProducerPlace
  <1>9. PlaceOK' /\ ShutdownOK'
    BY <1>2, <1>7, <1>8, OthersMove, Agents, SMTT(40) DEF StageInv
  <1> QED BY <1>5, <1>9 DEF StageInv

\* A producer whose promise is fulfilled goes on to validate.
LEMMA SyncedStage ==
    ASSUME StageInv, NEW p \in Producer, Synced(p)
    PROVE  StageInv'
  <1>1. pc[p] = "waiting" /\ pc' = [pc EXCEPT ![p] = "checked"]
    BY DEF Synced
  <1>2. pc' \in [Agent -> Place] /\ \A b \in Agent : pc'[b] = IF b = p THEN "checked" ELSE pc[b]
    BY <1>1, Agents DEF StageInv, TypeOK, Place
  <1>3. waitsFor' \in [Producer -> Nat \cup {NoEvent}]
    BY DEF Synced, StageInv, TypeOK
  <1>4. UNCHANGED <<scheduler, client, steps, flushes, subscribers>>
    BY DEF Synced
  <1>5. TypeOK'
    BY <1>2, <1>3, <1>4 DEF StageInv, TypeOK, scheduler, client, subscribers
  <1>6. "checked" \in ProducerPlace
    BY DEF ProducerPlace
  <1>7. PlaceOK' /\ ShutdownOK'
    BY <1>1, <1>2, <1>4, <1>6, AgentMoves, Agents
  <1> QED BY <1>5, <1>7 DEF StageInv


\* Shutdown begins: no thread is joined yet.
LEMMA StopProducersStage ==
    ASSUME StageInv, StopProducers
    PROVE  StageInv'
  <1>1. pc[Main] = "up" /\ pc' = [pc EXCEPT ![Main] = "joinpeers"]
    BY DEF StopProducers
  <1>2. UNCHANGED <<scheduler, client, waiting, subscribers>>
    BY DEF StopProducers
  <1>3. pc' \in [Agent -> Place] /\ \A b \in Agent : pc'[b] = IF b = Main THEN "joinpeers" ELSE pc[b]
    BY <1>1 DEF StageInv, TypeOK, Place
  <1>4. TypeOK'
    BY <1>2, <1>3 DEF StageInv, TypeOK, scheduler, client, waiting, subscribers
  <1>5. PlaceOK'
    BY <1>3, Agents DEF StageInv, PlaceOK, MainPlace, JoinPlace
  <1>6. ShutdownOK'
    BY <1>1, <1>2, <1>3, Agents DEF StageInv, ShutdownOK, JoinPlace, waiting
  <1> QED BY <1>4, <1>5, <1>6 DEF StageInv

\* The scheduler is stopped: service threads go back to the top of their loop.
LEMMA StopSchedulerStage ==
    ASSUME StageInv, StopScheduler
    PROVE  StageInv'
  <1>1. pc[Main] = "joinpeers"
    BY DEF StopScheduler
  <1>2. UNCHANGED <<taskQueue, timerDue, client, waiting, subscribers>> /\ stopRequested' = TRUE
    BY DEF StopScheduler
  <1>3. \A b \in Agent : pc'[b] = IF b = Main THEN "joinscheduler"
                                  ELSE IF b \in Waiters THEN "loop" ELSE pc[b]
    BY DEF StopScheduler
  <1>4. pc' \in [Agent -> Place]
    <2>1. "joinscheduler" \in Place /\ "loop" \in Place
      BY DEF Place
    <2> QED BY <2>1 DEF StopScheduler, StageInv, TypeOK
  <1>5. TypeOK'
    BY <1>2, <1>4 DEF StageInv, TypeOK, client, waiting, subscribers
  <1>6. PlaceOK'
    <2>1. \A t \in Service : pc'[t] \in {"loop", pc[t]}
      BY <1>3, Agents
    <2>2. \A p \in Producer : pc'[p] = pc[p]
      BY <1>3, Agents DEF Waiters
    <2>3. pc'[Main] = "joinscheduler"
      BY <1>3, Agents
    <2> QED BY <2>1, <2>2, <2>3 DEF StageInv, PlaceOK, ServicePlace, MainPlace, JoinPlace
  <1>7. ShutdownOK'
    BY <1>1, <1>2, <1>3, Agents, SMTT(40) DEF StageInv, ShutdownOK, JoinPlace, waiting
  <1> QED BY <1>5, <1>6, <1>7 DEF StageInv

\* Shutdown goes on when every service thread has left.
LEMMA JoinSchedulerStage ==
    ASSUME StageInv, JoinScheduler
    PROVE  StageInv'
  <1>1. pc[Main] = "joinscheduler" /\ pc' = [pc EXCEPT ![Main] = "joinlate"]
    BY DEF JoinScheduler
  <1>2. \A t \in Service : pc[t] = "exited"
    BY DEF JoinScheduler
  <1>3. UNCHANGED <<scheduler, client, waiting, subscribers>>
    BY DEF JoinScheduler
  <1>4. pc' \in [Agent -> Place] /\ \A b \in Agent : pc'[b] = IF b = Main THEN "joinlate" ELSE pc[b]
    BY <1>1 DEF StageInv, TypeOK, Place
  <1>5. TypeOK'
    BY <1>3, <1>4 DEF StageInv, TypeOK, scheduler, client, waiting, subscribers
  <1>6. PlaceOK'
    BY <1>4, Agents DEF StageInv, PlaceOK, MainPlace, JoinPlace
  <1>7. ShutdownOK'
    BY <1>1, <1>2, <1>3, <1>4, Agents DEF StageInv, ShutdownOK, JoinPlace, waiting
  <1> QED BY <1>5, <1>6, <1>7 DEF StageInv

\* After the last join no producer can add events.
LEMMA JoinLateStage ==
    ASSUME StageInv, JoinLate
    PROVE  StageInv'
  <1>1. pc[Main] = "joinlate" /\ pc' = [pc EXCEPT ![Main] = "signal"] /\ flushes' = 1
    BY DEF JoinLate
  <1>2. \A p \in Producer : pc[p] = "out"
    BY DEF JoinLate
  <1>3. UNCHANGED <<scheduler, client, waitsFor, steps, subscribers>>
    BY DEF JoinLate
  <1>4. pc' \in [Agent -> Place] /\ \A b \in Agent : pc'[b] = IF b = Main THEN "signal" ELSE pc[b]
    BY <1>1 DEF StageInv, TypeOK, Place
  <1>5. TypeOK'
    BY <1>1, <1>3, <1>4, SMTT(40) DEF StageInv, TypeOK, scheduler, client, subscribers
  <1>6. PlaceOK'
    BY <1>4, Agents DEF StageInv, PlaceOK, MainPlace, JoinPlace
  <1>7. ShutdownOK'
    BY <1>1, <1>2, <1>4, Agents, SMTT(40) DEF StageInv, ShutdownOK, JoinPlace
  <1> QED BY <1>5, <1>6, <1>7 DEF StageInv

\* EmptyQueue executes an event in the main thread, or ends with an empty queue.
LEMMA EmptyQueueStage ==
    ASSUME StageInv, EmptyQueue
    PROVE  StageInv'
  <1>1. pc[Main] = "drain"
    BY DEF EmptyQueue
  <1>2. UNCHANGED <<scheduler, client, waitsFor, steps, subscribers>>
    BY DEF EmptyQueue
  <1>3. flushes = 1
    BY <1>1, MainStage, SMTT(40) DEF JoinPlace, StageInv, ShutdownOK
  <1>4. PICK x \in {"process", "signal"} :
          /\ pc' = [pc EXCEPT ![Main] = x]
          /\ x = "process" => flushes' = 1
          /\ x = "signal" => flushes' = 2 /\ pending = <<>>
    BY <1>3 DEF EmptyQueue
  <1>5. pc' \in [Agent -> Place] /\ \A b \in Agent : pc'[b] = IF b = Main THEN x ELSE pc[b]
    BY <1>4 DEF StageInv, TypeOK, Place
  <1>6. TypeOK'
    BY <1>2, <1>4, <1>5, SMTT(40) DEF StageInv, TypeOK, scheduler, client, subscribers
  <1>7. PlaceOK'
    BY <1>5, Agents DEF StageInv, PlaceOK, MainPlace, JoinPlace
  <1>8. pending' = pending /\ (x = "signal" => Len(pending') <= 1 /\ pending' = <<>>)
    BY <1>2, <1>4, SMTT(40) DEF client
  <1>9. ShutdownOK'
    BY <1>3, <1>4, <1>5, <1>8, Agents, SMTT(40) DEF StageInv, ShutdownOK, JoinPlace
  <1> QED BY <1>6, <1>7, <1>9 DEF StageInv


-----------------------------------------------------------------------------
(* The list of subscribers. *)

\* A set of natural numbers has a least member.
LEMMA LeastNatural ==
    ASSUME NEW S \in SUBSET Nat, S # {}
    PROVE  \E n \in S : \A k \in S : n <= k
  <1> DEFINE Less == {ss \in Nat \X Nat : ss[1] < ss[2]}
  <1>1. Less = OpToRel(<, Nat)
    BY DEF OpToRel
  <1>2. IsWellFoundedOn(Less, Nat)
    BY <1>1, NatLessThanWellFounded
  <1> HIDE DEF Less
  <1>3. PICK n \in S : \A k \in S : ~ (<<k, n>> \in Less)
    BY <1>2, WFMin
  <1>4. ASSUME NEW k \in S PROVE n <= k
    <2>1. <<k, n>> \notin Less
      BY <1>3
    <2>2. k \in Nat /\ n \in Nat
      OBVIOUS
    <2>3. ~(k < n)
      BY <2>1, <2>2 DEF Less
    <2> QED BY <2>2, <2>3, SMTT(40)
  <1> QED BY <1>4

\* First finds an entry that none of the others precedes.
LEMMA FirstIsFirst ==
    ASSUME born \in [Subscriber -> Nat], NEW S \in SUBSET Subscriber
    PROVE  /\ S = {} => First(S) = NoSubscriber
           /\ S # {} => First(S) \in S /\ \A y \in S : born[First(S)] <= born[y]
  <1>1. CASE S = {}
    BY <1>1 DEF First
  <1>2. CASE S # {}
    <2> DEFINE N == {born[y] : y \in S}
    <2>1. N \in SUBSET Nat /\ N # {}
      BY <1>2
    <2>2. PICK n \in N : \A k \in N : n <= k
      BY <2>1, LeastNatural
    <2>3. PICK x \in S : n = born[x]
      BY <2>2
    <2>4. \A y \in S : born[x] <= born[y]
      BY <2>2, <2>3
    <2>5. First(S) = CHOOSE z \in S : \A y \in S : born[z] <= born[y]
      BY <1>2 DEF First
    <2> QED BY <1>2, <2>3, <2>4, <2>5
  <1> QED BY <1>1, <1>2

\* The entry Iterate goes to: the first one of those behind the one it is at.
Behind(x, s) == s = NoSubscriber \/ born[x] > born[s]

\* The next entry is the first of those behind s, and there is none only if no entry is
\* behind s.
LEMMA NextEntryIs ==
    ASSUME TypeOK, NEW s \in Subscriber \cup {NoSubscriber}, NEW n, n = NextEntry(s)
    PROVE  \/ n = NoSubscriber /\ \A x \in mList : ~Behind(x, s)
           \/ /\ n \in mList /\ n \in Subscriber /\ Behind(n, s) /\ n # NoSubscriber
              /\ \A x \in mList : Behind(x, s) => born[n] <= born[x]
  <1> DEFINE S == {x \in mList : Behind(x, s)}
  <1>1. n = First(S)
    BY DEF NextEntry, Behind
  <1>2. S \in SUBSET Subscriber /\ born \in [Subscriber -> Nat]
    BY DEF TypeOK
  <1>3. CASE S = {}
    <2>1. n = NoSubscriber
      BY <1>1, <1>2, <1>3, FirstIsFirst
    <2> QED BY <1>3, <2>1
  <1>4. CASE S # {}
    <2>1. n \in S /\ \A y \in S : born[n] <= born[y]
      BY <1>1, <1>2, <1>4, FirstIsFirst
    <2> QED BY <1>2, <2>1, ValueAssumption
  <1> QED BY <1>3, <1>4

\* The executions of an entry.
Executions(s) == {a \in Agent : at[a] = s}

\* Finitely many threads are at an entry.
LEMMA ExecutionsFinite ==
    ASSUME NEW s
    PROVE  IsFiniteSet(Executions(s)) /\ Cardinality(Executions(s)) \in Nat
  <1>1. IsFiniteSet(Agent)
    BY AgentAssumption, FS_Union, FS_AddElement DEF Agent
  <1>2. Executions(s) \in SUBSET Agent
    BY DEF Executions
  <1> QED BY <1>1, <1>2, FS_Subset, FS_CardinalityType

\* An entry that is executed or registered is in the list.
LEMMA Counted ==
    ASSUME TypeOK, CountExact
    PROVE  /\ \A a \in Agent : at[a] # NoSubscriber => at[a] \in mList /\ count[at[a]] >= 1
           /\ \A s \in mMap : s \in mList /\ count[s] >= 1
           /\ \A s \in Subscriber \ mList :
                 count[s] = 0 /\ s \notin mMap /\ Executions(s) = {} /\ \A a \in Agent : at[a] # s
  <1>1. \A s \in Subscriber : /\ count[s] = Cardinality(Executions(s)) + (IF s \in mMap THEN 1 ELSE 0)
                              /\ s \in mList <=> count[s] > 0
    BY DEF CountExact, Executions
  <1>2. ASSUME NEW a \in Agent, at[a] # NoSubscriber
        PROVE  at[a] \in mList /\ count[at[a]] >= 1
    <2>1. at[a] \in Subscriber /\ count[at[a]] \in Nat
      BY <1>2 DEF TypeOK
    <2>2. Executions(at[a]) # {}
      BY DEF Executions
    <2>3. Cardinality(Executions(at[a])) # 0 /\ Cardinality(Executions(at[a])) \in Nat
      BY <2>2, ExecutionsFinite, FS_EmptySet
    <2>4. count[at[a]] >= 1
      BY <1>1, <2>1, <2>3, SMTT(40)
    <2> QED BY <1>1, <2>1, <2>4, SMTT(40)
  <1>3. ASSUME NEW s \in mMap PROVE s \in mList /\ count[s] >= 1
    <2>1. s \in Subscriber /\ count[s] \in Nat
      BY DEF TypeOK
    <2>2. count[s] >= 1
      BY <1>1, <2>1, ExecutionsFinite, SMTT(40)
    <2> QED BY <1>1, <2>1, <2>2, SMTT(40)
  <1>4. ASSUME NEW s \in Subscriber \ mList
        PROVE  count[s] = 0 /\ s \notin mMap /\ Executions(s) = {} /\ \A a \in Agent : at[a] # s
    <2>1. count[s] = 0
      BY <1>1, SMTT(40) DEF TypeOK
    <2>2. s \notin mMap
      BY <1>3, <1>4
    <2>3. Cardinality(Executions(s)) = 0
      BY <1>1, <2>1, <2>2, ExecutionsFinite, SMTT(40)
    <2>4. Executions(s) = {}
      BY <2>3, ExecutionsFinite, FS_EmptySet
    <2> QED BY <2>1, <2>2, <2>4 DEF Executions
  <1> QED BY <1>2, <1>3, <1>4


\* A new entry keeps the types and the stage of Shutdown.
LEMMA RegisterStage ==
    ASSUME StageInv, NEW s \in Subscriber, Register(s)
    PROVE  StageInv'
  <1>1. mList' \in SUBSET Subscriber /\ mMap' \in SUBSET Subscriber /\ count' \in [Subscriber -> Nat]
    BY DEF Register, StageInv, TypeOK
  <1>2. born' \in [Subscriber -> Nat]
    <2>1. {x \in Subscriber : born[x] # 0} \in SUBSET Subscriber
      OBVIOUS
    <2>2. Cardinality({x \in Subscriber : born[x] # 0}) \in Nat
      BY <2>1, ValueAssumption, FS_Subset, FS_CardinalityType
    <2> QED BY <2>2, SMTT(40) DEF Register, StageInv, TypeOK
  <1>3. UNCHANGED <<scheduler, pc, client, waiting, at, got>>
    BY DEF Register
  <1>4. TypeOK'
    BY <1>1, <1>2, <1>3 DEF StageInv, TypeOK, scheduler, client, waiting
  <1>5. PlaceOK' /\ ShutdownOK'
    BY <1>3 DEF StageInv, PlaceOK, ShutdownOK, client, waiting
  <1> QED BY <1>4, <1>5 DEF StageInv

\* So does an entry that is released, or erased,
LEMMA UnregisterStage ==
    ASSUME StageInv, CountExact, NEW s \in Subscriber, Unregister(s)
    PROVE  StageInv'
  <1>1. count[s] >= 1 /\ count \in [Subscriber -> Nat]
    BY Counted DEF Unregister, StageInv, TypeOK
  <1>2. count' = [count EXCEPT ![s] = count[s] - 1]
    BY DEF Unregister
  <1>3. count' \in [Subscriber -> Nat]
    BY <1>1, <1>2, SMTT(40)
  <1>4. mList' \in SUBSET Subscriber /\ mMap' \in SUBSET Subscriber
    BY DEF Unregister, StageInv, TypeOK
  <1>5. UNCHANGED <<scheduler, pc, client, waiting, born, at, got>>
    BY DEF Unregister
  <1>6. TypeOK'
    BY <1>3, <1>4, <1>5 DEF StageInv, TypeOK, scheduler, client, waiting
  <1>7. PlaceOK' /\ ShutdownOK'
    BY <1>5 DEF StageInv, PlaceOK, ShutdownOK, client, waiting
  <1> QED BY <1>6, <1>7 DEF StageInv

\* and the release of all of them, which ends Shutdown.
LEMMA ClearStage ==
    ASSUME StageInv, CountExact, Clear
    PROVE  StageInv'
  <1>1. \A s \in mMap : count[s] >= 1
    BY Counted DEF StageInv
  <1>2. count \in [Subscriber -> Nat]
    BY DEF StageInv, TypeOK
  <1>3. count' = [s \in Subscriber |-> IF s \in mMap THEN count[s] - 1 ELSE count[s]]
    BY DEF Clear
  <1>4. count' \in [Subscriber -> Nat]
    BY <1>1, <1>2, <1>3, SMTT(40)
  <1>5. mList' \in SUBSET Subscriber /\ mMap' \in SUBSET Subscriber
    BY DEF Clear, StageInv, TypeOK
  <1>6. pc[Main] = "clear" /\ pc' = [pc EXCEPT ![Main] = "done"] /\ pending' = <<>>
    BY DEF Clear
  <1>7. pc' \in [Agent -> Place] /\ \A b \in Agent : pc'[b] = IF b = Main THEN "done" ELSE pc[b]
    BY <1>6 DEF StageInv, TypeOK, Place
  <1>8. UNCHANGED <<scheduler, running, current, added, syncs, executed, waiting, born, at, got>>
    BY DEF Clear
  <1>9. pending' \in Seq(Nat) /\ Len(pending') = 0
    BY <1>6, SMTT(40)
  <1>10. TypeOK'
    BY <1>4, <1>5, <1>7, <1>8, <1>9 DEF StageInv, TypeOK, scheduler, waiting
  <1>11. flushes = 2
    BY <1>6, MainStage, SMTT(40) DEF StageInv, ShutdownOK, JoinPlace
  <1>12. flushes' = flushes
    BY <1>8 DEF waiting
  <1>13. "done" \in MainPlace \ JoinPlace
    BY DEF MainPlace, JoinPlace
  <1>14. PlaceOK' /\ ShutdownOK'
    BY <1>7, <1>9, <1>11, <1>12, <1>13, AgentMoves, Agents, SMTT(40)
  <1> QED BY <1>10, <1>14 DEF StageInv

\* What a step of Iterate does to the entries: s is released and n, the one behind it, taken.
LEMMA IterateCounts ==
    ASSUME TypeOK, CountExact, NEW a \in Agent, Iterate(a), NEW s, NEW n,
           s = at[a], n = NextEntry(s)
    PROVE  /\ count' \in [Subscriber -> Nat]
           /\ \A x \in Subscriber : count'[x] = IF x = s THEN count[x] - 1
                                                ELSE IF x = n THEN count[x] + 1 ELSE count[x]
           /\ mList' = {x \in mList : count'[x] # 0}
           /\ at' = [at EXCEPT ![a] = n]
           /\ s \in Subscriber \cup {NoSubscriber} /\ n \in Subscriber \cup {NoSubscriber}
           /\ n # NoSubscriber => n # s /\ n \in mList
  <1>1. /\ count' = [x \in Subscriber |-> IF x = s THEN count[x] - 1
                                          ELSE IF x = n THEN count[x] + 1 ELSE count[x]]
        /\ mList' = {x \in mList : count'[x] # 0}
        /\ at' = [at EXCEPT ![a] = n]
    BY DEF Iterate
  <1>2. s \in Subscriber \cup {NoSubscriber}
    BY DEF TypeOK
  <1>3. \/ n = NoSubscriber /\ \A x \in mList : ~Behind(x, s)
        \/ /\ n \in mList /\ n \in Subscriber /\ Behind(n, s) /\ n # NoSubscriber
           /\ \A x \in mList : Behind(x, s) => born[n] <= born[x]
    BY <1>2, NextEntryIs
  <1>4. n # NoSubscriber => n # s /\ n \in mList /\ n \in Subscriber
    BY <1>3, ValueAssumption, SMTT(40) DEF Behind, TypeOK
  <1>5. s # NoSubscriber => count[s] >= 1
    BY Counted
  <1>6. count \in [Subscriber -> Nat]
    BY DEF TypeOK
  <1>7. \A x \in Subscriber : x # NoSubscriber
    BY ValueAssumption
  <1>8. count' \in [Subscriber -> Nat]
    BY <1>1, <1>5, <1>6, <1>7, SMTT(40)
  <1>9. \A x \in Subscriber : count'[x] = IF x = s THEN count[x] - 1
                                          ELSE IF x = n THEN count[x] + 1 ELSE count[x]
    BY <1>1
  <1> QED BY <1>1, <1>2, <1>4, <1>8, <1>9

\* Whom it calls: n with the event of the queue, or with BlockChecked; or it is at the end.
LEMMA IterateCalls ==
    ASSUME NEW a \in Agent, Iterate(a), NEW n, n = NextEntry(at[a])
    PROVE  /\ pc[a] \in {"call", "checked"} /\ current[a] \notin syncs
           /\ \/ /\ pc[a] = "call" /\ n # NoSubscriber /\ UNCHANGED <<pc, executed>>
                 /\ got' = [got EXCEPT ![n] = Append(got[n], current[a])]
              \/ /\ pc[a] = "call" /\ n = NoSubscriber /\ got' = got
                 /\ pc' = [pc EXCEPT ![a] = "finish"]
                 /\ executed' = executed \cup {current[a]}
              \/ /\ pc[a] = "checked" /\ UNCHANGED <<got, executed>>
                 /\ \/ n # NoSubscriber /\ pc' = pc
                    \/ n = NoSubscriber /\ pc' = [pc EXCEPT ![a] = "signal"]
  <1>1. pc[a] \in {"call", "checked"} /\ current[a] \notin syncs
    BY DEF Iterate
  <1>2. CASE pc[a] = "call"
    BY <1>1, <1>2 DEF Iterate
  <1>3. CASE pc[a] = "checked"
    BY <1>1, <1>3 DEF Iterate
  <1> QED BY <1>1, <1>2, <1>3

\* A step of Iterate keeps the types and the stage of Shutdown, and leads to the end of the
\* callback after the last entry.
LEMMA IterateStage ==
    ASSUME StageInv, SerialOK, CountExact, NEW a \in Agent, Iterate(a)
    PROVE  StageInv'
  <1>1. PICK n : n = NextEntry(at[a])
    OBVIOUS
  <1>2. /\ count' \in [Subscriber -> Nat] /\ mList' \in SUBSET mList /\ at' = [at EXCEPT ![a] = n]
        /\ n \in Subscriber \cup {NoSubscriber}
    BY <1>1, IterateCounts, SMTT(40) DEF StageInv
  <1>3. pc \in [Agent -> Place] /\ pc = [pc EXCEPT ![a] = pc[a]]
    BY DEF StageInv, TypeOK
  <1>4. PICK x \in {"finish", "signal", pc[a]} :
          /\ pc' = [pc EXCEPT ![a] = x]
          /\ x = "finish" => pc[a] = "call"
          /\ x = "signal" => pc[a] = "checked"
    BY <1>1, <1>3, IterateCalls
  <1>5. pc[a] \in {"call", "checked"}
    BY DEF Iterate
  <1>6. x \in Place
    BY <1>4, <1>5 DEF Place
  <1>7. pc' \in [Agent -> Place] /\ \A b \in Agent : pc'[b] = IF b = a THEN x ELSE pc[b]
    BY <1>3, <1>4, <1>6
  <1>8. pc[a] = "call" => current[a] \in Nat
    BY DEF SerialOK, StageInv, TypeOK
  <1>9. got' \in [Subscriber -> Seq(Nat)] /\ executed' \in SUBSET Nat
    <2>1. got \in [Subscriber -> Seq(Nat)] /\ executed \in SUBSET Nat
      BY DEF StageInv, TypeOK
    <2>2. CASE got' = got
      BY <1>1, <1>8, <2>1, <2>2, IterateCalls
    <2>3. CASE pc[a] = "call" /\ n # NoSubscriber /\ UNCHANGED <<pc, executed>>
               /\ got' = [got EXCEPT ![n] = Append(got[n], current[a])]
      <3>1. Append(got[n], current[a]) \in Seq(Nat)
        BY <1>2, <1>8, <2>1, <2>3, SMTT(40)
      <3> QED BY <1>2, <2>1, <2>3, <3>1
    <2> QED BY <1>1, <2>2, <2>3, IterateCalls
  <1>10. at' \in [Agent -> Subscriber \cup {NoSubscriber}] /\ mList' \in SUBSET Subscriber
    BY <1>2 DEF StageInv, TypeOK
  <1>11. UNCHANGED <<scheduler, pending, running, current, added, syncs, waiting, born, mMap>>
    BY DEF Iterate
  <1>12. TypeOK'
    BY <1>2, <1>7, <1>9, <1>10, <1>11 DEF StageInv, TypeOK, scheduler, waiting
  <1>13. a \in Service => pc[a] = "call"
    BY <1>5 DEF StageInv, PlaceOK, ServicePlace
  <1>14. a = Main => pc[a] = "call" /\ flushes = 1
    BY <1>5, CallerStage DEF StageInv, PlaceOK, MainPlace, JoinPlace
  <1>15. a \in Producer => pc[a] = "checked"
    BY <1>5 DEF StageInv, PlaceOK, ProducerPlace
  <1>16. flushes' = flushes
    BY <1>11 DEF waiting
  <1>17. a \in Service => pc[a] # "exited" /\ x \in ServicePlace
    BY <1>4, <1>13 DEF ServicePlace
  <1>18. a \in Producer => pc[a] # "out" /\ x \in ProducerPlace
    BY <1>4, <1>15 DEF ProducerPlace
  <1>19. a = Main => flushes = 1 /\ x \in MainPlace \ JoinPlace /\ x \notin {"clear", "done"}
    BY <1>4, <1>14 DEF MainPlace, JoinPlace
  <1>20. PlaceOK' /\ ShutdownOK'
    BY <1>7, <1>16, <1>17, <1>18, <1>19, AgentMoves, SMTT(40)
  <1> QED BY <1>12, <1>20 DEF StageInv


-----------------------------------------------------------------------------
(* The order of events. *)

\* A step that neither touches the events and the list nor begins or ends an execution.
Quiet ==
    /\ UNCHANGED <<pending, running, current, added, syncs, mList, born, count, mMap, at, got>>
    /\ \A b \in Agent : \/ pc'[b] = pc[b]
                        \/ /\ pc[b] \notin {"call", "finish", "checked", "done"}
                           /\ pc'[b] \notin {"call", "finish", "done"}

\* A step that touches neither the queue nor the list keeps what is known of them.
LEMMA QuietKeeps ==
    ASSUME DeliveryInv, Quiet
    PROVE  DeliveryInv'
  <1>1. UNCHANGED <<pending, running, current, added, syncs, mList, born, count, mMap, at, got>>
    BY DEF Quiet
  <1>2. \A b \in Agent : /\ pc'[b] \in {"call", "finish"} <=> pc[b] \in {"call", "finish"}
                         /\ pc'[b] = "call" <=> pc[b] = "call"
                         /\ pc'[b] = "done" <=> pc[b] = "done"
                         /\ pc[b] = "checked" => pc'[b] = "checked"
    BY DEF Quiet
  <1>3. Taken' = Taken
    BY <1>1 DEF Taken
  <1>4. SerialOK'
    BY <1>1, <1>2, <1>3 DEF DeliveryInv, SerialOK
  <1>5. IterateOK'
    BY <1>1, <1>2 DEF DeliveryInv, IterateOK
  <1>6. ListOK'
    BY <1>1 DEF DeliveryInv, ListOK
  <1>7. CountExact'
    BY <1>1 DEF DeliveryInv, CountExact
  <1>8. \A s \in mList : Outstanding(s)' <=> Outstanding(s)
    BY <1>1, <1>2 DEF Outstanding, Reached
  <1>9. CaughtUp'
    BY <1>1, <1>2, <1>3, <1>8, Agents DEF DeliveryInv, CaughtUp
  <1>10. DeliveredInOrder'
    BY <1>1 DEF DeliveryInv, DeliveredInOrder
  <1> QED BY <1>4, <1>5, <1>6, <1>7, <1>9, <1>10 DEF DeliveryInv

\* The steps of the scheduler and of the shutdown, and those in which nothing is due.
LEMMA NotifiedQuiet ==
    ASSUME StageInv, NEW a \in Agent, NEW x \in Place,
           pc[a] \notin {"call", "finish", "checked", "done"}, x \notin {"call", "finish", "done"},
           NotifyOne([pc EXCEPT ![a] = x])
    PROVE  \A b \in Agent : \/ pc'[b] = pc[b]
                            \/ /\ pc[b] \notin {"call", "finish", "checked", "done"}
                               /\ pc'[b] \notin {"call", "finish", "done"}
  <1>1. [pc EXCEPT ![a] = x] \in [Agent -> Place]
    BY DEF StageInv, TypeOK
  <1> QED BY <1>1, Notified DEF StageInv, TypeOK

\* The steps that touch neither: waiting, taking and repeating tasks in the scheduler,
LEMMA ServiceLoopQuiet == ASSUME StageInv, NEW t \in Service, ServiceLoop(t) PROVE Quiet
  <1>1. t \in Agent /\ "exited" \in Place
    BY Agents DEF Place
  <1>2. CASE NotifyOne([pc EXCEPT ![t] = "exited"])
    BY <1>1, <1>2, NotifiedQuiet DEF ServiceLoop, Quiet, client, subscribers
  <1>3. CASE ~NotifyOne([pc EXCEPT ![t] = "exited"])
    BY <1>1, <1>3 DEF ServiceLoop, Quiet, client, subscribers, StageInv, TypeOK
  <1> QED BY <1>2, <1>3

\* taking a task,
LEMMA TakeTaskQuiet == ASSUME StageInv, NEW t \in Service, TakeTask(t) PROVE Quiet
  <1>1. taskQueue # <<>> => Head(taskQueue) \in {"process", "timer"}
    BY SMTT(40) DEF StageInv, TypeOK
  <1>2. PICK x \in {"loop", "process", "timer"} : pc' = [pc EXCEPT ![t] = x]
    BY <1>1 DEF TakeTask
  <1> QED BY <1>2, Agents DEF TakeTask, Quiet, client, subscribers, StageInv, TypeOK

\* repeating one,
LEMMA RepeatQuiet == ASSUME StageInv, NEW t \in Service, Repeat(t) PROVE Quiet
  <1>1. t \in Agent /\ "loop" \in Place
    BY Agents DEF Place
  <1> QED BY <1>1, NotifiedQuiet DEF Repeat, Quiet, client, subscribers

\* the clock
LEMMA TimerDueQuiet == ASSUME StageInv, TimerDue PROVE Quiet
  BY DEF TimerDue, Quiet, client, subscribers

\* and its mocked form,
LEMMA MockForwardQuiet == ASSUME StageInv, MockForward PROVE Quiet
  <1>1. \A b \in Agent : \/ pc'[b] = pc[b]
                         \/ pc'[b] = "loop" /\ pc[b] \in {"asleep", "timed", "ready"}
    BY Notified DEF MockForward, StageInv, TypeOK
  <1> QED BY <1>1 DEF MockForward, Quiet, client, subscribers

\* Back ends no execution.
LEMMA BackQuiet == ASSUME NEW a \in Agent PROVE Back(a) \notin {"call", "finish", "done"}
  BY BackPlace, Agents

\* the decision to schedule,
LEMMA MaybeScheduleQuiet == ASSUME StageInv, NEW a \in Agent, MaybeScheduleProcessQueue(a) PROVE Quiet
  <1>1. PICK x \in {Back(a), "schedule"} : pc' = [pc EXCEPT ![a] = x] /\ pc[a] = "check"
    BY DEF MaybeScheduleProcessQueue
  <1>2. \A b \in Agent : pc'[b] = IF b = a THEN x ELSE pc[b]
    BY <1>1 DEF StageInv, TypeOK
  <1>3. x \notin {"call", "finish", "done"}
    BY <1>1, BackQuiet
  <1> QED BY <1>1, <1>2, <1>3 DEF MaybeScheduleProcessQueue, Quiet, client, subscribers

\* scheduling,
LEMMA ScheduleQuiet == ASSUME StageInv, NEW a \in Agent, Schedule(a) PROVE Quiet
  <1>1. pc[a] = "schedule" /\ NotifyOne([pc EXCEPT ![a] = Back(a)])
    BY DEF Schedule
  <1>2. UNCHANGED <<client, subscribers>>
    BY DEF Schedule
  <1>3. Back(a) \in Place /\ Back(a) \notin {"call", "finish", "done"}
    BY BackPlace, BackQuiet
  <1> QED BY <1>1, <1>2, <1>3, NotifiedQuiet DEF Quiet, client, subscribers

\* the start of an iteration of ActivateBestChain,
LEMMA LimitQuiet == ASSUME StageInv, NEW p \in Producer, LimitValidationInterfaceQueue(p) PROVE Quiet
  <1>1. PICK x \in {"sync", "checked"} : pc' = [pc EXCEPT ![p] = x] /\ pc[p] = "out"
    BY DEF LimitValidationInterfaceQueue
  <1> QED BY <1>1, Agents DEF LimitValidationInterfaceQueue, Quiet, client, subscribers, StageInv, TypeOK

\* the end of a wait,
LEMMA SyncedQuiet == ASSUME StageInv, NEW p \in Producer, Synced(p) PROVE Quiet
  BY Agents DEF Synced, Quiet, client, subscribers, StageInv, TypeOK

\* and the steps of Shutdown before the queue is destroyed.
LEMMA StopProducersQuiet == ASSUME StageInv, StopProducers PROVE Quiet
  BY Agents DEF StopProducers, Quiet, client, subscribers, StageInv, TypeOK

\* Stopping the scheduler touches neither the queue nor the list,
LEMMA StopSchedulerQuiet == ASSUME StageInv, StopScheduler PROVE Quiet
  <1>1. \A b \in Agent : pc'[b] = IF b = Main THEN "joinscheduler"
                                  ELSE IF b \in Waiters THEN "loop" ELSE pc[b]
    BY DEF StopScheduler
  <1> QED BY <1>1 DEF StopScheduler, Waiters, Quiet, client, subscribers

\* nor does joining it,
LEMMA JoinSchedulerQuiet == ASSUME StageInv, JoinScheduler PROVE Quiet
  BY Agents DEF JoinScheduler, Quiet, client, subscribers, StageInv, TypeOK

\* joining the last producer,
LEMMA JoinLateQuiet == ASSUME StageInv, JoinLate PROVE Quiet
  BY Agents DEF JoinLate, Quiet, client, subscribers, StageInv, TypeOK

\* or the test at the top of EmptyQueue.
LEMMA EmptyQueueQuiet == ASSUME StageInv, EmptyQueue PROVE Quiet
  <1>1. PICK x \in {"process", "signal"} : pc' = [pc EXCEPT ![Main] = x] /\ pc[Main] = "drain"
    BY DEF EmptyQueue
  <1> QED BY <1>1, Agents DEF EmptyQueue, Quiet, client, subscribers, StageInv, TypeOK


\* AddToProcessQueue: the new event is the last one of the queue, and none that was taken.
LEMMA EnqueueDelivers ==
    ASSUME StageInv, DeliveryInv, NEW a \in Agent, NEW s \in BOOLEAN, Enqueue(a, s),
           pc[a] \in {"signal", "sync"}, UNCHANGED subscribers
    PROVE  DeliveryInv'
  <1>1. added' = added + 1 /\ pending' = Append(pending, added + 1)
    BY DEF Enqueue
  <1>2. syncs \subseteq syncs' /\ syncs' \subseteq syncs \cup {added + 1}
    BY DEF Enqueue
  <1>3. UNCHANGED <<running, current, mList, born, count, mMap, at, got>>
    BY DEF Enqueue, subscribers
  <1>4. added \in Nat /\ pending \in Seq(Nat) /\ Len(pending) \in Nat
    BY SMTT(40) DEF StageInv, TypeOK
  <1>5. Len(pending') = Len(pending) + 1
        /\ \A i \in 1 .. Len(pending') : pending'[i] = IF i <= Len(pending) THEN pending[i] ELSE added + 1
    BY <1>1, <1>4, SMTT(40)
  <1>6. Taken' = Taken /\ Taken \in Int /\ Taken <= added /\ Taken + Len(pending) = added
    BY <1>1, <1>4, <1>5, SMTT(40) DEF Taken
  <1>7. \A b \in Agent : pc'[b] = IF b = a THEN "check" ELSE pc[b]
    BY DEF Enqueue, StageInv, TypeOK
  <1>8. SerialOK'
    <2>1. \A b \in Agent : pc'[b] \in {"call", "finish"} <=> pc[b] \in {"call", "finish"}
      BY <1>7
    <2>2. /\ \A b \in Agent : current'[b] # NoEvent <=> pc'[b] \in {"call", "finish"}
          /\ \A b \in Agent : current'[b] # NoEvent => running' /\ current'[b] = Taken'
          /\ running' => \E b \in Agent : current'[b] # NoEvent
          /\ \A b, c \in Agent : current'[b] # NoEvent /\ current'[c] # NoEvent => b = c
      BY <1>3, <1>6, <2>1 DEF DeliveryInv, SerialOK
    <2>3. Len(pending') <= added'
      BY <1>1, <1>4, <1>5, SMTT(40) DEF DeliveryInv, SerialOK
    <2>4. \A i \in 1 .. Len(pending') : pending'[i] = Taken' + i
      <3>1. \A i \in 1 .. Len(pending) : pending[i] = Taken + i
        BY DEF DeliveryInv, SerialOK
      <3> QED BY <1>4, <1>5, <1>6, <3>1, SMTT(40)
    <2> QED BY <2>2, <2>3, <2>4 DEF SerialOK
  <1>9. \A b \in Agent : pc[b] = "call" => (current[b] \in syncs' <=> current[b] \in syncs)
    <2>1. \A b \in Agent : pc[b] = "call" => current[b] = Taken
      BY DEF DeliveryInv, SerialOK
    <2> QED BY <1>2, <1>4, <1>6, <2>1, SMTT(40)
  <1>10. \A b \in Agent : /\ pc'[b] = "call" <=> pc[b] = "call"
                          /\ pc'[b] = "checked" <=> pc[b] = "checked"
                          /\ pc'[b] = "done" <=> pc[b] = "done"
    BY <1>7
  <1>11. IterateOK'
    BY <1>3, <1>9, <1>10 DEF DeliveryInv, IterateOK
  <1>12. ListOK'
    BY <1>3 DEF DeliveryInv, ListOK
  <1>13. CountExact'
    BY <1>3 DEF DeliveryInv, CountExact
  <1>14. \A x \in mList : Outstanding(x)' <=> Outstanding(x)
    BY <1>3, <1>9, <1>10 DEF Outstanding, Reached
  <1>15. CaughtUp'
    <2>1. pc'[Main] # "done" => pc[Main] # "done"
      BY <1>10, Agents
    <2> QED BY <1>2, <1>3, <1>6, <1>14, <2>1 DEF DeliveryInv, CaughtUp
  <1>16. DeliveredInOrder'
    BY <1>2, <1>3 DEF DeliveryInv, DeliveredInOrder
  <1> QED BY <1>8, <1>11, <1>12, <1>13, <1>15, <1>16 DEF DeliveryInv

\* ProcessQueue takes the next event when nobody executes one.
LEMMA TakeDelivers ==
    ASSUME StageInv, DeliveryInv, NEW a \in Agent, pc[a] = "process",
           ~running, pending # <<>>, running' = TRUE,
           current' = [current EXCEPT ![a] = Head(pending)],
           pending' = Tail(pending),
           pc' = [pc EXCEPT ![a] = "call"],
           UNCHANGED <<added, syncs, subscribers>>
    PROVE  DeliveryInv'
  <1>1. UNCHANGED <<added, syncs, mList, born, count, mMap, at, got>>
    BY DEF subscribers
  <1>2. added \in Nat /\ pending \in Seq(Nat) /\ Len(pending) \in Nat /\ Len(pending) > 0
    BY SMTT(40) DEF StageInv, TypeOK
  <1>3. /\ Len(pending') = Len(pending) - 1 /\ Head(pending) = pending[1]
        /\ \A i \in 1 .. Len(pending') : pending'[i] = pending[i + 1]
    BY <1>2, SMTT(40)
  <1>4. Taken' = Taken + 1 /\ Taken \in Int /\ Taken >= 0
    BY <1>1, <1>2, <1>3, SMTT(40) DEF Taken, DeliveryInv, SerialOK
  <1>5. \A i \in 1 .. Len(pending) : pending[i] = Taken + i
    BY DEF DeliveryInv, SerialOK
  <1>6. Head(pending) = Taken' /\ Taken' # NoEvent
    BY <1>2, <1>3, <1>4, <1>5, ValueAssumption, SMTT(40)
  <1>7. \A b \in Agent : pc'[b] = IF b = a THEN "call" ELSE pc[b]
    BY DEF StageInv, TypeOK
  <1>8. \A b \in Agent : current[b] = NoEvent /\ pc[b] \notin {"call", "finish"}
    BY DEF DeliveryInv, SerialOK
  <1>9. \A b \in Agent : current'[b] = IF b = a THEN Taken' ELSE NoEvent
    BY <1>6, <1>8 DEF StageInv, TypeOK
  <1>10. SerialOK'
    <2>1. Len(pending') <= added'
      BY <1>1, <1>2, <1>3, SMTT(40) DEF DeliveryInv, SerialOK
    <2>2. \A i \in 1 .. Len(pending') : pending'[i] = Taken' + i
      BY <1>2, <1>3, <1>4, <1>5, SMTT(40)
    <2>3. \A b \in Agent : current'[b] # NoEvent <=> b = a
      BY <1>6, <1>9
    <2>4. \A b \in Agent : pc'[b] \in {"call", "finish"} <=> b = a
      BY <1>7, <1>8
    <2> QED BY <1>9, <2>1, <2>2, <2>3, <2>4 DEF SerialOK
  <1>11. at[a] = NoSubscriber
    BY DEF DeliveryInv, IterateOK
  <1>12. IterateOK'
    BY <1>1, <1>7, <1>8, <1>11 DEF DeliveryInv, IterateOK
  <1>13. ListOK'
    BY <1>1 DEF DeliveryInv, ListOK
  <1>14. CountExact'
    BY <1>1 DEF DeliveryInv, CountExact
  <1>15. \A x \in mList : ~Outstanding(x)
    BY <1>8 DEF Outstanding
  <1>16. \A x \in mList : Outstanding(x)' <=> Taken' \notin syncs
    <2>1. \A x \in mList : born[x] > 0
      BY SMTT(40) DEF DeliveryInv, ListOK, StageInv, TypeOK
    <2>2. \A b \in Agent : (pc[b] = "call")' <=> b = a
      BY <1>7, <1>8
    <2>3. Reached(a)' = 0
      BY <1>1, <1>11 DEF Reached
    <2> QED BY <1>1, <1>9, <2>1, <2>2, <2>3 DEF Outstanding
  <1>17. CaughtUp'
    <2>1. pc[Main] # "done"
      BY CallerStage
    <2>2. ASSUME NEW x \in mList, got[x] # <<>>, NEW last, last = got[x][Len(got[x])]
          PROVE  /\ last <= Taken' /\ (Outstanding(x)' => last < Taken')
                 /\ \A e \in last + 1 .. Taken' : e \in syncs \/ (e = Taken' /\ Outstanding(x)')
      <3>1. last <= Taken /\ \A e \in last + 1 .. Taken : e \in syncs
        BY <1>15, <2>1, <2>2 DEF DeliveryInv, CaughtUp
      <3>2. last \in Nat
        <4>1. got[x] \in Seq(Nat)
          BY DEF StageInv, TypeOK
        <4> QED BY <4>1, <2>2, SMTT(40)
      <3>3. \A e \in last + 1 .. Taken' : e \in last + 1 .. Taken \/ e = Taken'
        BY <1>4, <3>2, SMTT(40)
      <3> QED BY <1>4, <1>16, <3>1, <3>2, <3>3, SMTT(40)
    <2> QED BY <1>1, <2>2 DEF CaughtUp
  <1>18. DeliveredInOrder'
    BY <1>1 DEF DeliveryInv, DeliveredInOrder
  <1> QED BY <1>10, <1>12, <1>13, <1>14, <1>17, <1>18 DEF DeliveryInv


\* ProcessQueue takes the next event when nobody executes one: it is outstanding for the
\* whole list.
LEMMA ProcessQueueDelivers ==
    ASSUME StageInv, DeliveryInv, NEW a \in Agent, ProcessQueue(a)
    PROVE  DeliveryInv'
  <1>1. CASE running \/ pending = <<>>
    <2>1. pc[a] = "process" /\ pc' = [pc EXCEPT ![a] = Back(a)] /\ UNCHANGED <<client, subscribers>>
      BY <1>1 DEF ProcessQueue
    <2>2. \A b \in Agent : pc'[b] = IF b = a THEN Back(a) ELSE pc[b]
      BY <2>1 DEF StageInv, TypeOK
    <2>3. Quiet
      BY <2>1, <2>2, BackQuiet DEF Quiet, client, subscribers
    <2> QED BY <2>3, QuietKeeps
  <1>2. CASE ~running /\ pending # <<>>
    BY <1>2, TakeDelivers DEF ProcessQueue
  <1> QED BY <1>1, <1>2

\* A promise is fulfilled: no Iterate is under way.
LEMMA SetPromiseDelivers ==
    ASSUME StageInv, DeliveryInv, NEW a \in Agent, SetPromise(a)
    PROVE  DeliveryInv'
  <1>1. UNCHANGED <<pending, running, current, added, syncs, mList, born, count, mMap, at, got>>
    BY DEF SetPromise, subscribers
  <1>2. pc[a] = "call" /\ current[a] \in syncs
    BY DEF SetPromise
  <1>3. \A b \in Agent : pc'[b] = IF b = a THEN "finish" ELSE pc[b]
    BY DEF SetPromise, StageInv, TypeOK
  <1>4. at[a] = NoSubscriber
    BY <1>2 DEF DeliveryInv, IterateOK
  <1>5. Taken' = Taken
    BY <1>1 DEF Taken
  <1>6. \A b \in Agent : pc'[b] \in {"call", "finish"} <=> pc[b] \in {"call", "finish"}
    BY <1>2, <1>3
  <1>7. SerialOK'
    BY <1>1, <1>5, <1>6 DEF DeliveryInv, SerialOK
  <1>8. IterateOK'
    BY <1>1, <1>3, <1>4 DEF DeliveryInv, IterateOK
  <1>9. ListOK'
    BY <1>1 DEF DeliveryInv, ListOK
  <1>10. CountExact'
    BY <1>1 DEF DeliveryInv, CountExact
  <1>11. \A x \in mList : Outstanding(x)' <=> Outstanding(x)
    BY <1>1, <1>2, <1>3 DEF Outstanding, Reached
  <1>12. pc[Main] # "done"
    BY <1>2, CallerStage
  <1>13. CaughtUp'
    BY <1>1, <1>5, <1>11, <1>12 DEF DeliveryInv, CaughtUp
  <1>14. DeliveredInOrder'
    BY <1>1 DEF DeliveryInv, DeliveredInOrder
  <1> QED BY <1>7, <1>8, <1>9, <1>10, <1>13, <1>14 DEF DeliveryInv

\* The next event may be taken.
LEMMA CallbackDoneDelivers ==
    ASSUME StageInv, DeliveryInv, NEW a \in Agent, CallbackDone(a)
    PROVE  DeliveryInv'
  <1>1. UNCHANGED <<pending, added, syncs, mList, born, count, mMap, at, got>>
    BY DEF CallbackDone, subscribers
  <1>2. pc[a] = "finish" /\ running' = FALSE
    BY DEF CallbackDone
  <1>3. \A b \in Agent : pc'[b] = IF b = a THEN "check" ELSE pc[b]
    BY DEF CallbackDone, StageInv, TypeOK
  <1>4. \A b \in Agent : current'[b] = NoEvent
    <2>1. \A b \in Agent : b # a => current[b] = NoEvent
      BY <1>2 DEF DeliveryInv, SerialOK
    <2> QED BY <2>1 DEF CallbackDone, StageInv, TypeOK
  <1>5. Taken' = Taken
    BY <1>1 DEF Taken
  <1>6. \A b \in Agent : pc[b] # "call" /\ pc'[b] \notin {"call", "finish"}
    BY <1>2, <1>3 DEF DeliveryInv, SerialOK
  <1>7. SerialOK'
    BY <1>1, <1>2, <1>4, <1>5, <1>6 DEF DeliveryInv, SerialOK
  <1>8. IterateOK'
    BY <1>1, <1>2, <1>3, <1>6 DEF DeliveryInv, IterateOK
  <1>9. ListOK'
    BY <1>1 DEF DeliveryInv, ListOK
  <1>10. CountExact'
    BY <1>1 DEF DeliveryInv, CountExact
  <1>11. \A x \in mList : ~Outstanding(x)' /\ ~Outstanding(x)
    BY <1>6 DEF Outstanding
  <1>12. pc[Main] # "done"
    BY <1>2, CallerStage
  <1>13. CaughtUp'
    BY <1>1, <1>5, <1>11, <1>12 DEF DeliveryInv, CaughtUp
  <1>14. DeliveredInOrder'
    BY <1>1 DEF DeliveryInv, DeliveredInOrder
  <1> QED BY <1>7, <1>8, <1>9, <1>10, <1>13, <1>14 DEF DeliveryInv

\* The list only loses entries: those that stay are as caught up as before.
LEMMA FewerEntries ==
    ASSUME DeliveryInv, mList' \in SUBSET mList,
           UNCHANGED <<pc, pending, current, added, syncs, born, at, got>>
    PROVE  CaughtUp'
  <1>1. Taken' = Taken
    BY DEF Taken
  <1>2. \A x \in mList : Outstanding(x)' <=> Outstanding(x)
    BY DEF Outstanding, Reached
  <1> QED BY <1>1, <1>2 DEF DeliveryInv, CaughtUp


\* A new entry is behind all others, and has nothing to catch up with.
LEMMA RegisterDelivers ==
    ASSUME StageInv, DeliveryInv, NEW s \in Subscriber, Register(s)
    PROVE  DeliveryInv'
  <1> DEFINE Had == {x \in Subscriber : born[x] # 0}
             k == Cardinality(Had)
  <1>1. /\ born[s] = 0 /\ mList' = mList \cup {s} /\ mMap' = mMap \cup {s}
        /\ born' = [born EXCEPT ![s] = k + 1] /\ count' = [count EXCEPT ![s] = 1]
    BY DEF Register
  <1>2. UNCHANGED <<pc, pending, running, current, added, syncs, at, got>>
    BY DEF Register, client
  <1>3. Had \in SUBSET Subscriber /\ s \notin Had /\ IsFiniteSet(Had) /\ k \in Nat
    BY <1>1, ValueAssumption, FS_Subset, FS_CardinalityType
  <1>4. \A x \in Subscriber : born'[x] = IF x = s THEN k + 1 ELSE born[x]
    BY <1>1 DEF StageInv, TypeOK
  <1>5. {x \in Subscriber : born'[x] # 0} = Had \cup {s}
    BY <1>3, <1>4, SMTT(40)
  <1>6. Cardinality({x \in Subscriber : born'[x] # 0}) = k + 1
    BY <1>3, <1>5, FS_AddElement
  <1>7. s \notin mList /\ got[s] = <<>>
    BY <1>1 DEF DeliveryInv, ListOK
  <1>8. count[s] = 0 /\ s \notin mMap /\ Executions(s) = {} /\ \A a \in Agent : at[a] # s
    BY <1>7, Counted DEF StageInv, DeliveryInv
  <1>9. \A x \in Subscriber : born[x] \in Nat /\ born[x] <= k
    BY DEF DeliveryInv, ListOK, StageInv, TypeOK
  <1> HIDE DEF Had, k
  <1>10. ListOK'
    <2>1. \A x \in Subscriber : born'[x] <= k + 1
      BY <1>3, <1>4, <1>9, SMTT(40)
    <2>2. \A x, y \in Subscriber : born'[x] = born'[y] /\ born'[x] # 0 => x = y
      BY <1>3, <1>4, <1>9, SMTT(40) DEF DeliveryInv, ListOK
    <2>3. \A x \in mList' : born'[x] # 0
      BY <1>1, <1>3, <1>4, SMTT(40) DEF DeliveryInv, ListOK, StageInv, TypeOK
    <2>4. \A x \in Subscriber : born'[x] = 0 => got'[x] = <<>>
      BY <1>2, <1>3, <1>4, SMTT(40) DEF DeliveryInv, ListOK
    <2> QED BY <1>6, <2>1, <2>2, <2>3, <2>4 DEF ListOK
  <1>11. CountExact'
    <2>1. \A x \in Subscriber : Executions(x)' = Executions(x)
      BY <1>2 DEF Executions
    <2>2. \A x \in Subscriber : /\ count[x] = Cardinality(Executions(x)) + (IF x \in mMap THEN 1 ELSE 0)
                                /\ x \in mList <=> count[x] > 0
      BY DEF DeliveryInv, CountExact, Executions
    <2>3. \A x \in Subscriber : count'[x] = IF x = s THEN 1 ELSE count[x]
      BY <1>1 DEF StageInv, TypeOK
    <2>4. Cardinality(Executions(s)) = 0
      BY <1>8, FS_EmptySet
    <2>5. ASSUME NEW x \in Subscriber
          PROVE  /\ count'[x] = Cardinality(Executions(x)') + (IF x \in mMap' THEN 1 ELSE 0)
                 /\ x \in mList' <=> count'[x] > 0
      <3>1. CASE x = s
        <4>1. count'[s] = 1 /\ s \in mMap' /\ s \in mList'
          BY <1>1, <2>3
        <4> QED BY <2>1, <2>4, <3>1, <4>1, SMTT(40)
      <3>2. CASE x # s
        <4>1. count'[x] = count[x] /\ (x \in mMap' <=> x \in mMap) /\ (x \in mList' <=> x \in mList)
          BY <1>1, <2>3, <3>2
        <4> QED BY <2>1, <2>2, <4>1
      <3> QED BY <3>1, <3>2
    <2> QED BY <2>5 DEF CountExact, Executions
  <1>12. SerialOK' /\ IterateOK' /\ DeliveredInOrder'
    BY <1>2 DEF DeliveryInv, SerialOK, IterateOK, DeliveredInOrder, Taken
  <1>13. CaughtUp'
    <2>1. \A a \in Agent : Reached(a)' = Reached(a)
      BY <1>2, <1>4, <1>8 DEF Reached, StageInv, TypeOK
    <2>2. \A x \in mList : x \in Subscriber /\ x # s /\ born'[x] = born[x]
      BY <1>4, <1>7 DEF StageInv, TypeOK
    <2>3. \A x \in mList : Outstanding(x)' <=> Outstanding(x)
      BY <1>2, <2>1, <2>2 DEF Outstanding
    <2>4. Taken' = Taken
      BY <1>2 DEF Taken
    <2>5. \A x \in mList' : got'[x] # <<>> => x \in mList
      BY <1>1, <1>2, <1>7
    <2> QED BY <1>2, <2>3, <2>4, <2>5 DEF DeliveryInv, CaughtUp
  <1> QED BY <1>10, <1>11, <1>12, <1>13 DEF DeliveryInv

\* An entry that is being executed stays in the list when it is unregistered.
LEMMA UnregisterDelivers ==
    ASSUME StageInv, DeliveryInv, NEW s \in Subscriber, Unregister(s)
    PROVE  DeliveryInv'
  <1>1. /\ s \in mMap /\ count' = [count EXCEPT ![s] = count[s] - 1]
        /\ mList' = {x \in mList : count'[x] # 0} /\ mMap' = mMap \ {s}
    BY DEF Unregister
  <1>2. UNCHANGED <<pc, pending, running, current, added, syncs, born, at, got>>
    BY DEF Unregister, client
  <1>3. CountExact'
    <2>1. \A x \in Subscriber : Executions(x)' = Executions(x)
      BY <1>2 DEF Executions
    <2>2. \A x \in Subscriber : /\ count[x] = Cardinality(Executions(x)) + (IF x \in mMap THEN 1 ELSE 0)
                                /\ x \in mList <=> count[x] > 0
                                /\ count[x] \in Nat /\ Cardinality(Executions(x)) \in Nat
      BY ExecutionsFinite DEF DeliveryInv, CountExact, Executions, StageInv, TypeOK
    <2>3. \A x \in Subscriber : count'[x] = IF x = s THEN count[x] - 1 ELSE count[x]
      BY <1>1 DEF StageInv, TypeOK
    <2>4. \A x \in Subscriber : count'[x] = Cardinality(Executions(x)') + (IF x \in mMap' THEN 1 ELSE 0)
      BY <1>1, <2>1, <2>2, <2>3, SMTT(40)
    <2>5. \A x \in Subscriber : count'[x] \in Nat /\ count'[x] <= count[x]
      BY <1>1, <2>2, <2>3, SMTT(40)
    <2>6. \A x \in Subscriber : x \in mList' <=> count'[x] > 0
      BY <1>1, <2>2, <2>5, SMTT(40)
    <2> QED BY <2>4, <2>6 DEF CountExact, Executions
  <1>4. SerialOK' /\ IterateOK' /\ DeliveredInOrder'
    BY <1>2 DEF DeliveryInv, SerialOK, IterateOK, DeliveredInOrder, Taken
  <1>5. ListOK'
    BY <1>1, <1>2 DEF DeliveryInv, ListOK
  <1>6. CaughtUp'
    BY <1>1, <1>2, FewerEntries
  <1> QED BY <1>3, <1>4, <1>5, <1>6 DEF DeliveryInv

\* The queue is destroyed when nobody executes anything any more.
LEMMA ClearDelivers ==
    ASSUME StageInv, DeliveryInv, Clear
    PROVE  DeliveryInv'
  <1>1. /\ count' = [x \in Subscriber |-> IF x \in mMap THEN count[x] - 1 ELSE count[x]]
        /\ mList' = {x \in mList : count'[x] # 0} /\ mMap' = {}
        /\ pending' = <<>> /\ pc[Main] = "clear"
    BY DEF Clear
  <1>2. UNCHANGED <<running, current, added, syncs, born, at, got>>
    BY DEF Clear
  <1>3. \A b \in Agent : pc'[b] = IF b = Main THEN "done" ELSE pc[b]
    BY DEF Clear, StageInv, TypeOK
  <1>4. flushes > 0
    BY <1>1, MainStage, SMTT(40) DEF JoinPlace
  <1>5. \A b \in Agent : pc[b] \notin {"call", "finish", "checked"}
    BY <1>1, <1>4, Agents DEF StageInv, ShutdownOK
  <1>6. \A b \in Agent : current[b] = NoEvent /\ at[b] = NoSubscriber
    BY <1>5 DEF DeliveryInv, SerialOK, IterateOK
  <1>7. SerialOK'
    <2>1. Len(pending') = 0 /\ added' \in Nat
      BY <1>1, <1>2 DEF StageInv, TypeOK
    <2>2. ~running
      BY <1>6 DEF DeliveryInv, SerialOK
    <2>3. \A b \in Agent : pc'[b] \notin {"call", "finish"} /\ current'[b] = NoEvent
      BY <1>2, <1>3, <1>5, <1>6
    <2>4. \A i \in 1 .. Len(pending') : FALSE
      BY <2>1, SMTT(40)
    <2>5. Len(pending') <= added'
      BY <2>1, SMTT(40)
    <2> QED BY <1>2, <2>2, <2>3, <2>4, <2>5 DEF SerialOK
  <1>8. IterateOK'
    BY <1>2, <1>6 DEF IterateOK
  <1>9. ListOK'
    BY <1>1, <1>2 DEF DeliveryInv, ListOK
  <1>10. CountExact'
    <2>1. \A x \in Subscriber : Executions(x)' = Executions(x)
      BY <1>2 DEF Executions
    <2>2. \A x \in Subscriber : /\ count[x] = Cardinality(Executions(x)) + (IF x \in mMap THEN 1 ELSE 0)
                                /\ x \in mList <=> count[x] > 0
                                /\ count[x] \in Nat /\ Cardinality(Executions(x)) \in Nat
      BY ExecutionsFinite DEF DeliveryInv, CountExact, Executions, StageInv, TypeOK
    <2>3. \A x \in Subscriber : count'[x] = IF x \in mMap THEN count[x] - 1 ELSE count[x]
      BY <1>1
    <2>4. \A x \in Subscriber : count'[x] = Cardinality(Executions(x)') + (IF x \in mMap' THEN 1 ELSE 0)
      BY <1>1, <2>1, <2>2, <2>3, SMTT(40)
    <2>5. \A x \in Subscriber : count'[x] \in Nat /\ count'[x] <= count[x]
      BY <2>2, <2>3, SMTT(40)
    <2>6. \A x \in Subscriber : x \in mList' <=> count'[x] > 0
      BY <1>1, <2>2, <2>5, SMTT(40)
    <2> QED BY <2>4, <2>6 DEF CountExact, Executions
  <1>11. CaughtUp'
    BY <1>3, Agents DEF CaughtUp
  <1>12. DeliveredInOrder'
    BY <1>2 DEF DeliveryInv, DeliveredInOrder
  <1> QED BY <1>7, <1>8, <1>9, <1>10, <1>11, <1>12 DEF DeliveryInv


\* The count follows the one execution that moves on.
LEMMA IterateCounted ==
    ASSUME StageInv, DeliveryInv, NEW a \in Agent, Iterate(a)
    PROVE  CountExact'
  <1>1. PICK s, n : s = at[a] /\ n = NextEntry(s)
    OBVIOUS
  <1>2. /\ count' \in [Subscriber -> Nat]
        /\ \A x \in Subscriber : count'[x] = IF x = s THEN count[x] - 1
                                             ELSE IF x = n THEN count[x] + 1 ELSE count[x]
        /\ mList' = {x \in mList : count'[x] # 0}
        /\ at' = [at EXCEPT ![a] = n]
        /\ n # NoSubscriber => n # s /\ n \in mList
    BY <1>1, IterateCounts, SMTT(40) DEF StageInv, DeliveryInv
  <1>3. mMap' = mMap /\ at \in [Agent -> Subscriber \cup {NoSubscriber}]
    BY DEF Iterate, StageInv, TypeOK
  <1>4. \A x \in Subscriber : /\ count[x] = Cardinality(Executions(x)) + (IF x \in mMap THEN 1 ELSE 0)
                              /\ x \in mList <=> count[x] > 0
                              /\ count[x] \in Nat /\ Cardinality(Executions(x)) \in Nat
    BY ExecutionsFinite DEF DeliveryInv, CountExact, Executions, StageInv, TypeOK
  <1>5. ASSUME NEW x \in Subscriber
        PROVE  Cardinality(Executions(x)') = IF x = s THEN Cardinality(Executions(x)) - 1
                                             ELSE IF x = n THEN Cardinality(Executions(x)) + 1
                                             ELSE Cardinality(Executions(x))
    <2>1. x # NoSubscriber
      BY ValueAssumption
    <2>2. CASE x = s
      <3>1. a \in Executions(x) /\ Executions(x)' = Executions(x) \ {a}
        BY <1>1, <1>2, <1>3, <2>1, <2>2 DEF Executions
      <3> QED BY <2>2, <3>1, ExecutionsFinite, FS_RemoveElement
    <2>3. CASE x # s /\ x = n
      <3>1. a \notin Executions(x) /\ Executions(x)' = Executions(x) \cup {a}
        BY <1>1, <1>2, <1>3, <2>3 DEF Executions
      <3> QED BY <2>3, <3>1, ExecutionsFinite, FS_AddElement
    <2>4. CASE x # s /\ x # n
      <3>1. Executions(x)' = Executions(x)
        BY <1>1, <1>2, <1>3, <2>4 DEF Executions
      <3> QED BY <2>4, <3>1
    <2> QED BY <2>2, <2>3, <2>4
  <1>6. \A x \in Subscriber : count'[x] = Cardinality(Executions(x)') + (IF x \in mMap' THEN 1 ELSE 0)
    BY <1>2, <1>3, <1>4, <1>5, SMTT(40)
  <1>7. \A x \in Subscriber : x \in mList' <=> count'[x] > 0
    <2>1. \A x \in Subscriber : count'[x] \in Nat
      BY <1>2
    <2>2. \A x \in Subscriber : count'[x] > 0 => x \in mList
      <3>1. \A x \in Subscriber : x = n => x # NoSubscriber
        BY ValueAssumption
      <3> QED BY <1>2, <1>4, <2>1, <3>1, SMTT(40)
    <2> QED BY <1>2, <2>1, <2>2, SMTT(40)
  <1> QED BY <1>6, <1>7 DEF CountExact, Executions

\* The order of the entries decides who still has to be called.
LEMMA ReachedNext ==
    ASSUME StageInv, DeliveryInv, NEW a \in Agent, NEW n, n = NextEntry(at[a])
    PROVE  /\ n = NoSubscriber => \A x \in mList : ~(born[x] > Reached(a))
           /\ n # NoSubscriber =>
                /\ n \in mList /\ born[n] > Reached(a)
                /\ \A x \in mList : born[x] > Reached(a) => x = n \/ born[x] > born[n]
  <1>1. at[a] \in Subscriber \cup {NoSubscriber}
    BY DEF StageInv, TypeOK
  <1>2. \A x \in mList : x \in Subscriber /\ born[x] \in Nat /\ born[x] > 0
    BY SMTT(40) DEF DeliveryInv, ListOK, StageInv, TypeOK
  <1>3. \A x \in mList : Behind(x, at[a]) <=> born[x] > Reached(a)
    BY <1>2 DEF Behind, Reached
  <1>4. \/ n = NoSubscriber /\ \A x \in mList : ~Behind(x, at[a])
        \/ /\ n \in mList /\ n \in Subscriber /\ Behind(n, at[a]) /\ n # NoSubscriber
           /\ \A x \in mList : Behind(x, at[a]) => born[n] <= born[x]
    BY <1>1, NextEntryIs DEF StageInv
  <1>5. ASSUME n # NoSubscriber, NEW x \in mList, born[x] > Reached(a)
        PROVE  x = n \/ born[x] > born[n]
    <2>1. n \in mList /\ born[n] <= born[x]
      BY <1>3, <1>4, <1>5
    <2>2. born[n] = born[x] => x = n
      BY <1>2, <2>1 DEF DeliveryInv, ListOK
    <2> QED BY <1>2, <2>1, <2>2, SMTT(40)
  <1> QED BY <1>3, <1>4, <1>5


\* What holds after any step of Iterate.
LEMMA IterateList ==
    ASSUME StageInv, DeliveryInv, NEW a \in Agent, Iterate(a)
    PROVE  /\ mList' \in SUBSET mList /\ Taken' = Taken
           /\ UNCHANGED <<pending, running, current, added, syncs, born, mMap>>
           /\ \A b \in Agent : at'[b] = IF b = a THEN NextEntry(at[a]) ELSE at[b]
  <1>1. UNCHANGED <<pending, running, current, added, syncs, born, mMap>>
    BY DEF Iterate
  <1>2. mList' \in SUBSET mList /\ at' = [at EXCEPT ![a] = NextEntry(at[a])]
    BY IterateCounts DEF StageInv, DeliveryInv
  <1>3. \A b \in Agent : at'[b] = IF b = a THEN NextEntry(at[a]) ELSE at[b]
    BY <1>2 DEF StageInv, TypeOK
  <1> QED BY <1>1, <1>2, <1>3 DEF Taken

\* What Append leaves of a sequence.
LEMMA Appended ==
    ASSUME NEW q \in Seq(Nat), NEW v \in Nat, NEW r, r = Append(q, v)
    PROVE  /\ r \in Seq(Nat) /\ Len(q) \in Nat /\ Len(r) = Len(q) + 1 /\ r[Len(q) + 1] = v
           /\ \A i \in 1 .. Len(q) : r[i] = q[i] /\ q[i] \in Nat
  BY SMTT(40)

\* An entry is called with the event that is being executed, the next one it has to get.
LEMMA CallDelivers ==
    ASSUME StageInv, DeliveryInv, NEW a \in Agent, Iterate(a), pc[a] = "call",
           NEW n, n = NextEntry(at[a]), n # NoSubscriber
    PROVE  SerialOK' /\ IterateOK' /\ ListOK' /\ CaughtUp' /\ DeliveredInOrder'
  <1>1. /\ mList' \in SUBSET mList /\ Taken' = Taken
        /\ UNCHANGED <<pending, running, current, added, syncs, born, mMap>>
        /\ \A b \in Agent : at'[b] = IF b = a THEN n ELSE at[b]
    BY IterateList
  <1>2. current[a] \notin syncs /\ pc' = pc /\ got' = [got EXCEPT ![n] = Append(got[n], current[a])]
    BY IterateCalls, SMTT(40)
  <1>3. current[a] = Taken /\ Taken \in Nat
    BY SMTT(40) DEF DeliveryInv, SerialOK, StageInv, TypeOK
  <1>4. \A b \in Agent : pc[b] = "call" <=> b = a
    <2>1. \A b \in Agent : pc[b] = "call" => current[b] # NoEvent
      BY DEF DeliveryInv, SerialOK
    <2> QED BY <2>1 DEF DeliveryInv, SerialOK
  <1>5. /\ n \in mList /\ born[n] > Reached(a)
        /\ \A x \in mList : born[x] > Reached(a) => x = n \/ born[x] > born[n]
    BY ReachedNext
  <1>6. n \in Subscriber /\ mList \in SUBSET Subscriber /\ got \in [Subscriber -> Seq(Nat)] /\ born \in [Subscriber -> Nat]
    BY <1>5 DEF StageInv, TypeOK
  <1>7. \A x \in Subscriber : got'[x] = IF x = n THEN Append(got[x], Taken) ELSE got[x]
    BY <1>2, <1>3, <1>6
  <1>8. \A x \in Subscriber : Outstanding(x) <=> born[x] > Reached(a)
    BY <1>2, <1>4 DEF Outstanding
  <1>9. \A x \in Subscriber : Outstanding(x)' <=> born[x] > born[n]
    BY <1>1, <1>2, <1>4 DEF Outstanding, Reached
  <1>10. pc[Main] # "done"
    BY CallerStage
  <1>11. SerialOK'
    BY <1>1, <1>2 DEF DeliveryInv, SerialOK
  <1>12. IterateOK'
    BY <1>1, <1>2 DEF DeliveryInv, IterateOK
  <1>13. ListOK'
    <2>1. born[n] # 0
      BY <1>5 DEF DeliveryInv, ListOK
    <2>2. \A x \in Subscriber : born'[x] = 0 => got'[x] = <<>>
      BY <1>1, <1>7, <2>1 DEF DeliveryInv, ListOK
    <2> QED BY <1>1, <2>2 DEF DeliveryInv, ListOK
  <1>14. \A x \in mList : got[x] # <<>> =>
            /\ got[x][Len(got[x])] <= Taken
            /\ Outstanding(x) => got[x][Len(got[x])] < Taken
            /\ \A e \in got[x][Len(got[x])] + 1 .. Taken : e \in syncs \/ (e = Taken /\ Outstanding(x))
    BY <1>10 DEF DeliveryInv, CaughtUp
  <1>15. CaughtUp'
    <2>1. ASSUME NEW x \in mList', got'[x] # <<>>, NEW last, last = got'[x][Len(got'[x])]
          PROVE  /\ last <= Taken /\ (Outstanding(x)' => last < Taken)
                 /\ \A e \in last + 1 .. Taken : e \in syncs \/ (e = Taken /\ Outstanding(x)')
      <3>1. x \in mList /\ x \in Subscriber
        BY <1>1, <1>6
      <3>2. CASE x = n
        <4>1. last = Taken
          <5>1. got[x] \in Seq(Nat) /\ got'[x] = Append(got[x], Taken)
            BY <1>6, <1>7, <3>1, <3>2
          <5> QED BY <1>3, <2>1, <5>1, Appended, SMTT(40)
        <4>2. ~Outstanding(x)'
          BY <1>6, <1>9, <3>2, SMTT(40)
        <4> QED BY <1>3, <4>1, <4>2, SMTT(40)
      <3>3. CASE x # n
        <4>1. got'[x] = got[x]
          BY <1>7, <3>1, <3>3
        <4>2. Outstanding(x) <=> Outstanding(x)'
          <5>1. born[x] > Reached(a) => born[x] > born[n]
            BY <1>5, <3>1, <3>3
          <5>2. born[x] > born[n] => born[x] > Reached(a)
            <6>1. Reached(a) \in Nat
              BY <1>6 DEF Reached, StageInv, TypeOK
            <6> QED BY <1>5, <1>6, <3>1, <6>1, SMTT(40)
          <5> QED BY <1>8, <1>9, <3>1, <5>1, <5>2
        <4> QED BY <1>14, <2>1, <3>1, <4>1, <4>2
      <3> QED BY <3>2, <3>3
    <2> QED BY <1>1, <2>1 DEF CaughtUp
  <1>16. DeliveredInOrder'
    <2>1. ASSUME NEW x \in Subscriber, NEW i \in 1 .. Len(got'[x]) - 1
          PROVE  /\ got'[x][i] < got'[x][i + 1]
                 /\ \A e \in got'[x][i] + 1 .. got'[x][i + 1] - 1 : e \in syncs
      <3>1. CASE x # n \/ i + 1 <= Len(got[x])
        <4>1. got[x] \in Seq(Nat) /\ Len(got[x]) \in Nat
          BY <1>6, SMTT(40)
        <4>2. i \in 1 .. Len(got[x]) - 1 /\ got'[x][i] = got[x][i] /\ got'[x][i + 1] = got[x][i + 1]
          <5>1. CASE x # n
            BY <1>7, <5>1
          <5>2. CASE x = n /\ i + 1 <= Len(got[x])
            <6>1. i \in 1 .. Len(got[x]) /\ i + 1 \in 1 .. Len(got[x])
              BY <4>1, <5>2, SMTT(40)
            <6>2. got'[x] = Append(got[x], Taken)
              BY <1>7, <5>2
            <6>3. got'[x][i] = got[x][i] /\ got'[x][i + 1] = got[x][i + 1]
              BY <1>3, <4>1, <6>1, <6>2, Appended, SMTT(40)
            <6> QED BY <4>1, <6>1, <6>3, SMTT(40)
          <5> QED BY <3>1, <5>1, <5>2
        <4> QED BY <4>2 DEF DeliveryInv, DeliveredInOrder
      <3>2. CASE x = n /\ ~(i + 1 <= Len(got[x]))
        <4>1. got[n] \in Seq(Nat) /\ Len(got[n]) \in Nat
          BY <1>6, SMTT(40)
        <4>2. /\ Len(got'[n]) = Len(got[n]) + 1 /\ got'[n][Len(got[n]) + 1] = Taken
              /\ \A j \in 1 .. Len(got[n]) : got'[n][j] = got[n][j] /\ got[n][j] \in Nat
          <5>1. got'[n] = Append(got[n], Taken)
            BY <1>6, <1>7
          <5> QED BY <1>3, <4>1, <5>1, Appended, SMTT(40)
        <4>3. i = Len(got[n]) /\ i \in 1 .. Len(got[n])
          BY <3>2, <4>1, <4>2, SMTT(40)
        <4>4. got'[n][i] = got[n][i] /\ got'[n][i + 1] = Taken /\ got[n][i] \in Nat /\ got[n] # <<>>
          BY <4>2, <4>3, SMTT(40)
        <4>5. Outstanding(n)
          BY <1>5, <1>6, <1>8
        <4>6. got[n][i] < Taken /\ \A e \in got[n][i] + 1 .. Taken : e \in syncs \/ e = Taken
          BY <1>5, <1>14, <4>3, <4>4, <4>5
        <4> QED BY <1>3, <3>2, <4>4, <4>6, SMTT(40)
      <3> QED BY <3>1, <3>2
    <2> QED BY <1>1, <2>1 DEF DeliveredInOrder
  <1> QED BY <1>11, <1>12, <1>13, <1>15, <1>16

\* The end of the list, and the calls of BlockChecked.
LEMMA NoCallDelivers ==
    ASSUME StageInv, DeliveryInv, NEW a \in Agent, Iterate(a), NEW n, n = NextEntry(at[a]),
           pc[a] = "call" => n = NoSubscriber
    PROVE  SerialOK' /\ IterateOK' /\ ListOK' /\ CaughtUp' /\ DeliveredInOrder'
  <1>1. /\ mList' \in SUBSET mList /\ Taken' = Taken
        /\ UNCHANGED <<pending, running, current, added, syncs, born, mMap>>
        /\ \A b \in Agent : at'[b] = IF b = a THEN n ELSE at[b]
    BY IterateList
  <1>2. got' = got /\ current[a] \notin syncs /\ pc[a] \in {"call", "checked"}
    BY IterateCalls
  <1>3. /\ \A b \in Agent \ {a} : pc'[b] = pc[b]
        /\ pc[a] = "call" => pc'[a] = "finish"
        /\ pc[a] = "checked" => pc'[a] = IF n = NoSubscriber THEN "signal" ELSE "checked"
    <2>1. pc \in [Agent -> Place]
      BY DEF StageInv, TypeOK
    <2> QED BY <2>1, IterateCalls
  <1>4. \A b \in Agent : pc'[b] \in {"call", "finish"} <=> pc[b] \in {"call", "finish"}
    BY <1>2, <1>3
  <1>5. SerialOK'
    BY <1>1, <1>4 DEF DeliveryInv, SerialOK
  <1>6. IterateOK'
    BY <1>1, <1>2, <1>3 DEF DeliveryInv, IterateOK
  <1>7. ListOK'
    BY <1>1, <1>2 DEF DeliveryInv, ListOK
  <1>8. \A x1 \in mList : Outstanding(x1)' <=> Outstanding(x1)
    <2>1. \A b \in Agent \ {a} : Reached(b)' = Reached(b) /\ pc'[b] = pc[b] /\ current'[b] = current[b]
      BY <1>1, <1>3 DEF Reached
    <2>2. pc'[a] # "call"
      BY <1>2, <1>3
    <2>3. pc[a] = "call" => \A y \in mList : ~(born[y] > Reached(a))
      BY ReachedNext
    <2> QED BY <1>1, <2>1, <2>2, <2>3 DEF Outstanding
  <1>9. CaughtUp'
    <2>1. pc'[Main] # "done" => pc[Main] # "done"
      BY <1>2, <1>3, Agents
    <2> QED BY <1>1, <1>2, <1>8, <2>1 DEF DeliveryInv, CaughtUp
  <1>10. DeliveredInOrder'
    BY <1>1, <1>2 DEF DeliveryInv, DeliveredInOrder
  <1> QED BY <1>5, <1>6, <1>7, <1>9, <1>10

\* A step of Iterate delivers the event to the next entry and keeps the counts.
LEMMA IterateDelivers ==
    ASSUME StageInv, DeliveryInv, NEW a \in Agent, Iterate(a)
    PROVE  DeliveryInv'
  <1>1. CASE pc[a] = "call" /\ NextEntry(at[a]) # NoSubscriber
    BY <1>1, CallDelivers, IterateCounted, SMTT(40) DEF DeliveryInv
  <1>2. CASE ~(pc[a] = "call" /\ NextEntry(at[a]) # NoSubscriber)
    BY <1>2, NoCallDelivers, IterateCounted DEF DeliveryInv
  <1> QED BY <1>1, <1>2


\* At the start nothing was added, and the list holds what start-up registered.
LEMMA InitDelivers == Init => DeliveryInv
  <1> SUFFICES ASSUME Init PROVE DeliveryInv
    OBVIOUS
  <1>1. /\ pending = <<>> /\ running = FALSE /\ added = 0 /\ mList = AtStart /\ mMap = AtStart
        /\ \A a \in Agent : /\ current[a] = NoEvent /\ at[a] = NoSubscriber
                            /\ pc[a] \notin {"call", "finish"}
        /\ \A s \in Subscriber : got[s] = <<>> /\ count[s] = IF s \in AtStart THEN 1 ELSE 0
    BY DEF Init
  <1>2. AtStart \in SUBSET Subscriber /\ NoSubscriber \notin Subscriber
    BY ValueAssumption
  <1>3. Len(pending) = 0
    BY <1>1
  <1>4. SerialOK
    BY <1>1, <1>3, SMTT(40) DEF SerialOK
  <1>5. IterateOK
    BY <1>1 DEF IterateOK
  <1>6. ListOK
    <2>1. PICK order \in [AtStart -> 1 .. Cardinality(AtStart)] :
            /\ \A s, r \in AtStart : order[s] = order[r] => s = r
            /\ born = [s \in Subscriber |-> IF s \in AtStart THEN order[s] ELSE 0]
      BY DEF Init
    <2>2. Cardinality(AtStart) \in Nat
      BY <1>2, ValueAssumption, FS_Subset, FS_CardinalityType
    <2>3. \A s \in AtStart : order[s] \in Nat /\ order[s] > 0 /\ order[s] <= Cardinality(AtStart)
      BY <2>1, <2>2, SMTT(40)
    <2>4. \A s \in Subscriber : born[s] = IF s \in AtStart THEN order[s] ELSE 0
      BY <2>1
    <2>5. {r \in Subscriber : born[r] # 0} = AtStart
      BY <1>2, <2>3, <2>4, SMTT(40)
    <2>6. \A s \in Subscriber : born[s] <= Cardinality({r \in Subscriber : born[r] # 0})
      BY <2>2, <2>3, <2>4, <2>5, SMTT(40)
    <2>7. \A s, r \in Subscriber : born[s] = born[r] /\ born[s] # 0 => s = r
      BY <2>1, <2>4
    <2>8. \A s \in mList : born[s] # 0
      BY <1>1, <1>2, <2>3, <2>4, SMTT(40)
    <2> QED BY <1>1, <2>6, <2>7, <2>8 DEF ListOK
  <1>7. CountExact
    <2>1. \A s \in Subscriber : {a \in Agent : at[a] = s} = {}
      BY <1>1, <1>2
    <2>2. \A s \in Subscriber : Cardinality({a \in Agent : at[a] = s}) = 0
      BY <2>1, FS_EmptySet
    <2> QED BY <1>1, <2>2, SMTT(40) DEF CountExact
  <1>8. CaughtUp
    BY <1>1, <1>2 DEF CaughtUp
  <1>9. DeliveredInOrder
    <2>1. \A s \in Subscriber : Len(got[s]) - 1 = -1
      BY <1>1, SMTT(40)
    <2>2. \A i \in 1 .. -1 : FALSE
      BY SMTT(40)
    <2> QED BY <2>1, <2>2 DEF DeliveredInOrder
  <1> QED BY <1>4, <1>5, <1>6, <1>7, <1>8, <1>9 DEF DeliveryInv

\* Every step keeps the invariant.
LEMMA NextKeeps ==
    ASSUME IInv, [Next]_vars
    PROVE  IInv'
  <1>1. StageInv /\ DeliveryInv /\ SerialOK /\ CountExact
    BY DEF IInv, DeliveryInv
  <1>2. ASSUME NEW a \in Agent, Client(a) PROVE IInv'
    <2>1. CASE MaybeScheduleProcessQueue(a)
      BY <1>1, <2>1, MaybeScheduleStage, MaybeScheduleQuiet, QuietKeeps DEF IInv
    <2>2. CASE Schedule(a)
      BY <1>1, <2>2, ScheduleStage, ScheduleQuiet, QuietKeeps DEF IInv
    <2>3. CASE ProcessQueue(a)
      BY <1>1, <2>3, ProcessQueueStage, ProcessQueueDelivers DEF IInv
    <2>4. CASE SetPromise(a)
      BY <1>1, <2>4, SetPromiseStage, SetPromiseDelivers DEF IInv
    <2>5. CASE Iterate(a)
      BY <1>1, <2>5, IterateStage, IterateDelivers DEF IInv
    <2>6. CASE CallbackDone(a)
      BY <1>1, <2>6, CallbackDoneStage, CallbackDoneDelivers DEF IInv
    <2>7. CASE Signal(a)
      <3>1. Enqueue(a, FALSE) /\ pc[a] = "signal" /\ UNCHANGED subscribers
        BY <2>7 DEF Signal
      <3> QED BY <1>1, <2>7, <3>1, SignalStage, EnqueueDelivers DEF IInv
    <2> QED BY <1>2, <2>1, <2>2, <2>3, <2>4, <2>5, <2>6, <2>7 DEF Client
  <1>3. ASSUME NEW t \in Service, ServiceQueue(t) PROVE IInv'
    <2>1. CASE ServiceLoop(t)
      BY <1>1, <2>1, ServiceLoopStage, ServiceLoopQuiet, QuietKeeps DEF IInv
    <2>2. CASE TakeTask(t)
      BY <1>1, <2>2, TakeTaskStage, TakeTaskQuiet, QuietKeeps DEF IInv
    <2>3. CASE Repeat(t)
      BY <1>1, <2>3, RepeatStage, RepeatQuiet, QuietKeeps DEF IInv
    <2> QED BY <1>3, <2>1, <2>2, <2>3 DEF ServiceQueue
  <1>4. CASE TimerDue
    BY <1>1, <1>4, TimerDueStage, TimerDueQuiet, QuietKeeps DEF IInv
  <1>5. CASE MockForward
    BY <1>1, <1>5, MockForwardStage, MockForwardQuiet, QuietKeeps DEF IInv
  <1>6. ASSUME NEW s \in Subscriber, Register(s) \/ Unregister(s) PROVE IInv'
    <2>1. CASE Register(s)
      BY <1>1, <2>1, RegisterStage, RegisterDelivers DEF IInv
    <2>2. CASE Unregister(s)
      BY <1>1, <2>2, UnregisterStage, UnregisterDelivers DEF IInv
    <2> QED BY <1>6, <2>1, <2>2
  <1>7. ASSUME NEW p \in Producer, LimitValidationInterfaceQueue(p) \/ Produce(p) PROVE IInv'
    <2>1. CASE LimitValidationInterfaceQueue(p)
      BY <1>1, <2>1, LimitStage, LimitQuiet, QuietKeeps DEF IInv
    <2>2. CASE SyncWithValidationInterfaceQueue(p)
      <3>1. Enqueue(p, TRUE) /\ pc[p] = "sync" /\ UNCHANGED subscribers /\ p \in Agent
        BY <2>2, Agents DEF SyncWithValidationInterfaceQueue
      <3> QED BY <1>1, <2>2, <3>1, SyncStage, EnqueueDelivers DEF IInv
    <2>3. CASE Synced(p)
      BY <1>1, <2>3, SyncedStage, SyncedQuiet, QuietKeeps DEF IInv
    <2> QED BY <1>7, <2>1, <2>2, <2>3 DEF Produce
  <1>8. CASE StopProducers
    BY <1>1, <1>8, StopProducersStage, StopProducersQuiet, QuietKeeps DEF IInv
  <1>9. CASE Shutdown
    <2>1. CASE StopScheduler
      BY <1>1, <2>1, StopSchedulerStage, StopSchedulerQuiet, QuietKeeps DEF IInv
    <2>2. CASE JoinScheduler
      BY <1>1, <2>2, JoinSchedulerStage, JoinSchedulerQuiet, QuietKeeps DEF IInv
    <2>3. CASE JoinLate
      BY <1>1, <2>3, JoinLateStage, JoinLateQuiet, QuietKeeps DEF IInv
    <2>4. CASE EmptyQueue
      BY <1>1, <2>4, EmptyQueueStage, EmptyQueueQuiet, QuietKeeps DEF IInv
    <2>5. CASE Clear
      BY <1>1, <2>5, ClearStage, ClearDelivers DEF IInv
    <2> QED BY <1>9, <2>1, <2>2, <2>3, <2>4, <2>5 DEF Shutdown
  <1>10. CASE UNCHANGED vars
    <2>1. StageInv'
      BY <1>1, <1>10 DEF StageInv, TypeOK, PlaceOK, ShutdownOK, vars, scheduler, client, waiting, subscribers
    <2>2. Quiet
      BY <1>10 DEF Quiet, vars, client, subscribers
    <2> QED BY <1>1, <2>1, <2>2, QuietKeeps DEF IInv
  <1> QED BY <1>2, <1>3, <1>4, <1>5, <1>6, <1>7, <1>8, <1>9, <1>10 DEF Next


-----------------------------------------------------------------------------
(* The theorems. *)

\* The inductive invariant holds in every state of the scheduler, the queue and the subscribers.
THEOREM CallbacksInvariance == Spec => []IInv
  <1>1. Init => IInv
    BY InitStage, InitDelivers DEF IInv
  <1>2. IInv /\ [Next]_vars => IInv'
    BY NextKeeps
  <1> QED BY <1>1, <1>2, PTL DEF Spec

\* For any number of service threads and subscribers that come and go, "each subscriber will
\* receive event callbacks in the order in which the events were generated by validation":
\* MainSignalsInstance::Iterate calls none twice and leaves none out.
THEOREM EventsAlwaysInOrder == Spec => []DeliveredInOrder
  <1>1. IInv => DeliveredInOrder
    BY DEF IInv, DeliveryInv
  <1> QED BY <1>1, CallbacksInvariance, PTL

\* However many Iterate calls run at the same time, the count of a ListEntry is the number of
\* its executions plus 1 if it is registered, and it is erased exactly when that becomes 0.
THEOREM CountAlwaysExact == Spec => []CountExact
  <1>1. IInv => CountExact
    BY DEF IInv, DeliveryInv
  <1> QED BY <1>1, CallbacksInvariance, PTL

\* What the client is executing is what its only executing thread has taken.
LEMMA OneExecutes ==
    ASSUME SerialOK
    PROVE  /\ (\A a \in Agent : current[a] = NoEvent) => InExecution = NoEvent
           /\ \A a \in Agent : current[a] # NoEvent => InExecution = current[a]
  <1>1. ASSUME \A a \in Agent : current[a] = NoEvent PROVE InExecution = NoEvent
    BY <1>1 DEF InExecution, Executing
  <1>2. ASSUME NEW a \in Agent, current[a] # NoEvent PROVE InExecution = current[a]
    <2>1. \A b \in Executing : b = a
      BY <1>2 DEF Executing, SerialOK
    <2>2. a \in Executing
      BY <1>2 DEF Executing
    <2>3. (CHOOSE b \in Executing : TRUE) = a
      BY <2>1, <2>2
    <2> QED BY <2>2, <2>3 DEF InExecution
  <1> QED BY <1>1, <1>2

\* Steps that leave the events alone do not show in the queue.
LEMMA QuietStutters ==
    ASSUME UNCHANGED <<pending, current, added>>, (pc[Main] # "done")' <=> pc[Main] # "done"
    PROVE  UNCHANGED Queue!vars
  <1>1. InExecution' = InExecution
    BY SMTT(40) DEF InExecution, Executing
  <1>2. (pc[Main] # "done")' = (pc[Main] # "done")
    OBVIOUS
  <1> QED BY <1>1, <1>2 DEF Queue!vars


\* Every step of the threads is a step of the queue or does not show.
LEMMA NextRefines ==
    ASSUME IInv, IInv', [Next]_vars
    PROVE  [Queue!Next]_(Queue!vars)
  <1>1. StageInv /\ SerialOK /\ SerialOK'
    BY DEF IInv, DeliveryInv
  <1>2. pc \in [Agent -> Place]
    BY <1>1 DEF StageInv, TypeOK
  <1>3. ASSUME Quiet PROVE UNCHANGED Queue!vars
    <2>1. (pc[Main] # "done")' <=> pc[Main] # "done"
      BY <1>3, Agents DEF Quiet
    <2> QED BY <1>3, <2>1, QuietStutters DEF Quiet
  <1>4. ASSUME NEW a \in Agent, NEW s \in BOOLEAN, Enqueue(a, s), pc[a] \in {"sync", "signal"}
        PROVE  Queue!Next
    <2>1. pc[Main] # "done"
      <3>1. flushes = 0 \/ a = Main
        <4>1. flushes \in 0 .. 2
          BY <1>1 DEF StageInv, TypeOK
        <4>2. flushes > 0 => /\ \A t \in Service : pc[t] = "exited"
                             /\ \A p \in Producer : pc[p] = "out"
          BY <1>1 DEF StageInv, ShutdownOK
        <4> QED BY <1>4, <4>1, <4>2, Agents, SMTT(40)
      <3> QED BY <1>1, <1>4, <3>1 DEF StageInv, ShutdownOK, JoinPlace
    <2>2. (pc[Main] # "done")' = (pc[Main] # "done")
      BY <1>2, <1>4, <2>1, Agents DEF Enqueue
    <2>3. InExecution' = InExecution
      BY <1>4, SMTT(40) DEF Enqueue, InExecution, Executing
    <2>4. added' = added + 1 /\ pending' = Append(pending, added')
      BY <1>4 DEF Enqueue
    <2>5. Queue!Add
      BY <2>1, <2>2, <2>3, <2>4 DEF Queue!Add
    <2> QED BY <2>5 DEF Queue!Next
  <1>5. ASSUME NEW a \in Agent, Client(a) PROVE [Queue!Next]_(Queue!vars)
    <2>1. CASE MaybeScheduleProcessQueue(a)
      BY <1>1, <1>3, <2>1, MaybeScheduleQuiet
    <2>2. CASE Schedule(a)
      BY <1>1, <1>3, <2>2, ScheduleQuiet
    <2>3. CASE ProcessQueue(a) /\ (running \/ pending = <<>>)
      <3>1. pc[a] = "process" /\ pc' = [pc EXCEPT ![a] = Back(a)] /\ UNCHANGED client
        BY <2>3 DEF ProcessQueue
      <3>2. (pc[Main] # "done")' <=> pc[Main] # "done"
        BY <1>2, <3>1, BackQuiet, Agents
      <3> QED BY <3>1, <3>2, QuietStutters DEF client
    <2>4. CASE ProcessQueue(a) /\ ~running /\ pending # <<>>
      <3>1. /\ pc[a] = "process" /\ pc' = [pc EXCEPT ![a] = "call"]
            /\ current' = [current EXCEPT ![a] = Head(pending)]
            /\ pending' = Tail(pending) /\ added' = added
        BY <2>4 DEF ProcessQueue
      <3>2. (pc[Main] # "done")' = (pc[Main] # "done")
        BY <1>2, <3>1, Agents
      <3>3. InExecution = NoEvent
        <4>1. \A b \in Agent : current[b] = NoEvent
          BY <1>1, <2>4 DEF SerialOK
        <4> QED BY <1>1, <4>1, OneExecutes
      <3>4. InExecution' = Head(pending)
        <4>1. current'[a] = Head(pending)
          BY <1>1, <3>1 DEF StageInv, TypeOK
        <4>2. pc'[a] = "call"
          BY <1>2, <3>1
        <4>3. current'[a] # NoEvent /\ \A b \in Agent : current'[b] # NoEvent => b = a
          BY <1>1, <4>2 DEF SerialOK
        <4>4. Executing' = {a}
          BY <4>3 DEF Executing
        <4>5. (CHOOSE b \in {a} : TRUE) = a
          OBVIOUS
        <4> QED BY <4>1, <4>4, <4>5 DEF InExecution
      <3>5. Queue!Begin
        BY <2>4, <3>1, <3>2, <3>3, <3>4 DEF Queue!Begin
      <3> QED BY <3>5 DEF Queue!Next
    <2>5. CASE SetPromise(a)
      <3>1. (pc[Main] # "done")' <=> pc[Main] # "done"
        BY <1>2, <2>5, Agents DEF SetPromise
      <3> QED BY <2>5, <3>1, QuietStutters DEF SetPromise
    <2>6. CASE Iterate(a)
      <3>1. UNCHANGED <<pending, current, added>>
        BY <2>6 DEF Iterate
      <3>2. (pc[Main] # "done")' <=> pc[Main] # "done"
        BY <1>2, <2>6, IterateCalls, Agents
      <3> QED BY <3>1, <3>2, QuietStutters
    <2>7. CASE CallbackDone(a)
      <3>1. /\ pc[a] = "finish" /\ pc' = [pc EXCEPT ![a] = "check"]
            /\ current' = [current EXCEPT ![a] = NoEvent] /\ UNCHANGED <<pending, added>>
        BY <2>7 DEF CallbackDone
      <3>2. (pc[Main] # "done")' = (pc[Main] # "done")
        BY <1>2, <3>1, Agents
      <3>3. current[a] # NoEvent /\ \A b \in Agent : b # a => current[b] = NoEvent
        BY <1>1, <3>1 DEF SerialOK
      <3>4. InExecution # NoEvent
        BY <1>1, <3>3, OneExecutes
      <3>5. \A b \in Agent : current'[b] = NoEvent
        BY <1>1, <3>1, <3>3 DEF StageInv, TypeOK
      <3>6. InExecution' = NoEvent
        BY <3>5 DEF InExecution, Executing
      <3>7. Queue!End
        BY <3>1, <3>2, <3>4, <3>6 DEF Queue!End
      <3> QED BY <3>7 DEF Queue!Next
    <2>8. CASE Signal(a)
      BY <1>4, <2>8 DEF Signal
    <2> QED BY <1>5, <2>1, <2>2, <2>3, <2>4, <2>5, <2>6, <2>7, <2>8 DEF Client
  <1>6. ASSUME NEW t \in Service, ServiceQueue(t) PROVE Quiet
    BY <1>1, <1>6, ServiceLoopQuiet, TakeTaskQuiet, RepeatQuiet DEF ServiceQueue
  <1>7. ASSUME TimerDue \/ MockForward \/ StopProducers PROVE Quiet
    BY <1>1, <1>7, TimerDueQuiet, MockForwardQuiet, StopProducersQuiet
  <1>8. ASSUME NEW s \in Subscriber, Register(s) \/ Unregister(s) PROVE UNCHANGED Queue!vars
    <2>1. UNCHANGED <<pc, pending, current, added>>
      BY <1>8 DEF Register, Unregister, client
    <2> QED BY <2>1, QuietStutters
  <1>9. ASSUME NEW p \in Producer, LimitValidationInterfaceQueue(p) \/ Produce(p)
        PROVE  Quiet \/ Queue!Next
    <2>1. CASE SyncWithValidationInterfaceQueue(p)
      BY <1>4, <2>1, Agents DEF SyncWithValidationInterfaceQueue
    <2>2. CASE LimitValidationInterfaceQueue(p) \/ Synced(p)
      BY <1>1, <2>2, LimitQuiet, SyncedQuiet
    <2> QED BY <1>9, <2>1, <2>2 DEF Produce
  <1>10. CASE Shutdown
    <2>1. CASE Clear
      <3>1. /\ pc[Main] = "clear" /\ pc' = [pc EXCEPT ![Main] = "done"]
            /\ pending' = <<>> /\ UNCHANGED <<current, added>>
        BY <2>1 DEF Clear
      <3>2. flushes = 2 /\ Len(pending) <= 1
        BY <1>1, <3>1, MainStage, SMTT(40) DEF StageInv, ShutdownOK, JoinPlace
      <3>3. \A b \in Agent : pc[b] \notin {"call", "finish"}
        BY <1>1, <3>1, <3>2, Agents, SMTT(40) DEF StageInv, ShutdownOK
      <3>4. InExecution = NoEvent
        BY <1>1, <3>3, OneExecutes DEF SerialOK
      <3>5. InExecution' = InExecution
        BY <3>1, SMTT(40) DEF InExecution, Executing
      <3>6. pc[Main] # "done" /\ (pc[Main] # "done")' = FALSE
        BY <1>2, <3>1, Agents
      <3>7. Queue!Close
        BY <3>1, <3>2, <3>4, <3>5, <3>6 DEF Queue!Close
      <3> QED BY <3>7 DEF Queue!Next
    <2>2. CASE StopScheduler \/ JoinScheduler \/ JoinLate \/ EmptyQueue
      BY <1>1, <1>3, <2>2, StopSchedulerQuiet, JoinSchedulerQuiet, JoinLateQuiet, EmptyQueueQuiet
    <2> QED BY <1>10, <2>1, <2>2 DEF Shutdown
  <1>11. CASE UNCHANGED vars
    BY <1>11, QuietStutters DEF vars, client
  <1> QED BY <1>3, <1>5, <1>6, <1>7, <1>8, <1>9, <1>10, <1>11 DEF Next

\* The scheduler, the client and Shutdown implement the queue: for any number of threads,
\* ProcessQueue executes one event at a time, in the order they were added, and when the
\* queue is destroyed no more than the event of the last flush is left in it.
THEOREM QueueRefined == Spec => Queue!Safety
  <1>1. Init => Queue!Init
    <2> SUFFICES ASSUME Init PROVE Queue!Init
      OBVIOUS
    <2>1. InExecution = NoEvent
      BY DEF Init, InExecution, Executing
    <2>2. (pc[Main] # "done") = TRUE
      BY Agents DEF Init
    <2> QED BY <2>1, <2>2 DEF Init, Queue!Init
  <1>2. IInv /\ IInv' /\ [Next]_vars => [Queue!Next]_(Queue!vars)
    BY NextRefines
  <1> QED BY <1>1, <1>2, CallbacksInvariance, PTL DEF Spec, Queue!Safety
================================================================================
