----------------------------- MODULE RoundRobin -----------------------------
(***************************************************************************)
(* Which ready thread runs next: the execution counters and the ordered    *)
(* ready list of CLR_RT_ExecutionEngine (src/CLR/Core/Execution.cpp,       *)
(* Thread.cpp).  A quantum costs its thread a debit that depends on its    *)
(* priority; the list is kept by InsertThreadRoundRobin, and its first     *)
(* thread runs.                                                            *)
(*                                                                         *)
(* The counters only ever fall, so ScheduleThreads shifts all of them back *)
(* up once the global one passes a threshold: that also keeps the model    *)
(* finite.  Why a thread blocks or is restarted is left to ClrThreads; the *)
(* static-constructor thread, which is run out of turn, is left out.       *)
(***************************************************************************)
EXTENDS Integers, Sequences, FiniteSets

CONSTANTS
  Threads,          \* managed threads
  Main,             \* the thread the engine starts with
  NoThread,         \* no CLR_RT_Thread*
  SystemHighest,    \* ThreadPriority::System_Highest, 5
  Priorities,       \* priorities in use, 0 is Lowest
  Wakers,           \* threads that restart other threads while they run
  Yielders,         \* threads that call Sleep(0)
  Adjustable,       \* threads whose priority is set after they were created
  Maximum,          \* EXECUTION_COUNTER_MAXIMUM
  Adjustment,       \* EXECUTION_COUNTER_ADJUSTMENT
  MaxContextSwitch  \* quanta of one call of ScheduleThreads

PowerOfTwo(n) == <<1, 2, 4, 8, 16, 32>>[n + 1]

(* GetQuantumDebit: 1 << (System_Highest - priority).                      *)
QuantumDebit(p) == PowerOfTwo(SystemHighest - p)

(* BringExecCounterToDate: (1 << System_Highest) + 1.                      *)
CatchUp == PowerOfTwo(SystemHighest) + 1

ASSUME RoundRobinAssumption ==
  /\ Main \in Threads
  /\ NoThread \notin Threads
  /\ SystemHighest \in 0..5
  /\ Priorities \subseteq 0..SystemHighest
  /\ Wakers \subseteq Threads
  /\ Yielders \subseteq Threads
  /\ Adjustable \subseteq Threads
  /\ MaxContextSwitch \in Nat \ {0}
  /\ Adjustment \in Nat /\ Adjustment >= CatchUp * MaxContextSwitch
  /\ Maximum \in Nat /\ Maximum >= Adjustment + CatchUp

VARIABLES
  current,   \* m_currentThread
  ready,     \* m_threadsReady, the running thread included
  waiting,   \* m_threadsWaiting
  unstarted, \* threads not created yet
  priority,  \* m_priority
  counter,   \* m_executionCounter
  global,    \* m_GlobalExecutionCounter
  switches,  \* context switches left in this call of ScheduleThreads
  streak     \* history: who had the last n quanta, another thread being ready

vars == <<current, ready, waiting, unstarted, priority, counter, global,
          switches, streak>>

Elems(s) == {s[i] : i \in DOMAIN s}

Distinct(s) == \A i, j \in DOMAIN s : s[i] = s[j] => i = j

NoStreak == [who |-> NoThread, n |-> 0]

-----------------------------------------------------------------------------
(* The ready list.                                                         *)

(* GetExecutionCounter of every thread, for priorities prio and counters   *)
(* count.                                                                  *)
Keys(prio, count) == [t \in Threads |-> prio[t] + count[t]]

(* Mutated form: the thread is linked a second time.                       *)
NotUnlinked(q, t) == q

(* Unlink.  A thread is in the list at most once.                          *)
Unlinked(q, t) ==
  IF t \notin Elems(q) THEN q
  ELSE LET i == CHOOSE j \in DOMAIN q : q[j] = t
       IN  SubSeq(q, 1, i - 1) \o SubSeq(q, i + 1, Len(q))

(* How many threads at the front of the list have a key not smaller.       *)
PassedOver(r, t, key) ==
  Cardinality({i \in DOMAIN r : \A k \in 1..i : key[r[k]] >= key[t]})

(* InsertThreadRoundRobin: t goes behind them, hence before the first one  *)
(* whose key is smaller.                                                   *)
Inserted(q, t, key) ==
  LET r == Unlinked(q, t)
      n == PassedOver(r, t, key)
  IN  SubSeq(r, 1, n) \o <<t>> \o SubSeq(r, n + 1, Len(r))

(* Mutated form: the credit of a thread that was away is kept.             *)
NotCapped(c, g) == c

(* BringExecCounterToDate.                                                 *)
Capped(c, g) == IF c - g > CatchUp THEN g + CatchUp ELSE c

(* Mutated form: the quantum is free.                                      *)
UnchargedCounter(t) == Capped(counter[t], global)

(* The counter of t once it has paid for a quantum.                        *)
ChargedCounter(t) == Capped(counter[t], global) - QuantumDebit(priority[t])

-----------------------------------------------------------------------------
Init ==
  /\ current   = NoThread
  /\ ready     = <<Main>>
  /\ waiting   = {}
  /\ unstarted = Threads \ {Main}
  /\ priority \in [Threads -> Priorities]
  /\ counter   = [t \in Threads |-> 0]
  /\ global    = 0
  /\ switches  = 0
  /\ streak    = NoStreak

(* Mutated form: the counters of the threads are left alone.               *)
AdjustGlobalOnly ==
  /\ global < -Maximum
  /\ global'  = global + Adjustment
  /\ UNCHANGED counter

(* AdjustExecutionCounter of every list.  A thread not created yet starts  *)
(* from 0, the counter of one that ended is never read again.              *)
Adjust ==
  /\ global < -Maximum
  /\ global'  = global + Adjustment
  /\ counter' = [t \in Threads |->
                   IF t \in Elems(ready) \cup waiting
                   THEN Capped(counter[t] + Adjustment, global + Adjustment)
                   ELSE counter[t]]

(* ScheduleThreads is called (again).                                      *)
ScheduleThreads ==
  /\ current = NoThread
  /\ switches = 0
  /\ Adjust \/ (global >= -Maximum /\ UNCHANGED <<global, counter>>)
  /\ switches' = MaxContextSwitch
  /\ UNCHANGED <<current, ready, waiting, unstarted, priority, streak>>

(* Its loop finds no ready thread and it returns; it is called again even  *)
(* when no thread is left, where the program would stop.                   *)
NoReadyThreads ==
  /\ current = NoThread
  /\ switches > 0
  /\ ready = <<>>
  /\ switches' = 0
  /\ UNCHANGED <<current, ready, waiting, unstarted, priority, counter, global, streak>>

(* The first ready thread pays for a quantum and starts to run it.         *)
Dispatch ==
  /\ current = NoThread
  /\ switches > 0
  /\ ready # <<>>
  /\ LET t == Head(ready)
         c == ChargedCounter(t)
     IN  /\ current' = t
         /\ counter' = [counter EXCEPT ![t] = c]
         /\ global'  = IF c < global THEN c ELSE global
         /\ streak'  = IF Len(ready) = 1 THEN NoStreak
                       ELSE IF streak.who = t THEN [streak EXCEPT !.n = @ + 1]
                       ELSE [who |-> t, n |-> 1]
  /\ switches' = switches - 1
  /\ UNCHANGED <<ready, waiting, unstarted, priority>>

-----------------------------------------------------------------------------
(* What the running thread t does.                                         *)

(* PutInProperList(t) after CLR_S_QUANTUM_EXPIRED or CLR_E_RESCHEDULE; key *)
(* is what GetExecutionCounter returns then.                               *)
Requeue(t, key) ==
  /\ current' = NoThread
  /\ ready'   = Inserted(ready, t, key)

(* The quantum is over.                                                    *)
EndQuantum(t) ==
  /\ current = t
  /\ Requeue(t, Keys(priority, counter))
  /\ UNCHANGED <<waiting, unstarted, priority, counter, global, switches, streak>>

(* CLR_E_THREAD_WAITING.                                                   *)
Block(t) ==
  /\ current = t
  /\ current' = NoThread
  /\ ready'   = Unlinked(ready, t)
  /\ waiting' = waiting \cup {t}
  /\ UNCHANGED <<unstarted, priority, counter, global, switches, streak>>

(* The thread ends: PutInProperList passivates it.                         *)
Terminate(t) ==
  /\ current = t
  /\ current' = NoThread
  /\ ready'   = Unlinked(ready, t)
  /\ UNCHANGED <<waiting, unstarted, priority, counter, global, switches, streak>>

(* Mutated form: Sleep(0) is just the end of the quantum.                  *)
SleepZeroKept(t) ==
  /\ current = t
  /\ t \in Yielders
  /\ counter' = counter
  /\ Requeue(t, Keys(priority, counter))
  /\ UNCHANGED <<waiting, unstarted, priority, global, switches, streak>>

(* Thread.Sleep(0): UpdateToLowestExecutionCounter, then CLR_E_RESCHEDULE. *)
SleepZero(t) ==
  /\ current = t
  /\ t \in Yielders
  /\ counter' = [counter EXCEPT ![t] = global - 1]
  /\ Requeue(t, Keys(priority, counter'))
  /\ UNCHANGED <<waiting, unstarted, priority, global, switches, streak>>

(* Thread.Start of u: NewThread gives it counter 0 and makes it ready.     *)
Start(t, u) ==
  /\ current = t
  /\ u \in unstarted
  /\ ready'     = Inserted(ready, u, Keys(priority, counter))
  /\ unstarted' = unstarted \ {u}
  /\ UNCHANGED <<current, waiting, priority, counter, global, switches, streak>>

(* A call of t restarts u, which waits (Set, Monitor.Exit, Resume, Abort)  *)
(* or is ready (Abort).                                                    *)
Restart(t, u) ==
  /\ current = t
  /\ t \in Wakers
  /\ u \in waiting \cup (Elems(ready) \ {t})
  /\ ready'   = Inserted(ready, u, Keys(priority, counter))
  /\ waiting' = waiting \ {u}
  /\ UNCHANGED <<current, unstarted, priority, counter, global, switches, streak>>

(* Thread.Priority of u is set.  The list is not sorted again; t gives up  *)
(* its quantum if u now has more than it.                                  *)
SetPriority(t, u, p) ==
  /\ current = t
  /\ u \in Adjustable
  /\ u \in waiting \cup Elems(ready)
  /\ p # priority[u]
  /\ priority' = [priority EXCEPT ![u] = p]
  /\ IF p > priority'[t]
     THEN Requeue(t, Keys(priority', counter))
     ELSE UNCHANGED <<current, ready>>
  /\ streak' = IF streak.who = u THEN NoStreak ELSE streak
  /\ UNCHANGED <<waiting, unstarted, counter, global, switches>>

(* Between two quanta a timeout expires or an interrupt sets an event.     *)
Wake(u) ==
  /\ current = NoThread
  /\ u \in waiting
  /\ ready'   = Inserted(ready, u, Keys(priority, counter))
  /\ waiting' = waiting \ {u}
  /\ UNCHANGED <<current, unstarted, priority, counter, global, switches, streak>>

Next ==
  \/ ScheduleThreads
  \/ NoReadyThreads
  \/ Dispatch
  \/ \E t \in Threads :
       \/ EndQuantum(t)
       \/ Block(t)
       \/ Terminate(t)
       \/ SleepZero(t)
       \/ \E u \in Threads : Start(t, u)
       \/ \E u \in Threads : Restart(t, u)
       \/ \E u \in Threads, p \in Priorities : SetPriority(t, u, p)
       \/ Wake(t)

(* ScheduleThreads is called for ever, and the quantum's timer stops every *)
(* thread.                                                                 *)
Fairness ==
  /\ WF_vars(ScheduleThreads)
  /\ WF_vars(NoReadyThreads)
  /\ WF_vars(Dispatch)
  /\ \A t \in Threads : WF_vars(EndQuantum(t))

Spec == Init /\ [][Next]_vars /\ Fairness

-----------------------------------------------------------------------------
Started == Elems(ready) \cup waiting

(* No counter leaves the range of an int, although every quantum lowers    *)
(* one (Execution.cpp:1157): the adjustment comes in time, never lifts a   *)
(* counter above 0, and a thread that waited through it is neither left    *)
(* behind nor more than one below the global counter.                      *)
CountersInRange ==
  /\ global \in -(Maximum + CatchUp * MaxContextSwitch) .. 0
  /\ \A t \in Started : counter[t] \in global - 1 .. 0

TypeOK ==
  /\ current \in Threads \cup {NoThread}
  /\ ready \in Seq(Threads)
  /\ waiting \subseteq Threads
  /\ unstarted \subseteq Threads
  /\ priority \in [Threads -> Priorities]
  /\ counter \in [Threads -> Int]
  /\ global \in Int
  /\ switches \in 0..MaxContextSwitch
  /\ streak \in [who : Threads \cup {NoThread}, n : Nat]
  /\ current # NoThread => current \in Elems(ready)
  /\ waiting \cap Elems(ready) = {}
  /\ unstarted \cap Started = {}
  /\ Distinct(ready)

(* The credit a thread can save up is limited: while another thread is     *)
(* ready it gets no more quanta in a row than its catch-up pays for        *)
(* (Execution.cpp:1242 and Thread.cpp:102).                                *)
MaxStreak(p) == (CatchUp + 1 + p) \div QuantumDebit(p) + 1

StreakLimited ==
  streak.who # NoThread => streak.n <= MaxStreak(priority[streak.who])

(* Sleep(0) lets every thread of the same or a higher priority go first    *)
(* (Thread.cpp:374 of corlib).                                             *)
YieldsToEqual ==
  [][\A t \in Threads :
       SleepZero(t) /\ (\A u \in Elems(ready) : priority[u] >= priority[t])
         => ready'[Len(ready')] = t]_vars

(* A thread that stays ready is run again.                                 *)
NoStarvation ==
  \A t \in Threads : []<>(t \notin Elems(ready) \/ current = t)

(* A thread that stays ready with a higher execution counter than any      *)
(* other ready thread is run: "The thread with highest m_executionCounter  *)
(* is chosen for execution" (Execution.cpp:1155).                          *)
Highest(t) ==
  LET key == Keys(priority, counter)
  IN  t \in Elems(ready) /\ \A u \in Elems(ready) : u # t => key[u] < key[t]

HighestRuns ==
  \A t \in Threads : []<>(~Highest(t) \/ current = t)
=============================================================================
