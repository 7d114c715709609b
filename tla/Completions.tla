---------------------------- MODULE Completions -----------------------------
(***************************************************************************)
(* The PAL's timer completions, its continuations, system events and the   *)
(* wait loop that puts the CPU to sleep (src/DeviceCode/pal/AsyncProcCall, *)
(* src/DeviceCode/pal/events), on top of a clock with one compare register *)
(* (the Netduino's AT91_TIME).                                             *)
(*                                                                         *)
(* Code under GLOBAL_LOCK, and an interrupt handler, is one action.  The   *)
(* wait loop holds the lock except where it releases it, and its states    *)
(* are those points.  Callbacks may set and abort completions themselves;  *)
(* which ones they choose is left open.                                    *)
(***************************************************************************)
EXTENDS Naturals, Sequences

CONSTANTS
  Timers,       \* HAL_COMPLETION objects
  InIsr,        \* those initialised by InitializeForISR
  MaxTime,      \* bound of the clock
  MaxDelta,     \* bound of the delay of EnqueueDelta
  MaxDiff,      \* c_MaxTimerValue: how far ahead the compare register reaches
  Masks,        \* wake-up masks given to Events_WaitForEvents
  SleepRunsIsr  \* CPU_Sleep lets interrupt handlers run (the SH2 ports)

Events == {"Timer", "Device"}

(* HAL_Completion_IdleValue: a time that never comes.                      *)
Idle == MaxTime + 1

ASSUME CompletionsAssumption ==
  /\ InIsr \subseteq Timers
  /\ MaxTime \in Nat \ {0}
  /\ MaxDelta \in Nat \ {0}
  /\ MaxDiff \in Nat \ {0}
  /\ Masks \subseteq SUBSET Events
  /\ SleepRunsIsr \in BOOLEAN

VARIABLES
  now,       \* HAL_Time_CurrentTicks()
  queue,     \* g_HAL_Completion_List
  at,        \* EventTimeTicks of the completions in queue, 0 of the others
  compare,   \* m_nextCompare
  match,     \* the time the compare register matches (TC_RC)
  irq,       \* the timer interrupt is pending
  conts,     \* g_HAL_Continuation_List
  events,    \* SystemEvents
  pc,        \* where the thread is: "run" outside Events_WaitForEvents
  mask,      \* WakeupSystemEvents
  expire,    \* Expire
  internal,  \* SYSTEM_STATE_NO_CONTINUATIONS (Events_WaitForEventsInternal)
  runConts,  \* RunContinuations
  restore    \* what WaitForInterrupts does to the compare after the sleep

clockVars == <<compare, match, irq>>
waitVars  == <<mask, expire, internal>>
vars == <<now, queue, at, clockVars, conts, events, pc, waitVars, runConts, restore>>

Linked(s) == {s[i] : i \in DOMAIN s}

(* HAL_CONTINUATION::IsLinked: in either list.                             *)
IsLinked(t) == t \in Linked(queue) \cup Linked(conts)

(* Interrupts are enabled.                                                 *)
IrqsOn ==
  \/ pc \in {"run", "cont", "release", "acquire", "probe"}
  \/ SleepRunsIsr /\ pc = "sleep"

Deadlines == {d \in (now + 1)..(now + MaxDelta) : d <= MaxTime}

(* EnqueueDelta reads the clock before EnqueueTicks masks interrupts, and  *)
(* its delay may be 0, so that the time may have come or passed.  Calls    *)
(* end with the clock.                                                     *)
EnqueueTimes == {d \in 1..(now + MaxDelta) : now < MaxTime /\ d <= MaxTime}

-----------------------------------------------------------------------------
(* The compare register.                                                   *)

(* Mutated form: the register reaches any time.                            *)
ReachAny(c) == c

(* SetCompareValue reaches MaxDiff ticks ahead at most.                    *)
Reach(c) == IF c - now > MaxDiff THEN now + MaxDiff ELSE c

(* SetCompareValue(c), where the interrupt is pending or not before: a     *)
(* time in the past forces the interrupt.                                  *)
SetCompare(c, pending) ==
  /\ compare' = c
  /\ IF c <= now
     THEN irq' = TRUE /\ UNCHANGED match
     ELSE irq' = pending /\ match' = Reach(c)

FirstTime(q, time) == IF q = <<>> THEN Idle ELSE time[Head(q)]

(* A time tick; the register matches.                                      *)
Tick ==
  /\ now < MaxTime
  /\ now' = now + 1
  /\ irq' = (irq \/ now + 1 = match)
  /\ UNCHANGED <<queue, at, compare, match, conts, events, pc, waitVars,
                 runConts, restore>>

-----------------------------------------------------------------------------
(* The list of completions.                                                *)

(* The loop of EnqueueTicks has passed n nodes of q and stops.             *)
StopsAfter(q, n, d) ==
  /\ \A i \in 1..n : at[q[i]] <= d
  /\ n < Len(q) => d < at[q[n + 1]]

InsertAt(q, n, t) == SubSeq(q, 1, n) \o <<t>> \o SubSeq(q, n + 1, Len(q))

RemoveAt(q, i) == SubSeq(q, 1, i - 1) \o SubSeq(q, i + 1, Len(q))

(* Mutated form: the compare is left alone.                                *)
EnqueueQuietly(t, d) ==
  /\ IrqsOn
  /\ ~IsLinked(t)
  /\ \E n \in 0..Len(queue) :
       /\ StopsAfter(queue, n, d)
       /\ queue' = InsertAt(queue, n, t)
  /\ at' = [at EXCEPT ![t] = d]
  /\ UNCHANGED <<now, clockVars, conts, events, pc, waitVars, runConts, restore>>

(* EnqueueTicks.  Its callers abort t first or test IsLinked.              *)
Enqueue(t, d) ==
  /\ IrqsOn
  /\ ~IsLinked(t)
  /\ \E n \in 0..Len(queue) :
       /\ StopsAfter(queue, n, d)
       /\ queue' = InsertAt(queue, n, t)
       /\ IF n = 0 THEN SetCompare(d, irq) ELSE UNCHANGED clockVars
  /\ at' = [at EXCEPT ![t] = d]
  /\ UNCHANGED <<now, conts, events, pc, waitVars, runConts, restore>>

(* Mutated form: the compare is left alone.                                *)
AbortQuietly(t) ==
  /\ IrqsOn
  /\ \E i \in DOMAIN queue : queue[i] = t /\ queue' = RemoveAt(queue, i)
  /\ at' = [at EXCEPT ![t] = 0]
  /\ UNCHANGED <<now, clockVars, conts, events, pc, waitVars, runConts, restore>>

(* HAL_COMPLETION::Abort of a queued completion.                           *)
Abort(t) ==
  /\ IrqsOn
  /\ \E i \in DOMAIN queue :
       /\ queue[i] = t
       /\ queue' = RemoveAt(queue, i)
       /\ IF i = 1 THEN SetCompare(FirstTime(Tail(queue), at), irq)
                   ELSE UNCHANGED clockVars
  /\ at' = [at EXCEPT ![t] = 0]
  /\ UNCHANGED <<now, conts, events, pc, waitVars, runConts, restore>>

(* Abort of a completion whose continuation is queued.                     *)
AbortCont(t) ==
  /\ IrqsOn
  /\ \E i \in DOMAIN conts : conts[i] = t /\ conts' = RemoveAt(conts, i)
  /\ UNCHANGED <<now, queue, at, clockVars, events, pc, waitVars, runConts, restore>>

-----------------------------------------------------------------------------
(* The timer interrupt.                                                    *)

IsrRuns ==
  /\ IrqsOn
  /\ irq

(* DequeueAndExec of a completion for user mode: its continuation is       *)
(* queued.                                                                 *)
IsrPosts ==
  /\ IsrRuns
  /\ compare <= now
  /\ queue # <<>>
  /\ Head(queue) \notin InIsr
  /\ events' = events \cup {"Timer"}
  /\ queue'  = Tail(queue)
  /\ SetCompare(FirstTime(Tail(queue), at), FALSE)
  /\ at'     = [at EXCEPT ![Head(queue)] = 0]
  /\ conts'  = Append(conts, Head(queue))
  /\ UNCHANGED <<now, pc, waitVars, runConts, restore>>

(* DequeueAndExec of a completion for the ISR whose callback does not set  *)
(* it again ...                                                            *)
IsrFires ==
  /\ IsrRuns
  /\ compare <= now
  /\ queue # <<>>
  /\ Head(queue) \in InIsr
  /\ events' = events \cup {"Timer"}
  /\ queue'  = Tail(queue)
  /\ SetCompare(FirstTime(Tail(queue), at), FALSE)
  /\ at'     = [at EXCEPT ![Head(queue)] = 0]
  /\ UNCHANGED <<now, conts, pc, waitVars, runConts, restore>>

(* ... or does, for time d.                                                *)
IsrFiresAgain(d) ==
  LET t == Head(queue)
  IN  /\ IsrRuns
      /\ compare <= now
      /\ queue # <<>>
      /\ t \in InIsr
      /\ events' = events \cup {"Timer"}
      /\ \E n \in 0..Len(Tail(queue)) :
           /\ StopsAfter(Tail(queue), n, d)
           /\ queue' = InsertAt(Tail(queue), n, t)
           /\ SetCompare(IF n = 0 THEN d ELSE at[queue[2]], FALSE)
      /\ at' = [at EXCEPT ![t] = d]
      /\ UNCHANGED <<now, conts, pc, waitVars, runConts, restore>>

(* The list is empty: the interrupt of Initialize, or it ended a sleep.    *)
IsrIdle ==
  /\ IsrRuns
  /\ compare <= now
  /\ queue = <<>>
  /\ irq' = FALSE
  /\ UNCHANGED <<now, queue, at, compare, match, conts, events, pc, waitVars,
                 runConts, restore>>

(* The register matched MaxDiff ticks ahead, before the compare value.     *)
IsrEarly ==
  /\ IsrRuns
  /\ now < compare
  /\ SetCompare(compare, FALSE)
  /\ UNCHANGED <<now, queue, at, conts, events, pc, waitVars, runConts, restore>>

(* The interrupt of a device sets its event.                               *)
DeviceIsr ==
  /\ IrqsOn
  /\ "Device" \notin events
  /\ events' = events \cup {"Device"}
  /\ UNCHANGED <<now, queue, at, clockVars, conts, pc, waitVars, runConts, restore>>

-----------------------------------------------------------------------------
(* The thread outside the wait: CLR_HW_Hardware::ProcessActivity.  Pending *)
(* interrupts are served before the thread goes on.                        *)

ThreadRuns == pc = "run" /\ ~irq

RunContinuation ==
  /\ ThreadRuns
  /\ conts # <<>>
  /\ conts' = Tail(conts)
  /\ UNCHANGED <<now, queue, at, clockVars, events, pc, waitVars, runConts, restore>>

GetEvents(m) ==
  /\ ThreadRuns
  /\ events \cap m # {}
  /\ events' = events \ m
  /\ UNCHANGED <<now, queue, at, clockVars, conts, pc, waitVars, runConts, restore>>

(* Events_WaitForEvents, or Events_WaitForEventsInternal.                  *)
Wait(m, e, int) ==
  /\ ThreadRuns
  /\ pc'       = "check"
  /\ mask'     = m
  /\ expire'   = e
  /\ internal' = int
  /\ runConts' = TRUE
  /\ UNCHANGED <<now, queue, at, clockVars, conts, events, restore>>

-----------------------------------------------------------------------------
(* The loop of Events_WaitForEvents, interrupts disabled at its head.      *)

WaitOver == events \cap mask # {} \/ expire <= now

Return ==
  /\ pc = "check"
  /\ WaitOver
  /\ pc'       = "run"
  /\ mask'     = {}
  /\ expire'   = 0
  /\ internal' = FALSE
  /\ UNCHANGED <<now, queue, at, clockVars, conts, events, runConts, restore>>

Release ==
  /\ pc = "check"
  /\ ~WaitOver
  /\ runConts /\ ~internal
  /\ pc' = "release"
  /\ UNCHANGED <<now, queue, at, clockVars, conts, events, waitVars, runConts, restore>>

(* Mutated form: the events are not looked at again before the sleep.      *)
GoToSleepBlindly ==
  /\ pc = "check"
  /\ expire > now
  /\ ~runConts \/ internal
  /\ runConts' = TRUE
  /\ pc'       = "sleep"
  /\ restore'  = IF queue = <<>> THEN "Idle"
                 ELSE IF at[Head(queue)] > expire THEN "First" ELSE "None"
  /\ IF queue = <<>> \/ at[Head(queue)] > expire
     THEN SetCompare(expire, irq)
     ELSE UNCHANGED clockVars
  /\ UNCHANGED <<now, queue, at, conts, events, waitVars>>

(* Mutated form: the compare is not set for the end of the wait.           *)
GoToSleepUnarmed ==
  /\ pc = "check"
  /\ ~WaitOver
  /\ ~runConts \/ internal
  /\ runConts' = TRUE
  /\ pc'       = "sleep"
  /\ UNCHANGED <<now, queue, at, clockVars, conts, events, waitVars, restore>>

(* WaitForInterrupts up to CPU_Sleep: the compare wakes the CPU when the   *)
(* wait expires, unless a completion does so before.                       *)
GoToSleep ==
  /\ pc = "check"
  /\ ~WaitOver
  /\ ~runConts \/ internal
  /\ runConts' = TRUE
  /\ pc'       = "sleep"
  /\ restore'  = IF queue = <<>> THEN "Idle"
                 ELSE IF at[Head(queue)] > expire THEN "First" ELSE "None"
  /\ IF queue = <<>> \/ at[Head(queue)] > expire
     THEN SetCompare(expire, irq)
     ELSE UNCHANGED clockVars
  /\ UNCHANGED <<now, queue, at, conts, events, waitVars>>

(* Mutated form: the compare is not restored.                              *)
AfterSleepForgetful ==
  /\ pc = "sleep"
  /\ pc' = "probe"
  /\ restore' = "None"
  /\ UNCHANGED <<now, queue, at, clockVars, conts, events, waitVars, runConts>>

(* WaitForInterrupts after CPU_Sleep.  The head of an emptied list is the  *)
(* sentinel, whose EventTimeTicks is whatever memory holds.                *)
AfterSleep ==
  /\ pc = "sleep"
  /\ pc' = "probe"
  /\ restore' = "None"
  /\ CASE restore = "None"  -> UNCHANGED clockVars
       [] restore = "Idle"  -> SetCompare(Idle, irq)
       [] restore = "First" -> \E c \in 0..Idle :
                                 /\ queue # <<>> => c = at[Head(queue)]
                                 /\ SetCompare(c, irq)
  /\ UNCHANGED <<now, queue, at, conts, events, waitVars, runConts>>

(* CPU_Sleep returns on a pending timer interrupt, or on any other one.    *)
WakeUp == irq /\ AfterSleep

WakeUpOther == ~irq /\ AfterSleep

(* irq.Probe(): the pending interrupts are served.                         *)
Probe ==
  /\ pc = "probe"
  /\ ~irq
  /\ pc' = "check"
  /\ UNCHANGED <<now, queue, at, clockVars, conts, events, waitVars, runConts, restore>>

(* Dequeue_And_Execute takes a continuation and runs it ...                *)
Dequeue ==
  /\ pc = "release"
  /\ ~irq
  /\ conts # <<>>
  /\ conts' = Tail(conts)
  /\ pc'    = "cont"
  /\ UNCHANGED <<now, queue, at, clockVars, events, waitVars, runConts, restore>>

(* ... or finds none.                                                      *)
DequeueNone ==
  /\ pc = "release"
  /\ ~irq
  /\ conts = <<>>
  /\ runConts' = FALSE
  /\ pc'       = "acquire"
  /\ UNCHANGED <<now, queue, at, clockVars, conts, events, waitVars, restore>>

(* irq.Acquire(), after the continuation returned or when there was none.  *)
Acquire ==
  /\ pc \in {"cont", "acquire"}
  /\ ~irq
  /\ pc' = "check"
  /\ UNCHANGED <<now, queue, at, clockVars, conts, events, waitVars, runConts, restore>>

-----------------------------------------------------------------------------
Init ==
  /\ now = 0
  /\ queue = <<>>
  /\ at = [t \in Timers |-> 0]
  /\ compare = MaxDiff
  /\ match = MaxDiff
  /\ irq = FALSE
  /\ conts = <<>>
  /\ events = {}
  /\ pc = "run"
  /\ mask = {}
  /\ expire = 0
  /\ internal = FALSE
  /\ runConts = TRUE
  /\ restore = "None"

TimerIsr ==
  \/ IsrPosts
  \/ IsrFires
  \/ \E d \in Deadlines : IsrFiresAgain(d)
  \/ IsrIdle
  \/ IsrEarly

Calls ==
  \/ \E t \in Timers : (\E d \in EnqueueTimes : Enqueue(t, d)) \/ Abort(t) \/ AbortCont(t)
  \/ RunContinuation
  \/ \E m \in Masks : GetEvents(m)
  \/ \E m \in Masks, e \in Deadlines, int \in BOOLEAN : Wait(m, e, int)

WaitLoop ==
  \/ Return
  \/ Release
  \/ GoToSleep
  \/ WakeUp
  \/ Probe
  \/ Dequeue
  \/ DequeueNone
  \/ Acquire

Next == Tick \/ TimerIsr \/ DeviceIsr \/ Calls \/ WaitLoop \/ WakeUpOther

(* The clock runs, pending interrupts are served and the wait loop goes    *)
(* on; nothing makes the program call anything.                            *)
Spec ==
  /\ Init /\ [][Next]_vars
  /\ WF_vars(Tick) /\ WF_vars(TimerIsr) /\ WF_vars(WaitLoop)

-----------------------------------------------------------------------------
(* Properties.                                                             *)

(* Every variable stays in its range; the register within its reach.       *)
TypeOK ==
  /\ now \in 0..MaxTime
  /\ queue \in Seq(Timers)
  /\ at \in [Timers -> 0..MaxTime]
  /\ compare \in 0..(MaxTime + MaxDiff)
  /\ match \in 0..(now + MaxDiff)
  /\ irq \in BOOLEAN
  /\ conts \in Seq(Timers)
  /\ events \subseteq Events
  /\ pc \in {"run", "cont", "release", "acquire", "probe", "check", "sleep"}
  /\ mask \subseteq Events
  /\ expire \in 0..MaxTime
  /\ internal \in BOOLEAN
  /\ runConts \in BOOLEAN
  /\ restore \in {"None", "Idle", "First"}

(* A completion is linked once, in one list; the list is sorted by time.   *)
ListsOK ==
  /\ \A i, j \in DOMAIN queue : i < j => queue[i] # queue[j] /\ at[queue[i]] <= at[queue[j]]
  /\ \A i, j \in DOMAIN conts : i < j => conts[i] # conts[j]
  /\ Linked(queue) \cap Linked(conts) = {}

(* The compare stands for the first completion whenever a handler can see  *)
(* it, and the interrupt comes no later than that completion is due.       *)
InterruptComes ==
  /\ ListsOK
  /\ IrqsOn /\ queue # <<>> => compare = at[Head(queue)]
  /\ queue # <<>> => irq \/ (now < match /\ match <= at[Head(queue)])

(* ASSERT(ptr->EventTimeTicks <= HAL_Time_CurrentTicks()) of               *)
(* DequeueAndExec: the completion the interrupt runs is due.               *)
AssertDue ==
  IsrRuns /\ compare <= now /\ queue # <<>> => at[Head(queue)] <= now

(* The CPU never goes to sleep on an event the caller waits for, nor on a  *)
(* continuation a timer queued when the caller waits for the timer event;  *)
(* both may be set by an interrupt between the tests and the sleep.        *)
NoSleepOnWork ==
  pc = "sleep" => /\ events \cap mask = {}
                  /\ "Timer" \in mask /\ ~internal => conts = <<>>

(* Events_WaitForEvents returns.                                           *)
WaitReturns == pc # "run" ~> pc = "run"

(* To the drivers completions are the alarms of module Alarms.             *)
Due == [t \in Timers |-> IF t \in Linked(queue) THEN at[t] ELSE Idle]

A == INSTANCE Alarms WITH due <- Due, Off <- Idle

ImplementsAlarms == A!ASpec

=============================================================================
