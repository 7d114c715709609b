----------------------------- MODULE ClrThreads -----------------------------
(***************************************************************************)
(* Managed threads of the TinyCLR and the objects they block on: monitors, *)
(* auto-reset and manual-reset events, Join and Sleep (src/CLR/Core).      *)
(*                                                                         *)
(* One native call of the running thread is one action: nothing else runs  *)
(* until the thread returns to CLR_RT_ExecutionEngine::ScheduleThreads.    *)
(* Between two quanta (current = NoThread) the engine either dispatches a  *)
(* ready thread or, in ProcessTimer, lets a finite timeout expire.         *)
(*                                                                         *)
(* Data left out: execution counters and priorities (module RoundRobin     *)
(* models the choice among ready threads, here any of them may be chosen), *)
(* the clock (a finite timeout may expire at any time between quanta), the *)
(* managed stack (a thread may make any call when it runs), and the second *)
(* subthread an ExecutionConstraint installs.                              *)
(***************************************************************************)
EXTENDS Naturals, Sequences, FiniteSets

CONSTANTS
  Threads,      \* managed Thread objects
  Main,         \* the thread the engine starts with
  Locks,        \* objects used with Monitor.Enter and Monitor.Exit
  AutoReset,    \* AutoResetEvent objects
  ManualReset,  \* ManualResetEvent objects
  WaitArrays,   \* arrays of auto-reset events given to WaitAny and WaitAll
  Abortable,    \* threads some other thread may abort
  Suspendable,  \* threads that may be suspended
  MaxAborts,    \* bound on the calls of Abort for one thread
  MaxRecursion, \* bound on the nesting of Monitor.Enter
  NoThread,     \* no CLR_RT_Thread*
  NoLock        \* not in Monitor.Enter

(* Thread objects are waitable: Join waits on the Thread object itself. *)
Handles == AutoReset \cup ManualReset \cup Threads

ASSUME ConstantsAssumption ==
  /\ Main \in Threads
  /\ NoThread \notin Threads
  /\ NoLock \notin Locks
  /\ AutoReset \cap (ManualReset \cup Threads) = {}
  /\ ManualReset \cap Threads = {}
  /\ WaitArrays \subseteq Seq(AutoReset)
  /\ Abortable \subseteq Threads
  /\ Suspendable \subseteq Threads
  /\ MaxAborts \in Nat
  /\ MaxRecursion \in Nat \ {0}

VARIABLES
  current,   \* g_CLR_RT_ExecutionEngine.m_currentThread
  status,    \* m_status; "Unstarted": Start was not called, no CLR_RT_Thread
  ready,     \* m_threadsReady (the running thread stays in it)
  waiting,   \* m_threadsWaiting, as a set ...
  ahead,     \* ... and its order: <<u, v>> when u is linked before v
  suspended, \* threads with TH_F_Suspended
  aborts,    \* history: how often Abort was called on a thread
  raised,    \* threads with a pending ThreadAbortException (m_currentException)
  dead,      \* threads whose frames and subthread were released
  call,      \* the native call a thread is blocked in or about to return from
  wait,      \* m_waitForObject
  result,    \* m_waitForObject_Result
  sleeping,  \* threads with a finite m_waitForEvents_Timeout
  signaled,  \* objects with HB_Signaled
  owner,     \* m_owningThread of the object's CLR_RT_HeapBlock_Lock
  recursion, \* m_recursion of its only Owner
  requests,  \* m_requests, the thread of each CLR_RT_HeapBlock_LockRequest
  fate       \* "loops": SignalObject never ends; "corrupt": see ExitCorrupts

listVars   == <<ready, waiting, ahead>>
threadVars == <<suspended, aborts, raised, dead>>
waitVars   == <<wait, result, sleeping, signaled>>
lockVars   == <<owner, recursion, requests>>
vars == <<current, status, listVars, threadVars, call, waitVars, lockVars, fate>>

Arrays == WaitArrays \cup {<<h>> : h \in Handles}
Waits  == [objs : Arrays, all : {FALSE}, timed : BOOLEAN]
            \cup [objs : WaitArrays, all : {TRUE}, timed : BOOLEAN]
NoWait == [objs |-> <<>>, all |-> FALSE, timed |-> FALSE]
Ops    == {"None", "Enter", "Wait", "Sleep", "Suspend"}
NoCall == [op |-> "None", lock |-> NoLock]

Elems(s) == {s[i] : i \in DOMAIN s}

-----------------------------------------------------------------------------
(* Lists.  LinkAtBack unlinks the node first, so S may be listed already.  *)

(* The order when the threads of out leave the waiting list and those of   *)
(* back are linked at its back.                                            *)
Relink(out, back) ==
  LET stay == waiting \ (out \cup back)
  IN  {p \in ahead : p[1] \in stay /\ p[2] \in stay}
        \cup (stay \X back)
        \cup {p \in ahead : p[1] \in back /\ p[2] \in back}

(* Mutated form: the suspended threads are made ready too.                 *)
PutReadyAlways(W) ==
  /\ ready'   = ready \cup W
  /\ waiting' = waiting \ W
  /\ ahead'   = Relink(W, {})

(* PutInProperList for the woken threads W, all of status Ready: those not *)
(* suspended enter the ready list through InsertThreadRoundRobin, the      *)
(* others go to the back of the waiting list.                              *)
PutReady(W) ==
  /\ ready'   = ready \cup (W \ suspended)
  /\ waiting' = (waiting \ W) \cup (W \cap suspended)
  /\ ahead'   = Relink(W \ suspended, W \cap suspended)

(* InsertThreadRoundRobin frees the wait of a thread it makes ready.       *)
WaitsAfter(W) == [u \in Threads |-> IF u \in W \ suspended THEN NoWait ELSE wait[u]]

(* The running thread t blocks: THREAD_WAITING takes it back to            *)
(* ScheduleThreads, which links it at the back of the waiting list.        *)
Block(t, op, l) ==
  /\ status'  = [status EXCEPT ![t] = "Waiting"]
  /\ call'    = [call EXCEPT ![t] = [op |-> op, lock |-> l]]
  /\ ready'   = ready \ {t}
  /\ waiting' = waiting \cup {t}
  /\ ahead'   = Relink({}, {t})
  /\ current' = NoThread

-----------------------------------------------------------------------------
(* Waits.                                                                  *)

(* TryWaitForSignal, the test: all objects or some object signaled.        *)
Satisfied(w, sig) ==
  IF w.all THEN \A i \in DOMAIN w.objs : w.objs[i] \in sig
           ELSE \E i \in DOMAIN w.objs : w.objs[i] \in sig

(* TryWaitForSignal, the effect: a wait for all resets every auto-reset    *)
(* object of its array, a wait for any the first signaled one.             *)
Consumed(w, sig) ==
  IF w.all THEN Elems(w.objs) \cap AutoReset
  ELSE {w.objs[i] : i \in {j \in DOMAIN w.objs :
          w.objs[j] \in sig /\ \A k \in 1..(j-1) : w.objs[k] \notin sig}}
       \cap AutoReset

(* Mutated form: SignalObject leaves out the suspended threads.            *)
SatisfiableUnsuspended(h) ==
  {u \in waiting \ suspended : wait[u] # NoWait /\ Satisfied(wait[u], signaled \cup {h})}

(* Threads of the waiting list whose wait is satisfied once h is signaled. *)
Satisfiable(h) ==
  {u \in waiting : wait[u] # NoWait /\ Satisfied(wait[u], signaled \cup {h})}

(* Those whose wait takes the signal of h.                                 *)
Takers(h) == {u \in Satisfiable(h) : h \in Consumed(wait[u], signaled \cup {h})}

(* Mutated form: SignalObject never stops early.                           *)
FreedAll(h) == Satisfiable(h)

(* The ones SignalObject frees: it walks the list from its front and stops *)
(* at the first that takes the signal of h.  A suspended thread freed      *)
(* before keeps its wait and is freed again when it is met.                *)
Freed(h) ==
  {u \in Satisfiable(h) : \A v \in Takers(h) : u = v \/ <<u, v>> \in ahead}

(* SignalObject's loop takes the next node before it treats a node.  A     *)
(* suspended thread is not removed but linked at the back again, with its  *)
(* wait, so two of them whose objects stay signaled are visited in turn    *)
(* for ever.                                                               *)
LoopsForever(h) ==
  Takers(h) = {} /\ \E u, v \in Satisfiable(h) \cap suspended : u # v

-----------------------------------------------------------------------------
(* Monitors.                                                               *)

(* m_lockRequestsCount # 0: the counter moves with the queue entries and   *)
(* is only compared with 0.                                                *)
Pending(reqs, t) == \E l \in Locks : t \in Elems(reqs[l])

Heir(l) == IF requests[l] = <<>> THEN NoThread ELSE Head(requests[l])

(* Mutated form: all requests go.                                          *)
ServedAll(L) == [l \in Locks |-> IF l \in L THEN <<>> ELSE requests[l]]

(* The queues once ChangeOwner has served every lock of L.                 *)
Served(L) == [l \in Locks |-> IF l \in L /\ requests[l] # <<>>
                              THEN Tail(requests[l]) ELSE requests[l]]

Heirs(L) == {Heir(l) : l \in L} \ {NoThread}

(* Mutated form: an heir is always restarted.                              *)
WokenAlways(L) == Heirs(L)

(* ChangeLockRequestCount(-1): an heir with another pending request is not *)
(* restarted.                                                              *)
WokenHeirs(L) == {u \in Heirs(L) : ~Pending(Served(L), u)}

(* ChangeOwner of every lock of L.                                         *)
ChangeOwner(L) ==
  /\ owner'     = [l \in Locks |-> IF l \in L THEN Heir(l) ELSE owner[l]]
  /\ recursion' = [l \in Locks |->
                     IF l \notin L THEN recursion[l]
                     ELSE IF Heir(l) = NoThread THEN 0 ELSE 1]

(* m_status after ChangeLockRequestCount of the heirs of L and Restart of  *)
(* the threads of W.  An heir that is not restarted becomes Waiting, also  *)
(* when it was ready or runs: no PutInProperList follows.                  *)
StatusAfter(L, W) ==
  [u \in Threads |-> IF u \in Heirs(L) \ WokenHeirs(L) THEN "Waiting"
                     ELSE IF u \in W \cup WokenHeirs(L) THEN "Ready"
                     ELSE status[u]]

(* Mutated form: the requests of a thread that ends stay queued.           *)
RequestKept(q, t) == q

(* The k-th element of a set K of places.                                  *)
Place(K, k) == CHOOSE i \in K : Cardinality({j \in K : j <= i}) = k

(* DeleteLockRequests: q without the requests of t, in the same order.     *)
WithoutRequest(q, t) ==
  LET kept == {i \in DOMAIN q : q[i] # t}
  IN  [k \in 1..Cardinality(kept) |-> q[Place(kept, k)]]

-----------------------------------------------------------------------------
Init ==
  /\ current   = NoThread
  /\ status    = [t \in Threads |-> IF t = Main THEN "Ready" ELSE "Unstarted"]
  /\ ready     = {Main}
  /\ waiting   = {}
  /\ ahead     = {}
  /\ suspended = {}
  /\ aborts    = [t \in Threads |-> 0]
  /\ raised    = {}
  /\ dead      = {}
  /\ call      = [t \in Threads |-> NoCall]
  /\ wait      = [t \in Threads |-> NoWait]
  /\ result    = [t \in Threads |-> "Init"]
  /\ sleeping  = {}
  /\ signaled  = {}
  /\ owner     = [l \in Locks |-> NoThread]
  /\ recursion = [l \in Locks |-> 0]
  /\ requests  = [l \in Locks |-> <<>>]
  /\ fate      = "runs"

-----------------------------------------------------------------------------
(* The engine between two quanta.                                          *)

(* ScheduleThreads gives t a quantum: a pending exception is raised in t,  *)
(* otherwise the native call t was blocked in returns (and has read its    *)
(* result, which is not read again).                                       *)
Dispatch(t) ==
  /\ current = NoThread
  /\ t \in ready \ dead
  /\ current' = t
  /\ call'    = [call EXCEPT ![t] = NoCall]
  /\ result'  = [result EXCEPT ![t] = "Init"]
  /\ raised'  = raised \ {t}
  /\ UNCHANGED <<status, listVars, suspended, aborts, dead, wait, sleeping,
                 signaled, lockVars, fate>>

(* The quantum expires, or t calls Sleep(0): CLR_E_RESCHEDULE.  The        *)
(* PutInProperList of ScheduleThreads takes t to the waiting list when t   *)
(* gave itself a lock and so became Waiting while it ran.                  *)
EndQuantum(t) ==
  /\ current = t
  /\ current' = NoThread
  /\ IF status[t] = "Waiting"
     THEN /\ ready'   = ready \ {t}
          /\ waiting' = waiting \cup {t}
          /\ ahead'   = Relink({}, {t})
     ELSE UNCHANGED listVars
  /\ UNCHANGED <<status, threadVars, call, waitVars, lockVars, fate>>

(* CheckThreads, "Check wait for object": the wait of u has expired.  That *)
(* suspended threads are passed over is so in builds with source-level     *)
(* debugging only; others let their wait or sleep end, and they go to the  *)
(* back of the waiting list, Ready.                                        *)
WaitTimeout(u) ==
  /\ current = NoThread
  /\ u \in waiting \ suspended
  /\ wait[u].timed
  /\ result'   = [result EXCEPT ![u] = "Timeout"]
  /\ status'   = [status EXCEPT ![u] = "Ready"]
  /\ PutReady({u})
  /\ wait'     = WaitsAfter({u})
  /\ sleeping' = sleeping \ {u}
  /\ UNCHANGED <<current, threadVars, call, signaled, lockVars, fate>>

(* Mutated form: any blocked thread is restarted, not only a sleeping one. *)
SleepTimeoutAny(u) ==
  /\ current = NoThread
  /\ u \in waiting \ suspended
  /\ status'   = [status EXCEPT ![u] = "Ready"]
  /\ PutReady({u})
  /\ wait'     = WaitsAfter({u})
  /\ sleeping' = sleeping \ {u}
  /\ UNCHANGED <<current, threadVars, call, result, signaled, lockVars, fate>>

(* CheckThreads, "Check events": the sleep of u is over.                   *)
SleepTimeout(u) ==
  /\ current = NoThread
  /\ u \in (waiting \ suspended) \cap sleeping
  /\ status'   = [status EXCEPT ![u] = "Ready"]
  /\ PutReady({u})
  /\ wait'     = WaitsAfter({u})
  /\ sleeping' = sleeping \ {u}
  /\ UNCHANGED <<current, threadVars, call, result, signaled, lockVars, fate>>

-----------------------------------------------------------------------------
(* Monitor.Enter and Monitor.Exit (LockObject, UnlockObject).              *)

EnterFree(t, l) ==
  /\ current = t
  /\ owner[l] = NoThread
  /\ owner'     = [owner EXCEPT ![l] = t]
  /\ recursion' = [recursion EXCEPT ![l] = 1]
  /\ UNCHANGED <<current, status, listVars, threadVars, call, waitVars,
                 requests, fate>>

EnterAgain(t, l) ==
  /\ current = t
  /\ owner[l] = t
  /\ recursion[l] < MaxRecursion
  /\ recursion' = [recursion EXCEPT ![l] = @ + 1]
  /\ UNCHANGED <<current, status, listVars, threadVars, call, waitVars,
                 owner, requests, fate>>

EnterBlocked(t, l) ==
  /\ current = t
  /\ owner[l] \notin {t, NoThread}
  /\ requests' = [requests EXCEPT ![l] = Append(@, t)]
  /\ Block(t, "Enter", l)
  /\ UNCHANGED <<threadVars, waitVars, owner, recursion, fate>>

(* Mutated form: the last Exit is taken for an inner one.                  *)
ExitInnerAlways(t, l) ==
  /\ current = t
  /\ owner[l] = t
  /\ recursion' = [recursion EXCEPT ![l] = @ - 1]
  /\ UNCHANGED <<current, status, listVars, threadVars, call, waitVars,
                 owner, requests, fate>>

ExitInner(t, l) ==
  /\ current = t
  /\ owner[l] = t
  /\ recursion[l] > 1
  /\ recursion' = [recursion EXCEPT ![l] = @ - 1]
  /\ UNCHANGED <<current, status, listVars, threadVars, call, waitVars,
                 owner, requests, fate>>

(* Mutated form: any Exit by the owner hands the lock over.                *)
ExitAtOnce(t, l) ==
  /\ current = t
  /\ owner[l] = t
  /\ ChangeOwner({l})
  /\ requests' = Served({l})
  /\ status'   = StatusAfter({l}, {})
  /\ PutReady(WokenHeirs({l}))
  /\ wait'     = WaitsAfter(WokenHeirs({l}))
  /\ sleeping' = sleeping \ (WokenHeirs({l}) \ suspended)
  /\ UNCHANGED <<current, threadVars, call, result, signaled, fate>>

(* The last Exit hands l to the first request in its queue.                *)
ExitLast(t, l) ==
  /\ current = t
  /\ owner[l] = t
  /\ recursion[l] = 1
  /\ ChangeOwner({l})
  /\ requests' = Served({l})
  /\ status'   = StatusAfter({l}, {})
  /\ PutReady(WokenHeirs({l}))
  /\ wait'     = WaitsAfter(WokenHeirs({l}))
  /\ sleeping' = sleeping \ (WokenHeirs({l}) \ suspended)
  /\ UNCHANGED <<current, threadVars, call, result, signaled, fate>>

-----------------------------------------------------------------------------
(* Events, Join and Sleep.                                                 *)

(* Mutated form: the flag of the object is not set.                        *)
SignalUnflagged(h, W, used) ==
  /\ result'   = [u \in Threads |-> IF u \in W THEN "Signaled" ELSE result[u]]
  /\ signaled' = signaled \ used

(* Mutated form: the thread is freed and the result of its wait not set.   *)
SignalUnrecorded(h, W, used) ==
  /\ result'   = result
  /\ signaled' = (signaled \cup {h}) \ used

(* SignalObject without its effect on the lists: results, waits and flags  *)
(* once the threads of W were freed and cost the flags of used.            *)
SignalEffect(h, W, used) ==
  /\ result'   = [u \in Threads |-> IF u \in W THEN "Signaled" ELSE result[u]]
  /\ signaled' = (signaled \cup {h}) \ used

Set(t, h) ==
  /\ current = t
  /\ h \in AutoReset \cup ManualReset
  /\ ~LoopsForever(h)
  /\ SignalEffect(h, Freed(h), UNION {Consumed(wait[u], signaled \cup {h}) : u \in Freed(h)})
  /\ status'   = StatusAfter({}, Freed(h))
  /\ PutReady(Freed(h))
  /\ wait'     = WaitsAfter(Freed(h))
  /\ sleeping' = sleeping \ Freed(h)
  /\ UNCHANGED <<current, threadVars, call, lockVars, fate>>

SetHangs(t, h) ==
  /\ current = t
  /\ h \in AutoReset \cup ManualReset
  /\ LoopsForever(h)
  /\ fate' = "loops"
  /\ UNCHANGED <<current, status, listVars, threadVars, call, waitVars, lockVars>>

Reset(t, h) ==
  /\ current = t
  /\ h \in (AutoReset \cup ManualReset) \cap signaled
  /\ signaled' = signaled \ {h}
  /\ UNCHANGED <<current, status, listVars, threadVars, call, wait, result,
                 sleeping, lockVars, fate>>

(* WaitOne, WaitAll and WaitAny of an array, and Join of a thread that is  *)
(* alive; Join of a terminated thread returns at once.                     *)
MayWaitFor(t, w) ==
  \A i \in DOMAIN w.objs : w.objs[i] \in Threads =>
    w.objs[i] # t /\ status[w.objs[i]] \notin {"Unstarted", "Terminated"}

WaitSignaled(t, w) ==
  /\ current = t
  /\ MayWaitFor(t, w)
  /\ Satisfied(w, signaled)
  /\ signaled' = signaled \ Consumed(w, signaled)
  /\ UNCHANGED <<current, status, listVars, threadVars, call, wait, result,
                 sleeping, lockVars, fate>>

WaitBlocked(t, w) ==
  /\ current = t
  /\ MayWaitFor(t, w)
  /\ ~Satisfied(w, signaled)
  /\ wait'   = [wait EXCEPT ![t] = w]
  /\ result' = [result EXCEPT ![t] = "Init"]
  /\ Block(t, "Wait", NoLock)
  /\ UNCHANGED <<threadVars, sleeping, signaled, lockVars, fate>>

(* Thread.Sleep with a finite (timed) or an infinite time.                 *)
Sleep(t, timed) ==
  /\ current = t
  /\ sleeping' = IF timed THEN sleeping \cup {t} ELSE sleeping \ {t}
  /\ Block(t, "Sleep", NoLock)
  /\ UNCHANGED <<threadVars, wait, result, signaled, lockVars, fate>>

-----------------------------------------------------------------------------
(* Thread.Start, Suspend, Resume and Abort, called by t.                   *)

Alive(u) == status[u] \notin {"Unstarted", "Terminated"}

Start(t, u) ==
  /\ current = t
  /\ status[u] = "Unstarted"
  /\ status'   = [status EXCEPT ![u] = "Ready"]
  /\ ready'    = ready \cup {u}
  /\ signaled' = signaled \ {u}
  /\ UNCHANGED <<current, waiting, ahead, threadVars, call, wait, result,
                 sleeping, lockVars, fate>>

(* t suspends itself and is rescheduled; its status stays Ready.           *)
SuspendSelf(t) ==
  /\ current = t
  /\ t \in Suspendable
  /\ suspended' = suspended \cup {t}
  /\ call'      = [call EXCEPT ![t].op = "Suspend"]
  /\ ready'     = ready \ {t}
  /\ waiting'   = waiting \cup {t}
  /\ ahead'     = Relink({}, {t})
  /\ current'   = NoThread
  /\ UNCHANGED <<status, aborts, raised, dead, waitVars, lockVars, fate>>

Suspend(t, u) ==
  /\ current = t
  /\ t # u
  /\ u \in Suspendable \ suspended
  /\ Alive(u)
  /\ suspended' = suspended \cup {u}
  /\ ready'     = ready \ {u}
  /\ waiting'   = waiting \cup {u}
  /\ ahead'     = Relink({}, {u})
  /\ UNCHANGED <<current, status, aborts, raised, dead, call, waitVars,
                 lockVars, fate>>

(* PutInProperList: a Ready thread enters the ready list, a Waiting one    *)
(* goes to the back of the waiting list.                                   *)
Resume(t, u) ==
  /\ current = t
  /\ u \in suspended
  /\ Alive(u)
  /\ suspended' = suspended \ {u}
  /\ IF status[u] = "Ready"
     THEN /\ ready'    = ready \cup {u}
          /\ waiting'  = waiting \ {u}
          /\ ahead'    = Relink({u}, {})
          /\ wait'     = [wait EXCEPT ![u] = NoWait]
          /\ sleeping' = sleeping \ {u}
     ELSE /\ ahead' = Relink({}, {u})
          /\ UNCHANGED <<ready, waiting, wait, sleeping>>
  /\ UNCHANGED <<current, status, aborts, raised, dead, call, result, signaled,
                 lockVars, fate>>

(* Mutated form: Restart without PutInProperList.                          *)
AbortUnlisted(t, u) ==
  /\ current = t
  /\ t # u
  /\ u \in Abortable
  /\ aborts[u] < MaxAborts
  /\ Alive(u)
  /\ aborts' = [aborts EXCEPT ![u] = @ + 1]
  /\ raised' = raised \cup {u}
  /\ status' = [status EXCEPT ![u] = "Ready"]
  /\ UNCHANGED <<current, listVars, suspended, dead, call, waitVars, lockVars, fate>>

(* The lock requests of u stay queued, and nothing stops a second Abort.   *)
Abort(t, u) ==
  /\ current = t
  /\ t # u
  /\ u \in Abortable
  /\ aborts[u] < MaxAborts
  /\ Alive(u)
  /\ aborts'   = [aborts EXCEPT ![u] = @ + 1]
  /\ raised'   = raised \cup {u}
  /\ status'   = [status EXCEPT ![u] = "Ready"]
  /\ PutReady({u})
  /\ wait'     = WaitsAfter({u})
  /\ sleeping' = sleeping \ {u}
  /\ UNCHANGED <<current, suspended, dead, call, result, signaled, lockVars, fate>>

-----------------------------------------------------------------------------
(* The end of a thread: PutInProperList of a terminated thread, Passivate. *)

Owned(t) == {l \in Locks : owner[l] = t}

(* Passivate signals the Thread object (the joiners wake), hands over the  *)
(* locks of t, then deletes its lock requests.  Deleting the last one goes *)
(* through ChangeLockRequestCount, which restarts t: it is Ready again,    *)
(* with no frame and no subthread left.                                    *)
Passivate(t) ==
  LET L         == Owned(t)
      joiners   == Freed(t)
      woken     == joiners \cup WokenHeirs(L)
      restarted == Pending(Served(L), t)
  IN  /\ ~LoopsForever(t)
      /\ SignalEffect(t, joiners, {})
      /\ ChangeOwner(L)
      /\ requests'  = [l \in Locks |-> WithoutRequest(Served(L)[l], t)]
      /\ status'    = [StatusAfter(L, joiners) EXCEPT
                         ![t] = IF restarted THEN "Ready" ELSE "Terminated"]
      /\ ready'     = (ready \ {t}) \cup (woken \ suspended)
                        \cup (IF restarted THEN {t} ELSE {})
      /\ waiting'   = (waiting \ (woken \cup {t})) \cup (woken \cap suspended)
      /\ ahead'     = Relink({t} \cup (woken \ suspended), woken \cap suspended)
      /\ wait'      = [WaitsAfter(woken) EXCEPT ![t] = NoWait]
      /\ sleeping'  = sleeping \ (joiners \cup (woken \ suspended) \cup {t})
      /\ suspended' = suspended \ {t}
      /\ raised'    = raised \ {t}
      /\ dead'      = dead \cup {t}
      /\ UNCHANGED <<aborts, call, fate>>

(* The thread procedure of t returns, or an exception leaves it.           *)
ThreadExit(t) ==
  /\ current = t
  /\ t \notin Heirs(Owned(t))
  /\ current' = NoThread
  /\ Passivate(t)

(* A restarted dead thread gets a quantum, has no frame and exits again.   *)
ReapDead(t) ==
  /\ current = NoThread
  /\ t \in ready \cap dead
  /\ current' = NoThread
  /\ Passivate(t)

ExitHangs(t) ==
  /\ current = t
  /\ LoopsForever(t)
  /\ fate' = "loops"
  /\ UNCHANGED <<current, status, listVars, threadVars, call, waitVars, lockVars>>

(* t ends and its own request is the first in the queue of a lock it owns: *)
(* ChangeOwner gives the lock back to t, for a subthread about to be freed,*)
(* and sets flags in the frame of a thread that has none.  What follows is *)
(* undefined, and the model stops.                                         *)
ExitCorrupts(t) ==
  /\ current = t
  /\ t \in Heirs(Owned(t))
  /\ ~LoopsForever(t)
  /\ fate' = "corrupt"
  /\ UNCHANGED <<current, status, listVars, threadVars, call, waitVars, lockVars>>

-----------------------------------------------------------------------------
Engine(t) == Dispatch(t) \/ WaitTimeout(t) \/ SleepTimeout(t) \/ ReapDead(t)

MonitorCall(t) ==
  \E l \in Locks : \/ EnterFree(t, l)
                   \/ EnterAgain(t, l)
                   \/ EnterBlocked(t, l)
                   \/ ExitInner(t, l)
                   \/ ExitLast(t, l)

WaitCall(t) ==
  \/ \E h \in Handles : Set(t, h) \/ SetHangs(t, h) \/ Reset(t, h)
  \/ \E w \in Waits : WaitSignaled(t, w) \/ WaitBlocked(t, w)
  \/ \E timed \in BOOLEAN : Sleep(t, timed)

ThreadCall(t) ==
  \/ EndQuantum(t)
  \/ SuspendSelf(t)
  \/ ThreadExit(t)
  \/ ExitHangs(t)
  \/ ExitCorrupts(t)
  \/ \E u \in Threads : Start(t, u) \/ Suspend(t, u) \/ Resume(t, u) \/ Abort(t, u)

Next ==
  /\ fate = "runs"
  /\ \E t \in Threads : Engine(t) \/ MonitorCall(t) \/ WaitCall(t) \/ ThreadCall(t)

Spec == Init /\ [][Next]_vars

-----------------------------------------------------------------------------
(* Properties.                                                             *)

(* Every variable stays in its range.                                      *)
TypeOK ==
  /\ current \in Threads \cup {NoThread}
  /\ status \in [Threads -> {"Unstarted", "Ready", "Waiting", "Terminated"}]
  /\ ready \subseteq Threads
  /\ waiting \subseteq Threads
  /\ ahead \subseteq Threads \X Threads
  /\ suspended \subseteq Threads
  /\ aborts \in [Threads -> 0..MaxAborts]
  /\ raised \subseteq Threads
  /\ dead \subseteq Threads
  /\ call \in [Threads -> [op : Ops, lock : Locks \cup {NoLock}]]
  /\ wait \in [Threads -> Waits \cup {NoWait}]
  /\ result \in [Threads -> {"Init", "Signaled", "Timeout"}]
  /\ sleeping \subseteq Threads
  /\ signaled \subseteq Handles
  /\ owner \in [Locks -> Threads \cup {NoThread}]
  /\ recursion \in [Locks -> 0..MaxRecursion]
  /\ requests \in [Locks -> Seq(Threads)]
  /\ fate \in {"runs", "loops", "corrupt"}

(* Every thread with work left is in exactly one list, no suspended one in *)
(* the ready list, the others there as soon as their status is Ready, and  *)
(* the waiting list is an order.  ChangeLockRequestCount sets m_status and *)
(* does not call PutInProperList, so a thread of the ready list may have   *)
(* status Waiting: but then it was aborted at least twice and has a lock   *)
(* request that is still queued.                                           *)
Tangled(t) == aborts[t] > 1 /\ Pending(requests, t)

Listed == {t \in Threads : status[t] \in {"Ready", "Waiting"}}

ListsAgree ==
  /\ ready \subseteq Listed \ suspended
  /\ waiting = Listed \ ready
  /\ \A t \in waiting : status[t] = "Ready" => t \in suspended
  /\ \A t \in ready : status[t] = "Waiting" => Tangled(t)
  /\ current \in ready \cup {NoThread}
  /\ \A u, v \in waiting : u # v => (<<u, v>> \in ahead) # (<<v, u>> \in ahead)

(* A thread about to return from Monitor.Enter owns the lock, whatever     *)
(* aborts, suspensions and exits of other threads happened while it was    *)
(* blocked: ChangeOwner gave it the lock before restarting it.             *)
EnterOwns ==
  \A t \in ready : (call[t].op = "Enter" /\ t \notin raised \cup dead)
                     => owner[call[t].lock] = t

(* The inductive form of EnterOwns.  A thread in Monitor.Enter owns the    *)
(* lock or is queued for it; it owns it as soon as it is in the ready list *)
(* or of status Ready.  Waits and sleeps belong to the call that made them *)
(* unless an exception is pending, and are gone from the ready threads.    *)
InEnter(t) == call[t].op = "Enter" /\ t \notin raised \cup dead

CurrentInv ==
  current # NoThread =>
    /\ current \in ready
    /\ call[current].op = "None"
    /\ current \notin raised \cup dead

ThreadInv(t) ==
  /\ t \in ready \cup waiting => status[t] # "Unstarted"
  /\ status[t] = "Unstarted" =>
       call[t].op = "None" /\ wait[t] = NoWait /\ t \notin sleeping
  /\ t \in ready => wait[t] = NoWait /\ t \notin sleeping
  /\ wait[t] # NoWait => call[t].op = "Wait" \/ t \in raised
  /\ t \in sleeping => call[t].op = "Sleep" \/ t \in raised
  /\ InEnter(t) =>
       /\ call[t].lock \in Locks
       /\ owner[call[t].lock] = t \/ t \in Elems(requests[call[t].lock])
       /\ t \in ready \/ status[t] = "Ready" => owner[call[t].lock] = t

EnterInv == CurrentInv /\ \A t \in Threads : ThreadInv(t)

(* Every thread that waits has something another thread or the clock can   *)
(* end: a wait, a sleep, or queued requests for locks that others own.  An *)
(* aborted thread can do worse: enter the lock it still has a request for, *)
(* get it by the first request and then wait for the second, which only    *)
(* its own Exit would serve.                                               *)
SelfQueued(t) == \E l \in Locks : owner[l] = t /\ t \in Elems(requests[l])

NoStuckThread ==
  \A t \in Threads : status[t] = "Waiting" =>
    \/ call[t].op = "Wait" /\ wait[t] # NoWait
    \/ call[t].op = "Sleep"
    \/ \E l \in Locks : t \in Elems(requests[l]) /\ owner[l] \notin {t, NoThread}
    \/ aborts[t] > 0 /\ SelfQueued(t)

(* Locks, owners and queues: a free lock has an empty queue and no         *)
(* recursion, an owner is alive, so that a terminated thread holds no lock *)
(* and waits for none.                                                     *)
LocksConsistent ==
  /\ \A l \in Locks : /\ owner[l] = NoThread => requests[l] = <<>>
                      /\ owner[l] = NoThread <=> recursion[l] = 0
                      /\ owner[l] # NoThread => Alive(owner[l]) /\ owner[l] \notin dead
  /\ \A t \in Threads : Pending(requests, t) => Alive(t) /\ t \notin dead

(* A thread is queued for the lock it is blocked on, and once more for     *)
(* every Abort at most: Abort leaves the request of the interrupted Enter  *)
(* behind, and nothing else does.                                          *)
QueuedFor(t) ==
  UNION {{<<l, i>> : i \in {j \in DOMAIN requests[l] : requests[l][j] = t}} : l \in Locks}

RequestsAccounted ==
  \A t \in Threads :
    Cardinality(QueuedFor(t))
      <= aborts[t] + (IF /\ status[t] = "Waiting"
                         /\ InEnter(t) THEN 1 ELSE 0)

(* A thread whose wait nothing has ended yet waits for objects that are    *)
(* not signaled, although Set does not look at the ready list and stops at *)
(* the first thread an auto-reset event frees.                             *)
StillWaits(u) == wait[u] # NoWait /\ result[u] = "Init"

WaitersUnsignaled ==
  \A u \in Threads : StillWaits(u) => ~Satisfied(wait[u], signaled)

(* No signal is lost: a Set that leaves its auto-reset event unsignaled    *)
(* has freed a thread that nothing had freed before.  Suspended threads    *)
(* break this: one that was freed keeps its wait until it is resumed, and  *)
(* the next Set of the event spends its signal on it once more.            *)
SetFreesWaiter ==
  [][\A t \in Threads, h \in AutoReset :
       Set(t, h) /\ h \notin signaled'
         => \E u \in Threads : StillWaits(u) /\ result'[u] = "Signaled"]_vars

(* A wait returns only because its objects were signaled or its time is    *)
(* up, never because something else restarted the thread.                  *)
WaitHasReason ==
  \A t \in ready : (call[t].op = "Wait" /\ t \notin raised \cup dead)
                     => result[t] # "Init"

(* A Thread object is signaled exactly when the thread has ended, so Join  *)
(* returns neither early nor never; by then its locks were handed over.    *)
JoinSeesEnd ==
  /\ signaled \cap Threads = dead
  /\ \A t \in dead : t # current /\ Owned(t) = {}

(* One signal of an auto-reset event frees one thread: of the threads      *)
(* blocked in WaitOne on it at most one is freed by a step, and then the   *)
(* event is no longer signaled.                                            *)
FreedBySignal(u, h) ==
  StillWaits(u) /\ wait[u].objs = <<h>> /\ result'[u] = "Signaled"

SignalSpentOnce ==
  [][\A h \in AutoReset :
       LET freed == {u \in Threads : FreedBySignal(u, h)}
       IN  Cardinality(freed) <= 1 /\ (freed # {} => h \notin signaled')]_vars

(* The engine always leaves SignalObject.                                  *)
EngineRuns == fate # "loops"

(* To the program a monitor is what module Monitor says.  A thread inside  *)
(* Enter holds nothing yet, even when ChangeOwner has already served it.   *)
Trying == [t \in Threads |-> IF call[t].op = "Enter" THEN call[t].lock ELSE NoLock]

Holds ==
  [t \in Threads |-> [l \in Locks |->
    IF owner[l] = t /\ Trying[t] # l THEN recursion[l] ELSE 0]]

M == INSTANCE Monitor WITH trying <- Trying, holds <- Holds, ended <- dead

ImplementsMonitor == M!MSpec

=============================================================================
