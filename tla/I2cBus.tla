------------------------------- MODULE I2cBus -------------------------------
(***************************************************************************)
(* I2C transactions: managed threads call I2CDevice.Execute, the driver    *)
(* queues their transactions, the interrupt handler of the bus moves them  *)
(* unit by unit, and a continuation at thread level wakes the callers.     *)
(* There is no lock around Execute: threads may share a device, a call may *)
(* be aborted, and a device be disposed and replaced while a call waits.   *)
(*                                                                         *)
(* Managed threads give up the processor only where Execute waits, so at   *)
(* most one is inside native code.  The interrupt handler comes between    *)
(* any two steps, those of the completion callback included: it runs with  *)
(* interrupts on and takes no lock.  The bytes of a unit are left out: a   *)
(* unit ends well or the subordinate does not answer.                      *)
(***************************************************************************)
EXTENDS Integers, Sequences, FiniteSets

CONSTANTS
  Threads,
  Devices,      \* the I2CDevice objects the program creates
  MaxUnits,     \* bound: transaction units passed to one Execute
  MaxCalls,     \* bound: how many transactions are allocated
  Callback,     \* the completion callback, where it has the processor
  None

ASSUME I2cBusAssumption ==
  /\ MaxUnits \in Nat \ {0}
  /\ MaxCalls \in Nat
  /\ None \notin Threads /\ None \notin Devices /\ None \notin Nat
  /\ Callback \notin Threads /\ Callback # None

VARIABLES
  device,       \* "new", "open", or "disposed" (m_disposed)
  hal,          \* m_HalXAction of each device
  status,       \* m_status of each transaction; "fresh" and "freed" memory
  units,        \* m_numXActionUnits
  current,      \* m_current: units started
  list,         \* m_xActions
  conts,        \* the continuations of transactions, g_HAL_Continuation_List
  bus,          \* m_currentXAction; None while its interrupts are off
  event,        \* SYSTEM_EVENT_I2C_XACTION
  raised,       \* c_Event_I2C in m_raisedEvents
  running,      \* the thread inside native code, or the callback
  pc,           \* where each thread is in Execute
  using,        \* the device of its call
  expired,      \* the timeout of its call has passed
  handler,      \* where the callback is; "none" while there is none
  arg,          \* xAction: of CompletedCallback, then of its StartNext
  overtaken,    \* history: what StartNext in a callback had still to do
                \* when the interrupt handler ended its transaction
  allocated,    \* transactions allocated so far; they are numbered
  done,         \* history: units that ended well
  disturbed     \* history: two calls overlapped, or one was cut short

heap    == <<hal, units, allocated>>
queues  == <<list, conts, bus, status, current>>
signals == <<event, raised>>
calls   == <<running, pc, using, expired>>
callback == <<handler, arg, overtaken>>
vars    == <<device, heap, queues, signals, calls, callback, done, disturbed>>

Blocks == 1..MaxCalls

Elems(q) == {q[k] : k \in DOMAIN q}

Pending(x) == status[x] \in {"scheduled", "processing"}
Terminated(x) == status[x] \in {"completed", "aborted"}
Idle(t) == pc[t] = "idle"

(* A unit beyond the last was started: what the handler reads is not       *)
(* defined, and no behaviour is followed further.                          *)
Wild == bus # None /\ current[bus] > units[bus]

TypeOK ==
  /\ device \in [Devices -> {"new", "open", "disposed"}]
  /\ \A d, e \in Devices : device[d] = "open" /\ device[e] = "open" => d = e
  /\ hal \in [Devices -> Blocks \cup {None}]
  /\ status \in [Blocks -> {"fresh", "idle", "scheduled", "processing",
                            "completed", "aborted", "cancelled", "freed"}]
  /\ units \in [Blocks -> 0..MaxUnits]
  /\ current \in [Blocks -> 0..(MaxUnits + 1)]
  /\ list \in Seq(Blocks) /\ conts \in Seq(Blocks)
  /\ bus \in Blocks \cup {None}
  /\ event \in BOOLEAN /\ raised \in BOOLEAN
  /\ running \in Threads \cup {Callback, None}
  /\ pc \in [Threads -> {"idle", "poll", "await", "waiting", "ready",
                         "expire", "release"}]
  /\ \A t \in Threads : pc[t] \in {"poll", "await", "expire", "release"}
                          <=> running = t
  /\ using \in [Threads -> Devices \cup {None}]
  /\ \A t \in Threads : using[t] = None <=> Idle(t)
  /\ expired \in [Threads -> BOOLEAN]
  /\ handler \in {"none", "test", "set", "start"}
  /\ handler # "none" <=> running = Callback
  /\ arg \in Blocks \cup {None} /\ (arg = None <=> handler = "none")
  /\ overtaken \subseteq {"set", "start"}
  /\ allocated \in 0..MaxCalls
  /\ \A x \in Blocks : x > allocated <=> status[x] = "fresh"
  /\ done \in [Blocks -> 0..MaxUnits]
  /\ disturbed \in BOOLEAN

Init ==
  /\ device = [d \in Devices |-> "new"]
  /\ hal = [d \in Devices |-> None]
  /\ status = [x \in Blocks |-> "fresh"]
  /\ units = [x \in Blocks |-> 0]
  /\ current = [x \in Blocks |-> 0]
  /\ list = <<>> /\ conts = <<>> /\ bus = None
  /\ event = FALSE /\ raised = FALSE
  /\ running = None
  /\ pc = [t \in Threads |-> "idle"]
  /\ using = [t \in Threads |-> None]
  /\ expired = [t \in Threads |-> FALSE]
  /\ handler = "none" /\ arg = None /\ overtaken = {}
  /\ allocated = 0
  /\ done = [x \in Blocks |-> 0]
  /\ disturbed = FALSE

-----------------------------------------------------------------------------
(* The driver.                                                             *)

(* HAL_DblLinkedNode::Unlink, also the first step of LinkAtBack.           *)
Unlinked(q, x) ==
  IF x \notin Elems(q) THEN q
  ELSE LET i == CHOOSE j \in DOMAIN q : q[j] = x
       IN  SubSeq(q, 1, i - 1) \o SubSeq(q, i + 1, Len(q))

(* StartNext: the first transaction of the list is started, whether or not *)
(* it has been before.  q, st and b are the list, the statuses and the bus *)
(* as the caller leaves them.  MasterXAction_Start takes the next unit.    *)
StartNext(q, st, b) ==
  IF q = <<>>
  THEN /\ status' = st
       /\ bus' = b
       /\ UNCHANGED current
  ELSE /\ status' = [st EXCEPT ![Head(q)] = "processing"]
       /\ bus' = Head(q)
       /\ current' = [current EXCEPT ![Head(q)] = @ + 1]

(* I2C_Driver::Enqueue of a transaction that was just prepared.            *)
Enqueue(x) ==
  /\ list' = Append(Unlinked(list, x), x)
  /\ conts' = Unlinked(conts, x)
  /\ StartNext(list', [status EXCEPT ![x] = "scheduled"], bus)

(* I2C_Driver::Cancel; the caller then leaves x with status after.         *)
Cancel(x, after) ==
  IF Pending(x) \/ Terminated(x)
  THEN /\ list' = Unlinked(list, x)
       /\ conts' = Unlinked(conts, x)
       /\ StartNext(list', [status EXCEPT ![x] = after],
                    IF status[x] = "processing" THEN None ELSE bus)
  ELSE /\ status' = [status EXCEPT ![x] = after]
       /\ UNCHANGED <<list, conts, bus, current>>

-----------------------------------------------------------------------------
(* Interrupt level.                                                        *)

(* Signal: the transaction moves to the continuations and the bus stops.   *)
(* The callback may have read it from the list and be about to start it.   *)
Signal(x, state) ==
  /\ status' = [status EXCEPT ![x] = state]
  /\ list' = Unlinked(list, x)
  /\ conts' = Append(Unlinked(conts, x), x)
  /\ bus' = None
  /\ overtaken' = IF x = arg /\ handler # "test" THEN overtaken \cup {handler}
                  ELSE overtaken

(* Mutated form: the last unit is left out.                                *)
UnitEndsEarly ==
  /\ bus # None
  /\ done' = [done EXCEPT ![bus] = @ + 1]
  /\ IF current[bus] + 1 >= units[bus]
     THEN Signal(bus, "completed") /\ UNCHANGED current
     ELSE /\ current' = [current EXCEPT ![bus] = @ + 1]
          /\ UNCHANGED <<list, conts, bus, status, overtaken>>
  /\ UNCHANGED <<device, heap, signals, calls, handler, arg, disturbed>>

(* The unit on the bus has ended well: the next one is started, or the     *)
(* transaction is completed.                                               *)
UnitEnds ==
  /\ bus # None
  /\ done' = [done EXCEPT ![bus] = @ + 1]
  /\ IF current[bus] = units[bus]
     THEN Signal(bus, "completed") /\ UNCHANGED current
     ELSE /\ current' = [current EXCEPT ![bus] = @ + 1]
          /\ UNCHANGED <<list, conts, bus, status, overtaken>>
  /\ UNCHANGED <<device, heap, signals, calls, handler, arg, disturbed>>

(* No acknowledgement, or the transmission ended with bytes left.          *)
UnitFails ==
  /\ bus # None
  /\ Signal(bus, "aborted")
  /\ UNCHANGED <<device, heap, current, signals, calls, handler, arg, done, disturbed>>

-----------------------------------------------------------------------------
(* ProcessActivity, between two quanta.                                    *)

(* The first continuation is taken and called, outside of the lock.        *)
RunContinuation ==
  /\ running = None /\ conts # <<>>
  /\ running' = Callback
  /\ handler' = "test" /\ arg' = Head(conts)
  /\ conts' = Tail(conts)
  /\ UNCHANGED <<device, heap, list, bus, status, current, signals, pc, using,
                 expired, overtaken, done, disturbed>>

CallbackEnds == running' = None /\ handler' = "none" /\ arg' = None

(* The transaction is the last of a series or was ended early.             *)
FreesBus(x) ==
  current[x] = units[x] \/ status[x] \in {"aborted", "cancelled"}

(* StartNext reads the first transaction of the list, without a lock.      *)
FirstValidNode ==
  IF list = <<>> THEN CallbackEnds
  ELSE handler' = "set" /\ arg' = Head(list) /\ UNCHANGED running

(* Mutated form: the bus is not handed on.                                 *)
CompletedCallbackKeepsBus ==
  /\ handler = "test"
  /\ event' = TRUE
  /\ CallbackEnds
  /\ UNCHANGED <<device, heap, queues, raised, pc, using, expired, overtaken, done, disturbed>>

(* Mutated form: a transaction that was aborted early wakes nobody.        *)
CompletedCallbackCompletedOnly ==
  /\ handler = "test"
  /\ IF current[arg] = units[arg]
     THEN event' = TRUE /\ FirstValidNode
     ELSE CallbackEnds /\ UNCHANGED event
  /\ UNCHANGED <<device, heap, queues, raised, pc, using, expired, overtaken, done, disturbed>>

(* CompletedCallback: the bus is free for whoever comes next.              *)
CompletedCallback ==
  /\ handler = "test"
  /\ IF FreesBus(arg)
     THEN event' = TRUE /\ FirstValidNode
     ELSE CallbackEnds /\ UNCHANGED event
  /\ UNCHANGED <<device, heap, queues, raised, pc, using, expired, overtaken, done, disturbed>>

(* SetState of the transaction that was read, wherever it is by now.       *)
SetProcessing ==
  /\ handler = "set"
  /\ handler' = "start"
  /\ status' = [status EXCEPT ![arg] = "processing"]
  /\ UNCHANGED <<device, heap, list, conts, bus, current, signals, calls, arg,
                 overtaken, done, disturbed>>

(* I2C_Internal_XActionStart, and the end of the callback.                 *)
ActionStart ==
  /\ handler = "start"
  /\ bus' = arg
  /\ current' = [current EXCEPT ![arg] = @ + 1]
  /\ CallbackEnds
  /\ UNCHANGED <<device, heap, list, conts, status, signals, pc, using, expired,
                 overtaken, done, disturbed>>

(* The event wakes every thread that waits for it, and stays raised.       *)
SignalEvents ==
  /\ running = None /\ event
  /\ event' = FALSE
  /\ raised' = TRUE
  /\ pc' = [t \in Threads |-> IF pc[t] = "waiting" THEN "ready" ELSE pc[t]]
  /\ UNCHANGED <<device, heap, queues, running, using, expired, callback, done, disturbed>>

(* Time passes; CheckThreads restarts a thread whose timeout is over.      *)
Expire(t) ==
  /\ ~Idle(t) /\ ~expired[t]
  /\ running = None \/ running = t
  /\ expired' = [expired EXCEPT ![t] = TRUE]
  /\ pc' = [pc EXCEPT ![t] = IF @ = "waiting" THEN "ready" ELSE @]
  /\ UNCHANGED <<device, heap, queues, signals, running, using, callback, done, disturbed>>

-----------------------------------------------------------------------------
(* I2CDevice.Execute.                                                      *)

Returns(t) ==
  /\ running' = None
  /\ pc' = [pc EXCEPT ![t] = "idle"]
  /\ using' = [using EXCEPT ![t] = None]
  /\ expired' = [expired EXCEPT ![t] = FALSE]

Enters(t, d, where) ==
  /\ running = None /\ Idle(t) /\ device[d] = "open"
  /\ running' = t
  /\ pc' = [pc EXCEPT ![t] = where]
  /\ using' = [using EXCEPT ![t] = d]
  /\ disturbed' = (disturbed \/ \E u \in Threads : ~Idle(u))
  /\ UNCHANGED <<device, signals, expired, callback, done>>

DevicePending(d) == hal[d] # None /\ Pending(hal[d])

(* The device is busy: CLR_E_INVALID_OPERATION, with the clean-up of every *)
(* other failure.                                                          *)
ExecuteRefused(t, d) ==
  /\ DevicePending(d)
  /\ Enters(t, d, "release")
  /\ UNCHANGED <<heap, queues>>

(* AllocateXAction: of a previous transaction that is still there, only    *)
(* the pointer is overwritten.                                             *)
AllocateXAction(d, n) ==
  /\ ~DevicePending(d)
  /\ allocated < MaxCalls
  /\ allocated' = allocated + 1
  /\ hal' = [hal EXCEPT ![d] = allocated']
  /\ units' = [units EXCEPT ![allocated'] = n]

(* A unit is not valid, or there is no memory for it.                      *)
ExecuteInvalid(t, d) ==
  /\ Enters(t, d, "release")
  /\ AllocateXAction(d, 1)
  /\ status' = [status EXCEPT ![allocated'] = "idle"]
  /\ UNCHANGED <<list, conts, bus, current>>

Execute(t, d) ==
  /\ Enters(t, d, "poll")
  /\ \E n \in 1..MaxUnits : AllocateXAction(d, n)
  /\ Enqueue(allocated')

(* The head of the loop, IsTerminated; after it the results are copied.    *)
Poll(t) ==
  /\ pc[t] = "poll"
  /\ LET x == hal[using[t]]
     IN  pc' = [pc EXCEPT ![t] = IF x # None /\ Terminated(x)
                                 THEN "release" ELSE "await"]
  /\ UNCHANGED <<device, heap, queues, signals, running, using, expired, callback,
                 done, disturbed>>

(* WaitEvents: an event raised before is taken; otherwise the thread waits *)
(* unless its time is over.                                                *)
WaitEvents(t) ==
  /\ pc[t] = "await"
  /\ raised' = FALSE
  /\ pc' = [pc EXCEPT ![t] = IF raised THEN "poll"
                             ELSE IF expired[t] THEN "expire" ELSE "waiting"]
  /\ running' = IF raised \/ expired[t] THEN t ELSE None
  /\ UNCHANGED <<device, heap, queues, event, using, expired, callback, done, disturbed>>

(* The thread is dispatched again.  Execute starts over; for a disposed    *)
(* device it throws, and as xAction is not set there is no clean-up.       *)
Resume(t) ==
  /\ running = None /\ pc[t] = "ready"
  /\ IF device[using[t]] = "disposed"
     THEN Returns(t)
     ELSE /\ running' = t
          /\ pc' = [pc EXCEPT ![t] = "poll"]
          /\ UNCHANGED <<using, expired>>
  /\ UNCHANGED <<device, heap, queues, signals, callback, done, disturbed>>

TimedOut(t) ==
  /\ pc[t] = "expire"
  /\ LET x == hal[using[t]]
     IN  IF x # None THEN Cancel(x, "cancelled") ELSE UNCHANGED queues
  /\ pc' = [pc EXCEPT ![t] = "release"]
  /\ UNCHANGED <<device, heap, signals, running, using, expired, callback, done, disturbed>>

(* Mutated form: the transaction is freed without being cancelled.         *)
ReleaseBuffersOnly(d) ==
  /\ status' = [x \in Blocks |-> IF x = hal[d] THEN "freed" ELSE status[x]]
  /\ hal' = [hal EXCEPT ![d] = None]
  /\ UNCHANGED <<units, allocated, list, conts, bus, current>>

(* ReleaseBuffers cancels the transaction and frees it.                    *)
ReleaseBuffers(d) ==
  /\ IF hal[d] = None THEN UNCHANGED queues ELSE Cancel(hal[d], "freed")
  /\ hal' = [hal EXCEPT ![d] = None]
  /\ UNCHANGED <<units, allocated>>

Release(t) ==
  /\ pc[t] = "release"
  /\ ReleaseBuffers(using[t])
  /\ Returns(t)
  /\ UNCHANGED <<device, signals, callback, done, disturbed>>

-----------------------------------------------------------------------------
(* What else the program may do.                                           *)

(* Mutated form: the pins are not reserved.                                *)
OpenUnreserved(d) ==
  /\ running = None /\ device[d] = "new"
  /\ device' = [device EXCEPT ![d] = "open"]
  /\ UNCHANGED <<heap, queues, signals, calls, callback, done, disturbed>>

(* The constructor reserves the pins: one device at a time is open.        *)
Open(d) ==
  /\ running = None
  /\ device[d] = "new" /\ \A e \in Devices : device[e] # "open"
  /\ device' = [device EXCEPT ![d] = "open"]
  /\ UNCHANGED <<heap, queues, signals, calls, callback, done, disturbed>>

(* Dispose frees the pins and leaves the transaction alone.                *)
Dispose(d) ==
  /\ running = None /\ device[d] = "open"
  /\ device' = [device EXCEPT ![d] = "disposed"]
  /\ disturbed' = (disturbed \/ \E t \in Threads : using[t] = d)
  /\ UNCHANGED <<heap, queues, signals, calls, callback, done>>

(* ReleaseWhenDeadEx, when the collector finds the device dead.            *)
Collect(d) ==
  /\ running = None /\ device[d] = "disposed"
  /\ \A t \in Threads : using[t] # d
  /\ ReleaseBuffers(d)
  /\ UNCHANGED <<device, signals, calls, callback, done, disturbed>>

(* Abort of a thread inside Execute: its frame is unwound, no clean-up.    *)
Abort(t) ==
  /\ running = None /\ pc[t] \in {"waiting", "ready"}
  /\ Returns(t)
  /\ disturbed' = TRUE
  /\ UNCHANGED <<device, heap, queues, signals, callback, done>>

-----------------------------------------------------------------------------
InCallback == CompletedCallback \/ SetProcessing \/ ActionStart

InCall(t) == Poll(t) \/ WaitEvents(t) \/ Resume(t) \/ TimedOut(t) \/ Release(t)

Next ==
  /\ ~Wild
  /\ \/ UnitEnds \/ UnitFails
     \/ RunContinuation \/ InCallback \/ SignalEvents
     \/ \E t \in Threads :
          \/ \E d \in Devices : Execute(t, d) \/ ExecuteInvalid(t, d) \/ ExecuteRefused(t, d)
          \/ InCall(t) \/ Expire(t) \/ Abort(t)
     \/ \E d \in Devices : Open(d) \/ Dispose(d) \/ Collect(d)

(* A unit on the bus ends one way or the other, the engine goes on.  Time  *)
(* need not run out (an infinite timeout), and nothing makes a program     *)
(* call, abort or dispose.                                                 *)
Fairness ==
  /\ WF_vars(~Wild /\ (UnitEnds \/ UnitFails))
  /\ WF_vars(~Wild /\ RunContinuation)
  /\ WF_vars(~Wild /\ InCallback)
  /\ WF_vars(~Wild /\ SignalEvents)
  /\ \A t \in Threads : WF_vars(~Wild /\ InCall(t))

Spec == Init /\ [][Next]_vars /\ Fairness

-----------------------------------------------------------------------------
(* Freed memory is never reached through the list of the driver, the       *)
(* continuations, the bus or a device, whoever frees it (ReleaseBuffers of *)
(* another thread's failed call included).  The exception is named: the    *)
(* interrupt handler ended a transaction between SetState and              *)
(* XActionStart of the callback, which starts it although it is no longer  *)
(* processing, so that Cancel does not stop the bus for it.                *)
NoDangling ==
  \A x \in Blocks : status[x] = "freed" =>
    /\ \A d \in Devices : hal[d] # x
    /\ "start" \notin overtaken => /\ x \notin Elems(list) \cup Elems(conts)
                                  /\ bus # x

(* A continuation is due that will start what is queued.                   *)
HandsOn ==
  \/ handler = "test" /\ FreesBus(arg)
  \/ handler \in {"set", "start"}
  \/ \E x \in Elems(conts) : FreesBus(x)

(* The bus works for the first transaction of the list, the only one that  *)
(* is processing; and it idles only if nothing is queued or a continuation *)
(* will start what is (CompletedCallback, StartNext).  This ends where the *)
(* interrupt handler ends the very transaction that a callback has read    *)
(* from the list and not yet started: it is put on the bus all the same.   *)
BusServesHead ==
  overtaken = {} =>
    /\ \A x \in Blocks : status[x] = "processing"
                           <=> bus = x \/ (arg = x /\ handler = "start")
    /\ bus # None => list # <<>> /\ bus = Head(list)
    /\ list # <<>> /\ bus = None => HandsOn

(* While calls do not overlap and none is cut short: no unit is skipped or *)
(* repeated, a completed transaction has transferred all of them, all      *)
(* memory of calls that returned is free again, and no callback is         *)
(* overtaken, although none takes a lock.                                  *)
WholeTransfers ==
  ~disturbed =>
    /\ overtaken = {}
    /\ \A x \in Blocks :
         /\ status[x] = "processing" => current[x] = done[x] + 1
         /\ status[x] = "completed" => done[x] = units[x]
    /\ (\A t \in Threads : Idle(t)) =>
         \A x \in 1..allocated : status[x] = "freed"

(* Execute returns even without a timeout, as long as calls do not overlap *)
(* and none is cut short: the wake-up is not lost between the interrupt,   *)
(* the continuation, the event and the wait.                               *)
ExecuteReturns ==
  \A t \in Threads : ~Idle(t) ~> (Idle(t) \/ disturbed)
=============================================================================
