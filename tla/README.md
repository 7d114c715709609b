# TinyCLR on the Netduino: models and proofs

The repository is the firmware of the Netduino boards: the .NET Micro Framework's interpreter (TinyCLR), the platform
abstraction layer (PAL) and hardware layer (HAL) under it, and the managed class libraries above it. It runs on one ARM
processor without an operating system. Concurrency comes from two places only:

* managed threads, which the execution engine switches between native calls (`src/CLR/Core/Execution.cpp`);
* interrupt handlers, which share lists and flags with the thread level under `GLOBAL_LOCK` (`src/DeviceCode/pal`).

The modules here model the parts whose correctness depends on the order of such steps. Everything is translated from
the C++ code; `PROJECT.json` gives, for every definition, the lines it stands for.

## Inventory

| component | state | operations | what is hard | what makes it correct |
|---|---|---|---|---|
| Threads, monitors, waits (`CLR/Core/Execution.cpp`, `Thread.cpp`, `CLR_RT_HeapBlock_Lock*.cpp`, `CLR_RT_HeapBlock_WaitForObject.cpp`, CorLib threading natives) | ready and waiting list, status and flags of each thread, wait object, lock owner, recursion and request queue, signal flags | Start, Suspend, Resume, Abort, Join, Sleep, exit, Enter/Exit, Set/Reset, WaitOne/All/Any, timeouts | wake-ups crossing aborts, suspensions, timeouts and thread ends; stale lock requests | mutual exclusion, no lost or invented wake-up, lists agree with statuses, nobody blocked for nothing |
| Choice of the next thread (`Execution.cpp` ScheduleThreads, InsertThreadRoundRobin) | execution counters, global counter, priorities, order of the ready list | debit, catch-up, Sleep(0), priority change, counter adjustment | counters that decrease for ever, list sorted by a key that changes | no starvation, bounded bursts |
| Interpreter, stack frames (`Interpreter.cpp`, `CLR_RT_StackFrame.cpp`) | frames, exception state | opcodes, unwinding, synchronized methods | sequential | - |
| Managed timers (`CLR_RT_HeapBlock_Timer.cpp`) | timer list, trigger flags, timer thread | create, change, dispose, trigger, reschedule | change and dispose against a pending trigger | a disposed timer does not fire; a due timer does |
| Hardware interrupts to managed code (`CLR/Core/Hardware`, `CLR/Core/IOPort`) | HAL queue (a ring), application queue, dispatcher thread | save, transfer, dispatch, dispose of a port, release by the collector | bounded ring, failed allocations, an interrupt during a transfer or a disposal | order kept, none dispatched twice or lost silently, nothing left behind for a released port |
| PAL timers, continuations, events (`DeviceCode/pal/AsyncProcCall`, `pal/events`, `AT91_TIME`) | sorted list of completions, continuation list, event mask, compare register | Enqueue, Abort, timer interrupt, wait for events, sleep | one compare register for two purposes; tests before a sleep | completions fire in order, not early, always; the wait ends |
| I2C (`pal/COM/i2c`, `AT91_I2C`, `CLR/Core/I2C`) | queue of transactions, current one, transaction of each device | Execute, Enqueue, Cancel, interrupt, completion callback, Dispose, release | second transfer while one runs; cancel against completion; a call aborted or its device replaced | one transfer at a time, each completes once, freed memory not reached |
| USART, USB (`pal/COM`) | ring buffers, handshake state | read, write, flush, interrupts | handshakes against interrupts | no byte lost or doubled |
| Wire protocol (`Support/WireProtocol`) | receive state machine | Process, transmit | resynchronisation after noise, timeouts | a good message after noise is received |
| Watchdog (`pal/watchdog`, `AT91_WATCHDOG`) | period, callback | GetSetTimeout, reset counter, callback | write-once register, re-entrancy | - |
| Weak-reference persistence (`CLR/Core/HeapPersistence`) | two flash banks, list of references, state of the copier | set and drop targets, save, erase, compact, recover, reboot | power loss, new targets and failed writes at any step | an object once saved is found again, the copier ends |
| Garbage collector, clusters (`GarbageCollector*.cpp`) | heap blocks, marks | mark, sweep, compact, relocate | all references found | - |
| Type system, jitter, debugger, RPC, messaging | tables, sessions | load, resolve, commands | mostly sequential | - |
| GPIO, buttons, debouncing | pin descriptors | interrupts, debounce | Abort then Enqueue inside handlers | covered as a client of completions |
| Block storage, FAT, field update, boot loaders, configuration | flash and caches | read, write, erase, update | power loss | - |
| Network stack, PKCS11, graphics, tools, other processors' ports | - | - | vendored, or not on this board | - |

Interactions: the engine waits in `Events_WaitForEvents` when no thread is ready, with a timeout computed from the
thread and timer lists; interrupt handlers set events and queue continuations, which `CLR_HW_Hardware::ProcessActivity`
turns into wake-ups, messages and dispatcher threads; PAL timers drive debouncing, the network stack and the FAT cache;
the native calls of a managed program manipulate the lists of the engine directly.

## Modules

| module | what it is |
|---|---|
| `ClrThreads` | managed threads, monitors, events, Join, Sleep |
| `Monitor` | what Enter and Exit promise a program; `ClrThreads` is checked to implement it |
| `ClrThreads_proofs` | theorems about `ClrThreads`: types, returns from Enter |
| `ClrThreadsLists_proofs` | theorems about its lists, locks, requests and wake-ups |
| `ClrThreadsMonitor_proofs` | theorem: without aborts it implements `Monitor` |
| `Completions` | PAL timers, continuations, events and the sleep loop |
| `Completions_proofs` | theorems about `Completions`, and that its steps are steps of `Alarms` |
| `Alarms` | what completions promise a driver; `Completions` is checked to implement it |
| `RoundRobin` | which ready thread runs next: execution counters, order of the ready list |
| `RoundRobin_proofs` | theorems about `RoundRobin` |
| `Interrupts` | the two queues between an interrupt handler and the managed handler of a port |
| `Interrupts_proofs` | theorems about `Interrupts` |
| `I2cBus` | I2C transactions: calling threads, driver, interrupt handler, continuation |
| `I2cBus_proofs` | theorems about `I2cBus` |
| `HeapPersistence` | weak references kept in two banks of flash |
| `HeapPersistence_proofs` | theorems about `HeapPersistence`, and that it implements `WeakStore` |
| `WeakStore` | what the persistence of weak references promises; `HeapPersistence` is checked to implement it |
| `MCClrThreads`, `MCCompletions`, `MCHeapPersistence` | values of constants for TLC |

### ClrThreads

One native call of the running thread is one action, since the engine switches threads only when the thread returns to
`ScheduleThreads`. `current` is the running thread; between two quanta the engine dispatches any ready thread
(`Dispatch`) or lets a timeout expire (`WaitTimeout`, `SleepTimeout`, the visits of `CheckThreads`).

* The lists are the sets `ready` and `waiting`; of their order only that of the waiting list matters (SignalObject walks
  it and stops early), kept as the relation `ahead`. The running thread stays in the ready list, as in the code.
* `call[t]` is the native call a thread is blocked in. When the thread is dispatched again the call returns, or the
  pending `ThreadAbortException` is raised instead; an aborted thread may run handlers and go on calling.
* `wait`, `result` and `sleeping` are `m_waitForObject`, `m_waitForObject_Result` and a finite
  `m_waitForEvents_Timeout`; `signaled` is HB_Signaled, with a Thread object signaled by its own end.
* `owner`, `recursion` and `requests` are the lock block, its owner and its queue of requests. `m_lockRequestsCount` is
  not a variable: it is only compared with zero and moves with the queues (`Pending`).
* `SignalObject` is given in closed form: it frees the satisfied waiters in list order up to the first that takes the
  signal of an auto-reset event (`Freed`). A suspended waiter is put back at the end of the list being walked, wait
  included, so it is met again: by the next Set of its auto-reset event, whose signal it takes a second time while
  another waiter goes without; by the same walk, endlessly, when two of them wait for an object
  that stays signaled (`LoopsForever`, `SetHangs`, `ExitHangs`; `threads_hang`). When several suspended threads go back in
  one walk their relative order is kept.
* `Abort` may be called on a thread again and again (`aborts` counts, as a history variable). Each leaves the lock request
  of the Enter it interrupts in the queue. ChangeLockRequestCount makes an heir that has another request Waiting and does
  not move it: after two Aborts that thread can be in the ready list, or be running. It then goes on; the PutInProperList
  at the end of its quantum (`EndQuantum`) takes it to the waiting list.
* `fate` says how the model ends. `"loops"`: SignalObject never returns. `"corrupt"` (`ExitCorrupts`): the thread that
  ends is the first heir of a lock it owns, so that ChangeOwner gives the lock back to a subthread that is about to be
  freed and writes to a frame that is not there; what follows is undefined.
* The end of a thread (`Passivate`) signals joiners, hands over its locks and deletes its requests, in this order.
  Deleting the last request restarts the dead thread, which stays in the ready list until it is dispatched and found to
  have no frame (`ReapDead`).

That CheckThreads passes over suspended threads is so in builds with TINYCLR_ENABLE_SOURCELEVELDEBUGGING
(`Execution.cpp:2569`), which `TinyCLR_PlatformDef.h:109` turns on for the boards; the model is of those.

Bounds: `MaxAborts` Aborts of one thread (the theorems hold for every number), `MaxRecursion` nested Enters, arrays of
auto-reset events for WaitAny and WaitAll.
Any ready thread may run next, so what is shown holds for every choice; `RoundRobin` models the choice itself.

### Completions

Code under `GLOBAL_LOCK`, and a whole interrupt handler, is one action. `pc` is where the thread is in
`Events_WaitForEvents`: `check` at the head of the loop, `sleep` in CPU_Sleep, `probe` at `irq.Probe()`, `release`,
`cont` and `acquire` while the lock is released for a continuation, `run` outside. Where interrupts are on, a pending
timer interrupt is served before the thread goes on, as on the processor; other handlers may set events or set and abort
completions there. `compare` is the 64-bit compare value (`m_nextCompare`), `match` the time the 16-bit register
matches: at most `MaxDiff` ahead, so that the handler also runs before the compare value and re-arms the register.
`SleepRunsIsr` tells the two kinds of CPU_Sleep apart: the AT91 of the Netduino stops the processor clock with
interrupts masked, the SH2 ports lower the mask for the sleep. The clock itself is taken to be monotonic.

Callers abort a completion, or test that it is not linked, before they enqueue it; the guard of `Enqueue` says so. The
time may have come or passed when it is enqueued (`EnqueueTimes`): the delay may be 0, as in `touchpanel_driver.cpp:419`, and
EnqueueDelta64 reads the clock before interrupts are masked. A completion that enqueues itself in the interrupt handler
(`IsrFiresAgain`) does so for a later time.

### RoundRobin

The complement of `ClrThreads`: why a thread blocks or is woken is left open, and the order of the ready list and the
execution counters are modelled exactly. `ScheduleThreads` is split as in the code: the adjustment of the counters when
the global one has passed `Maximum`, then up to `MaxContextSwitch` quanta. `Dispatch` caps the credit of the first
thread (`Capped`), charges the debit of its priority and lowers the global counter; the running thread stays at the head
of the list until it is inserted again (`EndQuantum`, `SleepZero`) or leaves (`Block`, `Terminate`). `Inserted` is
InsertThreadRoundRobin: behind every thread, from the head, whose priority plus counter is not smaller. A priority is
set without sorting the list again. `Wakers`, `Yielders` and `Adjustable` say which threads a program lets restart
others, call Sleep(0), or have their priority set. `streak` is a history variable that only `StreakLimited` reads.

### Interrupts

The path of one hardware interrupt: `Interrupt` saves a record in the ring (`slots`, `reader`, `writer`, `full`) and drops
the oldest one of a full ring; `ProcessActivity` takes the event flag; the transfer moves one record at a time, in the
steps between which the code has interrupts enabled (`pc` is `peek`, `allocate`, `context`, `pop`); `Spawned` is
SpawnDispatcher with StartDispatch and the termination callback that spawns the next. `CopyData` and `LinkRecord` are
two steps because the fields of the record are read from the slot one after the other. `Dispose` and `ClosePin` are the
two halves of Port.Dispose, `Collect` is the release by the collector, which can also run inside the allocation of a
node. Records are numbered in the order of the interrupts. `Without` is what the two walks that drop the records of a
port leave, as a recursive function.

What goes wrong in the code is excepted by name, and only that:

* `overrun`: the ring overflows between Peek and Pop. The slot peeked is overwritten and another record is popped.
* `Wedged`: no frame can be allocated for the handler after PushThreadProcDelegate made the thread ready
  (`Thread.cpp:158`). The thread is in no list, is never offered again, and no interrupt is dispatched any more.
  `DispatcherUsable` (not checked by a run) names what does not hold.
* `late`: an interrupt between the removal of the records of a port and the release of its pin.
* `thread = "ready"` in `ReleaseCleans`: where the thread is idle the walk of ReleaseWhenDeadEx can end early.
* `Polled`: after a transfer that ran out of memory SpawnDispatcher is skipped; only builds with source-level debugging
  look at the queue again. The run has `Polled = TRUE`; otherwise `EventuallyServed` fails.

Left out: EnableInterrupt and DisableInterrupt of an open port, level interrupts, handlers that were removed, CleanUp at
the end of the program, the reuse of the memory of a released dispatcher.

### I2cBus

Threads are inside native code one at a time (`running`), and leave it only where Execute waits; `pc` is where a call
stands. The interrupt handler (`UnitEnds`, `UnitFails`) comes between any two steps; a unit is transferred whole.
Enqueue and Cancel, with the StartNext in them, run under `GLOBAL_LOCK` and are one step each. The callback of a
continuation runs with interrupts on and takes no lock: `RunContinuation` takes the continuation, `CompletedCallback`
tests it, sets the event and reads the first transaction of the list, `SetProcessing` and `ActionStart` mark and start
what was read (`handler` is where it is, `arg` its transaction). MasterXAction_Start is one step: where the callback was
not overtaken and starts a new transaction the bus has its interrupts off until its last but one write; an interrupt in
the midst of starting a transaction once more works on pointers that are half set, and is not modelled.
`SignalEvents` wakes the callers. Execute has
no lock: a second thread may enter on the same device, and a new device may be opened while a call on a disposed one
waits. Each Execute allocates a transaction with a number of its own; memory is not reused, so that a stale pointer
shows. As in the code, `StartNext` starts the head of the list whether or not it was started before; when that takes
it past its last unit (`Wild`) the handler reads memory that is not defined, and the model ends there.

`disturbed` records that two calls overlapped, a call was aborted, or a device disposed during a call: then units can be
repeated or skipped, a transaction can be lost (AllocateXAction overwrites the pointer to the one before), and a caller
can wait for ever. `WholeTransfers` and `ExecuteReturns` are about calls that keep apart.

`overtaken` records that the interrupt handler ended the transaction that a callback had read from the list and not
yet started; the element says what was still to do. The callback then starts a transaction that is no longer in the list:
`BusServesHead` ends there. If SetState came before (`"start"`), the transaction is on the bus with the status of one
that has ended, so that Cancel unlinks and ReleaseBuffers frees it without stopping the bus: `NoDangling` ends there for
the bus and the queues. Both hold whatever else overlaps, is aborted or disposed of, and `WholeTransfers` says that no
callback is overtaken while calls keep apart, since it then finds the list empty.

### HeapPersistence and WeakStore

`flash` is what survives: each bank has a sequence number and the objects written to it, in order; an object is
`partial` while its data is written, then `good`, later `deleted`. Everything else is RAM. `AdvanceState` is split into
its states and branches, one burst of data at a time; the program sets and drops targets, and the collector drops
references, between any two passes (`InvalidateEntry` is part of each). `list` is m_weakReferences in its order, without
the references that have no target, which every loop of AdvanceState passes over. SetTarget with the contents that a
reference has already (`SetSame`) invalidates nothing and only inserts it anew, in front of those of its priority.
`PowerLoss` is possible at every step, `Initialize` (`Boot`, `BootFormat`, `BootNumber`) included; `Reboot` is the two
forced flushes of Execution.cpp and the reset after them. Objects have one size. `WeakStore` is the promise: one value
for each identity, taken away when a target changes, stored some time later, and read back by a restart. `Restored` is
the list that the loop of Initialize builds from a bank, one InsertInPriorityOrder after the other, as a recursive
function; `Unlinked` is the Unlink that comes first in each.

What the code does not keep, and how the properties say so:

* Format leaves the number of a bank erased, 0xFFFFFFFF, which is good and the largest. Power lost between Format of the
  spare bank and SetSequence makes the next start take the empty or half-copied bank. `LiveBankBoots` says that a
  restart takes another bank in this window only (`Exposed`); `WeakStore` allows an exposed store to lose values or to
  return old ones.
* A bank taken like this gives the next one the number 0, which IsGood refuses, so that all is lost at the restart after
  that. Power lost in the very first Initialize is enough.
* A forced flush returns when it has triggered a compaction (or an allocation fails), and Reboot resets the state: what
  waits for the compaction is not saved, and a compaction that was under way leaves its bank to be taken.

* SetTarget with the same contents reorders the list, also while the manager is idle, and does not start it: an object
  that was not saved can so move into the safe part, in front of one that was, and stays unsaved until some target
  changes. `IdleMeansSaved` is therefore about the step that enters the idle state and the ones that stay there.
* It reorders the list during a compaction too, and a program that repeats it at the right moments starts a compaction
  after every compaction: without the premise of `Synchronises` TLC finds that behaviour, with three references for two
  places.

Left out: a change of priority (set_Priority inserts the reference anew as `SetSame` does, at another place), a
collection inside CopyBackToRam that invalidates the pending object, EraseSector on banks of several blocks and its
endless retry of a failed erase, the loss of power between the erase of the spare bank and its Format, which
`EraseSector` takes as one step (the bank in use is the only good one in between, as before the erase), failed header
writes, WR_SurviveBoot references and soft restarts, objects of different sizes. The firmware of the Netduino links the
stub of this component; other boards of the repository link the code.

## Runs

Most runs take 3 threads (or 3 completions): two to compete and a third whose place in a queue, or whose step in between,
makes the difference. Threads other than `Main` are symmetric; symmetry is used in safety runs only. Deadlock is not
checked because a program may end, block for good, or reach the bound of the clock.

| run | constants | shows |
|---|---|---|
| `threads_abort` | 3 threads, 2 monitors, one thread abortable three times | Enter returns to the owner only (`EnterOwns`), lists and statuses agree up to the demoted threads of the ready list (`ListsAgree`), nobody is blocked without something that another thread or the clock can end, up to an aborted thread queued for its own lock (`NoStuckThread`), owners and queues agree with live threads (`LocksConsistent`), only an Abort leaves a request behind (`RequestsAccounted`) |
| `threads_events` | 3 threads, 2 auto-reset and a manual-reset event, arrays | no signal spent for nothing (`SetFreesWaiter`) or twice (`SignalSpentOnce`), no wait ended without a reason (`WaitHasReason`); Join sees the end (`JoinSeesEnd`) |
| `threads_suspend` | 3 threads, 2 suspendable, a monitor entered twice, one event of each kind | `TypeOK`, lists agree with statuses (`ListsAgree`), no waiter passed over (`WaitersUnsignaled`), `ImplementsMonitor` |
| `threads_hang` | 2 suspendable threads, a manual-reset event | violation: SignalObject does not end |
| `threads_phantom` | a monitor, an event, 2 abortable | violation: a wait ends without signal or timeout |
| `completions` | 3 completions, clock to 3, register reach 2 | the register always stands for the first completion (`InterruptComes`), none runs early (`AssertDue`), no sleep on pending work (`NoSleepOnWork`), waits return (`WaitReturns`), `ImplementsAlarms` |
| `round_robin` | 3 threads of priorities 0 and 1, one that restarts others, two that call Sleep(0), one whose priority changes | counters stay in range across adjustments (`CountersInRange`), bursts are bounded (`StreakLimited`), Sleep(0) yields (`YieldsToEqual`), a ready thread runs again (`NoStarvation`) |
| `round_robin_pair` | 3 threads of one priority, two that restart others | violation: the ready thread with the highest counter never runs |
| `completions_sh2` | 2 completions, sleep with interrupts on | violation: a completion runs early |
| `interrupts` | 2 ports, 4 interrupts, a ring of 2, any allocation may fail | order kept and nothing twice (`InOrder`), no record lost without one of the reasons the code has (`NothingLost`), nothing left for a released port (`ReleaseCleans`), every record leaves the queues (`EventuallyServed`) |
| `i2c` | 2 threads, 2 devices, 2 transactions of up to 2 units | freed transactions are not reached (`NoDangling`), the bus serves the head of the list and is not forgotten (`BusServesHead`), each until a callback is overtaken; undisturbed calls transfer each unit once, free all, and have no callback overtaken (`WholeTransfers`), and return (`ExecuteReturns`) |
| `persistence` | 3 references of 2 priorities, banks of 2 objects of 2 bursts, 3 targets set, a fault, a power loss or reboot | flags agree with flash (`FlagsAgree`), idle means saved (`IdleMeansSaved`), when a restart takes another bank (`LiveBankBoots`), `ImplementsStore`; the work ends, once the program no longer reorders the list (`Synchronises`) |

`round_robin` scales `SystemHighest` from 5 to 1 (debits 1 and 2, catch-up 3) and the threshold to 6, so that an
adjustment happens every few quanta and with every mixture of credits; nothing is cut off by a bound, the adjustment
itself makes the state space finite. `round_robin_pair` uses `SystemHighest` 2, where a debit is larger than the
difference two counters can have. The theorems hold for the code's values, 5, and its threshold.

The recursion bound of 2 lets inner and outer exits differ. One thread that may be aborted three times gives up to four
requests of it, stale ones in one queue and in both, a grant that demotes a thread of the ready list and one that a
thread gives itself; two abortable threads are too many
states for two monitors and are left to the theorems. A clock to 3 gives three distinct deadlines, ties, and a deadline
beyond the register's reach.

In `interrupts` a ring of two is full after two interrupts, the third drops one, and the fourth can do so during a
transfer. In `i2c` two devices are a device and its replacement, or one shared by two threads; two units are enough for
a unit to be skipped, repeated, or started beyond the last, and two transactions for the callback of one to be overtaken
by the end of the other. In `persistence` three references compete for two places, so that a bank overflows, a compaction is
triggered or is of no use, and the lower priority is left out; one restart and three targets reach every state of
AdvanceState before and after the loss of power.
`ErasedSeq` 7 is beyond every number the run gives out, as the code's is in practice. The system stops there when
everything is saved and the bounds are used up.

Fairness is assumed in `Completions`, `RoundRobin`, `Interrupts`, `I2cBus` and `HeapPersistence`. In `Completions` the
clock ticks, a pending interrupt that is not masked is served, and the wait loop goes on. The first two are the
hardware; the third holds because nothing else runs on the processor. Calls of the program are never assumed to happen.
In `RoundRobin` ScheduleThreads goes on and is called again, and the timer of the quantum stops a thread that does not
stop by itself. In `Interrupts` the engine goes on, a handler returns (strong fairness: the transfer interrupts it
however often), and a thread can be created in the end. In `I2cBus` a unit ends one way or the other, continuations and
events are processed, a dispatched call goes on; a timeout is not assumed to pass. In `HeapPersistence` the callback is
queued again until its work is done and the machine is idle now and then. `ClrThreads` states no liveness: whether a
blocked thread runs again is up to the managed program.

## Findings

* `threads_hang`: two suspended threads waiting for one manual-reset event, or suspended joiners of one thread, make
  `SignalObject` loop for ever.
* `threads_phantom`: Abort of a thread blocked in Enter leaves its lock request queued; a later grant ends whatever
  wait the thread is in by then, and makes it own a monitor it did not enter. (For the same reason `ImplementsMonitor`
  is only checked where threads are not aborted.)
* `completions_sh2`: where CPU_Sleep lets interrupts in, the compare register still holds the end of the wait when the
  timer interrupt runs, so a completion is executed before its time; the code asserts that this does not happen.
* `round_robin_pair`: a thread the running one restarts is inserted in front of the running one, whose counter is
  already lowered, without regard to the threads behind it. Two threads that wake each other can so keep the processor
  for ever although a third one is ready with the highest counter. (`NoStarvation` is therefore checked with a single
  waker; with two it fails.)

Two more that no run of its own shows:

* A suspended waiter that a Set has freed keeps its wait until it is resumed, and takes the signal of the next Set of its
  auto-reset event as well; the thread that waits behind it stays blocked, although
  `threads2/AutoResetEventTests.cs:157` expects two calls of Set to release two threads. `SetFreesWaiter` is therefore
  checked and proved where nobody is suspended (with `Suspendable` of one thread TLC finds it violated), and
  `WaitersUnsignaled`, which holds with suspensions, speaks of waits that nothing has ended yet.
* After two Aborts a thread can own a lock and be first in its queue. When it exits the lock or ends, it gives the lock
  to itself; at its end the lock goes to a subthread that is freed next (`ExitCorrupts`), although `Thread.cpp:57`
  says "Release all the locks for this subthread". The model stops there (`fate`).

The comment at `Execution.cpp:1242` speaks of four consecutive times a thread may run; what `BurstsBounded` proves is
(34 + priority) / debit + 1 quanta with the code's numbers, which is five for Normal threads.

Sleep(0) gives the thread a counter below all others, but the list is ordered by counter plus priority: it is the last
one only if no ready thread has a lower priority, which is how `YieldsToEqual` is stated.

## Proofs

`ClrThreads_proofs` proves, for any threads, locks, events and bound of recursion:

* `TypeCorrect`: `Spec => []TypeOK`.
* `EnterInvariant`: `Spec => []EnterInv`, and from it `EnterOwnsAlways`: `Spec => []EnterOwns`.

`EnterOwns` (a thread that returns from Enter owns the lock) is not inductive: it speaks only of ready threads, and a
thread becomes ready by the acts of others. `EnterInv` adds that a thread inside Enter owns the lock or is queued for it,
that it owns it as soon as its status is Ready even if suspended, and that waits and sleeps belong to a thread in such a
call (or with a pending exception), so that no timeout or signal can restart a thread inside Enter. The proof has one
step per action; lemmas say which threads `PutReady`, `Served` and `WithoutRequest` touch. The only assumptions are
those of `ConstantsAssumption`, which TLC evaluates in the runs.

`ClrThreadsLists_proofs` proves, for the same constants:

* `KnownAlways`: `Spec => []Known`, the inductive invariant of the rest. It joins `TypeOK` and `EnterInv` with
  `Ordered` (`ahead` orders the waiting list strictly, and every part of that list has a first element), `ListInv`
  (which list a thread of each status is in), `CallInv` (what a blocked call leaves in `wait`, `sleeping` and `result`),
  `RequestInv` (one request at most while blocked in Enter, and one more for every Abort; none when about to return from
  Enter) and `LockInv` (an owned lock has a live owner and a recursion count, a free one neither requests nor recursion).
* `ListsCorrect`, `LocksCorrect`, `RequestsCorrect`: `ListsAgree`, `LocksConsistent` and `RequestsAccounted`. None is
  inductive: Passivate keeps the locks consistent only because a dead thread has no request, which rests on the number
  of requests, which rests on what the call of a thread is.
  `ListsAgree` excepts by name (`Tangled`) the thread of the ready list that ChangeLockRequestCount made Waiting.
* `NobodyStuck`: `NoStuckThread`, where no WaitAny is called with an empty array (`<<>> \notin WaitArrays`). Such a
  wait has nothing to wait for; the run has no empty array either. A request counts where another live thread owns
  the lock; that a thread is left with requests for locks of its own only is possible after an Abort and nowhere else.
* `JoinCorrect`: `JoinSeesEnd`, from `JoinInv` (a thread that has finished stays signaled).
* `WaitersSeen`: `Spec => []WaitersUnsignaled`, and from it `SignalOnce` (`SignalSpentOnce`). The closed form of
  SignalObject frees the waiters up to the first taker; `FirstTaker` says that it exists and who is served (it needs
  that every part of the waiting list has a first element).
* `SetNotLost`: `Spec => SetFreesWaiter` if `Suspendable = {}`, from the same and `Unsuspended` (a thread that still has
  its wait has no result yet). The hypothesis is needed, see Findings.

The lemmas on `Cut` queues, on `Places` and on the shapes of a step (a thread stays, blocks, is woken or ends; lemma
`Shapes`) keep the proof of an action to the conjuncts that it can disturb.

The stale requests that `threads_phantom` is about make the exceptions necessary. A thread aborted in Enter may call
Enter of the same lock again and has two requests then. The first grant makes it the owner and leaves it Waiting, and the
second can only come from its own Exit: it is blocked for good, unless it is aborted again. That is the last disjunct of
`NoStuckThread` (`SelfQueued`), and `RequestInv` says that it takes an Abort. A second Abort while it is queued twice
restarts it before the first grant, which then makes it Waiting where it is: in the ready list (`Tangled`), or running.

`ClrThreadsMonitor_proofs` proves, where no thread is aborted (`Abortable = {}`; `threads_phantom` shows that the
hypothesis is needed):

* `CalmAlways`: `Spec => []Calm`: a request is for the lock its thread is entering, a lock granted to a thread that has not
  returned from Enter yet is entered once, and a wait that has ended has a result.
* `WaitsEndForAReason`: `Spec => WaitHasReason`.
* `MonitorImplemented`: `Spec => ImplementsMonitor`, the whole refinement: each step is a step of `Monitor` or leaves
  its variables alone. Where the end of a thread hands over several locks, one step of `Monitor` gives them all.

`Completions_proofs` proves, for any completions and bounds of the clock and the register:

* `TypeCorrect`, `ListsCorrect`: types, and that a completion is linked once, for any processor.
* Where CPU_Sleep keeps interrupts masked (`SleepRunsIsr = FALSE`, the Netduino's; `completions_sh2` is the
  counterexample for the others): `InterruptAlwaysComes` (`InterruptComes`), `DueWhenRun` (`AssertDue`),
  `NeverSleepsOnWork` (`NoSleepOnWork`), and `StepsAreAlarms`: the first state is one of `Alarms`, and every step one of
  its steps or none. Its fairness is not part of the theorem.

`InterruptComes` alone is not inductive: the same register holds the end of a sleep while the thread sleeps. `Armed`
says that it holds the first deadline except in a sleep whose end comes earlier, and that the interrupt is pending or
the match lies ahead and no later than that deadline; `NoWork` says what has been tested before the sleep begins.

`RoundRobin_proofs` proves, for any number of threads, priorities, thresholds and numbers of context switches allowed by
`RoundRobinAssumption` (the adjustment is at least the catch-up times the context switches, the threshold at least the
adjustment plus the catch-up):

* `TypeCorrect`: `Spec => []TypeOK`, with the lemmas that unlinking and inserting keep each thread in the list once.
* `CountersStayInRange`: `Spec => []CountersInRange`. The invariant `Credit` adds how far the global counter can fall
  in the rest of one call of ScheduleThreads, and that a thread not created yet starts from 0.
* `SleepZeroYields`: `Spec => YieldsToEqual`, from `Credit`: no ready thread is more than 1 below the global counter.
* `BurstsBounded`: `Spec => []StreakLimited`. The bound alone is not inductive. `Burst` adds that the debits the thread
  of the burst has paid are covered by its lead over every other thread when it began (`Lead`), that it has no credit
  left that the catch-up or the adjustment would cut (`Spent`), and that the thread right behind it in the list has no
  larger key (`Behind`): the list is not sorted in general, but this much of the order survives every action.

`I2cBus_proofs` proves, for any threads, devices, numbers of units and of calls (`I2cBusAssumption`), with shared
devices, aborts, timeouts and disposals:

* `TypeCorrect`: `Spec => []TypeOK`, which needs that StartNext and the handler start at most one unit too many.
* `FreedOutOfReach`: `Spec => []NoDangling`, up to an interrupt between SetState and XActionStart of a callback.
* `BusNeverForgets`: `Spec => []BusServesHead`, up to an interrupt that ends what a callback is about to start.
* `TransfersAreWhole`: `Spec => []WholeTransfers`, from `Apart`: while nothing is disturbed one thread at most is in a
  call, its device is open, and the only transaction is the one of that device, so that no StartNext starts it twice
  and no callback starts, or is overtaken on, anything (`Handed`).

The invariant `Inv` has three layers. Without exception hold the types, `Linked` (nothing is in a queue twice, or there
before it was allocated), `Counts` (units started and ended; only the transaction on the bus can be one ahead), `Owned`
(a transaction belongs to one device and is not freed), and `Memory`. Until an interrupt comes between SetState and
XActionStart holds `Reached`: what is in the list is pending, what is on the bus is processing, so that Cancel sees in
the status of a transaction all that must be undone. Until any callback is overtaken hold `Queues` (continuations are of
terminated transactions, and what the callback starts is the head of the list) and `BusServesHead`. Lemmas say what
StartNext, Enqueue, Cancel, Signal and each step of the callback do to the driver's part (`Driver`), so that each action
needs a few steps only.

`Interrupts_proofs` proves, for any ports, any size of the ring, any number of interrupts and any failed allocation
(the only assumption is `InterruptsAssumption`):

* `TypeCorrect`: `Spec => []TypeOK`, with that a record being transferred is in the ring (`Typed`).
* `OrderKept`: `Spec => []InOrder`. It is not inductive. `Order` adds that numbers rise along each queue, that every
  number in the ring is above those in the application queue and above the last dispatched, that none is above the count
  of interrupts, and that the record peeked, the data copied and the head of the ring are one record, at every place
  of the transfer where an interrupt can come in; all of it until the first `overrun`.
* `NothingIsLost`: the action property `NothingLost`, from the same invariant.
* `ReleaseIsClean`: the action property `ReleaseCleans`, from `Left`: of a port that is not open any more only records
  numbered in `late` remain in the ring.

Lemmas say what each action does to the contents of the ring (`RingSaved`, `RingDropped`, `RingPopped`, `RingRemoved`):
the positions go round at `Size`, and that arithmetic is done there once. `Moves` and `Thinned` say how a spawn and the
collector's walk change the application queue. That `Without` returns the other records in their order, for every
queue, is an induction over data; the library's induction theorems cannot be used, so it is done with sets: the set of
lengths for which the claim fails would have a least element (`Least`, from the well-foundedness of < on Nat).

`HeapPersistence_proofs` proves, for any references and priorities, any size of the banks and of the safe part, any
number of bursts, and faults and losses of power wherever they come (the only assumption is `PersistenceAssumption`):

* `TypeCorrect`: `Spec => []TypeOK`.
* `FlagsAlwaysAgree`: `Spec => []FlagsAgree`.
* `LiveBankAlwaysBoots`: `Spec => []LiveBankBoots`. With the types it is inductive: a step either writes no header of a
  bank and stays in the compaction, or in the second Flush of Reboot (`BootsSame`), or it makes the bank in use the one
  with the higher number (`HigherBoots`), or it formats the spare bank.
* `IdleAlwaysSaved`: `Spec => IdleMeansSaved`: the bytes counted in the loop over the list only grow, so that nothing
  behind the object that did not fit would fit either when the manager goes idle; of the steps that leave it idle only
  `SetSame` touches what the property is about, the order of the list.
* `ManagerIsStore`: `Spec => ImplementsStore`, the whole refinement, for `WeakStore` states no fairness. A burst that
  completes an object is Save, an object put back into RAM is Revert, and erase, copy and switch leave the store alone;
  where a restart takes another bank the loss of power uses the `exposed` case of the store.

The properties speak of the bank in use; the invariant must speak of what is to become it. `SpareStores` says that the
copy holds what m_targetCopied says with the contents of now, and all that is persisted when the banks are switched: that is
why InvalidateEntry has to send a compaction back to Erase. `PendingBegun` says that the pending object is the last one
of its bank and has the contents that are wanted: that is why its header is deleted when the target changes. In both banks
each reference has one good object at most (`OneGood`), so that whichever bank a restart takes, what it finds is well
defined. Lemmas about the objects of a bank (`Stores`, `Begun`, `Ended`, `Purged`) say what a burst, a failure and
InvalidateEntry leave, once for both banks. What Initialize inserts is an induction over the objects of a bank
(`RestoredIs`), done with sets as for `Without`.

Every safety property that a passing run checks is a theorem too. Model-checked only is liveness, which is out of the
prover's reach: `WaitReturns`, `NoStarvation`, `EventuallyServed`, `ExecuteReturns`, `Synchronises`, and the fairness
part of `ImplementsAlarms`. The violations of the four runs that expect one are TLC's.

## Plan

Done: `ClrThreads`, `Monitor`, `Completions`, `Alarms`, `RoundRobin`, `Interrupts`, `I2cBus`, `HeapPersistence`,
`WeakStore`; theorems for all the safety properties of their passing runs and for the refinements.

Theorems next: what still holds of `Alarms` where CPU_Sleep lets interrupts in, and of `Monitor` where threads are
aborted, each with its exception named. Modules next: `ClrTimers` (change and dispose of a managed timer against a
pending trigger), `WireProtocol`, `Usart`, `At91Time` (two-step counter read).

## Not modelled

Debugger stops, static-constructor threads, allocation failure in `ClrThreads`, the second subthread of an
ExecutionConstraint, the interpreter's opcodes, the collector, vendored and desktop code, and the components listed in
`PROJECT.json` as not modelled, each with its reason.
