----------------------------- MODULE Interrupts -----------------------------
(***************************************************************************)
(* How a hardware interrupt reaches managed code.  An interrupt handler    *)
(* saves a record in the HAL queue, a ring of fixed size; ProcessActivity  *)
(* moves the records one by one to the application queue, allocating a     *)
(* node for each; SpawnDispatcher runs them, one at a time, on a system    *)
(* thread.  Ports are disposed, and their dispatchers released by the      *)
(* collector, while records that point to them are queued.                 *)
(*                                                                         *)
(* Interrupts come between any two steps of the thread level, which locks  *)
(* only the operations on the ring, not the transfer of a record.          *)
(***************************************************************************)
EXTENDS Integers, Sequences, FiniteSets

CONSTANTS
  Ports,        \* the NativeEventDispatchers with an enabled pin
  Size,         \* InterruptRecords()
  MaxEvents,    \* bound: how many interrupts happen
  Faults,       \* allocations that may fail: of a record, frame, thread
  Polled,       \* TINYCLR_ENABLE_SOURCELEVELDEBUGGING
  NoRecord

ASSUME InterruptsAssumption ==
  /\ Size \in Nat \ {0}
  /\ MaxEvents \in Nat
  /\ Faults \subseteq {"record", "frame", "thread"}
  /\ Polled \in BOOLEAN
  /\ NoRecord \notin [id : Nat, port : Ports]

VARIABLES
  slots, reader, writer, full,  \* m_HalQueue
  event,       \* SYSTEM_EVENT_HW_INTERRUPT
  pc,          \* where the thread level is
  peeked,      \* slot of the record being transferred
  copied,      \* the data already copied from it
  queue,       \* m_applicationQueue; its length is m_queuedInterrupts
  thread,      \* m_interruptThread: none, or its status
  handling,    \* the record its frame runs for
  port,        \* state of each dispatcher
  count,       \* history: interrupts so far; they are numbered
  last,        \* history: the latest interrupt dispatched
  overrun,     \* history: the ring overflowed during a transfer
  late         \* history: interrupts saved while their port was closing

ring  == <<slots, reader, writer, full>>
hist  == <<count, overrun, late>>
sched == <<thread, handling, last>>
vars  == <<ring, event, pc, peeked, copied, queue, sched, port, hist>>

Records == [id : 1..MaxEvents, port : Ports]

(* Hal_Queue_UnknownSize.                                                  *)
Used == IF full THEN Size ELSE (writer - reader) % Size
Empty == writer = reader /\ ~full
Step(i) == (i + 1) % Size
Held == [k \in 1..Used |-> slots[(reader + k - 1) % Size]]

(* The records of q that are not those of port p, in order.                *)
Without(q, p) ==
  LET kept[n \in 0..Len(q)] ==
        IF n = 0 THEN <<>>
        ELSE IF q[n].port = p THEN kept[n - 1] ELSE Append(kept[n - 1], q[n])
  IN  kept[Len(q)]

Ids(q) == {q[k].id : k \in DOMAIN q}

TypeOK ==
  /\ slots \in [0..(Size - 1) -> Records \cup {NoRecord}]
  /\ reader \in 0..(Size - 1) /\ writer \in 0..(Size - 1)
  /\ full \in BOOLEAN /\ (full => writer = reader)
  /\ \A k \in 1..Used : Held[k] # NoRecord
  /\ event \in BOOLEAN /\ overrun \in BOOLEAN
  /\ pc \in {"run", "peek", "allocate", "context", "pop", "close"}
  /\ peeked \in 0..(Size - 1)
  /\ (pc \in {"allocate", "context"} => slots[peeked] # NoRecord)
  /\ (pc = "pop" => ~Empty)
  /\ copied \in 0..MaxEvents /\ (pc = "context" => copied > 0)
  /\ queue \in Seq(Records)
  /\ thread \in {"none", "unstarted", "ready"}
  /\ handling \in Records \cup {NoRecord}
  /\ (thread # "ready" => handling = NoRecord)
  /\ port \in [Ports -> {"open", "closing", "closed", "released"}]
  /\ count \in 0..MaxEvents /\ last \in 0..MaxEvents
  /\ late \subseteq 1..MaxEvents

Init ==
  /\ slots = [i \in 0..(Size - 1) |-> NoRecord]
  /\ reader = 0 /\ writer = 0 /\ full = FALSE
  /\ event = FALSE /\ overrun = FALSE
  /\ pc = "run" /\ peeked = 0 /\ copied = 0
  /\ queue = <<>>
  /\ thread = "none" /\ handling = NoRecord
  /\ port = [p \in Ports |-> "open"]
  /\ count = 0 /\ last = 0 /\ late = {}

-----------------------------------------------------------------------------
(* Interrupt level.                                                        *)

(* IsrProcedure and SaveToHALQueue: a full ring drops its oldest record.   *)
Interrupt(p) ==
  /\ port[p] \in {"open", "closing"}
  /\ count < MaxEvents
  /\ count' = count + 1
  /\ slots' = [slots EXCEPT ![writer] = [id |-> count', port |-> p]]
  /\ writer' = Step(writer)
  /\ reader' = IF full THEN Step(reader) ELSE reader
  /\ full' = (writer' = reader')
  /\ event' = TRUE
  /\ overrun' = (overrun \/ (full /\ pc \in {"allocate", "context", "pop"}))
  /\ late' = IF port[p] = "closing" THEN late \cup {count'} ELSE late
  /\ UNCHANGED <<pc, peeked, copied, queue, sched, port>>

-----------------------------------------------------------------------------
(* Dispatch.                                                               *)

(* What SpawnDispatcher can do with application queue q when the status of *)
(* the thread is th: how many nodes it takes, and the thread afterwards.   *)
(* StartDispatch fails for a dispatcher without a live object (dead); its  *)
(* node is released and ThreadTerminationCallback spawns the next.  It     *)
(* also fails when no frame can be pushed: PushThreadProcDelegate has made *)
(* the thread Ready by then, so EnsureSystemThread no longer offers it.    *)
Spawned(q, th, dead) ==
  LET live  == {k \in DOMAIN q : q[k].port \notin dead}
      first == CHOOSE k \in live : \A j \in live : k <= j
      idle  == [taken |-> 0, thread |-> th,
                handling |-> IF th = "ready" THEN handling ELSE NoRecord]
  IN  IF q = <<>> \/ th = "ready" THEN {idle}
      ELSE {o \in {idle} : th = "none" /\ "thread" \in Faults} \cup
           IF live = {}
           THEN {[taken |-> Len(q), thread |-> "unstarted", handling |-> NoRecord]}
           ELSE {[taken |-> first, thread |-> "ready", handling |-> q[first]]} \cup
                {o \in {[taken |-> first, thread |-> "ready", handling |-> NoRecord]} :
                   "frame" \in Faults}

Rest(q, n) == SubSeq(q, n + 1, Len(q))

(* Ready without a frame: neither running nor offered for reuse.           *)
Wedged == thread = "ready" /\ handling = NoRecord

Released == {p \in Ports : port[p] = "released"}

(* The thread takes the outcome o of a spawn.                              *)
Takes(o) ==
  /\ thread' = o.thread
  /\ handling' = o.handling
  /\ last' = IF o.taken > 0 /\ o.handling # NoRecord THEN o.handling.id ELSE last

SpawnDispatcher(th) ==
  \E o \in Spawned(queue, th, Released) :
    Takes(o) /\ queue' = Rest(queue, o.taken)

(* The handler returns: Passivate frees the thread, and its termination    *)
(* callback the node, and spawns the next.                                 *)
ThreadEnds ==
  /\ pc = "run"
  /\ thread = "ready" /\ handling # NoRecord
  /\ \E o \in Spawned(queue, "unstarted", Released) :
       Takes(o) /\ queue' = Rest(queue, o.taken)
  /\ UNCHANGED <<ring, event, pc, peeked, copied, port, hist>>

-----------------------------------------------------------------------------
(* The transfer, TransferAllInterruptsToApplicationQueue.                  *)

(* ProcessActivity takes the events; ProcessInterrupts begins.             *)
ProcessActivity ==
  /\ pc = "run"
  /\ event \/ (Polled /\ queue # <<>>)
  /\ event' = FALSE
  /\ pc' = "peek"
  /\ UNCHANGED <<ring, peeked, copied, queue, sched, port, hist>>

(* The ring has a record: its slot is remembered and the lock released.    *)
PeekRecord ==
  /\ pc = "peek" /\ ~Empty
  /\ peeked' = reader
  /\ pc' = "allocate"
  /\ UNCHANGED <<ring, event, copied, queue, sched, port, hist>>

(* Mutated form: the transfer never creates the thread.                    *)
PeekNothingIdle ==
  /\ pc = "peek" /\ Empty
  /\ pc' = "run"
  /\ IF thread = "none" THEN UNCHANGED <<queue, sched>> ELSE SpawnDispatcher(thread)
  /\ UNCHANGED <<ring, event, peeked, copied, port, hist>>

(* The ring is empty: ProcessInterrupts goes on to SpawnDispatcher, unless *)
(* no interrupt is queued (CLR_E_NO_INTERRUPT).                            *)
PeekNothing ==
  /\ pc = "peek" /\ Empty
  /\ pc' = "run"
  /\ SpawnDispatcher(thread)
  /\ UNCHANGED <<ring, event, peeked, copied, port, hist>>

(* The node is allocated and the data copied into it.                      *)
CopyData ==
  /\ pc = "allocate"
  /\ copied' = slots[peeked].id
  /\ pc' = "context"
  /\ UNCHANGED <<ring, event, peeked, queue, sched, port, hist>>

(* No memory for the node: all interrupts in the ring are discarded, and   *)
(* ProcessInterrupts does not reach SpawnDispatcher.                       *)
DiscardAll ==
  /\ pc = "allocate"
  /\ "record" \in Faults
  /\ reader' = writer /\ full' = FALSE
  /\ pc' = "run"
  /\ UNCHANGED <<slots, writer, event, peeked, copied, queue, sched, port, hist>>

(* Mutated form: the node is linked at the front.                          *)
LinkRecordAtFront ==
  /\ pc = "context"
  /\ queue' = <<[id |-> copied, port |-> slots[peeked].port]>> \o queue
  /\ pc' = "pop"
  /\ UNCHANGED <<ring, event, peeked, copied, sched, port, hist>>

(* The dispatcher is copied, the last field, and the node linked.          *)
LinkRecord ==
  /\ pc = "context"
  /\ queue' = Append(queue, [id |-> copied, port |-> slots[peeked].port])
  /\ pc' = "pop"
  /\ UNCHANGED <<ring, event, peeked, copied, sched, port, hist>>

(* Mutated form: a full ring stays full.                                   *)
PopRecordStaysFull ==
  /\ pc = "pop"
  /\ reader' = Step(reader) /\ full' = full
  /\ pc' = "peek"
  /\ UNCHANGED <<slots, writer, event, peeked, copied, queue, sched, port, hist>>

PopRecord ==
  /\ pc = "pop"
  /\ reader' = Step(reader) /\ full' = FALSE
  /\ pc' = "peek"
  /\ UNCHANGED <<slots, writer, event, peeked, copied, queue, sched, port, hist>>

-----------------------------------------------------------------------------
(* Disposal of a port.                                                     *)

(* Mutated form: records of other ports are taken out and not pushed back. *)
RemoveFromHALQueueAll(p) ==
  /\ reader' = writer /\ full' = FALSE
  /\ UNCHANGED <<slots, writer>>

(* Port.Dispose, first part: RemoveFromHALQueue takes every record out of  *)
(* the ring and pushes those of other ports back.                          *)
RemoveFromHALQueue(p) ==
  LET kept == Without(Held, p)
  IN  /\ slots' = [i \in DOMAIN slots |->
                     LET k == ((i - writer) % Size) + 1
                     IN  IF k <= Len(kept) THEN kept[k] ELSE slots[i]]
      /\ reader' = (reader + Used) % Size
      /\ writer' = (writer + Len(kept)) % Size
      /\ full' = (Len(kept) = Size)

(* Mutated form: the records of the port stay in the ring.                 *)
DisposeOnly(p) ==
  /\ pc = "run" /\ port[p] = "open"
  /\ port' = [port EXCEPT ![p] = "closing"]
  /\ pc' = "close"
  /\ UNCHANGED <<ring, event, peeked, copied, queue, sched, hist>>

Dispose(p) ==
  /\ pc = "run" /\ port[p] = "open"
  /\ RemoveFromHALQueue(p)
  /\ port' = [port EXCEPT ![p] = "closing"]
  /\ pc' = "close"
  /\ UNCHANGED <<event, peeked, copied, queue, sched, hist>>

(* Port.Dispose, second part: the pin is set to an input without handler.  *)
ClosePin(p) ==
  /\ pc = "close" /\ port[p] = "closing"
  /\ port' = [port EXCEPT ![p] = "closed"]
  /\ pc' = "run"
  /\ UNCHANGED <<ring, event, peeked, copied, queue, sched, hist>>

(* A collection finds the port object dead: RecoverFromGC detaches it, and *)
(* ReleaseWhenDeadEx walks the application queue.  The termination         *)
(* callback of the first node it removes may spawn another record of the   *)
(* queue; if that was the node saved as next, the walk ends there.         *)
Collect(p) ==
  LET mine  == {k \in DOMAIN queue : queue[k].port = p}
      first == CHOOSE k \in mine : \A j \in mine : k <= j
      rest  == [k \in 1..(Len(queue) - 1) |-> queue[IF k < first THEN k ELSE k + 1]]
  IN  /\ pc \in {"run", "allocate"}
      /\ port[p] = "closed"
      /\ port' = [port EXCEPT ![p] = "released"]
      /\ IF mine = {}
         THEN UNCHANGED <<queue, sched>>
         ELSE \E o \in Spawned(rest, thread, Released \cup {p}) :
                /\ Takes(o)
                /\ queue' = IF o.taken >= first THEN Rest(rest, o.taken)
                            ELSE Without(Rest(rest, o.taken), p)
      /\ UNCHANGED <<ring, event, pc, peeked, copied, hist>>

-----------------------------------------------------------------------------
Transfer == PeekRecord \/ PeekNothing \/ CopyData \/ DiscardAll \/ LinkRecord \/ PopRecord

Next ==
  \/ \E p \in Ports : Interrupt(p) \/ Dispose(p) \/ ClosePin(p) \/ Collect(p)
  \/ ProcessActivity \/ Transfer
  \/ ThreadEnds

(* The engine goes on: each round it runs the transfer to its end, then a  *)
(* quantum of the handler, however often it polls the queue, so that a     *)
(* handler returns (SF); a thread can be created some time, when it is     *)
(* tried again and again (SF).  Interrupts, disposals and collections need *)
(* not happen.                                                             *)
Fairness ==
  /\ WF_vars(ProcessActivity)
  /\ WF_vars(Transfer)
  /\ WF_vars(\E p \in Ports : ClosePin(p))
  /\ SF_vars(ThreadEnds)
  /\ SF_vars(PeekNothing /\ thread' # "none")

Spec == Init /\ [][Next]_vars /\ Fairness

-----------------------------------------------------------------------------
(* The interrupts on their way, in the order of the two queues.  While a   *)
(* record is linked but not popped it is in both and counted once.         *)
Pending ==
  LET waiting == IF pc = "pop" THEN Tail(Held) ELSE Held
  IN  queue \o waiting

(* Interrupts are dispatched in the order in which they happened, and none *)
(* twice: everything on its way is newer than what was dispatched, in      *)
(* ascending order.  Where the ring overflows during a transfer (between   *)
(* Peek and Pop of TransferAllInterruptsToApplicationQueue) this is lost:  *)
(* the slot is overwritten and the record popped is another one.           *)
InOrder ==
  ~overrun =>
    /\ \A k \in DOMAIN Pending : Pending[k].id > last
    /\ \A j, k \in DOMAIN Pending : j < k => Pending[j].id < Pending[k].id

(* A record on its way goes only by being dispatched, as the oldest of a   *)
(* full ring, for lack of memory, with its port, or because the thread can *)
(* no longer be used.  (SaveToHALQueue, RemoveFromHALQueue and the         *)
(* transfer edit the ring at the same time.)  The first overrun ends what  *)
(* is promised, for good: where a slot is overwritten before its Pop, one  *)
(* record may be lost and another dispatched twice.                        *)
NothingLost ==
  [][\A k \in DOMAIN Pending :
       LET r == Pending[k]
       IN  \/ overrun'
           \/ r.id \in Ids(Pending')
           \/ last' = r.id
           \/ count' > count /\ full /\ r = Held[1]
           \/ pc = "allocate" /\ pc' = "run"
           \/ port'[r.port] \in {"closing", "released"}
           \/ Wedged']_vars

(* When the collector releases a dispatcher no record in the ring points   *)
(* to it, unless it was saved between the two parts of Dispose, and none   *)
(* in the application queue, unless the walk over that queue found the     *)
(* thread idle and spawned another record (ReleaseWhenDeadEx).             *)
ReleaseCleans ==
  [][\A p \in Ports :
       port[p] # "released" /\ port'[p] = "released" =>
         /\ \A k \in DOMAIN Held : Held[k].port = p => Held[k].id \in late
         /\ thread = "ready" => \A k \in DOMAIN queue' : queue'[k].port # p]_vars

(* Every interrupt leaves the queues: no wake-up is lost between the event *)
(* flag, the two queues and the end of the thread, also when a transfer    *)
(* ran out of memory before SpawnDispatcher.                               *)
EventuallyServed ==
  \A n \in 1..MaxEvents :
    (n \in Ids(Pending)) ~> (n \notin Ids(Pending) \/ Wedged)

(* The thread is idle or runs a handler: interrupts go on being dispatched *)
(* after a failed allocation ("discard all interrupts to avoid getting     *)
(* into a death spiral of OOM exceptions").                                *)
DispatcherUsable == ~Wedged
=============================================================================
