-------------------------- MODULE HeapPersistence --------------------------
(***************************************************************************)
(* Extended weak references kept in flash: CLR_RT_Persistence_Manager      *)
(* (CLR/Core/HeapPersistence/Heap_Persistence.cpp).                        *)
(*                                                                         *)
(* Two banks of flash.  Objects are appended to the one in use; when it is *)
(* full, AdvanceState erases the other, copies what is still wanted and    *)
(* switches, in small steps taken when the machine is idle.  The program   *)
(* changes targets between any two steps, and the power may go at any      *)
(* time: RAM is lost, flash stays as it is.                                *)
(*                                                                         *)
(* Objects are all of one size.  A burst is what one pass writes of one.   *)
(***************************************************************************)
EXTENDS Integers, Sequences, SequencesExt, FiniteSets, FiniteSetsExt

CONSTANTS
    Refs,         \* identities of references with WR_SurvivePowerdown
    Priority,     \* m_priority of each
    Capacity,     \* objects that fit in a bank
    SafeCapacity, \* objects that fit in m_totalSafeBytes
    Bursts,       \* bursts it takes to write the data of one object
    ErasedSeq,    \* the number an erased word reads as, 2^32 - 1 in the code
    MaxSets,      \* bound: targets set in all
    MaxRestarts,  \* bound: power losses and reboots
    MaxFaults     \* bound: writes or allocations that fail

NoRef == "none"

ASSUME PersistenceAssumption ==
    /\ NoRef \notin Refs
    /\ Priority \in [Refs -> Int]
    /\ Capacity \in Nat \ {0} /\ SafeCapacity \in 1 .. Capacity
    /\ Bursts \in Nat \ {0} /\ ErasedSeq \in Nat \ {0}
    /\ MaxSets \in Nat /\ MaxRestarts \in Nat /\ MaxFaults \in Nat

VARIABLES
    flash,      \* the banks: sequence number, or NoHeader, and the objects
    live,       \* the bank that is m_bankA
    state,      \* m_state; "Off", or "Formatted" within Initialize
    pending,    \* m_pending_object, the last object of its bank is its header
    left,       \* m_pending_size in bursts, 0 when nothing is pending
    list,       \* m_weakReferences, those that have a target
    target,     \* the version m_targetSerialized holds, 0 if NULL
    persisted,  \* the references with WR_Persisted
    copied,     \* those with m_targetCopied
    forced,     \* 1 and 3: first and second Flush of Reboot run; 2, 4: ended
    clock,      \* versions given out
    restarts, faults

vars == <<flash, live, state, pending, left, list, target, persisted, copied,
          forced, clock, restarts, faults>>
ram  == <<list, target, persisted, copied>>

NoHeader == -1
Banks    == {1, 2}          \* STORAGE_A and STORAGE_B
Other(b) == 3 - b
Spare    == Other(live)     \* the bank that is m_bankB

Object(r, v) == [ref |-> r, ver |-> v, st |-> "partial"]
Erased       == [seq |-> NoHeader, objs |-> <<>>]
Formatted    == [seq |-> ErasedSeq, objs |-> <<>>]

(***************************************************************************)
(* The banks.                                                              *)
(***************************************************************************)
\* BankHeader::IsGood: a number of 0 is not good, an erased one is.
GoodBank(b) == flash[b].seq \notin {NoHeader, 0}

\* The choice of Initialize.
BootBank ==
    IF GoodBank(2) /\ (~GoodBank(1) \/ flash[1].seq < flash[2].seq) THEN 2 ELSE 1

\* Mutated form: an object that is no longer in use is good.
DeletedToo(b) == {i \in DOMAIN flash[b].objs : flash[b].objs[i].st # "partial"}

\* ObjectHeader::IsGood(TRUE): in use and the data matches its CRC.
GoodObjects(b) == {i \in DOMAIN flash[b].objs : flash[b].objs[i].st = "good"}

\* Those of one reference.
GoodOf(b, r) == {i \in GoodObjects(b) : flash[b].objs[i].ref = r}

Room(b) == Len(flash[b].objs) < Capacity

\* WriteHeader: the object takes the next place of the bank.
Append1(b, r) == [flash EXCEPT ![b].objs = Append(@, Object(r, target[r]))]

\* RecoverHeader and ObjectHeader::Delete: the good object of r in bank b.
Deleted(f, b, r) ==
    [f EXCEPT ![b].objs = [i \in DOMAIN @ |->
        IF @[i].ref = r /\ @[i].st = "good" THEN [@[i] EXCEPT !.st = "deleted"] ELSE @[i]]]

\* The object being written, the last one of bank b, is completed or deleted.
Marked(f, b, st) == [f EXCEPT ![b].objs[Len(f[b].objs)].st = st]

\* What a restart finds for each reference.
Recoverable(b) ==
    [r \in Refs |-> {flash[b].objs[i].ver : i \in GoodOf(b, r)}]

(***************************************************************************)
(* The list of weak references.                                            *)
(***************************************************************************)
\* Mutated form: the node is not unlinked first.
InsertedTwice(l, r) == InsertAt(l, 1, r)

\* Unlink: a reference is in the list at most once.
Unlinked(l, r) ==
    IF r \in ToSet(l) THEN RemoveAt(l, CHOOSE i \in DOMAIN l : l[i] = r) ELSE l

\* InsertInPriorityOrder: in front of the first whose priority is not higher.
Inserted(l, r) ==
    LET m == Unlinked(l, r)
        S == {i \in DOMAIN m : Priority[m[i]] <= Priority[r]}
    IN  InsertAt(m, IF S = {} THEN Len(m) + 1 ELSE Min(S), r)

\* What Initialize inserts, one good object of bank b after the other.
Restored(b) ==
    LET found[n \in 0 .. Len(flash[b].objs)] ==
          IF n = 0 THEN <<>>
          ELSE IF n \in GoodObjects(b) THEN Inserted(found[n - 1], flash[b].objs[n].ref)
          ELSE found[n - 1]
    IN  found[Len(flash[b].objs)]

\* usedBytes when the loop over the list is at i.
UsedUpTo(i) == Cardinality({j \in 1 .. i : target[list[j]] # 0})

Unsaved  == {i \in DOMAIN list : target[list[i]] # 0 /\ list[i] \notin persisted}
Uncopied == {i \in DOMAIN list : list[i] \in persisted \ copied}

Init ==
    /\ flash = [b \in Banks |-> Erased]
    /\ live = 1 /\ state = "Off" /\ pending = NoRef /\ left = 0
    /\ list = <<>> /\ target = [r \in Refs |-> 0]
    /\ persisted = {} /\ copied = {}
    /\ forced = 0 /\ clock = 0 /\ restarts = 0 /\ faults = 0

-----------------------------------------------------------------------------
(***************************************************************************)
(* Initialize.                                                             *)
(***************************************************************************)
\* A good bank: its good objects become weak references, each inserted in
\* priority order, persisted and restored.
Boot ==
    LET b == BootBank
        o == flash[b].objs
    IN  /\ state = "Off" /\ GoodBank(b)
        /\ live' = b /\ state' = "FlushNextObject"
        /\ list' = Restored(b)
        /\ target' = [r \in Refs |->
               IF GoodOf(b, r) = {} THEN 0 ELSE o[CHOOSE i \in GoodOf(b, r) : TRUE].ver]
        /\ persisted' = {o[i].ref : i \in GoodObjects(b)}
        /\ UNCHANGED <<flash, pending, left, copied, forced, clock, restarts,
                       faults>>

\* No good bank: EraseAll and Format, which leaves the number erased ...
BootFormat ==
    /\ state = "Off" /\ ~GoodBank(BootBank)
    /\ live' = 1 /\ state' = "Formatted"
    /\ flash' = [flash EXCEPT ![1] = Formatted]
    /\ UNCHANGED <<pending, left, ram, forced, clock, restarts, faults>>

\* ... and then SetSequence(1).
BootNumber ==
    /\ state = "Formatted" /\ state' = "FlushNextObject"
    /\ flash' = [flash EXCEPT ![live].seq = 1]
    /\ UNCHANGED <<live, pending, left, ram, forced, clock, restarts, faults>>

-----------------------------------------------------------------------------
(***************************************************************************)
(* The program and the collector, between two passes of AdvanceState.  No  *)
(* test of the idle time precedes the pass that switches the banks.        *)
(***************************************************************************)
ProgramRuns == forced = 0 /\ state \notin {"Off", "Formatted", "SwitchBank"}

\* The header of the pending object is deleted if it is being written: it is
\* then the last object of its bank.
Abandoned(r) ==
    LET b == IF state = "FlushNextObject" THEN live ELSE Spare
        s == flash[b].objs
    IN  IF pending = r /\ s # <<>> /\ Last(s).st = "partial"
        THEN Marked(flash, b, "deleted") ELSE flash

\* Mutated forms: the copy goes on; and a manager that is idle stays so.
CopyGoesOn ==
    IF state = "Idle" THEN "FlushNextObject" ELSE state

IdleStays == state

\* The switch at the end of InvalidateEntry.
StateAfterChange ==
    CASE state = "Idle" -> "FlushNextObject"
      [] state \in {"CopyToOtherBank", "CopyBackToRam", "SwitchBank"} -> "Erase"
      [] OTHER -> state

\* InvalidateEntry: the pending header and the stored object are deleted,
\* and a compaction under way has to start again.
InvalidateEntry(r) ==
    /\ flash' = IF r \in persisted THEN Deleted(Abandoned(r), live, r) ELSE Abandoned(r)
    /\ pending' = IF pending = r THEN NoRef ELSE pending
    /\ left' = IF pending = r THEN 0 ELSE left
    /\ persisted' = persisted \ {r}
    /\ state' = StateAfterChange

\* SetTarget with new contents, of a reference recovered or just created.
SetTarget(r) ==
    /\ ProgramRuns /\ clock < MaxSets
    /\ clock' = clock + 1
    /\ InvalidateEntry(r)
    /\ target' = [target EXCEPT ![r] = clock + 1]
    /\ list' = Inserted(list, r)
    /\ UNCHANGED <<live, copied, forced, restarts, faults>>

\* SetTarget with the contents that the reference has: no InvalidateEntry, an
\* idle manager is not started, but the reference is inserted anew and so
\* moves in front of those of its own priority.
SetSame(r) ==
    /\ ProgramRuns /\ target[r] # 0
    /\ list' = Inserted(list, r)
    /\ UNCHANGED <<flash, live, state, pending, left, target, persisted, copied,
                   forced, clock, restarts, faults>>

\* SetTarget(null), or objects dropped under memory pressure.  Wherever the
\* reference is in the list from now on, AdvanceState passes over it.
DropTarget(r) ==
    /\ ProgramRuns /\ target[r] # 0
    /\ InvalidateEntry(r)
    /\ target' = [target EXCEPT ![r] = 0]
    /\ list' = Unlinked(list, r)
    /\ UNCHANGED <<live, copied, forced, clock, restarts, faults>>

\* The reference itself is dead: MarkWeak invalidates and unlinks it.
Collect(r) ==
    /\ ProgramRuns /\ Contains(list, r)
    /\ InvalidateEntry(r)
    /\ target' = [target EXCEPT ![r] = 0]
    /\ list' = Unlinked(list, r)
    /\ copied' = copied \ {r}
    /\ UNCHANGED <<live, forced, clock, restarts, faults>>

-----------------------------------------------------------------------------
(***************************************************************************)
(* AdvanceState, one pass of its loop.  Without force a pass is taken when *)
(* there is idle time; a return ends a forced Flush.                       *)
(***************************************************************************)
Advances(s) == state = s /\ forced \in {0, 1, 3}
Returns     == forced' = IF forced = 0 THEN 0 ELSE forced + 1
Continues   == UNCHANGED forced

\* One burst of the pending object, whose last one completes it.
BurstWritten(b, f, r, n) ==
    IF n = 1
    THEN /\ flash' = Marked(f, b, "good")
         /\ pending' = NoRef /\ left' = 0
    ELSE flash' = f /\ pending' = r /\ left' = n - 1

\* A failed write deletes the header; the object is tried again elsewhere.
BurstFailed(b, f) ==
    /\ faults < MaxFaults /\ faults' = faults + 1
    /\ flash' = Marked(f, b, "deleted")
    /\ pending' = NoRef /\ left' = 0

\* Flush: the next burst of the pending object, or of the first one that is
\* not persisted, which then gets its header.
FlushBurst ==
    /\ Advances("FlushNextObject")
    /\ pending = NoRef => Unsaved # {} /\ Room(live)
    /\ LET r == IF pending = NoRef THEN list[Min(Unsaved)] ELSE pending
           f == IF pending = NoRef THEN Append1(live, r) ELSE flash
           n == IF pending = NoRef THEN Bursts ELSE left
       IN  \/ /\ BurstWritten(live, f, r, n)
              /\ persisted' = IF n = 1 THEN persisted \cup {r} ELSE persisted
              /\ UNCHANGED faults
           \/ BurstFailed(live, f) /\ UNCHANGED persisted
    /\ Continues
    /\ UNCHANGED <<live, state, list, target, copied, clock, restarts>>

\* The bank is full, and the object would fit if it were compacted.
FlushTriggers ==
    /\ Advances("FlushNextObject") /\ pending = NoRef
    /\ Unsaved # {} /\ ~Room(live) /\ UsedUpTo(Min(Unsaved)) <= SafeCapacity
    /\ state' = "Erase"
    /\ left' = 0
    /\ Returns
    /\ UNCHANGED <<flash, live, pending, ram, clock, restarts, faults>>

\* Mutated form: an object that does not fit is tried for ever.
FlushDoneAllSaved ==
    /\ Advances("FlushNextObject") /\ pending = NoRef
    /\ Unsaved = {}
    /\ state' = "Idle"
    /\ left' = 0
    /\ Returns
    /\ UNCHANGED <<flash, live, pending, ram, clock, restarts, faults>>

\* Nothing to save, or nothing that would fit.
FlushDone ==
    /\ Advances("FlushNextObject") /\ pending = NoRef
    /\ Unsaved # {} => ~Room(live) /\ UsedUpTo(Min(Unsaved)) > SafeCapacity
    /\ state' = "Idle"
    /\ left' = 0
    /\ Returns
    /\ UNCHANGED <<flash, live, pending, ram, clock, restarts, faults>>

Idle ==
    /\ Advances("Idle") /\ forced # 0
    /\ Returns
    /\ UNCHANGED <<flash, live, state, pending, left, ram, clock, restarts, faults>>

Erase ==
    /\ Advances("Erase")
    /\ copied' = {} /\ pending' = NoRef /\ left' = 0
    /\ state' = "EraseSector"
    /\ Continues
    /\ UNCHANGED <<flash, live, list, target, persisted, clock, restarts, faults>>

EraseSector ==
    /\ Advances("EraseSector")
    /\ flash' = [flash EXCEPT ![Spare] = Formatted]
    /\ state' = "CopyToOtherBank"
    /\ Continues
    /\ UNCHANGED <<live, pending, left, ram, clock, restarts, faults>>

\* The first persisted object not copied yet, if there is room for it.
Copyable ==
    /\ Uncopied # {}
    /\ UsedUpTo(Min(Uncopied)) <= SafeCapacity
    /\ Room(Spare)

CopyBurst ==
    /\ Advances("CopyToOtherBank")
    /\ pending = NoRef => Copyable
    /\ LET r == IF pending = NoRef THEN list[Min(Uncopied)] ELSE pending
           f == IF pending = NoRef THEN Append1(Spare, r) ELSE flash
           n == IF pending = NoRef THEN Bursts ELSE left
       IN  \/ /\ BurstWritten(Spare, f, r, n)
              /\ copied' = IF n = 1 THEN copied \cup {r} ELSE copied
              /\ UNCHANGED faults
           \/ BurstFailed(Spare, f) /\ UNCHANGED copied
    /\ Continues
    /\ UNCHANGED <<live, state, list, target, persisted, clock, restarts>>

CopyDone ==
    /\ Advances("CopyToOtherBank") /\ pending = NoRef /\ ~Copyable
    /\ state' = "CopyBackToRam"
    /\ Continues
    /\ UNCHANGED <<flash, live, pending, left, ram, clock, restarts, faults>>

\* An object that was not copied becomes an array in RAM again.
CopyBackOne ==
    /\ Advances("CopyBackToRam") /\ Uncopied # {}
    /\ LET r == list[Min(Uncopied)]
       IN  /\ persisted' = persisted \ {r}
           /\ flash' = Deleted(flash, live, r)
    /\ pending' = NoRef
    /\ Continues
    /\ UNCHANGED <<live, state, left, list, target, copied, clock, restarts, faults>>

\* No memory for the array: start the compaction again.
CopyBackFails ==
    /\ Advances("CopyBackToRam") /\ Uncopied # {}
    /\ faults < MaxFaults /\ faults' = faults + 1
    /\ pending' = list[Min(Uncopied)]
    /\ state' = "Erase"
    /\ Returns
    /\ UNCHANGED <<flash, live, left, ram, clock, restarts>>

CopyBackDone ==
    /\ Advances("CopyBackToRam") /\ Uncopied = {}
    /\ state' = "SwitchBank"
    /\ Continues
    /\ UNCHANGED <<flash, live, pending, left, ram, clock, restarts, faults>>

\* Mutated form: the copy gets the number of the bank it replaces.
SameSequence == flash[live].seq

\* The unsigned sum, which wraps.
NextSequence == (flash[live].seq + 1) % (ErasedSeq + 1)

\* SetSequence makes the copy the bank a restart takes.
SwitchBank ==
    /\ Advances("SwitchBank")
    /\ flash' = [flash EXCEPT ![Spare].seq = NextSequence]
    /\ live' = Spare
    /\ copied' = {}
    /\ state' = "FlushNextObject"
    /\ Continues
    /\ UNCHANGED <<pending, left, list, target, persisted, clock, restarts, faults>>

AdvanceState ==
    \/ FlushBurst \/ FlushTriggers \/ FlushDone \/ Idle
    \/ Erase \/ EraseSector
    \/ CopyBurst \/ CopyDone
    \/ CopyBackOne \/ CopyBackFails \/ CopyBackDone
    \/ SwitchBank

-----------------------------------------------------------------------------
(***************************************************************************)
(* Reboot, and the loss of power.                                          *)
(***************************************************************************)
\* Reboot calls Flush; the program does not run again.
Reboot ==
    /\ ProgramRuns /\ restarts < MaxRestarts
    /\ forced' = 1
    /\ UNCHANGED <<flash, live, state, pending, left, ram, clock, restarts, faults>>

\* The second Flush starts from scratch, whatever the first one left.
RebootFlush ==
    /\ forced = 2 /\ forced' = 3
    /\ state' = "FlushNextObject" /\ pending' = NoRef
    /\ UNCHANGED <<flash, live, left, ram, clock, restarts, faults>>

GoesOff ==
    /\ restarts < MaxRestarts /\ restarts' = restarts + 1
    /\ state' = "Off" /\ forced' = 0
    /\ pending' = NoRef /\ left' = 0
    /\ list' = <<>> /\ target' = [r \in Refs |-> 0]
    /\ persisted' = {} /\ copied' = {}
    /\ UNCHANGED <<flash, live, clock, faults>>

RebootResets == forced = 4 /\ GoesOff

PowerLoss == state # "Off" /\ forced # 4 /\ GoesOff

Next ==
    \/ Boot \/ BootFormat \/ BootNumber
    \/ \E r \in Refs :
        SetTarget(r) \/ SetSame(r) \/ DropTarget(r) \/ Collect(r)
    \/ AdvanceState
    \/ Reboot \/ RebootFlush \/ RebootResets
    \/ PowerLoss

\* The callback is queued again until the work is done, and there is idle
\* time now and then; a forced Flush runs by itself.
Spec ==
    /\ Init /\ [][Next]_vars
    /\ WF_vars(Boot \/ BootFormat \/ BootNumber)
    /\ WF_vars(AdvanceState)
    /\ WF_vars(RebootFlush \/ RebootResets)

-----------------------------------------------------------------------------
(***************************************************************************)
(* Properties.                                                             *)
(***************************************************************************)
\* Every variable has its type; a bank never overflows, a reference is in
\* the list once, and the references with a target are listed.
TypeOK ==
    /\ \A b \in Banks :
        /\ flash[b].seq \in NoHeader .. ErasedSeq
        /\ flash[b].objs \in Seq([ref : Refs, ver : 1 .. MaxSets,
                                  st : {"partial", "good", "deleted"}])
        /\ Len(flash[b].objs) <= Capacity
    /\ live \in Banks
    /\ state \in {"Off", "Formatted", "FlushNextObject", "Idle", "Erase",
                  "EraseSector", "CopyToOtherBank", "CopyBackToRam", "SwitchBank"}
    /\ pending \in Refs \cup {NoRef} /\ left \in 0 .. Bursts
    /\ list \in Seq(Refs) /\ IsInjective(list)
    /\ target \in [Refs -> 0 .. MaxSets]
    /\ {r \in Refs : target[r] # 0} \subseteq ToSet(list)
    /\ persisted \subseteq Refs /\ copied \subseteq Refs
    /\ forced \in 0 .. 4 /\ clock \in 0 .. MaxSets
    /\ restarts \in 0 .. MaxRestarts /\ faults \in 0 .. MaxFaults

Running == state \notin {"Off", "Formatted"}

\* WR_Persisted says exactly what is in the flash: the bank in use holds one
\* good object for each persisted reference, with its current contents, and
\* none for any other - through bursts, faults, replacements, compaction and
\* restarts.
FlagsAgree ==
    Running => \A r \in Refs :
        Recoverable(live)[r] = IF r \in persisted THEN {target[r]} ELSE {}

\* Every object within the safe part of a bank is saved.
SafePartSaved ==
    \A i \in DOMAIN list :
        target[list[i]] # 0 /\ UsedUpTo(i) <= SafeCapacity => list[i] \in persisted

\* "Content synchronized!!": the manager goes idle, and its callback is no
\* longer queued, only when the safe part is saved; and it stays idle only
\* through steps that change no target, no flag and no bank.  They may change
\* the order of the list: SetSame can move an object that was not saved into
\* the safe part, and the idle manager takes no notice.
IdleMeansSaved ==
    [][state' = "Idle" =>
         IF state = "Idle" THEN UNCHANGED <<flash, target, persisted>>
         ELSE SafePartSaved']_vars

\* A restart would not read the bank in use.
Exposed == state # "Off" /\ (BootBank # live \/ ~GoodBank(live))

\* That happens only while the spare bank is formatted but not yet numbered,
\* because an erased number is good and the largest: in a compaction, or when
\* Reboot has dropped one that failed.  And in a bank numbered after such a
\* bank, whose number has wrapped to 0.
LiveBankBoots ==
    Exposed =>
        \/ /\ flash[Spare].seq = ErasedSeq
           /\ \/ state \in {"CopyToOtherBank", "CopyBackToRam", "SwitchBank",
                            "Erase", "EraseSector"}
              \/ forced \in {3, 4}
        \/ flash[live].seq = 0

\* The manager is a store: a target is saved or not, never half, a
\* compaction loses nothing it does not put back into RAM, and a restart
\* finds exactly what was stored - unless exposed when the power goes.
Stored ==
    IF state # "Off" THEN Recoverable(live)
    ELSE IF GoodBank(BootBank) THEN Recoverable(BootBank)
    ELSE [r \in Refs |-> {}]

Store == INSTANCE WeakStore WITH
    Versions <- 1 .. MaxSets, on <- Running, target <- target,
    stored <- Stored, exposed <- Exposed

ImplementsStore == Store!Spec

\* Compactions end: however often targets change, faults abort a copy and
\* the power goes, the manager gets its work done and is idle again - if the
\* program stops to set targets.  Setting the same ones in turn, it can move
\* another unsaved object into the safe part after every compaction.
Synchronises ==
    <>[][\A r \in Refs : ~SetSame(r)]_vars => []<>(state = "Idle" /\ forced = 0)
=============================================================================
