----------------------- MODULE ClrThreadsMonitor_proofs -----------------------
(***************************************************************************)
(* ClrThreads when no thread is aborted, for any number of threads, locks  *)
(* and events, with suspensions: a wait ends for a reason, and the locks   *)
(* of the engine are the monitors of module Monitor.                       *)
(***************************************************************************)
EXTENDS ClrThreadsLists_proofs

-----------------------------------------------------------------------------
(* Without Abort a queued thread is blocked in the Enter of that lock, the *)
(* owner that has not returned from Enter yet has the lock once, and the   *)
(* threads that ended stay so.                                             *)

CalmInv(t) ==
  /\ aborts[t] = 0 /\ t \notin raised
  /\ t \in dead => status[t] = "Terminated" /\ call[t].op = "None"
  /\ \A l \in Locks : t \in Elems(requests[l]) => call[t].lock = l
  /\ \A l \in Locks : (call[t].op = "Enter" /\ call[t].lock = l /\ owner[l] = t)
                        => recursion[l] = 1
  /\ (call[t].op = "Wait" /\ status[t] = "Ready") => result[t] # "Init"

Calm == \A t \in Threads : CalmInv(t)

(* Only Aborts tangle a thread of the ready list.                          *)
LEMMA ReadyCalm ==
  ASSUME Known, Calm, NEW t \in ready
  PROVE  t \in Threads /\ status[t] = "Ready"
<1>1. t \in Threads
  BY DEF Known, TypeOK
<1>2. ListInv(t) /\ aborts[t] = 0
  BY <1>1 DEF Known, Calm, CalmInv
<1> QED
  BY <1>1, <1>2 DEF ListInv, Tangled, Listed

LEMMA QueuedCalm ==
  ASSUME Known, Calm, NEW x \in Threads, NEW l \in Locks, x \in Elems(requests[l])
  PROVE  /\ Blocked(x) /\ call[x].lock = l /\ x \notin dead
         /\ owner[l] # x
<1>1. Pending(requests, x) /\ RequestInv(x) /\ aborts[x] = 0 /\ CalmInv(x)
  BY DEF Pending, Known, Calm, CalmInv
<1>2. Places(requests, x) # {}
  BY <1>1, PlacesPending DEF Known, TypeOK
<1>3. Bound(x) \in Nat
  BY BoundType DEF Known
<1>4. Bound(x) > 0
  BY <1>1, <1>2, <1>3, AtMostPositive DEF RequestInv
<1>5. Blocked(x)
  BY <1>1, <1>4 DEF Bound
<1>6. ~SelfQueued(x)
  BY <1>1 DEF RequestInv
<1> QED
  BY <1>1, <1>5, <1>6 DEF RequestInv, CalmInv, SelfQueued

(* ChangeOwner restarts every heir.                                        *)
LEMMA DemotedCalm ==
  ASSUME Known, Calm, NEW L \in SUBSET Locks
  PROVE  Demoted(L) = {}
<1> SUFFICES ASSUME NEW x \in Demoted(L) PROVE FALSE
  OBVIOUS
<1>1. x \in Heirs(L) /\ x \in Threads /\ Pending(Served(L), x)
  BY DemotedFacts
<1>2. aborts[x] > 0
  BY <1>1, HeirFacts
<1>3. aborts[x] = 0
  BY <1>1 DEF Calm, CalmInv
<1> QED
  BY <1>2, <1>3

(* An heir is blocked in the Enter of the lock it gets.                    *)
LEMMA HeirCalm ==
  ASSUME Known, Calm, NEW l \in Locks, Heir(l) # NoThread
  PROVE  Heir(l) \in Threads /\ Heir(l) \in Elems(requests[l])
<1>1. requests[l] \in Seq(Threads) /\ requests[l] # <<>> /\ Heir(l) = Head(requests[l])
  BY DEF Heir, Known, TypeOK
<1>2. 1 \in DOMAIN requests[l] /\ Heir(l) = requests[l][1] /\ Heir(l) \in Threads
  BY <1>1
<1> QED
  BY <1>2 DEF Elems

(* The ending thread has no request, so it is not restarted.               *)
LEMMA EndCalm ==
  ASSUME Known, Calm, NEW t \in Threads, t \in ready
  PROVE  t \notin dead /\ ~Pending(Served(Owned(t)), t)
<1>1. status[t] = "Ready"
  BY ReadyCalm
<1>2. t \notin dead
  BY <1>1 DEF Calm, CalmInv
<1>3. ASSUME NEW l \in Locks, t \in Elems(Served(Owned(t))[l]) PROVE FALSE
  <2>1. Owned(t) \in SUBSET Locks /\ requests \in [Locks -> Seq(Threads)]
    BY DEF Owned, Known, TypeOK
  <2>2. t \in Elems(requests[l])
    BY <1>3, <2>1, ServedFacts
  <2> QED
    BY <1>1, <2>2, QueuedCalm DEF Blocked
<1> QED
  BY <1>2, <1>3 DEF Pending

LEMMA CalmInit == Init => Calm
<1> SUFFICES ASSUME Init, NEW t \in Threads PROVE CalmInv(t)
  BY DEF Calm
<1>1. \A l \in Locks : Elems(requests[l]) = {}
  BY DEF Init, Elems
<1> QED
  BY <1>1 DEF Init, CalmInv, NoCall

(* The restarted heirs are in Enter, not in a wait.                        *)
LEMMA WokenCalm ==
  ASSUME Known, Calm, NEW L \in SUBSET Locks, NEW x \in WokenHeirs(L)
  PROVE  call[x].op = "Enter"
<1>1. PICK l \in L : x = Heir(l) /\ x # NoThread
  BY DEF WokenHeirs, Heirs
<1> QED
  BY <1>1, HeirCalm, QueuedCalm DEF Blocked, InEnter

(* The locks change owner: the heirs get theirs with recursion 1.          *)
LEMMA ChangeCalm ==
  ASSUME Known, Calm, NEW x \in Threads, NEW L \in SUBSET Locks, ChangeOwner(L),
         NEW l \in Locks, call[x].op = "Enter", call[x].lock = l, owner'[l] = x
  PROVE  recursion'[l] = 1
<1>1. CASE l \in L
  <2>1. Heir(l) = x /\ x # NoThread
    BY <1>1, ConstantsAssumption DEF ChangeOwner
  <2> QED
    BY <1>1, <2>1 DEF ChangeOwner
<1>2. CASE l \notin L
  <2>1. owner[l] = x /\ recursion'[l] = recursion[l]
    BY <1>2 DEF ChangeOwner
  <2> QED
    BY <2>1 DEF Calm, CalmInv
<1> QED
  BY <1>1, <1>2

LEMMA CalmStep ==
  ASSUME Abortable = {}, Known, Calm, [Next]_vars
  PROVE  Calm'
<1> SUFFICES ASSUME NEW x \in Threads PROVE CalmInv(x)'
  BY DEF Calm
<1>0. /\ CalmInv(x) /\ ListInv(x) /\ CallInv(x) /\ ThreadInv(x)
      /\ status \in [Threads -> {"Unstarted", "Ready", "Waiting", "Terminated"}]
      /\ call \in [Threads -> [op : Ops, lock : Locks \cup {NoLock}]]
      /\ result \in [Threads -> {"Init", "Signaled", "Timeout"}]
      /\ owner \in [Locks -> Threads \cup {NoThread}]
      /\ recursion \in [Locks -> 0..MaxRecursion]
      /\ requests \in [Locks -> Seq(Threads)]
  BY DEF Known, TypeOK, Calm, EnterInv
<1>a. \A l \in Locks : x \in Elems(requests[l]) => status[x] = "Waiting"
  BY QueuedCalm DEF Blocked
<1>b. ASSUME NEW t \in Threads, current = t
      PROVE  status[t] = "Ready" /\ call[t].op = "None" /\ t \notin dead
  BY <1>b, RunningReady, ReadyCalm
<1>c. /\ \A W : StatusBy(W, {}, x) = IF x \in W THEN "Ready" ELSE status[x]
      /\ aborts \in [Threads -> Nat]
  BY ConstantsAssumption DEF StatusBy, Known, TypeOK
<1> USE DEF vars, listVars, threadVars, waitVars, lockVars
<1>1. CASE UNCHANGED vars
  BY <1>0, <1>1 DEF CalmInv
<1>2. ASSUME NEW t \in Threads, Dispatch(t) PROVE CalmInv(x)'
  <2>1. x = t => status[x] = "Ready"
    BY <1>2, ReadyCalm DEF Dispatch
  <2> QED
    BY <1>0, <1>a, <1>2, <2>1 DEF Dispatch, NoCall, CalmInv
<1>3. ASSUME NEW t \in Threads, WaitTimeout(t) \/ SleepTimeout(t) PROVE CalmInv(x)'
  <2>1. Wakes({t}, {})
    BY <1>3, TimeoutWakes
  <2>2. x = t => status[x] # "Terminated"
    BY <2>1 DEF Wakes, Alive
  <2>3. status'[x] = IF x = t THEN "Ready" ELSE status[x]
    BY <1>c, <2>1 DEF Wakes
  <2>4. (x = t /\ call[x].op = "Wait") => result'[x] = "Timeout"
    BY <1>0, <1>3 DEF WaitTimeout, SleepTimeout, CallInv
  <2>5. x # t => result'[x] = result[x]
    BY <1>0, <1>3 DEF WaitTimeout, SleepTimeout
  <2>6. UNCHANGED <<aborts, raised, dead, call, lockVars>>
    BY <1>3 DEF WaitTimeout, SleepTimeout
  <2> QED
    BY <1>0, <2>2, <2>3, <2>4, <2>5, <2>6 DEF CalmInv
<1>4. ASSUME NEW t \in Threads, ThreadExit(t) \/ ReapDead(t) PROVE CalmInv(x)'
  <2> DEFINE L == Owned(t)
             Q == Served(L)
             W == Ending(t)
  <2>0. t \in ready /\ t \notin dead /\ current = t
    BY <1>4, RunningReady, EndCalm DEF ThreadExit, ReapDead
  <2>1. /\ L \in SUBSET Locks /\ ChangeOwner(L) /\ requests' = Deleted(Q, t)
        /\ aborts' = aborts /\ raised' = raised \ {t} /\ dead' = dead \cup {t}
        /\ call' = call
        /\ result' = [u \in Threads |-> IF u \in Freed(t) THEN "Signaled" ELSE result[u]]
    BY <1>4 DEF ThreadExit, ReapDead, Passivate, SignalEffect, Owned, Deleted
  <2>2. Ends(t, W, {})
    BY <1>4, <2>1, EndsActions, DemotedCalm DEF EndStep
  <2>3. ~Pending(Q, t)
    BY <2>0, EndCalm
  <2>4. /\ x = t => status'[x] = "Terminated"
        /\ x # t => status'[x] = IF x \in W THEN "Ready" ELSE status[x]
        /\ x \in W => status[x] # "Terminated"
    BY <1>c, <2>2, <2>3 DEF Ends, Alive
  <2>5. ASSUME NEW l \in Locks, x \in Elems(requests'[l]) PROVE call'[x].lock = l
    <3>1. Q \in [Locks -> Seq(Threads)]
      BY <1>0, ServedType
    <3> HIDE DEF Q
    <3>2. x \in Elems(Q[l])
      BY <2>1, <2>5, <3>1, DeletedFacts
    <3>3. x \in Elems(requests[l])
      BY <1>0, <2>1, <3>2, ServedFacts DEF Q
    <3> QED
      BY <1>0, <2>1, <3>3 DEF CalmInv
  <2>6. ASSUME call[x].op = "Wait", status'[x] = "Ready" PROVE result'[x] # "Init"
    <3>1. x # t
      BY <2>4, <2>6
    <3>2. CASE x \in W
      <4>1. x \in Freed(t)
        BY <2>1, <2>6, <3>2, WokenCalm DEF Ending
      <4> QED
        BY <2>1, <4>1
    <3>3. CASE x \notin W
      BY <1>0, <2>1, <2>4, <2>6, <3>1, <3>3 DEF CalmInv
    <3> QED
      BY <3>2, <3>3
  <2>7. \A l \in Locks : (call'[x].op = "Enter" /\ call'[x].lock = l /\ owner'[l] = x)
                           => recursion'[l] = 1
    BY <2>1, ChangeCalm
  <2>8. x \in dead' => status'[x] = "Terminated" /\ call'[x].op = "None"
    <3>1. CASE x = t
      BY <1>b, <2>0, <2>1, <2>4, <3>1
    <3>2. CASE x # t
      BY <1>0, <2>1, <2>4, <3>2 DEF CalmInv
    <3> QED
      BY <3>1, <3>2
  <2>9. aborts'[x] = 0 /\ x \notin raised'
    BY <1>0, <2>1 DEF CalmInv
  <2> QED
    BY <2>1, <2>5, <2>6, <2>7, <2>8, <2>9 DEF CalmInv
<1>5. ASSUME NEW t \in Threads, NEW k \in Locks, EnterFree(t, k) PROVE CalmInv(x)'
  BY <1>0, <1>b, <1>5 DEF EnterFree, CalmInv
<1>6. ASSUME NEW t \in Threads, NEW k \in Locks, EnterAgain(t, k) \/ ExitInner(t, k)
      PROVE  CalmInv(x)'
  BY <1>0, <1>b, <1>6 DEF EnterAgain, ExitInner, CalmInv
<1>7. ASSUME NEW t \in Threads, NEW k \in Locks, EnterBlocked(t, k) PROVE CalmInv(x)'
  <2>1. /\ requests' = Added(requests, k, t) /\ owner[k] # t /\ current = t
        /\ status' = [status EXCEPT ![t] = "Waiting"]
        /\ call' = [call EXCEPT ![t] = [op |-> "Enter", lock |-> k]]
        /\ UNCHANGED <<aborts, raised, dead, owner, recursion, result>>
    BY <1>7 DEF EnterBlocked, Block, Added
  <2>2. \A l \in Locks : x \in Elems(Added(requests, k, t)[l])
                           => x \in Elems(requests[l]) \/ (x = t /\ l = k)
    BY <1>0, AddedPlaces
  <2>3. CASE x = t
    BY <1>0, <1>a, <1>b, <2>1, <2>2, <2>3 DEF CalmInv
  <2>4. CASE x # t
    BY <1>0, <2>1, <2>2, <2>4 DEF CalmInv
  <2> QED
    BY <2>3, <2>4
<1>8. ASSUME NEW t \in Threads, NEW k \in Locks, ExitLast(t, k) PROVE CalmInv(x)'
  <2> DEFINE L == {k}
             W == WokenHeirs(L)
  <2>1. /\ L \in SUBSET Locks /\ ChangeOwner(L) /\ requests' = Served(L)
        /\ UNCHANGED <<aborts, raised, dead, call, result>>
    BY <1>8 DEF ExitLast
  <2>2. /\ status'[x] = IF x \in W THEN "Ready" ELSE status[x]
        /\ x \in W => status[x] # "Terminated"
    <3>1. Wakes(W, {})
      BY <1>8, <2>1, ExitWakes, DemotedCalm
    <3> QED
      BY <1>c, <3>1 DEF Wakes, Alive
  <2>3. x \in W => call[x].op = "Enter"
    BY <2>1, WokenCalm
  <2> HIDE DEF L
  <2>4. \A l \in Locks : x \in Elems(requests'[l]) => x \in Elems(requests[l])
    BY <1>0, <2>1, ServedFacts
  <2>5. \A l \in Locks : (call'[x].op = "Enter" /\ call'[x].lock = l /\ owner'[l] = x)
                           => recursion'[l] = 1
    BY <2>1, ChangeCalm
  <2> HIDE DEF W
  <2> QED
    BY <1>0, <2>1, <2>2, <2>3, <2>4, <2>5 DEF CalmInv
<1>9. ASSUME NEW t \in Threads, NEW h \in Handles, Set(t, h) PROVE CalmInv(x)'
  <2> DEFINE W == Freed(h)
  <2>1. /\ status'[x] = IF x \in W THEN "Ready" ELSE status[x]
        /\ x \in W => status[x] # "Terminated"
    <3>1. Wakes(W, {})
      BY <1>9, SetWakes
    <3> QED
      BY <1>c, <3>1 DEF Wakes, Alive
  <2>2. /\ result' = [u \in Threads |-> IF u \in W THEN "Signaled" ELSE result[u]]
        /\ UNCHANGED <<aborts, raised, dead, call, lockVars>>
    BY <1>9 DEF Set, SignalEffect
  <2> HIDE DEF W
  <2> QED
    BY <1>0, <2>1, <2>2 DEF CalmInv
<1>10. ASSUME NEW t \in Threads, NEW h \in Handles, SetHangs(t, h) \/ Reset(t, h)
       PROVE  CalmInv(x)'
  BY <1>0, <1>10 DEF SetHangs, Reset, CalmInv
<1>11. ASSUME NEW t \in Threads, NEW w \in Waits, WaitSignaled(t, w) PROVE CalmInv(x)'
  BY <1>0, <1>11 DEF WaitSignaled, CalmInv
<1>12. ASSUME NEW t \in Threads, NEW w \in Waits, WaitBlocked(t, w) PROVE CalmInv(x)'
  BY <1>0, <1>a, <1>b, <1>12 DEF WaitBlocked, Block, CalmInv
<1>13. ASSUME NEW t \in Threads, NEW timed \in BOOLEAN, Sleep(t, timed) PROVE CalmInv(x)'
  BY <1>0, <1>a, <1>b, <1>13 DEF Sleep, Block, CalmInv
<1>14. ASSUME NEW t \in Threads, EndQuantum(t) \/ SuspendSelf(t) \/ ExitHangs(t) \/ ExitCorrupts(t)
       PROVE  CalmInv(x)'
  <2>1. CASE EndQuantum(t) \/ ExitHangs(t) \/ ExitCorrupts(t)
    BY <1>0, <2>1 DEF EndQuantum, ExitHangs, ExitCorrupts, CalmInv
  <2>2. CASE SuspendSelf(t)
    <3>1. /\ current = t /\ call' = [call EXCEPT ![t].op = "Suspend"]
          /\ UNCHANGED <<status, aborts, raised, dead, result, lockVars>>
      BY <2>2 DEF SuspendSelf
    <3>2. x # t => call'[x] = call[x]
      BY <1>0, <3>1
    <3>3. x = t => call'[x].op = "Suspend" /\ call'[x].lock = call[x].lock
      BY <1>0, <3>1
    <3> QED
      BY <1>0, <1>b, <3>1, <3>2, <3>3 DEF CalmInv
  <2> QED
    BY <1>14, <2>1, <2>2
<1>15. ASSUME NEW t \in Threads, NEW u \in Threads, Start(t, u) \/ Suspend(t, u) \/ Resume(t, u)
       PROVE  CalmInv(x)'
  BY <1>0, <1>15 DEF Start, Suspend, Resume, ThreadInv, CalmInv
<1>16. ASSUME NEW t \in Threads, NEW u \in Threads, Abort(t, u) PROVE CalmInv(x)'
  BY <1>16 DEF Abort
<1>17. ASSUME NEW t \in Threads, Engine(t) PROVE CalmInv(x)'
  BY <1>2, <1>3, <1>4, <1>17 DEF Engine
<1>18. ASSUME NEW t \in Threads, MonitorCall(t) PROVE CalmInv(x)'
  BY <1>5, <1>6, <1>7, <1>8, <1>18 DEF MonitorCall
<1>19. ASSUME NEW t \in Threads, WaitCall(t) PROVE CalmInv(x)'
  BY <1>9, <1>10, <1>11, <1>12, <1>13, <1>19 DEF WaitCall
<1>20. ASSUME NEW t \in Threads, ThreadCall(t) PROVE CalmInv(x)'
  BY <1>4, <1>14, <1>15, <1>16, <1>20 DEF ThreadCall
<1> QED
  BY <1>1, <1>17, <1>18, <1>19, <1>20 DEF Next

(* Without Abort the invariant above holds in every reachable state.       *)
THEOREM CalmAlways ==
  ASSUME Abortable = {}
  PROVE  Spec => []Calm
<1>1. Init => Calm
  BY CalmInit
<1>2. Known /\ Calm /\ [Next]_vars => Calm'
  BY CalmStep
<1> QED
  BY <1>1, <1>2, KnownAlways, PTL DEF Spec

(* Without Abort a wait returns only because its objects were signaled or  *)
(* its time is up: nothing else restarts a thread blocked in a wait.       *)
THEOREM WaitsEndForAReason ==
  ASSUME Abortable = {}
  PROVE  Spec => []WaitHasReason
<1>1. Known /\ Calm => WaitHasReason
  BY ReadyCalm DEF Calm, CalmInv, WaitHasReason
<1> QED
  BY <1>1, KnownAlways, CalmAlways, PTL

-----------------------------------------------------------------------------
(* The locks of the engine implement module Monitor.                       *)

LEMMA HoldsType ==
  ASSUME TypeOK
  PROVE  /\ Holds \in [Threads -> [Locks -> Nat]]
         /\ \A u \in Threads, k \in Locks :
              Holds[u][k] = IF owner[k] = u /\ Trying[u] # k THEN recursion[k] ELSE 0
         /\ \A u \in Threads :
              Trying[u] = IF call[u].op = "Enter" THEN call[u].lock ELSE NoLock
<1>1. \A k \in Locks : recursion[k] \in Nat
  BY ConstantsAssumption DEF TypeOK
<1> QED
  BY <1>1 DEF Holds, Trying

(* The same after a step.                                                  *)
LEMMA HoldsNext ==
  ASSUME TypeOK'
  PROVE  /\ Holds' \in [Threads -> [Locks -> Nat]]
         /\ \A u \in Threads, k \in Locks :
              Holds'[u][k] = IF owner'[k] = u /\ Trying'[u] # k THEN recursion'[k] ELSE 0
<1>1. \A k \in Locks : recursion'[k] \in Nat
  BY ConstantsAssumption DEF TypeOK
<1> QED
  BY <1>1 DEF Holds, Trying

LEMMA PointUpdate ==
  ASSUME NEW F \in [Threads -> [Locks -> Nat]], NEW G \in [Threads -> [Locks -> Nat]],
         NEW t \in Threads, NEW l \in Locks, NEW v,
         \A u \in Threads, k \in Locks : G[u][k] = IF u = t /\ k = l THEN v ELSE F[u][k]
  PROVE  G = [F EXCEPT ![t][l] = v]
<1> DEFINE H == [F EXCEPT ![t][l] = v]
<1>1. ASSUME NEW u \in Threads PROVE G[u] = H[u]
  <2>1. CASE u = t
    <3>1. H[u] = [F[t] EXCEPT ![l] = v]
      BY <2>1
    <3>2. G[u] \in [Locks -> Nat] /\ F[t] \in [Locks -> Nat]
      OBVIOUS
    <3> QED
      BY <2>1, <3>1, <3>2
  <2>2. CASE u # t
    <3>1. H[u] = F[u]
      BY <2>2
    <3>2. G[u] \in [Locks -> Nat] /\ F[u] \in [Locks -> Nat]
      OBVIOUS
    <3> QED
      BY <2>2, <3>1, <3>2
  <2> QED
    BY <2>1, <2>2
<1> QED
  BY <1>1

(* Steps that leave owners, recursion and ended threads alone, and start   *)
(* or end no call of Enter, are no steps of the monitor.                   *)
QuietCalls ==
  \A u \in Threads : \/ call'[u] = call[u]
                     \/ call[u].op # "Enter" /\ call'[u].op # "Enter"

LEMMA MonitorStutters ==
  ASSUME QuietCalls, owner' = owner, recursion' = recursion, dead' = dead
  PROVE  UNCHANGED M!mvars
<1>1. Trying' = Trying
  BY DEF QuietCalls, Trying
<1>2. Holds' = Holds
  BY <1>1 DEF Holds
<1> QED
  BY <1>1, <1>2 DEF M!mvars

(* Enter of a free lock, and of one the thread has already.                *)
LEMMA EnterMaps ==
  ASSUME Known, Calm, [Next]_vars, NEW t \in Threads, NEW l \in Locks,
         EnterFree(t, l) \/ EnterAgain(t, l)
  PROVE  M!MNext
<1>0. /\ TypeOK /\ TypeOK' /\ LockInv(l)
      /\ call[t].op = "None" /\ t \notin dead
  BY TypeStep, RunningReady DEF Known, EnterFree, EnterAgain
<1>1. Trying' = Trying /\ dead' = dead
  BY DEF EnterFree, EnterAgain, threadVars, Trying
<1>2. Trying[t] = NoLock /\ Trying[t] # l
  BY <1>0, HoldsType, HoldsNext, ConstantsAssumption
<1>3. /\ owner[l] \in {t, NoThread}
      /\ owner'[l] = t /\ recursion'[l] = (IF owner[l] = t THEN recursion[l] ELSE 0) + 1
      /\ \A k \in Locks : k # l => owner'[k] = owner[k] /\ recursion'[k] = recursion[k]
  BY <1>0, ConstantsAssumption DEF EnterFree, EnterAgain, TypeOK
<1>4. M!NoneOther(t, l)
  <2>1. ASSUME NEW u \in Threads \ {t} PROVE Holds[u][l] = 0
    BY <1>0, <1>3, HoldsType, HoldsNext, ConstantsAssumption
  <2> QED
    BY <2>1 DEF M!NoneOther
<1>5. Holds' = [Holds EXCEPT ![t][l] = @ + 1]
  <2>1. ASSUME NEW u \in Threads, NEW k \in Locks
        PROVE  Holds'[u][k] = IF u = t /\ k = l THEN Holds[t][l] + 1 ELSE Holds[u][k]
    <3>1. Holds'[u][k] = IF owner'[k] = u /\ Trying[u] # k THEN recursion'[k] ELSE 0
      BY <1>0, <1>1, HoldsType, HoldsNext
    <3>2. Holds[u][k] = IF owner[k] = u /\ Trying[u] # k THEN recursion[k] ELSE 0
      BY <1>0, HoldsType, HoldsNext
    <3>3. CASE k = l
      BY <1>2, <1>3, <3>1, <3>2, <3>3, ConstantsAssumption
    <3>4. CASE k # l
      BY <1>3, <3>1, <3>2, <3>4
    <3> QED
      BY <3>3, <3>4
  <2>2. Holds \in [Threads -> [Locks -> Nat]] /\ Holds' \in [Threads -> [Locks -> Nat]]
    BY <1>0, HoldsType, HoldsNext
  <2>3. Holds' = [Holds EXCEPT ![t][l] = Holds[t][l] + 1]
    BY <2>1, <2>2, PointUpdate
  <2> QED
    BY <2>3
<1>6. M!MEnter(t, l)
  BY <1>1, <1>2, <1>4, <1>5 DEF M!MEnter
<1> QED
  BY <1>0, <1>6 DEF M!MNext

(* A blocked Enter only calls; the thread holds nothing more yet.          *)
LEMMA RequestMaps ==
  ASSUME Known, Calm, [Next]_vars, NEW t \in Threads, NEW l \in Locks, EnterBlocked(t, l)
  PROVE  M!MNext
<1>0. /\ TypeOK /\ TypeOK'
      /\ call[t].op = "None" /\ t \notin dead
  BY TypeStep, RunningReady DEF Known, EnterBlocked
<1>1. /\ owner[l] # t /\ owner' = owner /\ recursion' = recursion /\ dead' = dead
      /\ call' = [call EXCEPT ![t] = [op |-> "Enter", lock |-> l]]
  BY DEF EnterBlocked, Block, threadVars
<1>2. Trying[t] = NoLock /\ Holds[t][l] = 0
  BY <1>0, <1>1, HoldsType, HoldsNext
<1>3. Trying' = [Trying EXCEPT ![t] = l]
  <2>1. ASSUME NEW u \in Threads PROVE Trying'[u] = IF u = t THEN l ELSE Trying[u]
    BY <1>0, <1>1 DEF Trying, TypeOK
  <2>2. DOMAIN Trying = Threads /\ DOMAIN Trying' = Threads
    BY DEF Trying
  <2> QED
    BY <2>1, <2>2 DEF Trying
<1>4. Holds' = Holds
  <2>1. ASSUME NEW u \in Threads, NEW k \in Locks PROVE Holds'[u][k] = Holds[u][k]
    <3>1. Trying'[u] = IF u = t THEN l ELSE Trying[u]
      BY <1>3 DEF Trying
    <3>2. /\ Holds'[u][k] = IF owner[k] = u /\ Trying'[u] # k THEN recursion[k] ELSE 0
          /\ Holds[u][k] = IF owner[k] = u /\ Trying[u] # k THEN recursion[k] ELSE 0
      BY <1>0, <1>1, HoldsType, HoldsNext
    <3> QED
      BY <1>1, <1>2, <3>1, <3>2, ConstantsAssumption
  <2>2. Holds \in [Threads -> [Locks -> Nat]] /\ Holds' \in [Threads -> [Locks -> Nat]]
    BY <1>0, HoldsType, HoldsNext
  <2>3. ASSUME NEW u \in Threads PROVE Holds'[u] = Holds[u]
    <3>1. Holds[u] \in [Locks -> Nat] /\ Holds'[u] \in [Locks -> Nat]
      BY <2>2
    <3> QED
      BY <2>1, <3>1
  <2> QED
    BY <2>2, <2>3
<1>5. M!MRequest(t, l)
  BY <1>1, <1>2, <1>3, <1>4 DEF M!MRequest
<1> QED
  BY <1>0, <1>5 DEF M!MNext

(* A thread that gets a quantum in Enter owns the lock, once: it returns.  *)
LEMMA ReturnMaps ==
  ASSUME Known, Calm, [Next]_vars, NEW t \in Threads, Dispatch(t), call[t].op = "Enter"
  PROVE  M!MNext
<1> DEFINE l == call[t].lock
<1>0. /\ TypeOK /\ TypeOK' /\ t \notin dead
      /\ ThreadInv(t) /\ CalmInv(t) /\ t \in ready
  BY TypeStep DEF Known, EnterInv, Calm, Dispatch
<1>1. l \in Locks /\ owner[l] = t /\ recursion[l] = 1
  BY <1>0 DEF ThreadInv, InEnter, CalmInv
<1> HIDE DEF l
<1>2. /\ owner' = owner /\ recursion' = recursion /\ dead' = dead
      /\ call' = [call EXCEPT ![t] = NoCall]
  BY DEF Dispatch, lockVars
<1>3. Trying[t] = l /\ l # NoLock
  BY <1>0, <1>1, HoldsType, HoldsNext, ConstantsAssumption DEF l
<1>4. Trying' = [Trying EXCEPT ![t] = NoLock]
  <2>1. ASSUME NEW u \in Threads PROVE Trying'[u] = IF u = t THEN NoLock ELSE Trying[u]
    BY <1>0, <1>2 DEF Trying, TypeOK, NoCall
  <2>2. DOMAIN Trying = Threads /\ DOMAIN Trying' = Threads
    BY DEF Trying
  <2> QED
    BY <2>1, <2>2 DEF Trying
<1>5. M!NoneOther(t, l)
  <2>1. ASSUME NEW u \in Threads \ {t} PROVE Holds[u][l] = 0
    BY <1>0, <1>1, HoldsType, HoldsNext
  <2> QED
    BY <2>1 DEF M!NoneOther
<1>6. Holds' = [Holds EXCEPT ![t][l] = @ + 1]
  <2>1. ASSUME NEW u \in Threads, NEW k \in Locks
        PROVE  Holds'[u][k] = IF u = t /\ k = l THEN Holds[t][l] + 1 ELSE Holds[u][k]
    <3>1. Trying'[u] = IF u = t THEN NoLock ELSE Trying[u]
      BY <1>4 DEF Trying
    <3>2. /\ Holds'[u][k] = IF owner[k] = u /\ Trying'[u] # k THEN recursion[k] ELSE 0
          /\ Holds[u][k] = IF owner[k] = u /\ Trying[u] # k THEN recursion[k] ELSE 0
          /\ Holds[t][l] = IF owner[l] = t /\ Trying[t] # l THEN recursion[l] ELSE 0
      BY <1>0, <1>1, <1>2, HoldsType, HoldsNext
    <3> QED
      BY <1>1, <1>3, <3>1, <3>2, ConstantsAssumption
  <2>2. Holds \in [Threads -> [Locks -> Nat]] /\ Holds' \in [Threads -> [Locks -> Nat]]
    BY <1>0, HoldsType, HoldsNext
  <2>3. Holds' = [Holds EXCEPT ![t][l] = Holds[t][l] + 1]
    BY <1>1, <2>1, <2>2, PointUpdate
  <2> QED
    BY <2>3
<1>7. M!MReturn(t, l)
  BY <1>2, <1>3, <1>4, <1>5, <1>6 DEF M!MReturn
<1> QED
  BY <1>0, <1>1, <1>7 DEF M!MNext

LEMMA ExitInnerMaps ==
  ASSUME Known, Calm, [Next]_vars, NEW t \in Threads, NEW l \in Locks, ExitInner(t, l)
  PROVE  M!MNext
<1>0. /\ TypeOK /\ TypeOK' /\ call[t].op = "None" /\ t \notin dead
  BY TypeStep, RunningReady DEF Known, ExitInner
<1>1. /\ owner[l] = t /\ owner' = owner /\ dead' = dead /\ call' = call
      /\ recursion[l] > 1 /\ recursion' = [recursion EXCEPT ![l] = @ - 1]
  BY DEF ExitInner, threadVars
<1>2. Trying' = Trying /\ Trying[t] = NoLock
  BY <1>0, <1>1, HoldsType, HoldsNext DEF Trying
<1>3. ASSUME NEW u \in Threads, NEW k \in Locks
      PROVE  Holds'[u][k] = IF u = t /\ k = l THEN Holds[t][l] - 1 ELSE Holds[u][k]
  <2>1. Holds'[u][k] = IF owner[k] = u /\ Trying[u] # k THEN recursion'[k] ELSE 0
    BY <1>0, <1>1, <1>2, HoldsType, HoldsNext
  <2>2. Holds[u][k] = IF owner[k] = u /\ Trying[u] # k THEN recursion[k] ELSE 0
    BY <1>0, HoldsType, HoldsNext
  <2>3. recursion'[k] = IF k = l THEN recursion[l] - 1 ELSE recursion[k]
    BY <1>0, <1>1 DEF TypeOK
  <2> QED
    BY <1>1, <1>2, <2>1, <2>2, <2>3, ConstantsAssumption
<1>4. Holds \in [Threads -> [Locks -> Nat]] /\ Holds' \in [Threads -> [Locks -> Nat]]
  BY <1>0, HoldsType, HoldsNext
<1>5. Holds' = [Holds EXCEPT ![t][l] = Holds[t][l] - 1]
  BY <1>3, <1>4, PointUpdate
<1>6. Holds[t][l] > 0
  <2>1. Trying[t] # l
    BY <1>2, ConstantsAssumption
  <2>2. Holds[t][l] = recursion[l]
    BY <1>0, <1>1, <2>1, HoldsType
  <2>3. recursion[l] \in Nat
    BY <1>0, ConstantsAssumption DEF TypeOK
  <2> QED
    BY <1>1, <2>2, <2>3
<1>7. M!MExit(t, l)
  BY <1>1, <1>2, <1>5, <1>6 DEF M!MExit
<1> QED
  BY <1>0, <1>7 DEF M!MNext

(* What a thread holds when the locks of L change owner: the new owners    *)
(* are still in their Enter, so they hold them not yet.                    *)
LEMMA ChangeHolds ==
  ASSUME Known, Calm, [Next]_vars, NEW L \in SUBSET Locks, ChangeOwner(L), call' = call,
         NEW u \in Threads, NEW k \in Locks
  PROVE  Holds'[u][k] = IF k \in L THEN 0 ELSE Holds[u][k]
<1>0. TypeOK /\ TypeOK' /\ Trying' = Trying
  BY TypeStep DEF Known, Trying
<1>1. /\ Holds'[u][k] = IF owner'[k] = u /\ Trying[u] # k THEN recursion'[k] ELSE 0
      /\ Holds[u][k] = IF owner[k] = u /\ Trying[u] # k THEN recursion[k] ELSE 0
  BY <1>0, HoldsType, HoldsNext
<1>2. CASE k \in L
  <2>1. ASSUME owner'[k] = u PROVE Trying[u] = k
    <3>1. Heir(k) = u /\ u # NoThread
      BY <1>2, <2>1, ConstantsAssumption DEF ChangeOwner
    <3>2. call[u].op = "Enter" /\ call[u].lock = k
      BY <3>1, HeirCalm, QueuedCalm DEF Blocked, InEnter
    <3> QED
      BY <1>0, <3>2, HoldsType, HoldsNext
  <2> QED
    BY <1>1, <1>2, <2>1
<1>3. CASE k \notin L
  BY <1>1, <1>3 DEF ChangeOwner
<1> QED
  BY <1>2, <1>3

LEMMA ExitLastMaps ==
  ASSUME Known, Calm, [Next]_vars, NEW t \in Threads, NEW l \in Locks, ExitLast(t, l)
  PROVE  M!MNext
<1> DEFINE L == {l}
<1>0. /\ TypeOK /\ TypeOK' /\ call[t].op = "None" /\ t \notin dead
  BY TypeStep, RunningReady DEF Known, ExitLast
<1>1. /\ owner[l] = t /\ recursion[l] = 1 /\ ChangeOwner(L) /\ L \in SUBSET Locks
      /\ dead' = dead /\ call' = call
  BY DEF ExitLast, threadVars
<1>2. Trying' = Trying /\ Trying[t] = NoLock
  BY <1>0, <1>1, HoldsType, HoldsNext DEF Trying
<1>3. Holds[t][l] = 1
  <2>1. Trying[t] # l
    BY <1>2, ConstantsAssumption
  <2> QED
    BY <1>0, <1>1, <2>1, HoldsType
<1>a. ASSUME NEW u \in Threads, u # t PROVE Holds[u][l] = 0
  BY <1>0, <1>1, <1>a, HoldsType, HoldsNext
<1>4. ASSUME NEW u \in Threads, NEW k \in Locks
      PROVE  Holds'[u][k] = IF u = t /\ k = l THEN Holds[t][l] - 1 ELSE Holds[u][k]
  <2>1. Holds'[u][k] = IF k \in L THEN 0 ELSE Holds[u][k]
    BY <1>1, ChangeHolds
  <2> QED
    BY <1>3, <1>a, <2>1
<1>5. Holds \in [Threads -> [Locks -> Nat]] /\ Holds' \in [Threads -> [Locks -> Nat]]
  BY <1>0, HoldsType, HoldsNext
<1>6. Holds' = [Holds EXCEPT ![t][l] = Holds[t][l] - 1]
  BY <1>4, <1>5, PointUpdate
<1>7. M!MExit(t, l)
  BY <1>1, <1>2, <1>3, <1>6 DEF M!MExit
<1> QED
  BY <1>0, <1>7 DEF M!MNext

(* A thread that ends leaves all its locks.                                *)
LEMMA EndMaps ==
  ASSUME Known, Calm, [Next]_vars, NEW t \in Threads, ThreadExit(t) \/ ReapDead(t)
  PROVE  M!MNext
<1> DEFINE L == Owned(t)
<1>0. /\ TypeOK /\ TypeOK' /\ t \notin dead /\ call[t].op = "None"
  BY TypeStep, RunningReady, EndCalm DEF Known, ThreadExit, ReapDead
<1>1. /\ ChangeOwner(L) /\ L \in SUBSET Locks
      /\ dead' = dead \cup {t} /\ call' = call
  BY DEF ThreadExit, ReapDead, Passivate, Owned
<1>2. Trying' = Trying /\ Trying[t] = NoLock
  BY <1>0, <1>1, HoldsType, HoldsNext DEF Trying
<1>3. ASSUME NEW u \in Threads, NEW k \in Locks
      PROVE  Holds'[u][k] = IF u = t THEN 0 ELSE Holds[u][k]
  <2>1. Holds'[u][k] = IF k \in L THEN 0 ELSE Holds[u][k]
    BY <1>1, ChangeHolds
  <2>2. Holds[u][k] = IF owner[k] = u /\ Trying[u] # k THEN recursion[k] ELSE 0
    BY <1>0, HoldsType, HoldsNext
  <2>3. k \in L <=> owner[k] = t
    BY DEF Owned
  <2> QED
    BY <2>1, <2>2, <2>3
<1>4. Holds \in [Threads -> [Locks -> Nat]] /\ Holds' \in [Threads -> [Locks -> Nat]]
  BY <1>0, HoldsType, HoldsNext
<1>5. ASSUME NEW u \in Threads
      PROVE  Holds'[u] = IF u = t THEN [k \in Locks |-> 0] ELSE Holds[u]
  <2>1. Holds[u] \in [Locks -> Nat] /\ Holds'[u] \in [Locks -> Nat]
    BY <1>4
  <2>2. CASE u = t
    BY <1>3, <2>1, <2>2
  <2>3. CASE u # t
    BY <1>3, <2>1, <2>3
  <2> QED
    BY <2>2, <2>3
<1>6. Holds' = [Holds EXCEPT ![t] = [k \in Locks |-> 0]]
  BY <1>4, <1>5
<1>7. M!MEnd(t)
  BY <1>1, <1>2, <1>6 DEF M!MEnd
<1> QED
  BY <1>0, <1>7 DEF M!MNext

(* Every step maps to a step of the monitor, or to none.                   *)
LEMMA MonitorStep ==
  ASSUME Known, Calm, [Next]_vars
  PROVE  [M!MNext]_(M!mvars)
<1> USE DEF vars, listVars, threadVars, waitVars, lockVars
<1>a. call \in [Threads -> [op : Ops, lock : Locks \cup {NoLock}]]
  BY DEF Known, TypeOK
<1>b. ASSUME NEW t \in Threads, current = t PROVE call[t].op = "None"
  BY <1>b, RunningReady
<1>1. CASE UNCHANGED vars
  BY <1>1, MonitorStutters DEF QuietCalls
<1>2. ASSUME NEW t \in Threads, Engine(t) PROVE [M!MNext]_(M!mvars)
  <2>1. CASE Dispatch(t) /\ call[t].op = "Enter"
    BY <2>1, ReturnMaps
  <2>2. CASE Dispatch(t) /\ call[t].op # "Enter"
    <3>1. QuietCalls
      BY <1>a, <2>2 DEF Dispatch, QuietCalls, NoCall
    <3> QED
      BY <2>2, <3>1, MonitorStutters DEF Dispatch
  <2>3. CASE WaitTimeout(t) \/ SleepTimeout(t)
    BY <2>3, MonitorStutters DEF WaitTimeout, SleepTimeout, QuietCalls
  <2>4. CASE ReapDead(t)
    BY <2>4, EndMaps
  <2> QED
    BY <1>2, <2>1, <2>2, <2>3, <2>4 DEF Engine
<1>3. ASSUME NEW t \in Threads, MonitorCall(t) PROVE [M!MNext]_(M!mvars)
  BY <1>3, EnterMaps, RequestMaps, ExitInnerMaps, ExitLastMaps DEF MonitorCall
<1>4. ASSUME NEW t \in Threads, WaitCall(t) PROVE [M!MNext]_(M!mvars)
  <2>1. ASSUME NEW h \in Handles, Set(t, h) \/ SetHangs(t, h) \/ Reset(t, h)
        PROVE  UNCHANGED M!mvars
    BY <2>1, MonitorStutters DEF Set, SetHangs, Reset, QuietCalls
  <2>2. ASSUME NEW w \in Waits, WaitSignaled(t, w) PROVE UNCHANGED M!mvars
    BY <2>2, MonitorStutters DEF WaitSignaled, QuietCalls
  <2>3. ASSUME NEW w \in Waits, WaitBlocked(t, w) PROVE UNCHANGED M!mvars
    <3>1. QuietCalls
      BY <1>a, <1>b, <2>3 DEF WaitBlocked, Block, QuietCalls
    <3> QED
      BY <2>3, <3>1, MonitorStutters DEF WaitBlocked
  <2>4. ASSUME NEW timed \in BOOLEAN, Sleep(t, timed) PROVE UNCHANGED M!mvars
    <3>1. QuietCalls
      BY <1>a, <1>b, <2>4 DEF Sleep, Block, QuietCalls
    <3> QED
      BY <2>4, <3>1, MonitorStutters DEF Sleep
  <2> QED
    BY <1>4, <2>1, <2>2, <2>3, <2>4 DEF WaitCall
<1>5. ASSUME NEW t \in Threads, ThreadCall(t) PROVE [M!MNext]_(M!mvars)
  <2>1. CASE EndQuantum(t) \/ ExitHangs(t) \/ ExitCorrupts(t)
    BY <2>1, MonitorStutters DEF EndQuantum, ExitHangs, ExitCorrupts, QuietCalls
  <2>2. CASE SuspendSelf(t)
    <3>1. QuietCalls
      BY <1>a, <1>b, <2>2 DEF SuspendSelf, QuietCalls
    <3> QED
      BY <2>2, <3>1, MonitorStutters DEF SuspendSelf
  <2>3. CASE ThreadExit(t)
    BY <2>3, EndMaps
  <2>4. ASSUME NEW u \in Threads, Start(t, u) \/ Suspend(t, u) \/ Resume(t, u) \/ Abort(t, u)
        PROVE  UNCHANGED M!mvars
    BY <2>4, MonitorStutters DEF Start, Suspend, Resume, Abort, QuietCalls
  <2> QED
    BY <1>5, <2>1, <2>2, <2>3, <2>4 DEF ThreadCall
<1> QED
  BY <1>1, <1>2, <1>3, <1>4, <1>5 DEF Next

LEMMA MonitorInit == Init => M!MInit
<1> SUFFICES ASSUME Init PROVE M!MInit
  OBVIOUS
<1>1. Trying = [t \in Threads |-> NoLock]
  BY DEF Init, Trying, NoCall
<1>2. ASSUME NEW t \in Threads, NEW l \in Locks PROVE owner[l] # t
  BY ConstantsAssumption DEF Init
<1>3. Holds = [t \in Threads |-> [l \in Locks |-> 0]]
  BY <1>2 DEF Holds
<1> QED
  BY <1>1, <1>3 DEF Init, M!MInit

(* To the program a lock is a monitor: only a thread that called Enter     *)
(* gets inside, alone, and the locks of a thread that ends are free again, *)
(* for any number of threads and locks, with suspensions, if no thread is  *)
(* aborted.                                                                *)
THEOREM MonitorImplemented ==
  ASSUME Abortable = {}
  PROVE  Spec => ImplementsMonitor
<1>1. Init => M!MInit
  BY MonitorInit
<1>2. Known /\ Calm /\ [Next]_vars => [M!MNext]_(M!mvars)
  BY MonitorStep
<1> QED
  BY <1>1, <1>2, KnownAlways, CalmAlways, PTL DEF Spec, ImplementsMonitor, M!MSpec

=============================================================================
