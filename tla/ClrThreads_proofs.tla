-------------------------- MODULE ClrThreads_proofs --------------------------
(***************************************************************************)
(* Proofs about ClrThreads: its type invariant, and that a thread returns  *)
(* from Monitor.Enter only as the owner of the lock, for any number of     *)
(* threads, locks and events, with aborts and suspensions.                 *)
(***************************************************************************)
EXTENDS ClrThreads, SequenceTheorems, FiniteSetTheorems, TLAPS

-----------------------------------------------------------------------------
(* Lemmas about the operators of the model.                                *)

(* The first request and the others of a queue that is not empty.          *)
LEMMA HeadTail ==
  ASSUME NEW q \in Seq(Threads), q # <<>>
  PROVE  /\ Head(q) \in Threads
         /\ Tail(q) \in Seq(Threads)
         /\ \A x \in Elems(q) : x = Head(q) \/ x \in Elems(Tail(q))
<1>1. Head(q) \in Threads /\ Tail(q) \in Seq(Threads)
  OBVIOUS
<1>2. ASSUME NEW i \in DOMAIN q, i # 1
      PROVE  i - 1 \in DOMAIN Tail(q) /\ Tail(q)[i - 1] = q[i]
  <2>1. i \in 1..Len(q) /\ Len(Tail(q)) = Len(q) - 1
    BY <1>2
  <2>2. i - 1 \in 1..Len(Tail(q))
    BY <2>1, <1>2
  <2> QED
    BY <2>1, <2>2
<1>3. ASSUME NEW x \in Elems(q)
      PROVE  x = Head(q) \/ x \in Elems(Tail(q))
  <2>1. PICK i \in DOMAIN q : x = q[i]
    BY <1>3 DEF Elems
  <2>2. CASE i = 1
    BY <2>1, <2>2
  <2>3. CASE i # 1
    BY <2>1, <2>3, <1>2 DEF Elems
  <2> QED
    BY <2>2, <2>3
<1> QED
  BY <1>1, <1>3

(* Place(K, _) counts the places of K: each comes exactly once.            *)
LEMMA PlaceLemma ==
  ASSUME NEW n \in Nat, NEW K \in SUBSET (1..n)
  PROVE  /\ IsFiniteSet(K) /\ Cardinality(K) \in Nat
         /\ \A k \in 1..Cardinality(K) : Place(K, k) \in K
         /\ \A k, m \in 1..Cardinality(K) : Place(K, k) = Place(K, m) => k = m
         /\ \A i \in K : \E k \in 1..Cardinality(K) : Place(K, k) = i
<1> DEFINE c == Cardinality(K)
           rank == [i \in K |-> Cardinality({j \in K : j <= i})]
<1>1. IsFiniteSet(K) /\ c \in Nat /\ \A i \in K : i \in Int
  <2>1. IsFiniteSet(1..n)
    BY FS_Interval
  <2>2. IsFiniteSet(K)
    BY <2>1, FS_Subset
  <2>3. Cardinality(K) \in Nat
    BY <2>2, FS_CardinalityType
  <2>4. \A i \in K : i \in Int
    BY SMT
  <2> QED
    BY <2>2, <2>3, <2>4
<1>2. \A i \in K : IsFiniteSet({j \in K : j <= i})
                  /\ rank[i] \in Nat /\ rank[i] <= c
  BY <1>1, FS_Subset, FS_CardinalityType
<1>3. ASSUME NEW i \in K, NEW j \in K, i < j
      PROVE  rank[i] < rank[j]
  <2> DEFINE A == {m \in K : m <= i}
             B == {m \in K : m <= j}
  <2>1. A \subseteq B /\ j \in B /\ j \notin A
    <3>1. i \in Int /\ j \in Int /\ i < j
      BY <1>1, <1>3
    <3>2. \A m \in K : m \in Int /\ (m <= i => m <= j)
      BY <1>1, <3>1
    <3>3. j <= j /\ ~(j <= i)
      BY <3>1
    <3> QED
      BY <3>2, <3>3
  <2>2. IsFiniteSet(B) /\ rank[i] = Cardinality(A) /\ rank[j] = Cardinality(B)
    BY <1>2
  <2> HIDE DEF A, B, rank
  <2>3. Cardinality(A) <= Cardinality(B) /\ Cardinality(A) # Cardinality(B)
    BY <2>1, <2>2, FS_Subset
  <2>4. rank[i] \in Nat /\ rank[j] \in Nat
    BY <1>2
  <2> QED
    BY <2>2, <2>3, <2>4
<1>4. \A i \in K : rank[i] \in 1..c
  <2> SUFFICES ASSUME NEW i \in K PROVE rank[i] >= 1
    BY <1>1, <1>2
  <2> DEFINE A == {m \in K : m <= i}
  <2>1. i \in A /\ IsFiniteSet(A) /\ rank[i] = Cardinality(A)
    BY <1>1, <1>2
  <2>2. {i} \subseteq A /\ Cardinality({i}) = 1
    BY <2>1, FS_Singleton
  <2> HIDE DEF A, rank
  <2> QED
    BY <2>1, <2>2, <1>2, FS_Subset
<1>5. rank \in [K -> 1..c]
  BY <1>4
<1> HIDE DEF rank
<1>6. \A i, j \in K : rank[i] = rank[j] => i = j
  <2> SUFFICES ASSUME NEW i \in K, NEW j \in K, i # j
               PROVE  rank[i] # rank[j]
    OBVIOUS
  <2>1. rank[i] \in Nat /\ rank[j] \in Nat
    BY <1>2
  <2>2. i < j \/ j < i
    BY <1>1
  <2>3. (i < j => rank[i] < rank[j]) /\ (j < i => rank[j] < rank[i])
    BY <1>3
  <2> QED
    BY <2>1, <2>2, <2>3
<1>7. rank \in Injection(K, 1..c)
  BY <1>5, <1>6 DEF Injection, IsInjective
<1>8. IsFiniteSet(1..c) /\ Cardinality(1..c) = c
  <2>1. Cardinality(1..c) = IF 1 > c THEN 0 ELSE c - 1 + 1
    BY <1>1, FS_Interval
  <2> QED
    BY <1>1, <2>1, FS_Interval
<1>9. rank \in Surjection(K, 1..c)
  BY <1>7, <1>8, FS_Injection
<1>10. \A k \in 1..c : \E i \in K : rank[i] = k
  BY <1>9 DEF Surjection
<1>11. ASSUME NEW k \in 1..c PROVE Place(K, k) \in K /\ rank[Place(K, k)] = k
  <2>1. \E i \in K : Cardinality({j \in K : j <= i}) = k
    BY <1>10 DEF rank
  <2>2. Place(K, k) \in K /\ Cardinality({j \in K : j <= Place(K, k)}) = k
    BY <2>1 DEF Place
  <2> QED
    BY <2>2 DEF rank
<1>12. ASSUME NEW i \in K PROVE rank[i] \in 1..c /\ Place(K, rank[i]) = i
  BY <1>4, <1>6, <1>11
<1> QED
  BY <1>1, <1>11, <1>12

(* Deleting the requests of t from a queue removes nobody else.            *)
LEMMA WithoutRequestLemma ==
  ASSUME NEW q \in Seq(Threads), NEW t
  PROVE  /\ WithoutRequest(q, t) \in Seq(Threads)
         /\ \A x \in Elems(q) : x = t \/ x \in Elems(WithoutRequest(q, t))
<1> DEFINE kept == {i \in DOMAIN q : q[i] # t}
           c == Cardinality(kept)
           r == WithoutRequest(q, t)
<1>0. Len(q) \in Nat /\ DOMAIN q = 1..Len(q) /\ \A i \in DOMAIN q : q[i] \in Threads
  OBVIOUS
<1>1. kept \in SUBSET (1..Len(q))
  BY <1>0
<1>2. r = [k \in 1..c |-> q[Place(kept, k)]]
  BY DEF WithoutRequest
<1> HIDE DEF kept, r
<1>3. /\ c \in Nat
      /\ \A k \in 1..c : Place(kept, k) \in kept
      /\ \A i \in kept : \E k \in 1..c : Place(kept, k) = i
  BY <1>0, <1>1, PlaceLemma
<1>4. r \in Seq(Threads)
  <2>1. \A k \in 1..c : q[Place(kept, k)] \in Threads
    BY <1>0, <1>1, <1>3
  <2> QED
    BY <1>2, <1>3, <2>1
<1>5. ASSUME NEW x \in Elems(q), x # t PROVE x \in Elems(r)
  <2>1. PICK i \in DOMAIN q : q[i] = x
    BY DEF Elems
  <2>2. i \in kept
    BY <1>5, <2>1 DEF kept
  <2>3. PICK k \in 1..c : Place(kept, k) = i
    BY <1>3, <2>2
  <2> QED
    BY <1>2, <2>1, <2>3 DEF Elems
<1> QED
  BY <1>4, <1>5 DEF r

(* What ChangeOwner finds in a queue is a thread, or nothing.              *)
LEMMA HeirType ==
  ASSUME requests \in [Locks -> Seq(Threads)], NEW l \in Locks
  PROVE  Heir(l) \in Threads \cup {NoThread}
BY HeadTail DEF Heir

LEMMA ServedType ==
  ASSUME requests \in [Locks -> Seq(Threads)], NEW L
  PROVE  Served(L) \in [Locks -> Seq(Threads)]
BY HeadTail DEF Served

(* The order of the waiting list only relates threads.                     *)
LEMMA RelinkType ==
  ASSUME ahead \subseteq Threads \X Threads, waiting \subseteq Threads,
         NEW out, NEW back, back \subseteq Threads
  PROVE  Relink(out, back) \subseteq Threads \X Threads
BY DEF Relink

-----------------------------------------------------------------------------
(* Type correctness.                                                       *)

LEMMA TypeInit == Init => TypeOK
<1> SUFFICES ASSUME Init PROVE TypeOK
  OBVIOUS
<1>1. /\ current \in Threads \cup {NoThread}
      /\ status \in [Threads -> {"Unstarted", "Ready", "Waiting", "Terminated"}]
      /\ ready \subseteq Threads
      /\ result \in [Threads -> {"Init", "Signaled", "Timeout"}]
  BY ConstantsAssumption DEF Init
<1>6. aborts \in [Threads -> 0..MaxAborts] /\ fate \in {"runs", "loops", "corrupt"}
  BY ConstantsAssumption DEF Init
<1>2. call \in [Threads -> [op : Ops, lock : Locks \cup {NoLock}]]
  BY DEF Init, NoCall, Ops
<1>3. wait \in [Threads -> Waits \cup {NoWait}]
  BY DEF Init
<1>4. recursion \in [Locks -> 0..MaxRecursion]
  BY ConstantsAssumption DEF Init
<1>5. requests \in [Locks -> Seq(Threads)]
  BY DEF Init
<1> QED
  BY <1>1, <1>2, <1>3, <1>4, <1>5, <1>6 DEF Init, TypeOK

(* The same for the end of a thread, which two actions share.              *)
LEMMA TypePassivate ==
  ASSUME TypeOK, NEW t \in Threads, Passivate(t), current' = NoThread
  PROVE  TypeOK'
<1> DEFINE L == Owned(t)
          J == Freed(t)
          W == J \cup WokenHeirs(L)
<1> USE DEF TypeOK
<1>1. J \subseteq Threads /\ W \subseteq Threads
  BY HeirType DEF Freed, Satisfiable, WokenHeirs, Heirs, Owned
<1>2. owner' \in [Locks -> Threads \cup {NoThread}]
  BY HeirType DEF Passivate, ChangeOwner
<1>3. recursion' \in [Locks -> 0..MaxRecursion]
  BY ConstantsAssumption DEF Passivate, ChangeOwner
<1>4. requests' \in [Locks -> Seq(Threads)]
  BY ServedType, WithoutRequestLemma DEF Passivate
<1> HIDE DEF L, J
<1>5. ahead' \subseteq Threads \X Threads
  BY <1>1, RelinkType DEF Passivate, L, J
<1>6. status' \in [Threads -> {"Unstarted", "Ready", "Waiting", "Terminated"}]
  BY DEF Passivate, StatusAfter
<1>7. /\ wait' \in [Threads -> Waits \cup {NoWait}]
      /\ result' \in [Threads -> {"Init", "Signaled", "Timeout"}]
      /\ signaled' \subseteq Handles
  BY DEF Passivate, WaitsAfter, SignalEffect, Handles
<1>8. ready' \subseteq Threads /\ waiting' \subseteq Threads
  BY <1>1 DEF Passivate, L, J
<1> QED
  BY <1>2, <1>3, <1>4, <1>5, <1>6, <1>7, <1>8 DEF Passivate

(* Every action preserves the types.  The guards that keep a value in its  *)
(* range are the bound of EnterAgain and the recursion test of ExitInner.  *)
LEMMA TypeStep == TypeOK /\ [Next]_vars => TypeOK'
<1> SUFFICES ASSUME TypeOK, [Next]_vars PROVE TypeOK'
  OBVIOUS
<1> USE DEF TypeOK, vars, listVars, threadVars, waitVars, lockVars
<1>1. CASE UNCHANGED vars
  BY <1>1
<1>2. ASSUME NEW t \in Threads, Engine(t) PROVE TypeOK'
  <2>1. CASE Dispatch(t)
    <3>1. call' \in [Threads -> [op : Ops, lock : Locks \cup {NoLock}]]
      BY <2>1 DEF Dispatch, NoCall, Ops
    <3> QED
      BY <2>1, <3>1 DEF Dispatch
  <2>2. CASE WaitTimeout(t)
    <3>1. ahead' \subseteq Threads \X Threads
      BY <2>2, RelinkType DEF WaitTimeout, PutReady
    <3> QED
      BY <2>2, <3>1 DEF WaitTimeout, PutReady, WaitsAfter
  <2>3. CASE SleepTimeout(t)
    <3>1. ahead' \subseteq Threads \X Threads
      BY <2>3, RelinkType DEF SleepTimeout, PutReady
    <3> QED
      BY <2>3, <3>1 DEF SleepTimeout, PutReady, WaitsAfter
  <2>4. CASE ReapDead(t)
    BY <2>4, TypePassivate DEF ReapDead
  <2> QED
    BY <1>2, <2>1, <2>2, <2>3, <2>4 DEF Engine
<1>3. ASSUME NEW t \in Threads, MonitorCall(t) PROVE TypeOK'
  <2> PICK l \in Locks : \/ EnterFree(t, l)
                         \/ EnterAgain(t, l)
                         \/ EnterBlocked(t, l)
                         \/ ExitInner(t, l)
                         \/ ExitLast(t, l)
    BY <1>3 DEF MonitorCall
  <2>1. CASE EnterFree(t, l)
    <3>1. recursion' \in [Locks -> 0..MaxRecursion]
      BY <2>1, ConstantsAssumption DEF EnterFree
    <3> QED
      BY <2>1, <3>1 DEF EnterFree
  <2>2. CASE EnterAgain(t, l)
    <3>1. recursion' \in [Locks -> 0..MaxRecursion]
      BY <2>2, ConstantsAssumption DEF EnterAgain
    <3> QED
      BY <2>2, <3>1 DEF EnterAgain
  <2>3. CASE EnterBlocked(t, l)
    <3>1. requests' \in [Locks -> Seq(Threads)]
      BY <2>3 DEF EnterBlocked
    <3>2. ahead' \subseteq Threads \X Threads
      BY <2>3, RelinkType DEF EnterBlocked, Block
    <3>3. call' \in [Threads -> [op : Ops, lock : Locks \cup {NoLock}]]
      BY <2>3 DEF EnterBlocked, Block, Ops
    <3> QED
      BY <2>3, <3>1, <3>2, <3>3 DEF EnterBlocked, Block
  <2>4. CASE ExitInner(t, l)
    <3>1. recursion' \in [Locks -> 0..MaxRecursion]
      BY <2>4, ConstantsAssumption DEF ExitInner
    <3> QED
      BY <2>4, <3>1 DEF ExitInner
  <2>5. CASE ExitLast(t, l)
    <3> DEFINE W == WokenHeirs({l})
    <3>1. W \subseteq Threads
      BY HeirType DEF WokenHeirs, Heirs
    <3>2. owner' \in [Locks -> Threads \cup {NoThread}]
      BY <2>5, HeirType DEF ExitLast, ChangeOwner
    <3>3. recursion' \in [Locks -> 0..MaxRecursion]
      BY <2>5, ConstantsAssumption DEF ExitLast, ChangeOwner
    <3>4. requests' \in [Locks -> Seq(Threads)]
      BY <2>5, ServedType DEF ExitLast
    <3> HIDE DEF W
    <3>5. ahead' \subseteq Threads \X Threads
      BY <2>5, <3>1, RelinkType DEF ExitLast, PutReady, W
    <3>6. status' \in [Threads -> {"Unstarted", "Ready", "Waiting", "Terminated"}]
      BY <2>5 DEF ExitLast, StatusAfter
    <3> QED
      BY <2>5, <3>1, <3>2, <3>3, <3>4, <3>5, <3>6 DEF ExitLast, PutReady, WaitsAfter, W
  <2> QED
    BY <2>1, <2>2, <2>3, <2>4, <2>5
<1>4. ASSUME NEW t \in Threads, WaitCall(t) PROVE TypeOK'
  <2>1. ASSUME NEW h \in Handles, Set(t, h) PROVE TypeOK'
    <3> DEFINE W == Freed(h)
    <3>1. W \subseteq Threads
      BY DEF Freed, Satisfiable
    <3> HIDE DEF W
    <3>2. ahead' \subseteq Threads \X Threads
      BY <2>1, <3>1, RelinkType DEF Set, PutReady, W
    <3>3. status' \in [Threads -> {"Unstarted", "Ready", "Waiting", "Terminated"}]
      BY <2>1 DEF Set, StatusAfter
    <3> QED
      BY <2>1, <3>1, <3>2, <3>3 DEF Set, PutReady, WaitsAfter, SignalEffect, W
  <2>2. ASSUME NEW h \in Handles, SetHangs(t, h) \/ Reset(t, h) PROVE TypeOK'
    BY <2>2 DEF SetHangs, Reset
  <2>3. ASSUME NEW w \in Waits, WaitSignaled(t, w) PROVE TypeOK'
    BY <2>3 DEF WaitSignaled
  <2>4. ASSUME NEW w \in Waits, WaitBlocked(t, w) PROVE TypeOK'
    <3>1. ahead' \subseteq Threads \X Threads
      BY <2>4, RelinkType DEF WaitBlocked, Block
    <3>2. call' \in [Threads -> [op : Ops, lock : Locks \cup {NoLock}]]
      BY <2>4 DEF WaitBlocked, Block, Ops
    <3> QED
      BY <2>4, <3>1, <3>2 DEF WaitBlocked, Block
  <2>5. ASSUME NEW timed \in BOOLEAN, Sleep(t, timed) PROVE TypeOK'
    <3>1. ahead' \subseteq Threads \X Threads
      BY <2>5, RelinkType DEF Sleep, Block
    <3>2. call' \in [Threads -> [op : Ops, lock : Locks \cup {NoLock}]]
      BY <2>5 DEF Sleep, Block, Ops
    <3> QED
      BY <2>5, <3>1, <3>2 DEF Sleep, Block
  <2> QED
    BY <1>4, <2>1, <2>2, <2>3, <2>4, <2>5 DEF WaitCall
<1>5. ASSUME NEW t \in Threads, ThreadCall(t) PROVE TypeOK'
  <2>1. CASE EndQuantum(t)
    <3>1. Relink({}, {t}) \subseteq Threads \X Threads
      BY RelinkType
    <3>2. CASE status[t] = "Waiting"
      BY <2>1, <3>1, <3>2 DEF EndQuantum
    <3>3. CASE status[t] # "Waiting"
      BY <2>1, <3>3 DEF EndQuantum
    <3> QED
      BY <3>2, <3>3
  <2>8. CASE ExitHangs(t) \/ ExitCorrupts(t)
    BY <2>8 DEF ExitHangs, ExitCorrupts
  <2>2. CASE SuspendSelf(t)
    <3>1. ahead' \subseteq Threads \X Threads
      BY <2>2, RelinkType DEF SuspendSelf
    <3>2. call' \in [Threads -> [op : Ops, lock : Locks \cup {NoLock}]]
      BY <2>2 DEF SuspendSelf, Ops
    <3> QED
      BY <2>2, <3>1, <3>2 DEF SuspendSelf
  <2>3. CASE ThreadExit(t)
    BY <2>3, TypePassivate DEF ThreadExit
  <2>4. ASSUME NEW u \in Threads, Start(t, u) PROVE TypeOK'
    BY <2>4 DEF Start
  <2>5. ASSUME NEW u \in Threads, Suspend(t, u) PROVE TypeOK'
    <3>1. ahead' \subseteq Threads \X Threads
      BY <2>5, RelinkType DEF Suspend
    <3> QED
      BY <2>5, <3>1 DEF Suspend
  <2>6. ASSUME NEW u \in Threads, Resume(t, u) PROVE TypeOK'
    <3>1. ahead' \subseteq Threads \X Threads
      <4>1. /\ Relink({u}, {}) \subseteq Threads \X Threads
            /\ Relink({}, {u}) \subseteq Threads \X Threads
        BY RelinkType
      <4>2. ahead' = Relink({u}, {}) \/ ahead' = Relink({}, {u})
        BY <2>6 DEF Resume
      <4> QED
        BY <4>1, <4>2
    <3>2. /\ ready' \subseteq Threads
          /\ waiting' \subseteq Threads
          /\ sleeping' \subseteq Threads
      BY <2>6 DEF Resume
    <3>3. wait' \in [Threads -> Waits \cup {NoWait}]
      BY <2>6 DEF Resume
    <3>4. /\ suspended' \subseteq Threads
          /\ UNCHANGED <<current, status, aborts, raised, dead, call, result,
                        signaled, lockVars, fate>>
      BY <2>6 DEF Resume
    <3> QED
      BY <3>1, <3>2, <3>3, <3>4
  <2>7. ASSUME NEW u \in Threads, Abort(t, u) PROVE TypeOK'
    <3>1. ahead' \subseteq Threads \X Threads
      BY <2>7, RelinkType DEF Abort, PutReady
    <3>2. aborts' \in [Threads -> 0..MaxAborts]
      BY <2>7, ConstantsAssumption DEF Abort
    <3> QED
      BY <2>7, <3>1, <3>2 DEF Abort, PutReady, WaitsAfter
  <2> QED
    BY <1>5, <2>1, <2>2, <2>3, <2>4, <2>5, <2>6, <2>7, <2>8 DEF ThreadCall
<1> QED
  BY <1>1, <1>2, <1>3, <1>4, <1>5 DEF Next

(* Every variable of the model keeps its type, for all threads, locks and  *)
(* events.                                                                 *)
THEOREM TypeCorrect == Spec => []TypeOK
<1>1. Init => TypeOK
  BY TypeInit
<1>2. TypeOK /\ [Next]_vars => TypeOK'
  BY TypeStep
<1> QED
  BY <1>1, <1>2, PTL DEF Spec

-----------------------------------------------------------------------------
(* A thread returns from Monitor.Enter only as the owner.                  *)

(* ChangeOwner loses nobody: who was queued for k is queued still, or was  *)
(* the first and has become the owner.                                     *)
LEMMA ServedLemma ==
  ASSUME requests \in [Locks -> Seq(Threads)], NEW L, NEW k \in Locks,
         NEW x \in Elems(requests[k])
  PROVE  x \in Elems(Served(L)[k]) \/ (k \in L /\ x = Heir(k))
<1>1. CASE k \in L /\ requests[k] # <<>>
  BY <1>1, HeadTail DEF Served, Heir
<1>2. CASE ~(k \in L /\ requests[k] # <<>>)
  BY <1>2 DEF Served
<1> QED
  BY <1>1, <1>2

LEMMA AppendLemma ==
  ASSUME NEW q \in Seq(Threads), NEW t \in Threads
  PROVE  \A x : x \in Elems(q) \/ x = t => x \in Elems(Append(q, t))
<1>1. /\ Append(q, t) \in Seq(Threads)
      /\ Len(Append(q, t)) = Len(q) + 1
      /\ Append(q, t)[Len(q) + 1] = t
      /\ \A i \in 1..Len(q) : Append(q, t)[i] = q[i]
  OBVIOUS
<1>2. /\ DOMAIN q = 1..Len(q) /\ Len(q) \in Nat
      /\ DOMAIN Append(q, t) = 1..(Len(q) + 1)
  BY <1>1
<1>3. ASSUME NEW x \in Elems(q) PROVE x \in Elems(Append(q, t))
  <2>1. PICK i \in 1..Len(q) : x = q[i]
    BY <1>2, <1>3 DEF Elems
  <2>2. i \in DOMAIN Append(q, t) /\ Append(q, t)[i] = x
    BY <1>1, <1>2, <2>1
  <2> QED
    BY <2>2 DEF Elems
<1>4. t \in Elems(Append(q, t))
  <2>1. Len(q) + 1 \in DOMAIN Append(q, t)
    BY <1>2
  <2> QED
    BY <1>1, <2>1 DEF Elems
<1> QED
  BY <1>3, <1>4

LEMMA EnterInit == Init => EnterInv
BY DEF Init, EnterInv, CurrentInv, ThreadInv, InEnter, NoCall

(* The heart of the argument.  When the locks of L, none of them owned by  *)
(* x, change owner, a thread x in Monitor.Enter still owns its lock or is  *)
(* still queued for it; if it is restarted now, it has become the owner,   *)
(* because an heir with another request pending is not restarted.          *)
LEMMA HandOver ==
  ASSUME TypeOK, NEW x \in Threads, ThreadInv(x), InEnter(x),
         NEW L, \A l \in L : owner[l] # x,
         ChangeOwner(L),
         \A l \in Locks : x \in Elems(Served(L)[l]) => x \in Elems(requests'[l])
  PROVE  LET k == call[x].lock
         IN  /\ k \in Locks
             /\ owner'[k] = x \/ x \in Elems(requests'[k])
             /\ x \in ready \/ status[x] = "Ready" \/ x \in WokenHeirs(L) => owner'[k] = x
<1> DEFINE k == call[x].lock
<1>1. /\ k \in Locks
      /\ owner[k] = x \/ x \in Elems(requests[k])
      /\ x \in ready \/ status[x] = "Ready" => owner[k] = x
  BY DEF ThreadInv
<1>2. requests \in [Locks -> Seq(Threads)] /\ owner \in [Locks -> Threads \cup {NoThread}]
  BY DEF TypeOK
<1> HIDE DEF k
<1>3. owner'[k] = IF k \in L THEN Heir(k) ELSE owner[k]
  BY <1>1 DEF ChangeOwner
<1>4. CASE owner[k] = x
  BY <1>1, <1>3, <1>4 DEF k
<1>5. CASE owner[k] # x
  <2>1. x \in Elems(requests[k])
    BY <1>1, <1>5
  <2>2. x \in Elems(Served(L)[k]) \/ (k \in L /\ x = Heir(k))
    BY <1>1, <1>2, <2>1, ServedLemma
  <2>3. x \in WokenHeirs(L) => x \notin Elems(Served(L)[k])
    BY <1>1 DEF WokenHeirs, Pending
  <2> QED
    BY <1>1, <1>3, <1>5, <2>2, <2>3 DEF k
<1> QED
  BY <1>4, <1>5

(* The end of a thread t preserves the invariant.                          *)
LEMMA EnterPassivate ==
  ASSUME TypeOK, EnterInv, NEW t \in Threads, t \in ready, Passivate(t),
         current' = NoThread
  PROVE  EnterInv'
<1> DEFINE L == Owned(t)
          J == Freed(t)
          W == J \cup WokenHeirs(L)
<1> SUFFICES ASSUME NEW x \in Threads PROVE ThreadInv(x)'
  BY DEF EnterInv, CurrentInv
<1>0. ThreadInv(x) /\ W \subseteq Threads
  BY HeirType DEF EnterInv, TypeOK, Freed, Satisfiable, WokenHeirs, Heirs, Owned
<1>1. CASE x = t
  <2>1. /\ status'[t] # "Unstarted"
        /\ wait'[t] = NoWait
        /\ t \notin sleeping'
        /\ t \in dead'
    BY DEF Passivate, StatusAfter, WaitsAfter, TypeOK
  <2> QED
    BY <1>1, <2>1 DEF ThreadInv, InEnter
<1>2. CASE x # t
  <2>1. /\ status'[x] = StatusAfter(L, J)[x]
        /\ x \in ready' => x \in ready \/ x \in W \ suspended
        /\ x \in waiting' => x \in waiting \/ x \in W
        /\ wait'[x] = IF x \in W \ suspended THEN NoWait ELSE wait[x]
        /\ x \in sleeping' => x \in sleeping /\ x \notin W \ suspended
        /\ call'[x] = call[x]
        /\ x \in raised' <=> x \in raised
        /\ x \in dead' <=> x \in dead
    BY <1>0, <1>2 DEF Passivate, WaitsAfter, TypeOK
  <2>2. /\ x \in W => status'[x] # "Unstarted"
        /\ status'[x] = "Unstarted" => status[x] = "Unstarted"
        /\ status'[x] = "Ready" => status[x] = "Ready" \/ x \in W
    BY <2>1 DEF StatusAfter
  <2>3. ASSUME InEnter(x)
        PROVE  LET k == call[x].lock
               IN  /\ k \in Locks
                   /\ owner'[k] = x \/ x \in Elems(requests'[k])
                   /\ x \in ready \/ status[x] = "Ready" \/ x \in W => owner'[k] = x
    <3>1. x \notin J
      BY <1>0, <2>3 DEF ThreadInv, InEnter, Freed, Satisfiable
    <3>2. \A l \in L : owner[l] # x
      BY <1>2 DEF Owned
    <3>3. \A l \in Locks : x \in Elems(Served(L)[l]) => x \in Elems(requests'[l])
      <4>1. Served(L) \in [Locks -> Seq(Threads)]
        BY ServedType DEF TypeOK
      <4> QED
        BY <1>2, <4>1, WithoutRequestLemma DEF Passivate
    <3>4. ChangeOwner(L)
      BY DEF Passivate
    <3> HIDE DEF L, J
    <3> QED
      BY <1>0, <2>3, <3>1, <3>2, <3>3, <3>4, HandOver
  <2> HIDE DEF W, J, L
  <2> QED
    BY <1>0, <2>1, <2>2, <2>3 DEF ThreadInv, InEnter
<1> QED
  BY <1>1, <1>2

(* Every step preserves the invariant.                                     *)
LEMMA EnterStep == TypeOK /\ EnterInv /\ [Next]_vars => EnterInv'
<1> SUFFICES ASSUME TypeOK, EnterInv, [Next]_vars PROVE EnterInv'
  OBVIOUS
<1> USE DEF vars, listVars, threadVars, waitVars, lockVars
<1>0. /\ CurrentInv
      /\ \A x \in Threads : ThreadInv(x)
      /\ NoThread \notin Threads
  BY ConstantsAssumption DEF EnterInv
<1>1. CASE UNCHANGED vars
  BY <1>0, <1>1 DEF EnterInv, CurrentInv, ThreadInv, InEnter
<1>2. ASSUME NEW t \in Threads, Engine(t) PROVE EnterInv'
  <2>1. CASE Dispatch(t)
    <3>1. CurrentInv'
      BY <2>1 DEF Dispatch, CurrentInv, NoCall, TypeOK
    <3>2. ASSUME NEW x \in Threads PROVE ThreadInv(x)'
      BY <1>0, <2>1 DEF Dispatch, ThreadInv, InEnter, NoCall, TypeOK
    <3> QED
      BY <3>1, <3>2 DEF EnterInv
  <2>2. CASE WaitTimeout(t)
    <3>1. CurrentInv'
      BY <1>0, <2>2 DEF WaitTimeout, CurrentInv, TypeOK
    <3>2. ASSUME NEW x \in Threads PROVE ThreadInv(x)'
      <4>1. wait[t] # NoWait
        BY <2>2 DEF WaitTimeout, NoWait
      <4>2. CASE x = t
        BY <1>0, <2>2, <4>1, <4>2 DEF WaitTimeout, PutReady, WaitsAfter, ThreadInv, InEnter, TypeOK
      <4>3. CASE x # t
        BY <1>0, <2>2, <4>3 DEF WaitTimeout, PutReady, WaitsAfter, ThreadInv, InEnter, TypeOK
      <4> QED
        BY <4>2, <4>3
    <3> QED
      BY <3>1, <3>2 DEF EnterInv
  <2>3. CASE SleepTimeout(t)
    <3>1. CurrentInv'
      BY <1>0, <2>3 DEF SleepTimeout, CurrentInv, TypeOK
    <3>2. ASSUME NEW x \in Threads PROVE ThreadInv(x)'
      BY <1>0, <2>3 DEF SleepTimeout, PutReady, WaitsAfter, ThreadInv, InEnter, TypeOK
    <3> QED
      BY <3>1, <3>2 DEF EnterInv
  <2>4. CASE ReapDead(t)
    BY <2>4, EnterPassivate DEF ReapDead
  <2> QED
    BY <1>2, <2>1, <2>2, <2>3, <2>4 DEF Engine
<1>3. ASSUME NEW t \in Threads, MonitorCall(t) PROVE EnterInv'
  <2> PICK l \in Locks : \/ EnterFree(t, l)
                         \/ EnterAgain(t, l)
                         \/ EnterBlocked(t, l)
                         \/ ExitInner(t, l)
                         \/ ExitLast(t, l)
    BY <1>3 DEF MonitorCall
  <2>1. CASE EnterFree(t, l)
    <3>1. CurrentInv'
      BY <1>0, <2>1 DEF EnterFree, CurrentInv
    <3>2. ASSUME NEW x \in Threads PROVE ThreadInv(x)'
      BY <1>0, <2>1 DEF EnterFree, ThreadInv, InEnter, TypeOK
    <3> QED
      BY <3>1, <3>2 DEF EnterInv
  <2>2. CASE EnterAgain(t, l) \/ ExitInner(t, l)
    <3>1. CurrentInv'
      BY <1>0, <2>2 DEF EnterAgain, ExitInner, CurrentInv
    <3>2. ASSUME NEW x \in Threads PROVE ThreadInv(x)'
      BY <1>0, <2>2 DEF EnterAgain, ExitInner, ThreadInv, InEnter
    <3> QED
      BY <3>1, <3>2 DEF EnterInv
  <2>3. CASE EnterBlocked(t, l)
    <3>1. CurrentInv'
      BY <2>3 DEF EnterBlocked, Block, CurrentInv
    <3>2. ASSUME NEW x \in Threads PROVE ThreadInv(x)'
      <4>1. \A k \in Locks : x \in Elems(requests[k]) => x \in Elems(requests'[k])
        BY <2>3, AppendLemma DEF EnterBlocked, TypeOK
      <4>2. t \in Elems(requests'[l])
        BY <2>3, AppendLemma DEF EnterBlocked, TypeOK
      <4>3. CASE x = t
        BY <1>0, <2>3, <4>2, <4>3 DEF EnterBlocked, Block, CurrentInv, ThreadInv, InEnter, TypeOK
      <4>4. CASE x # t
        BY <1>0, <2>3, <4>1, <4>4 DEF EnterBlocked, Block, ThreadInv, InEnter, TypeOK
      <4> QED
        BY <4>3, <4>4
    <3> QED
      BY <3>1, <3>2 DEF EnterInv
  <2>4. CASE ExitLast(t, l)
    <3>1. CurrentInv'
      BY <1>0, <2>4 DEF ExitLast, PutReady, CurrentInv
    <3>2. ASSUME NEW x \in Threads PROVE ThreadInv(x)'
      <4> DEFINE W == WokenHeirs({l})
      <4>1. /\ status'[x] = StatusAfter({l}, {})[x]
            /\ x \in ready' => x \in ready \/ x \in W \ suspended
            /\ x \in waiting' => x \in waiting \/ x \in W
            /\ wait'[x] = IF x \in W \ suspended THEN NoWait ELSE wait[x]
            /\ x \in sleeping' => x \in sleeping /\ x \notin W \ suspended
            /\ UNCHANGED <<call, raised, dead>>
        BY <2>4 DEF ExitLast, PutReady, WaitsAfter
      <4>2. /\ x \in W => status'[x] # "Unstarted"
            /\ status'[x] = "Unstarted" => status[x] = "Unstarted"
            /\ status'[x] = "Ready" => status[x] = "Ready" \/ x \in W
        BY <4>1 DEF StatusAfter
      <4>3. ASSUME InEnter(x)
            PROVE  LET k == call[x].lock
                   IN  /\ k \in Locks
                       /\ owner'[k] = x \/ x \in Elems(requests'[k])
                       /\ x \in ready \/ status[x] = "Ready" \/ x \in W => owner'[k] = x
        <5>1. \A k \in {l} : owner[k] # x
          BY <1>0, <2>4, <4>3 DEF ExitLast, CurrentInv, InEnter
        <5>2. ChangeOwner({l}) /\ requests' = Served({l})
          BY <2>4 DEF ExitLast
        <5> QED
          BY <1>0, <4>3, <5>1, <5>2, HandOver
      <4> HIDE DEF W
      <4> QED
        BY <1>0, <4>1, <4>2, <4>3 DEF ThreadInv, InEnter
    <3> QED
      BY <3>1, <3>2 DEF EnterInv
  <2> QED
    BY <2>1, <2>2, <2>3, <2>4
<1>4. ASSUME NEW t \in Threads, WaitCall(t) PROVE EnterInv'
  <2>1. ASSUME NEW h \in Handles, Set(t, h) PROVE EnterInv'
    <3> DEFINE W == Freed(h)
    <3>1. CurrentInv'
      BY <1>0, <2>1 DEF Set, PutReady, CurrentInv
    <3>2. ASSUME NEW x \in Threads PROVE ThreadInv(x)'
      <4>1. /\ status'[x] = IF x \in W THEN "Ready" ELSE status[x]
            /\ x \in ready' => x \in ready \/ x \in W \ suspended
            /\ x \in waiting' => x \in waiting \/ x \in W
            /\ wait'[x] = IF x \in W \ suspended THEN NoWait ELSE wait[x]
            /\ x \in sleeping' => x \in sleeping /\ x \notin W
            /\ UNCHANGED <<call, raised, dead, owner, requests>>
        BY <2>1 DEF Set, PutReady, WaitsAfter, StatusAfter, Heirs, WokenHeirs
      <4>2. InEnter(x) => x \notin W
        BY <1>0 DEF InEnter, ThreadInv, Freed, Satisfiable
      <4> HIDE DEF W
      <4> QED
        BY <1>0, <4>1, <4>2 DEF ThreadInv, InEnter
    <3> QED
      BY <3>1, <3>2 DEF EnterInv
  <2>2. ASSUME NEW h \in Handles, SetHangs(t, h) \/ Reset(t, h) PROVE EnterInv'
    BY <1>0, <2>2 DEF SetHangs, Reset, EnterInv, CurrentInv, ThreadInv, InEnter
  <2>3. ASSUME NEW w \in Waits, WaitSignaled(t, w) PROVE EnterInv'
    BY <1>0, <2>3 DEF WaitSignaled, EnterInv, CurrentInv, ThreadInv, InEnter
  <2>4. ASSUME NEW w \in Waits, WaitBlocked(t, w) PROVE EnterInv'
    <3>1. CurrentInv'
      BY <2>4 DEF WaitBlocked, Block, CurrentInv
    <3>2. ASSUME NEW x \in Threads PROVE ThreadInv(x)'
      BY <1>0, <2>4 DEF WaitBlocked, Block, CurrentInv, ThreadInv, InEnter, TypeOK
    <3> QED
      BY <3>1, <3>2 DEF EnterInv
  <2>5. ASSUME NEW timed \in BOOLEAN, Sleep(t, timed) PROVE EnterInv'
    <3>1. CurrentInv'
      BY <2>5 DEF Sleep, Block, CurrentInv
    <3>2. ASSUME NEW x \in Threads PROVE ThreadInv(x)'
      BY <1>0, <2>5 DEF Sleep, Block, CurrentInv, ThreadInv, InEnter, TypeOK
    <3> QED
      BY <3>1, <3>2 DEF EnterInv
  <2> QED
    BY <1>4, <2>1, <2>2, <2>3, <2>4, <2>5 DEF WaitCall
<1>5. ASSUME NEW t \in Threads, ThreadCall(t) PROVE EnterInv'
  <2>1. CASE EndQuantum(t)
    <3>1. CurrentInv'
      BY <2>1 DEF EndQuantum, CurrentInv
    <3>2. ASSUME NEW x \in Threads PROVE ThreadInv(x)'
      <4>1. status[t] # "Unstarted"
        BY <1>0, <2>1 DEF EndQuantum, CurrentInv, ThreadInv
      <4> QED
        BY <1>0, <2>1, <4>1 DEF EndQuantum, ThreadInv, InEnter
    <3> QED
      BY <3>1, <3>2 DEF EnterInv
  <2>5. CASE ExitHangs(t) \/ ExitCorrupts(t)
    BY <1>0, <2>5 DEF ExitHangs, ExitCorrupts, EnterInv, CurrentInv, ThreadInv, InEnter
  <2>2. CASE SuspendSelf(t)
    <3>1. CurrentInv'
      BY <2>2 DEF SuspendSelf, CurrentInv
    <3>2. ASSUME NEW x \in Threads PROVE ThreadInv(x)'
      BY <1>0, <2>2 DEF SuspendSelf, CurrentInv, ThreadInv, InEnter, TypeOK
    <3> QED
      BY <3>1, <3>2 DEF EnterInv
  <2>3. CASE ThreadExit(t)
    <3>1. t \in ready
      BY <1>0, <2>3 DEF ThreadExit, CurrentInv
    <3> QED
      BY <2>3, <3>1, EnterPassivate DEF ThreadExit
  <2>4. ASSUME NEW u \in Threads,
               Start(t, u) \/ Suspend(t, u) \/ Resume(t, u) \/ Abort(t, u)
        PROVE  EnterInv'
    <3>1. CurrentInv'
      BY <1>0, <2>4 DEF Start, Suspend, Resume, Abort, PutReady, CurrentInv
    <3>2. ASSUME NEW x \in Threads PROVE ThreadInv(x)'
      <4>1. CASE Start(t, u)
        BY <1>0, <4>1 DEF Start, ThreadInv, InEnter, TypeOK
      <4>2. CASE Suspend(t, u)
        BY <1>0, <4>2 DEF Suspend, Alive, ThreadInv, InEnter, TypeOK
      <4>3. CASE Resume(t, u)
        BY <1>0, <4>3 DEF Resume, Alive, ThreadInv, InEnter, TypeOK
      <4>4. CASE Abort(t, u)
        BY <1>0, <4>4 DEF Abort, PutReady, WaitsAfter, ThreadInv, InEnter, TypeOK
      <4> QED
        BY <2>4, <4>1, <4>2, <4>3, <4>4
    <3> QED
      BY <3>1, <3>2 DEF EnterInv
  <2> QED
    BY <1>5, <2>1, <2>2, <2>3, <2>4, <2>5 DEF ThreadCall
<1> QED
  BY <1>1, <1>2, <1>3, <1>4, <1>5 DEF Next

(* The invariant that carries the argument holds in every reachable state. *)
THEOREM EnterInvariant == Spec => []EnterInv
<1>1. Init => EnterInv
  BY EnterInit
<1>2. TypeOK /\ EnterInv /\ [Next]_vars => EnterInv'
  BY EnterStep
<1> QED
  BY <1>1, <1>2, TypeCorrect, PTL DEF Spec

(* A thread that is about to return from Monitor.Enter owns the lock, for  *)
(* any number of threads and locks and whatever was aborted, suspended,    *)
(* timed out or ended while it was blocked.                                *)
THEOREM EnterOwnsAlways == Spec => []EnterOwns
<1>1. EnterInv /\ TypeOK => EnterOwns
  BY DEF EnterInv, ThreadInv, InEnter, EnterOwns, TypeOK
<1> QED
  BY <1>1, EnterInvariant, TypeCorrect, PTL

=============================================================================
