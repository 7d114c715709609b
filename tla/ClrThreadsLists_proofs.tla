------------------------ MODULE ClrThreadsLists_proofs ------------------------
(***************************************************************************)
(* More about ClrThreads, for any number of threads, locks, events and     *)
(* Aborts: how far its two lists agree with the statuses, that lock        *)
(* requests are accounted for and locks left to live threads, that nobody  *)
(* is blocked without something another thread or the clock can end, up to *)
(* the case of an aborted thread queued for its own lock, and what Set     *)
(* does for the threads that wait.                                         *)
(***************************************************************************)
EXTENDS ClrThreads_proofs

-----------------------------------------------------------------------------
(* Finite sets of bounded size.                                            *)

AtMost(n, S) == IsFiniteSet(S) /\ Cardinality(S) <= n

(* S1 is not larger than S, or misses at least one element of S.           *)
Injects(S1, S) ==
  \E f \in [S1 -> S] : \A p, q \in S1 : f[p] = f[q] => p = q

InjectsLess(S1, S) ==
  \E f \in [S1 -> S], s \in S :
    /\ \A p, q \in S1 : f[p] = f[q] => p = q
    /\ \A p \in S1 : f[p] # s

LEMMA AtMostEmpty ==
  ASSUME NEW n \in Nat
  PROVE  AtMost(n, {})
BY FS_EmptySet DEF AtMost

LEMMA AtMostPositive ==
  ASSUME NEW n \in Nat, NEW S, S # {}, AtMost(n, S)
  PROVE  n > 0
<1>1. Cardinality(S) \in Nat /\ Cardinality(S) # 0
  BY FS_CardinalityType, FS_EmptySet DEF AtMost
<1> QED
  BY <1>1 DEF AtMost

LEMMA AtMostUp ==
  ASSUME NEW n \in Nat, NEW m \in Nat, n <= m, NEW S, AtMost(n, S)
  PROVE  AtMost(m, S)
<1>1. Cardinality(S) \in Nat
  BY FS_CardinalityType DEF AtMost
<1> QED
  BY <1>1 DEF AtMost

LEMMA AtMostSubset ==
  ASSUME NEW n \in Nat, NEW S, NEW S1 \in SUBSET S, AtMost(n, S)
  PROVE  AtMost(n, S1)
<1>1. IsFiniteSet(S1) /\ Cardinality(S1) <= Cardinality(S)
  BY FS_Subset DEF AtMost
<1>2. Cardinality(S) \in Nat /\ Cardinality(S1) \in Nat
  BY <1>1, FS_CardinalityType DEF AtMost
<1> QED
  BY <1>1, <1>2 DEF AtMost

LEMMA AtMostInjects ==
  ASSUME NEW n \in Nat, NEW S, NEW S1, Injects(S1, S), AtMost(n, S)
  PROVE  AtMost(n, S1)
<1>1. PICK f \in [S1 -> S] : \A p, q \in S1 : f[p] = f[q] => p = q
  BY DEF Injects
<1>2. f \in Injection(S1, S)
  BY <1>1 DEF Injection, IsInjective
<1>3. IsFiniteSet(S1) /\ Cardinality(S1) <= Cardinality(S)
  BY <1>2, FS_Injection DEF AtMost
<1>4. Cardinality(S) \in Nat /\ Cardinality(S1) \in Nat
  BY <1>3, FS_CardinalityType DEF AtMost
<1> QED
  BY <1>3, <1>4 DEF AtMost

LEMMA AtMostLess ==
  ASSUME NEW n \in Nat, NEW S, NEW S1, InjectsLess(S1, S), AtMost(n, S)
  PROVE  n - 1 \in Nat /\ AtMost(n - 1, S1)
<1>1. PICK f \in [S1 -> S], s \in S :
        /\ \A p, q \in S1 : f[p] = f[q] => p = q
        /\ \A p \in S1 : f[p] # s
  BY DEF InjectsLess
<1> DEFINE T == S \ {s}
<1>2. f \in [S1 -> T]
  BY <1>1
<1>3. /\ IsFiniteSet(T) /\ Cardinality(T) = Cardinality(S) - 1
      /\ Cardinality(S) \in Nat /\ Cardinality(T) \in Nat
  BY FS_RemoveElement, FS_CardinalityType DEF AtMost
<1> HIDE DEF T
<1>4. n - 1 \in Nat /\ AtMost(n - 1, T)
  BY <1>3 DEF AtMost
<1>5. Injects(S1, T)
  BY <1>1, <1>2 DEF Injects
<1> QED
  BY <1>4, <1>5, AtMostInjects

LEMMA AtMostAdd ==
  ASSUME NEW n \in Nat, NEW S, NEW S1, NEW s, S1 \subseteq S \cup {s}, AtMost(n, S)
  PROVE  AtMost(n + 1, S1)
<1>1. /\ IsFiniteSet(S \cup {s})
      /\ Cardinality(S \cup {s}) \in {Cardinality(S), Cardinality(S) + 1}
      /\ Cardinality(S) \in Nat
  BY FS_AddElement, FS_CardinalityType DEF AtMost
<1>2. AtMost(n + 1, S \cup {s})
  BY <1>1 DEF AtMost
<1> QED
  BY <1>2, AtMostSubset

-----------------------------------------------------------------------------
(* Queues of requests that lose elements.                                  *)

(* The places of t in the queues Q.                                        *)
Places(Q, t) ==
  {p \in Locks \X Nat : p[2] \in DOMAIN Q[p[1]] /\ Q[p[1]][p[2]] = t}

LEMMA QueuedForPlaces ==
  ASSUME requests \in [Locks -> Seq(Threads)], NEW t
  PROVE  QueuedFor(t) = Places(requests, t)
<1>1. \A l \in Locks : DOMAIN requests[l] \subseteq Nat
  OBVIOUS
<1> QED
  BY <1>1 DEF QueuedFor, Places

(* r is q without its i-th element.                                        *)
IsCut(q, i, r) ==
  /\ r \in Seq(Threads)
  /\ i \in 1..Len(q)
  /\ Len(r) = Len(q) - 1
  /\ \A k \in 1..(Len(q) - 1) : r[k] = q[IF k < i THEN k ELSE k + 1]

(* R are the queues Q, where c[l] is the place cut from that of l, or 0.   *)
Cuts(Q, c, R) ==
  /\ Q \in [Locks -> Seq(Threads)]
  /\ R \in [Locks -> Seq(Threads)]
  /\ \A l \in Locks : IF c[l] = 0 THEN R[l] = Q[l] ELSE IsCut(Q[l], c[l], R[l])

Back(c, l, k) == IF c[l] = 0 \/ k < c[l] THEN k ELSE k + 1

(* Where an element of R was in Q.                                         *)
LEMMA BackLemma ==
  ASSUME NEW Q, NEW c, NEW R, Cuts(Q, c, R), NEW l \in Locks, NEW k \in DOMAIN R[l]
  PROVE  /\ k \in Nat
         /\ Back(c, l, k) \in DOMAIN Q[l] /\ Back(c, l, k) \in Nat
         /\ Q[l][Back(c, l, k)] = R[l][k]
         /\ Back(c, l, k) # c[l]
         /\ c[l] # 0 => c[l] \in Nat /\ c[l] \in DOMAIN Q[l]
<1>1. /\ Q[l] \in Seq(Threads) /\ R[l] \in Seq(Threads)
      /\ DOMAIN Q[l] = 1..Len(Q[l]) /\ DOMAIN R[l] = 1..Len(R[l])
      /\ Len(Q[l]) \in Nat /\ Len(R[l]) \in Nat
  BY DEF Cuts
<1>2. k \in Nat /\ k > 0
  BY <1>1
<1>3. CASE c[l] = 0
  BY <1>1, <1>2, <1>3 DEF Cuts, Back
<1>4. CASE c[l] # 0
  <2>1. IsCut(Q[l], c[l], R[l])
    BY <1>4 DEF Cuts
  <2>2. /\ c[l] \in 1..Len(Q[l]) /\ k \in 1..(Len(Q[l]) - 1)
        /\ R[l][k] = Q[l][IF k < c[l] THEN k ELSE k + 1]
    BY <1>1, <2>1 DEF IsCut
  <2>3. Back(c, l, k) = IF k < c[l] THEN k ELSE k + 1
    BY <1>4 DEF Back
  <2> QED
    BY <1>1, <1>2, <2>2, <2>3
<1> QED
  BY <1>3, <1>4

LEMMA CutPlaces ==
  ASSUME NEW Q, NEW c, NEW R, Cuts(Q, c, R), NEW t
  PROVE  /\ Injects(Places(R, t), Places(Q, t))
         /\ (\E l \in Locks : c[l] # 0 /\ Q[l][c[l]] = t)
              => InjectsLess(Places(R, t), Places(Q, t))
<1> DEFINE S1 == Places(R, t)
           S == Places(Q, t)
           f == [p \in S1 |-> <<p[1], Back(c, p[1], p[2])>>]
<1>1. ASSUME NEW p \in S1
      PROVE  /\ p[1] \in Locks /\ p[2] \in Nat /\ p = <<p[1], p[2]>>
             /\ f[p] \in S /\ f[p] = <<p[1], Back(c, p[1], p[2])>>
             /\ Back(c, p[1], p[2]) # c[p[1]]
             /\ Back(c, p[1], p[2]) = IF c[p[1]] = 0 \/ p[2] < c[p[1]] THEN p[2] ELSE p[2] + 1
             /\ c[p[1]] # 0 => c[p[1]] \in Nat
  <2>1. p[1] \in Locks /\ p[2] \in Nat /\ p = <<p[1], p[2]>>
        /\ p[2] \in DOMAIN R[p[1]] /\ R[p[1]][p[2]] = t
    BY DEF Places
  <2>2. /\ Back(c, p[1], p[2]) \in DOMAIN Q[p[1]] /\ Back(c, p[1], p[2]) \in Nat
        /\ Q[p[1]][Back(c, p[1], p[2])] = t
        /\ Back(c, p[1], p[2]) # c[p[1]]
        /\ c[p[1]] # 0 => c[p[1]] \in Nat
    BY <2>1, BackLemma
  <2>3. f[p] = <<p[1], Back(c, p[1], p[2])>>
    OBVIOUS
  <2>4. f[p] \in S
    BY <2>1, <2>2, <2>3 DEF Places
  <2> QED
    BY <2>1, <2>2, <2>3, <2>4 DEF Back
<1>2. f \in [S1 -> S]
  <2>1. \A p \in S1 : f[p] \in S
    BY <1>1
  <2> HIDE DEF S1, S
  <2> QED
    BY <2>1
<1> HIDE DEF f, S1, S
<1>3. ASSUME NEW p \in S1, NEW q \in S1, f[p] = f[q]
      PROVE  p = q
  <2>1. p[1] = q[1] /\ Back(c, p[1], p[2]) = Back(c, q[1], q[2])
    BY <1>1, <1>3
  <2>2. p[2] = q[2]
    BY <1>1, <2>1
  <2> QED
    BY <1>1, <2>1, <2>2
<1>4. Injects(S1, S)
  BY <1>2, <1>3 DEF Injects
<1>5. ASSUME NEW l \in Locks, c[l] # 0, Q[l][c[l]] = t
      PROVE  InjectsLess(S1, S)
  <2>1. <<l, c[l]>> \in S
    <3>1. IsCut(Q[l], c[l], R[l]) /\ Q[l] \in Seq(Threads)
      BY <1>5 DEF Cuts
    <3>2. c[l] \in Nat /\ c[l] \in DOMAIN Q[l]
      BY <3>1 DEF IsCut
    <3> QED
      BY <1>5, <3>2 DEF Places, S
  <2>2. \A p \in S1 : f[p] # <<l, c[l]>>
    BY <1>1
  <2> QED
    BY <1>2, <1>3, <2>1, <2>2 DEF InjectsLess
<1> QED
  BY <1>4, <1>5 DEF S1, S

-----------------------------------------------------------------------------
(* The order of the waiting list.                                          *)

(* A is a strict order in which every part of V that is not empty has a    *)
(* first element.                                                          *)
OrderOn(V, A) ==
  /\ \A u, v : <<u, v>> \in A => <<v, u>> \notin A
  /\ \A S \in SUBSET V : S # {} => \E u \in S : \A v \in S : u = v \/ <<u, v>> \in A

(* Unlinking the threads of out and linking those of back at the back      *)
(* leaves such an order, if back is a part of the list or a single thread. *)
LEMMA RelinkOrder ==
  ASSUME OrderOn(waiting, ahead), NEW out, NEW back, out \cap back = {},
         back \subseteq waiting \/ \E u : back = {u}
  PROVE  OrderOn((waiting \ out) \cup back, Relink(out, back))
<1> DEFINE stay == waiting \ (out \cup back)
           A == Relink(out, back)
<1>1. \A u, v : <<u, v>> \in A <=>
        \/ <<u, v>> \in ahead /\ u \in stay /\ v \in stay
        \/ u \in stay /\ v \in back
        \/ <<u, v>> \in ahead /\ u \in back /\ v \in back
  BY DEF Relink
<1>2. \A u : u \notin stay \/ u \notin back
  OBVIOUS
<1>3. (waiting \ out) \cup back = stay \cup back
  OBVIOUS
<1>4. stay \subseteq waiting
  OBVIOUS
<1> HIDE DEF stay, A
<1>5. \A u, v : <<u, v>> \in A => <<v, u>> \notin A
  BY <1>1, <1>2 DEF OrderOn
<1>6. ASSUME NEW S \in SUBSET (stay \cup back), S # {}
      PROVE  \E u \in S : \A v \in S : u = v \/ <<u, v>> \in A
  <2>1. CASE S \cap stay # {}
    <3>1. PICK u \in S \cap stay : \A v \in S \cap stay : u = v \/ <<u, v>> \in ahead
      <4>1. S \cap stay \in SUBSET waiting
        BY <1>4
      <4> QED
        BY <2>1, <4>1 DEF OrderOn
    <3>2. \A v \in S : u = v \/ <<u, v>> \in A
      BY <1>1, <3>1, <1>6
    <3> QED
      BY <3>1, <3>2
  <2>2. CASE S \cap stay = {} /\ back \subseteq waiting
    <3>1. PICK u \in S : \A v \in S : u = v \/ <<u, v>> \in ahead
      <4>1. S \in SUBSET waiting
        BY <2>2
      <4> QED
        BY <1>6, <4>1 DEF OrderOn
    <3>2. \A v \in S : u = v \/ <<u, v>> \in A
      BY <1>1, <3>1, <1>6, <2>2
    <3> QED
      BY <3>1, <3>2
  <2>3. CASE S \cap stay = {} /\ \E u : back = {u}
    BY <1>6, <2>3
  <2> QED
    BY <2>1, <2>2, <2>3
<1> QED
  BY <1>3, <1>5, <1>6 DEF OrderOn, A

(* Such an order tells any two threads of the list apart.                  *)
LEMMA OrderTotal ==
  ASSUME NEW V, NEW A, OrderOn(V, A), NEW u \in V, NEW v \in V, u # v
  PROVE  (<<u, v>> \in A) # (<<v, u>> \in A)
<1>1. {u, v} \in SUBSET V /\ {u, v} # {}
  OBVIOUS
<1>2. PICK x \in {u, v} : \A y \in {u, v} : x = y \/ <<x, y>> \in A
  BY <1>1 DEF OrderOn
<1>3. <<u, v>> \in A \/ <<v, u>> \in A
  BY <1>2
<1>4. ~(<<u, v>> \in A /\ <<v, u>> \in A)
  BY DEF OrderOn
<1> QED
  BY <1>3, <1>4

-----------------------------------------------------------------------------
(* What serving locks and deleting requests do to the queues.              *)

(* A thread is queued for some lock exactly when it has a place.           *)
LEMMA PlacesPending ==
  ASSUME NEW Q \in [Locks -> Seq(Threads)], NEW x
  PROVE  Pending(Q, x) <=> Places(Q, x) # {}
<1>1. \A l \in Locks : DOMAIN Q[l] \subseteq Nat
  OBVIOUS
<1>2. ASSUME NEW l \in Locks, NEW i \in DOMAIN Q[l], Q[l][i] = x
      PROVE  <<l, i>> \in Places(Q, x)
  BY <1>1, <1>2 DEF Places
<1>3. ASSUME NEW p \in Places(Q, x) PROVE Pending(Q, x)
  <2>1. p[1] \in Locks /\ x \in Elems(Q[p[1]])
    BY DEF Places, Elems
  <2> QED
    BY <2>1 DEF Pending
<1>4. ASSUME Pending(Q, x) PROVE Places(Q, x) # {}
  <2>1. PICK l \in Locks : x \in Elems(Q[l])
    BY <1>4 DEF Pending
  <2>2. PICK i \in DOMAIN Q[l] : Q[l][i] = x
    BY <2>1 DEF Elems
  <2> QED
    BY <1>2, <2>2
<1> QED
  BY <1>3, <1>4

(* ChangeOwner takes the first request of the queues of L.                 *)
LEMMA ServedCuts ==
  ASSUME NEW L, requests \in [Locks -> Seq(Threads)]
  PROVE  Cuts(requests,
              [l \in Locks |-> IF l \in L /\ requests[l] # <<>> THEN 1 ELSE 0],
              Served(L))
<1> DEFINE c == [l \in Locks |-> IF l \in L /\ requests[l] # <<>> THEN 1 ELSE 0]
<1>1. Served(L) \in [Locks -> Seq(Threads)]
  BY ServedType
<1>2. ASSUME NEW l \in Locks
      PROVE  IF c[l] = 0 THEN Served(L)[l] = requests[l]
                         ELSE IsCut(requests[l], c[l], Served(L)[l])
  <2>1. CASE ~(l \in L /\ requests[l] # <<>>)
    BY <2>1 DEF Served
  <2>2. CASE l \in L /\ requests[l] # <<>>
    <3>1. Served(L)[l] = Tail(requests[l]) /\ c[l] = 1
      BY <2>2 DEF Served
    <3>2. requests[l] \in Seq(Threads)
      OBVIOUS
    <3>3. /\ Tail(requests[l]) \in Seq(Threads)
          /\ Len(Tail(requests[l])) = Len(requests[l]) - 1
          /\ \A k \in 1..(Len(requests[l]) - 1) : Tail(requests[l])[k] = requests[l][k + 1]
          /\ 1 \in 1..Len(requests[l])
      BY <2>2, <3>2
    <3>4. \A k \in 1..(Len(requests[l]) - 1) : ~(k < 1)
      OBVIOUS
    <3>5. IsCut(requests[l], 1, Tail(requests[l]))
      BY <3>3, <3>4 DEF IsCut
    <3> QED
      BY <3>1, <3>5
  <2> QED
    BY <2>1, <2>2
<1> QED
  BY <1>1, <1>2 DEF Cuts

(* Where an element of q without the requests of t was in q.               *)
Kept(q, t, k) == Place({i \in DOMAIN q : q[i] # t}, k)

LEMMA KeptLemma ==
  ASSUME NEW q \in Seq(Threads), NEW t
  PROVE  /\ \A k \in DOMAIN WithoutRequest(q, t) :
              /\ k \in Nat /\ Kept(q, t, k) \in Nat /\ Kept(q, t, k) \in DOMAIN q
              /\ q[Kept(q, t, k)] = WithoutRequest(q, t)[k]
              /\ WithoutRequest(q, t)[k] # t
         /\ \A k, m \in DOMAIN WithoutRequest(q, t) :
              Kept(q, t, k) = Kept(q, t, m) => k = m
<1> DEFINE kept == {i \in DOMAIN q : q[i] # t}
           c == Cardinality(kept)
           r == WithoutRequest(q, t)
<1>0. Len(q) \in Nat /\ DOMAIN q = 1..Len(q)
  OBVIOUS
<1>1. kept \in SUBSET (1..Len(q))
  BY <1>0
<1>2. r = [k \in 1..c |-> q[Place(kept, k)]]
  BY DEF WithoutRequest
<1>3. \A k : Kept(q, t, k) = Place(kept, k)
  BY DEF Kept
<1>4. \A i \in kept : i \in DOMAIN q /\ i \in Nat /\ q[i] # t
  BY <1>0
<1> HIDE DEF kept, r
<1>5. /\ c \in Nat
      /\ \A k \in 1..c : Place(kept, k) \in kept
      /\ \A k, m \in 1..c : Place(kept, k) = Place(kept, m) => k = m
  BY <1>0, <1>1, PlaceLemma
<1>6. DOMAIN r = 1..c /\ \A k \in 1..c : k \in Nat /\ r[k] = q[Place(kept, k)]
  BY <1>2, <1>5
<1> HIDE DEF c
<1>7. ASSUME NEW k \in DOMAIN r
      PROVE  /\ k \in Nat /\ Kept(q, t, k) \in Nat /\ Kept(q, t, k) \in DOMAIN q
             /\ q[Kept(q, t, k)] = r[k] /\ r[k] # t
  BY <1>3, <1>4, <1>5, <1>6
<1>8. \A k, m \in DOMAIN r : Kept(q, t, k) = Kept(q, t, m) => k = m
  BY <1>3, <1>5, <1>6
<1> QED
  BY <1>7, <1>8 DEF r

LEMMA NoneKept ==
  ASSUME NEW q \in Seq(Threads), q = <<>>, NEW t
  PROVE  WithoutRequest(q, t) = <<>>
<1> DEFINE r == WithoutRequest(q, t)
<1>1. DOMAIN q = {}
  OBVIOUS
<1>2. DOMAIN r = {}
  BY <1>1, KeptLemma
<1>3. r \in Seq(Threads)
  BY WithoutRequestLemma
<1> HIDE DEF r
<1>4. r = <<>>
  BY <1>2, <1>3
<1> QED
  BY <1>4 DEF r

(* The queues Q without the requests of t: nobody else loses a request.    *)
Deleted(Q, t) == [l \in Locks |-> WithoutRequest(Q[l], t)]

LEMMA DeletedFacts ==
  ASSUME NEW Q \in [Locks -> Seq(Threads)], NEW t \in Threads, NEW x \in Threads
  PROVE  /\ Injects(Places(Deleted(Q, t), x), Places(Q, x))
         /\ \A l \in Locks : x \in Elems(Deleted(Q, t)[l]) => x \in Elems(Q[l])
         /\ x # t => \A l \in Locks : x \in Elems(Q[l]) => x \in Elems(Deleted(Q, t)[l])
         /\ \A l \in Locks : t \notin Elems(Deleted(Q, t)[l])
<1> DEFINE R == Deleted(Q, t)
           S1 == Places(R, x)
           S == Places(Q, x)
           f == [p \in S1 |-> <<p[1], Kept(Q[p[1]], t, p[2])>>]
<1>1. \A l \in Locks : R[l] = WithoutRequest(Q[l], t) /\ Q[l] \in Seq(Threads)
  BY DEF Deleted
<1> HIDE DEF R
<1>2. ASSUME NEW l \in Locks, NEW k \in DOMAIN R[l]
      PROVE  /\ k \in Nat /\ Kept(Q[l], t, k) \in Nat /\ Kept(Q[l], t, k) \in DOMAIN Q[l]
             /\ Q[l][Kept(Q[l], t, k)] = R[l][k] /\ R[l][k] # t
  BY <1>1, KeptLemma
<1>3. ASSUME NEW l \in Locks, NEW k \in DOMAIN R[l], NEW m \in DOMAIN R[l],
             Kept(Q[l], t, k) = Kept(Q[l], t, m)
      PROVE  k = m
  BY <1>1, <1>3, KeptLemma
<1>4. ASSUME NEW p \in S1
      PROVE  /\ p[1] \in Locks /\ p[2] \in DOMAIN R[p[1]] /\ p = <<p[1], p[2]>>
             /\ f[p] \in S /\ f[p] = <<p[1], Kept(Q[p[1]], t, p[2])>>
  <2>1. p[1] \in Locks /\ p[2] \in DOMAIN R[p[1]] /\ p = <<p[1], p[2]>> /\ R[p[1]][p[2]] = x
    BY DEF Places
  <2>2. f[p] = <<p[1], Kept(Q[p[1]], t, p[2])>>
    OBVIOUS
  <2>3. f[p] \in S
    BY <1>2, <2>1, <2>2 DEF Places
  <2> QED
    BY <2>1, <2>2, <2>3
<1>5. f \in [S1 -> S]
  <2>1. \A p \in S1 : f[p] \in S
    BY <1>4
  <2> HIDE DEF S1, S
  <2> QED
    BY <2>1
<1> HIDE DEF f, S1, S
<1>6. ASSUME NEW p \in S1, NEW q \in S1, f[p] = f[q] PROVE p = q
  <2>1. p[1] = q[1] /\ Kept(Q[p[1]], t, p[2]) = Kept(Q[q[1]], t, q[2])
    BY <1>4, <1>6
  <2>2. p[2] = q[2]
    BY <1>3, <1>4, <2>1
  <2> QED
    BY <1>4, <2>1, <2>2
<1>7. Injects(S1, S)
  BY <1>5, <1>6 DEF Injects
<1>8. \A l \in Locks : x \in Elems(R[l]) => x \in Elems(Q[l])
  BY <1>2 DEF Elems
<1>9. x # t => \A l \in Locks : x \in Elems(Q[l]) => x \in Elems(R[l])
  BY <1>1, WithoutRequestLemma
<1>10. \A l \in Locks : t \notin Elems(R[l])
  BY <1>2 DEF Elems
<1> QED
  BY <1>7, <1>8, <1>9, <1>10 DEF R, S1, S

-----------------------------------------------------------------------------
(* The inductive invariant.                                                *)

Blocked(t) == status[t] = "Waiting" /\ InEnter(t)

(* How often t may be queued: for the Enter it is blocked in, and for the  *)
(* ones an Abort interrupted.                                              *)
Bound(t) == aborts[t] + (IF Blocked(t) THEN 1 ELSE 0)

(* A thread about to return from Enter.                                    *)
Settled(t) == InEnter(t) /\ (t \in ready \/ status[t] = "Ready")

ListInv(t) ==
  /\ t \in ready => t \in Listed /\ t \notin suspended
  /\ t \in waiting <=> t \in Listed /\ t \notin ready
  /\ status[t] = "Ready" /\ t \notin suspended => t \in ready
  /\ t \in ready /\ status[t] = "Waiting" => Tangled(t)
  /\ t \in suspended => Alive(t)

(* Waits and sleeps are those of the call t is blocked in, even when an    *)
(* exception is pending.                                                   *)
CallInv(t) ==
  /\ wait[t] # NoWait => call[t].op = "Wait" /\ Alive(t)
  /\ t \in sleeping => call[t].op = "Sleep"
  /\ t \in dead => status[t] # "Unstarted"

(* Only an Abort leaves t a request that is not the one of the Enter it is *)
(* blocked in, and t does not return from Enter before the last is gone.   *)
RequestInv(t) ==
  /\ Pending(requests, t) => Alive(t) /\ t \notin dead
  /\ AtMost(Bound(t), Places(requests, t))
  /\ SelfQueued(t) => aborts[t] > 0
  /\ Settled(t) => ~Pending(requests, t)

LockInv(l) ==
  /\ owner[l] = NoThread => requests[l] = <<>>
  /\ owner[l] = NoThread <=> recursion[l] = 0
  /\ owner[l] # NoThread => Alive(owner[l]) /\ owner[l] \notin dead

Ordered == OrderOn(waiting, ahead)

Known ==
  /\ TypeOK
  /\ EnterInv
  /\ Ordered
  /\ \A t \in Threads : ListInv(t) /\ CallInv(t) /\ RequestInv(t)
  /\ \A l \in Locks : LockInv(l)

LEMMA BoundType ==
  ASSUME TypeOK, NEW t \in Threads
  PROVE  Bound(t) \in Nat /\ aborts[t] \in Nat
BY ConstantsAssumption DEF Bound, TypeOK

LEMMA BoundTypeNext ==
  ASSUME TypeOK', NEW t \in Threads
  PROVE  Bound(t)' \in Nat /\ aborts'[t] \in Nat
BY ConstantsAssumption DEF Bound, TypeOK

(* A thread of the ready list is not blocked in Enter, even if its status  *)
(* is Waiting.                                                             *)
LEMMA ReadyNotBlocked ==
  ASSUME Known, NEW t \in ready
  PROVE  ~Blocked(t)
<1>1. t \in Threads
  BY DEF Known, TypeOK
<1>2. ListInv(t) /\ RequestInv(t)
  BY <1>1 DEF Known
<1> QED
  BY <1>2 DEF ListInv, RequestInv, Tangled, Settled, Blocked

LEMMA KnownInit == Init => Known
<1> SUFFICES ASSUME Init PROVE Known
  OBVIOUS
<1>1. TypeOK /\ EnterInv
  BY TypeInit, EnterInit
<1>2. Ordered
  BY DEF Init, Ordered, OrderOn
<1>3. ASSUME NEW t \in Threads PROVE ListInv(t) /\ CallInv(t)
  BY DEF Init, ListInv, CallInv, NoCall, Alive, Listed
<1>4. ASSUME NEW t \in Threads PROVE RequestInv(t)
  <2>1. \A l \in Locks : Elems(requests[l]) = {} /\ requests[l] = <<>>
    BY DEF Init, Elems
  <2>2. ~Pending(requests, t) /\ Places(requests, t) = {} /\ ~SelfQueued(t)
    BY <2>1 DEF Pending, Places, Elems, SelfQueued
  <2>3. AtMost(Bound(t), Places(requests, t))
    BY <1>1, <2>2, BoundType, AtMostEmpty
  <2> QED
    BY <2>1, <2>2, <2>3 DEF RequestInv
<1>5. ASSUME NEW l \in Locks PROVE LockInv(l)
  BY DEF Init, LockInv
<1> QED
  BY <1>1, <1>2, <1>3, <1>4, <1>5 DEF Known

(* The heirs of the locks of L: they are alive, their bound leaves room    *)
(* for one request less, and if they have another one, an Abort left it;   *)
(* two Aborts, unless they are blocked in Enter.                           *)
LEMMA HeirFacts ==
  ASSUME Known, NEW L \in SUBSET Locks, NEW x \in Heirs(L)
  PROVE  /\ x \in Threads /\ Alive(x) /\ x \notin dead
         /\ Pending(requests, x)
         /\ Pending(Served(L), x) => aborts[x] > 0 /\ (Blocked(x) \/ aborts[x] > 1)
<1> DEFINE c == [l \in Locks |-> IF l \in L /\ requests[l] # <<>> THEN 1 ELSE 0]
<1>0. requests \in [Locks -> Seq(Threads)]
  BY DEF Known, TypeOK
<1>1. PICK l \in L : x = Heir(l) /\ x # NoThread
  BY DEF Heirs
<1>2. requests[l] # <<>> /\ x = Head(requests[l]) /\ requests[l] \in Seq(Threads)
  BY <1>0, <1>1 DEF Heir
<1>3. x = requests[l][1] /\ 1 \in DOMAIN requests[l] /\ x \in Threads
  BY <1>2, HeadTail
<1>4. Pending(requests, x)
  BY <1>3 DEF Pending, Elems
<1>5. RequestInv(x) /\ Bound(x) \in Nat /\ aborts[x] \in Nat
  BY <1>3, BoundType DEF Known
<1>6. c[l] # 0 /\ requests[l][c[l]] = x
  BY <1>2, <1>3
<1>7. Cuts(requests, c, Served(L))
  BY <1>0, ServedCuts
<1> HIDE DEF c
<1>8. InjectsLess(Places(Served(L), x), Places(requests, x))
  BY <1>6, <1>7, CutPlaces
<1>9. Bound(x) - 1 \in Nat /\ AtMost(Bound(x) - 1, Places(Served(L), x))
  BY <1>5, <1>8, AtMostLess DEF RequestInv
<1>10. ASSUME Pending(Served(L), x)
       PROVE  aborts[x] > 0 /\ (Blocked(x) \/ aborts[x] > 1)
  <2>1. Places(Served(L), x) # {}
    BY <1>0, <1>10, ServedType, PlacesPending
  <2>2. Bound(x) - 1 > 0
    BY <1>9, <2>1, AtMostPositive
  <2> QED
    BY <1>5, <2>2 DEF Bound
<1> QED
  BY <1>3, <1>4, <1>5, <1>10 DEF RequestInv

(* Nobody gets a request when locks are served, and only the heirs lose    *)
(* one.                                                                    *)
LEMMA ServedFacts ==
  ASSUME requests \in [Locks -> Seq(Threads)], NEW L \in SUBSET Locks, NEW x \in Threads
  PROVE  /\ Injects(Places(Served(L), x), Places(requests, x))
         /\ \A l \in Locks : x \in Elems(Served(L)[l]) => x \in Elems(requests[l])
         /\ x \notin Heirs(L) => \A l \in Locks : x \in Elems(requests[l]) => x \in Elems(Served(L)[l])
<1>1. Injects(Places(Served(L), x), Places(requests, x))
  BY ServedCuts, CutPlaces
<1>2. ASSUME NEW l \in Locks, x \in Elems(Served(L)[l]) PROVE x \in Elems(requests[l])
  <2> DEFINE c == [k \in Locks |-> IF k \in L /\ requests[k] # <<>> THEN 1 ELSE 0]
  <2>1. Cuts(requests, c, Served(L))
    BY ServedCuts
  <2> HIDE DEF c
  <2>2. PICK k \in DOMAIN Served(L)[l] : Served(L)[l][k] = x
    BY <1>2 DEF Elems
  <2>3. Back(c, l, k) \in DOMAIN requests[l] /\ requests[l][Back(c, l, k)] = x
    BY <2>1, <2>2, BackLemma
  <2> QED
    BY <2>3 DEF Elems
<1>3. ASSUME NEW l \in Locks, x \notin Heirs(L), x \in Elems(requests[l])
      PROVE  x \in Elems(Served(L)[l])
  BY <1>3, ServedLemma, ConstantsAssumption DEF Heirs
<1> QED
  BY <1>1, <1>2, <1>3

-----------------------------------------------------------------------------
(* What the steps that restart threads have in common.                     *)

(* The heirs ChangeLockRequestCount makes Waiting instead of restarting.   *)
Demoted(L) == Heirs(L) \ WokenHeirs(L)

StatusBy(W, D, x) ==
  IF x \in D THEN "Waiting" ELSE IF x \in W THEN "Ready" ELSE status[x]

(* The threads of D stay queued, and were aborted twice at least if they   *)
(* are left in the ready list.                                             *)
Demotes(W, D) ==
  \A x \in D : /\ x \in Threads /\ Alive(x) /\ Pending(requests', x)
               /\ x \in ready \cup W => aborts[x] > 1

(* The threads of W become Ready, all alive, and are put in their list;    *)
(* those of D become Waiting and stay in theirs.                           *)
Wakes(W, D) ==
  /\ \A x \in W : x \in Threads /\ Alive(x)
  /\ Demotes(W, D)
  /\ W \cap D = {}
  /\ \A x \in Threads : status'[x] = StatusBy(W, D, x)
  /\ PutReady(W)
  /\ wait' = WaitsAfter(W)
  /\ sleeping' \subseteq sleeping
  /\ UNCHANGED <<suspended, dead, call>>

(* The running thread t ends, restarts those of W and demotes those of D.  *)
Ends(t, W, D) ==
  /\ t \in ready
  /\ t \notin W \cup D
  /\ \A x \in W : x \in Threads /\ Alive(x)
  /\ Demotes(W, D)
  /\ \A x \in Threads \ {t} : status'[x] = StatusBy(W, D, x)
  /\ status'[t] = IF Pending(Served(Owned(t)), t) THEN "Ready" ELSE "Terminated"
  /\ ready' = (ready \ {t}) \cup (W \ suspended)
                \cup (IF Pending(Served(Owned(t)), t) THEN {t} ELSE {})
  /\ waiting' = (waiting \ (W \cup {t})) \cup (W \cap suspended)
  /\ ahead' = Relink({t} \cup (W \ suspended), W \cap suspended)
  /\ \A x \in Threads : wait'[x] = IF x \in (W \ suspended) \cup {t} THEN NoWait ELSE wait[x]
  /\ sleeping' \subseteq sleeping \ {t}
  /\ suspended' = suspended \ {t}
  /\ dead' = dead \cup {t}
  /\ call' = call

Ending(t) == Freed(t) \cup WokenHeirs(Owned(t))

EndStep(t) == Ends(t, Ending(t), Demoted(Owned(t)))

LEMMA StatusAfterBy ==
  ASSUME NEW L, NEW W, NEW x \in Threads
  PROVE  StatusAfter(L, W)[x] = StatusBy(W \cup WokenHeirs(L), Demoted(L), x)
BY DEF StatusAfter, StatusBy, Demoted

LEMMA FreedFacts ==
  ASSUME Known, NEW h, NEW x \in Freed(h)
  PROVE  x \in Threads /\ x \in waiting /\ Alive(x) /\ wait[x] # NoWait /\ call[x].op = "Wait"
<1>1. x \in waiting /\ wait[x] # NoWait /\ waiting \subseteq Threads
  BY DEF Freed, Satisfiable, Known, TypeOK
<1> QED
  BY <1>1 DEF Known, CallInv

LEMMA WokenFacts ==
  ASSUME Known, NEW L \in SUBSET Locks, NEW x \in WokenHeirs(L)
  PROVE  x \in Heirs(L) /\ x \in Threads /\ Alive(x) /\ x \notin Demoted(L)
BY HeirFacts DEF WokenHeirs, Demoted

LEMMA DemotedFacts ==
  ASSUME Known, NEW L \in SUBSET Locks, NEW x \in Demoted(L)
  PROVE  /\ x \in Heirs(L) /\ x \notin WokenHeirs(L) /\ x \in Threads /\ Alive(x)
         /\ Pending(Served(L), x)
         /\ x \in ready \/ call[x].op = "Wait" => aborts[x] > 1
<1>1. /\ x \in Heirs(L) /\ x \notin WokenHeirs(L) /\ Pending(Served(L), x)
  BY DEF Demoted, WokenHeirs
<1>2. x \in Threads /\ Alive(x) /\ (Blocked(x) \/ aborts[x] > 1)
  BY <1>1, HeirFacts
<1>3. x \in ready \/ call[x].op = "Wait" => ~Blocked(x)
  BY ReadyNotBlocked DEF Blocked, InEnter
<1> QED
  BY <1>1, <1>2, <1>3

LEMMA TimeoutWakes ==
  ASSUME Known, NEW t \in Threads, WaitTimeout(t) \/ SleepTimeout(t)
  PROVE  Wakes({t}, {})
<1>1. Alive(t)
  BY DEF WaitTimeout, SleepTimeout, Known, ListInv, Listed, Alive
<1>2. \A x \in Threads : status'[x] = StatusBy({t}, {}, x)
  BY DEF WaitTimeout, SleepTimeout, Known, TypeOK, StatusBy
<1> QED
  BY <1>1, <1>2 DEF WaitTimeout, SleepTimeout, Wakes, Demotes, threadVars

LEMMA AbortWakes ==
  ASSUME Known, NEW t \in Threads, NEW u \in Threads, Abort(t, u)
  PROVE  Wakes({u}, {})
<1>1. \A x \in Threads : status'[x] = StatusBy({u}, {}, x)
  BY DEF Abort, Known, TypeOK, StatusBy
<1> QED
  BY <1>1 DEF Abort, Wakes, Demotes

LEMMA ExitWakes ==
  ASSUME Known, NEW t \in Threads, NEW l \in Locks, ExitLast(t, l)
  PROVE  Wakes(WokenHeirs({l}), Demoted({l}))
<1> DEFINE L == {l}
           W == WokenHeirs(L)
           D == Demoted(L)
<1>1. L \in SUBSET Locks
  OBVIOUS
<1>2. \A x \in W : x \in Threads /\ Alive(x) /\ x \notin D
  BY <1>1, WokenFacts
<1>3. \A x \in Threads : StatusAfter(L, {})[x] = StatusBy(W, D, x)
  <2>1. W = {} \cup WokenHeirs(L)
    OBVIOUS
  <2> QED
    BY <2>1, StatusAfterBy
<1>4. /\ status' = StatusAfter(L, {})
      /\ requests' = Served(L)
      /\ PutReady(W)
      /\ wait' = WaitsAfter(W)
      /\ sleeping' \subseteq sleeping
      /\ UNCHANGED <<suspended, dead, call>>
  BY DEF ExitLast, threadVars
<1>5. Demotes(W, D)
  BY <1>1, <1>4, DemotedFacts DEF Demotes
<1> HIDE DEF W, D, L
<1>6. Wakes(W, D)
  BY <1>2, <1>3, <1>4, <1>5 DEF Wakes
<1> QED
  BY <1>6 DEF W, D, L

LEMMA SetWakes ==
  ASSUME Known, NEW t \in Threads, NEW h, Set(t, h)
  PROVE  Wakes(Freed(h), {})
<1> DEFINE W == Freed(h)
<1>1. \A x \in W : x \in Threads /\ Alive(x)
  BY FreedFacts
<1>2. WokenHeirs({}) = {} /\ Demoted({}) = {}
  BY DEF WokenHeirs, Heirs, Demoted
<1>3. \A x \in Threads : StatusAfter({}, W)[x] = StatusBy(W, {}, x)
  <2>1. W \cup WokenHeirs({}) = W
    BY <1>2
  <2> QED
    BY <1>2, <2>1, StatusAfterBy
<1>4. /\ status' = StatusAfter({}, W)
      /\ PutReady(W)
      /\ wait' = WaitsAfter(W)
      /\ sleeping' \subseteq sleeping
      /\ UNCHANGED <<suspended, dead, call>>
  BY DEF Set, threadVars
<1> HIDE DEF W
<1>5. Wakes(W, {})
  BY <1>1, <1>3, <1>4 DEF Wakes, Demotes
<1> QED
  BY <1>5 DEF W

(* The ending thread is in the ready list, so it is none of those it       *)
(* restarts.                                                               *)
LEMMA PassivateEnds ==
  ASSUME Known, NEW t \in ready, t \notin Heirs(Owned(t)), Passivate(t)
  PROVE  EndStep(t)
<1> DEFINE L == Owned(t)
           J == Freed(t)
           V == WokenHeirs(L)
           W == J \cup V
           D == Demoted(L)
           P == Pending(Served(L), t)
<1>0. L \in SUBSET Locks /\ t \in Threads
  BY DEF Owned, Known, TypeOK
<1>1. \A x \in J : x \in Threads /\ Alive(x) /\ x \in waiting /\ call[x].op = "Wait"
  BY FreedFacts
<1>2. \A x \in V : x \in Heirs(L) /\ x \in Threads /\ Alive(x)
  BY <1>0, WokenFacts
<1>3. t \notin waiting
  BY <1>0 DEF Known, ListInv
<1>4. t \notin Heirs(L)
  OBVIOUS
<1>5. \A x \in Threads : StatusAfter(L, J)[x] = StatusBy(W, D, x)
  BY StatusAfterBy
<1>6. /\ status' = [StatusAfter(L, J) EXCEPT ![t] = IF P THEN "Ready" ELSE "Terminated"]
      /\ requests' = Deleted(Served(L), t)
      /\ ready' = (ready \ {t}) \cup (W \ suspended) \cup (IF P THEN {t} ELSE {})
      /\ waiting' = (waiting \ (W \cup {t})) \cup (W \cap suspended)
      /\ ahead' = Relink({t} \cup (W \ suspended), W \cap suspended)
      /\ wait' = [WaitsAfter(W) EXCEPT ![t] = NoWait]
      /\ sleeping' \subseteq sleeping \ {t}
      /\ suspended' = suspended \ {t}
      /\ dead' = dead \cup {t}
      /\ call' = call
  BY DEF Passivate, Deleted
<1>7. DOMAIN StatusAfter(L, J) = Threads
  BY DEF StatusAfter
<1>8. ASSUME NEW x \in D
      PROVE  /\ x \in Threads /\ Alive(x) /\ x # t /\ Pending(requests', x)
             /\ x \in ready \cup W => aborts[x] > 1
  <2>1. /\ x \in Heirs(L) /\ x \notin V /\ x \in Threads /\ Alive(x)
        /\ Pending(Served(L), x)
        /\ x \in ready \/ call[x].op = "Wait" => aborts[x] > 1
    BY <1>0, <1>8, DemotedFacts
  <2>2. x # t
    BY <1>4, <2>1
  <2>3. Served(L) \in [Locks -> Seq(Threads)]
    BY ServedType DEF Known, TypeOK
  <2>4. \A l \in Locks : x \in Elems(Served(L)[l]) => x \in Elems(requests'[l])
    BY <1>0, <1>6, <2>1, <2>2, <2>3, DeletedFacts
  <2>5. Pending(requests', x)
    BY <2>1, <2>4 DEF Pending
  <2> QED
    BY <1>1, <2>1, <2>2, <2>5
<1>9. W = Ending(t)
  BY DEF Ending
<1> HIDE DEF W, J, D
<1>10. \A x \in Threads : wait'[x] = IF x \in (W \ suspended) \cup {t} THEN NoWait ELSE wait[x]
  BY <1>6 DEF WaitsAfter
<1>11. /\ \A x \in Threads \ {t} : status'[x] = StatusBy(W, D, x)
       /\ status'[t] = IF P THEN "Ready" ELSE "Terminated"
  BY <1>0, <1>5, <1>6, <1>7
<1>12. Demotes(W, D)
  BY <1>8 DEF Demotes
<1>13. /\ t \notin W \cup D
       /\ \A x \in W : x \in Threads /\ Alive(x)
  BY <1>1, <1>2, <1>3, <1>4, <1>8 DEF W
<1>14. Ends(t, W, D)
  BY <1>6, <1>10, <1>11, <1>12, <1>13 DEF Ends
<1> QED
  BY <1>9, <1>14 DEF EndStep, D

(* Steps that move no thread; at most, a call of a ready thread returns.   *)
Stays ==
  /\ UNCHANGED <<status, listVars, suspended, dead, wait, sleeping>>
  /\ \A x \in Threads : call'[x] = call[x] \/ (x \in ready /\ call'[x].op = "None")

(* The running thread t blocks.                                            *)
Blocks(t) ==
  /\ t \in ready
  /\ status' = [status EXCEPT ![t] = "Waiting"]
  /\ ready' = ready \ {t} /\ waiting' = waiting \cup {t} /\ ahead' = Relink({}, {t})
  /\ \A x \in Threads \ {t} : call'[x] = call[x] /\ wait'[x] = wait[x]
  /\ sleeping' \subseteq sleeping \cup {t}
  /\ wait'[t] # NoWait => call'[t].op = "Wait"
  /\ t \in sleeping' => call'[t].op = "Sleep"
  /\ wait'[t] # NoWait => ~Satisfied(wait'[t], signaled') /\ result'[t] = "Init"
  /\ \/ call'[t].op = "Sleep"
     \/ call'[t].op = "Wait" /\ wait'[t] \in Waits
     \/ Pending(requests', t)
  /\ UNCHANGED <<suspended, dead>>

(* Start, the suspensions, and the end of a quantum.                       *)
Moves(t) ==
  \/ SuspendSelf(t) \/ EndQuantum(t)
  \/ \E u \in Threads : Start(t, u) \/ Suspend(t, u) \/ Resume(t, u)

LEMMA RunningReady ==
  ASSUME Known, NEW t \in Threads, current = t
  PROVE  /\ t \in ready /\ t # NoThread
         /\ Alive(t) /\ t \notin suspended /\ t \notin waiting
         /\ wait[t] = NoWait /\ t \notin sleeping
         /\ t \notin raised /\ t \notin dead /\ call[t].op = "None"
BY ConstantsAssumption DEF Known, EnterInv, CurrentInv, ThreadInv, ListInv, Listed, Alive

LEMMA StaysActions ==
  ASSUME Known,
         \/ UNCHANGED vars
         \/ \E t \in Threads :
              \/ Dispatch(t) \/ ExitHangs(t) \/ ExitCorrupts(t)
              \/ \E l \in Locks : EnterFree(t, l) \/ EnterAgain(t, l) \/ ExitInner(t, l)
              \/ \E h \in Handles : SetHangs(t, h) \/ Reset(t, h)
              \/ \E w \in Waits : WaitSignaled(t, w)
  PROVE  Stays
<1> USE DEF vars, listVars, threadVars, waitVars, Stays
<1>1. CASE UNCHANGED vars
  BY <1>1
<1>2. ASSUME NEW t \in Threads, Dispatch(t) PROVE Stays
  BY <1>2 DEF Dispatch, NoCall, Known, TypeOK
<1>3. ASSUME NEW t \in Threads, ExitHangs(t) \/ ExitCorrupts(t) PROVE Stays
  BY <1>3 DEF ExitHangs, ExitCorrupts
<1>4. ASSUME NEW t \in Threads, NEW l \in Locks,
             EnterFree(t, l) \/ EnterAgain(t, l) \/ ExitInner(t, l)
      PROVE  Stays
  BY <1>4 DEF EnterFree, EnterAgain, ExitInner
<1>5. ASSUME NEW t \in Threads, NEW h \in Handles, SetHangs(t, h) \/ Reset(t, h) PROVE Stays
  BY <1>5 DEF SetHangs, Reset
<1>6. ASSUME NEW t \in Threads, NEW w \in Waits, WaitSignaled(t, w) PROVE Stays
  BY <1>6 DEF WaitSignaled
<1> QED
  BY <1>1, <1>2, <1>3, <1>4, <1>5, <1>6

LEMMA BlocksActions ==
  ASSUME Known, NEW t \in Threads,
         \/ \E l \in Locks : EnterBlocked(t, l)
         \/ \E w \in Waits : WaitBlocked(t, w)
         \/ \E timed \in BOOLEAN : Sleep(t, timed)
  PROVE  Blocks(t)
<1> USE DEF Block, Blocks, Known, TypeOK, threadVars, waitVars
<1>1. ASSUME NEW l \in Locks, EnterBlocked(t, l) PROVE Blocks(t)
  <2>1. t \in Elems(requests'[l])
    BY <1>1, AppendLemma DEF EnterBlocked
  <2>2. Pending(requests', t)
    BY <2>1 DEF Pending
  <2> QED
    BY <1>1, <2>2, RunningReady DEF EnterBlocked
<1>2. ASSUME NEW w \in Waits, WaitBlocked(t, w) PROVE Blocks(t)
  <2>1. /\ wait'[t] = w /\ signaled' = signaled /\ ~Satisfied(w, signaled)
        /\ result'[t] = "Init"
    BY <1>2 DEF WaitBlocked
  <2> QED
    BY <1>2, <2>1, RunningReady DEF WaitBlocked
<1>3. ASSUME NEW timed \in BOOLEAN, Sleep(t, timed) PROVE Blocks(t)
  BY <1>3, RunningReady DEF Sleep
<1> QED
  BY <1>1, <1>2, <1>3

LEMMA EndsActions ==
  ASSUME Known, NEW t \in Threads, ThreadExit(t) \/ ReapDead(t)
  PROVE  EndStep(t)
<1>1. CASE ThreadExit(t)
  BY <1>1, RunningReady, PassivateEnds DEF ThreadExit
<1>2. CASE ReapDead(t)
  <2>1. t \in ready /\ t \in dead /\ Passivate(t)
    BY <1>2 DEF ReapDead
  <2>2. \A l \in Locks : owner[l] # t
    BY <2>1, ConstantsAssumption DEF Known, TypeOK, LockInv
  <2>3. Heirs(Owned(t)) = {}
    BY <2>2 DEF Owned, Heirs
  <2> QED
    BY <2>1, <2>3, PassivateEnds
<1> QED
  BY <1>1, <1>2

(* Every step has one of these shapes.                                     *)
LEMMA Shapes ==
  ASSUME Known, [Next]_vars
  PROVE  \/ Stays
         \/ \E t \in Threads : Blocks(t) \/ EndStep(t) \/ Moves(t)
         \/ \E W, D : Wakes(W, D)
<1> DEFINE Goal == \/ Stays
                   \/ \E t \in Threads : Blocks(t) \/ EndStep(t) \/ Moves(t)
                   \/ \E W, D : Wakes(W, D)
<1>1. CASE UNCHANGED vars
  BY <1>1, StaysActions
<1>2. ASSUME NEW t \in Threads, Engine(t) PROVE Goal
  BY <1>2, StaysActions, TimeoutWakes, EndsActions DEF Engine
<1>3. ASSUME NEW t \in Threads, MonitorCall(t) PROVE Goal
  <2>1. PICK l \in Locks : \/ EnterFree(t, l) \/ EnterAgain(t, l) \/ EnterBlocked(t, l)
                           \/ ExitInner(t, l) \/ ExitLast(t, l)
    BY <1>3 DEF MonitorCall
  <2>2. CASE EnterFree(t, l) \/ EnterAgain(t, l) \/ ExitInner(t, l)
    BY <2>2, StaysActions
  <2>3. CASE EnterBlocked(t, l)
    BY <2>3, BlocksActions
  <2>4. CASE ExitLast(t, l)
    BY <2>4, ExitWakes
  <2> QED
    BY <2>1, <2>2, <2>3, <2>4
<1>4. ASSUME NEW t \in Threads, WaitCall(t) PROVE Goal
  <2>1. ASSUME NEW h \in Handles, Set(t, h) PROVE Goal
    BY <2>1, SetWakes
  <2>2. ASSUME NEW h \in Handles, SetHangs(t, h) \/ Reset(t, h) PROVE Goal
    BY <2>2, StaysActions
  <2>3. ASSUME NEW w \in Waits, WaitSignaled(t, w) PROVE Goal
    BY <2>3, StaysActions
  <2>4. ASSUME NEW w \in Waits, WaitBlocked(t, w) PROVE Goal
    BY <2>4, BlocksActions
  <2>5. ASSUME NEW timed \in BOOLEAN, Sleep(t, timed) PROVE Goal
    BY <2>5, BlocksActions
  <2> QED
    BY <1>4, <2>1, <2>2, <2>3, <2>4, <2>5 DEF WaitCall
<1>5. ASSUME NEW t \in Threads, ThreadCall(t) PROVE Goal
  <2>1. ASSUME NEW u \in Threads, Abort(t, u) PROVE Goal
    BY <2>1, AbortWakes
  <2>2. CASE ExitHangs(t) \/ ExitCorrupts(t)
    BY <2>2, StaysActions
  <2>3. CASE ThreadExit(t)
    BY <2>3, EndsActions
  <2> QED
    BY <1>5, <2>1, <2>2, <2>3 DEF ThreadCall, Moves
<1> QED
  BY <1>1, <1>2, <1>3, <1>4, <1>5 DEF Next

-----------------------------------------------------------------------------
(* What the steps do to the threads that wait for a lock.                  *)

(* Only Abort counts, and it counts up.                                    *)
LEMMA AbortsStep ==
  ASSUME Known, [Next]_vars, NEW x \in Threads
  PROVE  aborts[x] \in Nat /\ aborts'[x] \in Nat /\ aborts[x] <= aborts'[x]
<1> USE DEF vars, listVars, threadVars, waitVars
<1>0. aborts \in [Threads -> 0..MaxAborts] /\ aborts[x] \in Nat
  BY BoundType DEF Known, TypeOK
<1> DEFINE Goal == aborts' = aborts \/ aborts'[x] = aborts[x] \/ aborts'[x] = aborts[x] + 1
<1>1. ASSUME UNCHANGED vars PROVE Goal
  BY <1>1
<1>2. ASSUME NEW t \in Threads, Engine(t) PROVE Goal
  BY <1>2 DEF Engine, Dispatch, WaitTimeout, SleepTimeout, ReapDead, Passivate
<1>3. ASSUME NEW t \in Threads, MonitorCall(t) PROVE Goal
  BY <1>3 DEF MonitorCall, EnterFree, EnterAgain, EnterBlocked, ExitInner, ExitLast
<1>4. ASSUME NEW t \in Threads, WaitCall(t) PROVE Goal
  BY <1>4 DEF WaitCall, Set, SetHangs, Reset, WaitSignaled, WaitBlocked, Sleep
<1>5. ASSUME NEW t \in Threads, ThreadCall(t) PROVE Goal
  <2>1. ASSUME NEW u \in Threads, Abort(t, u) PROVE Goal
    BY <1>0, <2>1 DEF Abort
  <2> QED
    BY <1>5, <2>1 DEF ThreadCall, EndQuantum, SuspendSelf, ThreadExit, Passivate, ExitHangs,
                      ExitCorrupts, Start, Suspend, Resume
<1>6. Goal
  BY <1>1, <1>2, <1>3, <1>4, <1>5 DEF Next
<1>7. aborts'[x] = aborts[x] \/ aborts'[x] = aborts[x] + 1
  BY <1>6
<1> QED
  BY <1>0, <1>7

(* A thread that does not end in this step stays alive.                    *)
LEMMA AliveStep ==
  ASSUME Known, [Next]_vars, NEW x \in Threads, Alive(x), x \notin dead'
  PROVE  Alive(x)'
<1>0. status \in [Threads -> {"Unstarted", "Ready", "Waiting", "Terminated"}]
  BY DEF Known, TypeOK
<1>1. CASE Stays
  BY <1>1 DEF Stays, Alive
<1>2. ASSUME NEW t \in Threads, Blocks(t) PROVE Alive(x)'
  BY <1>0, <1>2 DEF Blocks, Alive
<1>3. ASSUME NEW t \in Threads, EndStep(t) PROVE Alive(x)'
  <2> DEFINE W == Ending(t)
             D == Demoted(Owned(t))
  <2>1. Ends(t, W, D)
    BY <1>3 DEF EndStep
  <2> HIDE DEF W, D
  <2> QED
    BY <2>1 DEF Ends, StatusBy, Alive
<1>4. ASSUME NEW W, NEW D, Wakes(W, D) PROVE Alive(x)'
  BY <1>4 DEF Wakes, StatusBy, Alive
<1>5. ASSUME NEW t \in Threads, Moves(t) PROVE Alive(x)'
  BY <1>0, <1>5 DEF Moves, SuspendSelf, EndQuantum, Start, Suspend, Resume, Alive
<1> QED
  BY <1>1, <1>2, <1>3, <1>4, <1>5, Shapes

(* Steps without effect on locks: a thread blocked in Enter stays so, or is*)
(* aborted, and none gets to return from Enter.                            *)
Unlocked ==
  /\ UNCHANGED <<lockVars, dead>>
  /\ \A x \in Threads : Blocked(x) => Blocked(x)' \/ aborts'[x] > aborts[x]
  /\ \A x \in Threads : Settled(x)' => Settled(x)

(* Every step is of that kind, or an Enter or Exit, or the end of a thread.*)
LEMMA LockCases ==
  ASSUME Known, [Next]_vars
  PROVE  \/ Unlocked
         \/ \E t \in Threads : ThreadExit(t) \/ ReapDead(t)
         \/ \E t \in Threads, l \in Locks :
              EnterFree(t, l) \/ EnterAgain(t, l) \/ EnterBlocked(t, l)
                \/ ExitInner(t, l) \/ ExitLast(t, l)
<1>a. ASSUME NEW t \in Threads, current = t PROVE ~Blocked(t) /\ ~InEnter(t)
  BY <1>a, RunningReady DEF Blocked, InEnter
<1>b. \A x \in Threads : x \in ready => ~Blocked(x)
  BY ReadyNotBlocked
<1>c. \A x \in Threads : wait[x] # NoWait \/ x \in sleeping \/ status[x] = "Unstarted"
        => ~InEnter(x)
  BY DEF Known, CallInv, EnterInv, ThreadInv, InEnter
<1>d. /\ status \in [Threads -> {"Unstarted", "Ready", "Waiting", "Terminated"}]
      /\ call \in [Threads -> [op : Ops, lock : Locks \cup {NoLock}]]
      /\ aborts \in [Threads -> 0..MaxAborts] /\ \A x \in Threads : aborts[x] \in Nat
  BY BoundType DEF Known, TypeOK
<1> USE DEF vars, listVars, threadVars, waitVars, Blocked, Settled, InEnter
<1>1. CASE UNCHANGED vars
  BY <1>1 DEF Unlocked, lockVars
<1>2. ASSUME NEW t \in Threads, Dispatch(t) PROVE Unlocked
  <2>1. ~Blocked(t) /\ call'[t].op = "None"
    BY <1>2, <1>b, <1>d DEF Dispatch, NoCall
  <2> QED
    BY <1>2, <1>d, <2>1 DEF Dispatch, Unlocked
<1>3. ASSUME NEW t \in Threads, WaitTimeout(t) \/ SleepTimeout(t) PROVE Unlocked
  <2>1. ~InEnter(t)
    BY <1>3, <1>c DEF WaitTimeout, SleepTimeout, NoWait
  <2> QED
    BY <1>3, <2>1, <1>d DEF WaitTimeout, SleepTimeout, PutReady, Unlocked
<1>4. ASSUME NEW t \in Threads, NEW h \in Handles, Set(t, h) PROVE Unlocked
  <2> DEFINE W == Freed(h)
  <2>1. Wakes(W, {})
    BY <1>4, SetWakes
  <2>2. \A x \in W : ~InEnter(x)
    BY FreedFacts
  <2> HIDE DEF W
  <2>3. /\ \A x \in Threads : status'[x] = IF x \in W THEN "Ready" ELSE status[x]
        /\ ready' = ready \cup (W \ suspended)
    BY <2>1 DEF Wakes, StatusBy, PutReady
  <2> QED
    BY <1>4, <2>2, <2>3 DEF Set, Unlocked
<1>5. ASSUME NEW t \in Threads, NEW h \in Handles, SetHangs(t, h) \/ Reset(t, h)
      PROVE  Unlocked
  BY <1>5 DEF SetHangs, Reset, Unlocked
<1>6. ASSUME NEW t \in Threads, NEW w \in Waits, WaitSignaled(t, w) PROVE Unlocked
  BY <1>6 DEF WaitSignaled, Unlocked
<1>7. ASSUME NEW t \in Threads, NEW w \in Waits, WaitBlocked(t, w) PROVE Unlocked
  BY <1>7, <1>a, <1>d DEF WaitBlocked, Block, Unlocked
<1>8. ASSUME NEW t \in Threads, NEW timed \in BOOLEAN, Sleep(t, timed) PROVE Unlocked
  BY <1>8, <1>a, <1>d DEF Sleep, Block, Unlocked
<1>9. ASSUME NEW t \in Threads,
             EndQuantum(t) \/ SuspendSelf(t) \/ ExitHangs(t) \/ ExitCorrupts(t)
      PROVE  Unlocked
  <2>1. CASE EndQuantum(t)
    BY <2>1 DEF EndQuantum, Unlocked
  <2>2. CASE SuspendSelf(t)
    BY <2>2, <1>a, <1>d DEF SuspendSelf, Unlocked
  <2>3. CASE ExitHangs(t) \/ ExitCorrupts(t)
    BY <2>3 DEF ExitHangs, ExitCorrupts, Unlocked
  <2> QED
    BY <1>9, <2>1, <2>2, <2>3
<1>10. ASSUME NEW t \in Threads, NEW u \in Threads,
              Start(t, u) \/ Suspend(t, u) \/ Resume(t, u) \/ Abort(t, u)
       PROVE  Unlocked
  <2>1. CASE Start(t, u)
    BY <2>1, <1>c, <1>d DEF Start, Unlocked
  <2>2. CASE Suspend(t, u)
    BY <2>2 DEF Suspend, Unlocked
  <2>3. CASE Resume(t, u)
    BY <2>3 DEF Resume, Unlocked
  <2>4. CASE Abort(t, u)
    BY <2>4, <1>d DEF Abort, PutReady, Unlocked
  <2> QED
    BY <1>10, <2>1, <2>2, <2>3, <2>4
<1>11. ASSUME NEW t \in Threads, Engine(t) PROVE Unlocked \/ ReapDead(t)
  BY <1>2, <1>3, <1>11 DEF Engine
<1>12. ASSUME NEW t \in Threads, WaitCall(t) PROVE Unlocked
  BY <1>4, <1>5, <1>6, <1>7, <1>8, <1>12 DEF WaitCall
<1>13. ASSUME NEW t \in Threads, ThreadCall(t) PROVE Unlocked \/ ThreadExit(t)
  BY <1>9, <1>10, <1>13 DEF ThreadCall
<1> QED
  BY <1>1, <1>11, <1>12, <1>13 DEF Next, MonitorCall

(* A queued thread that stays blocked stays queued.                        *)
LEMMA PendingStep ==
  ASSUME Known, [Next]_vars, NEW x \in Threads, Pending(requests, x), status'[x] = "Waiting"
  PROVE  Pending(requests', x)
<1>0. requests \in [Locks -> Seq(Threads)]
  BY DEF Known, TypeOK
<1>a. ASSUME NEW L \in SUBSET Locks, x \notin WokenHeirs(L) PROVE Pending(Served(L), x)
  <2>1. CASE x \in Heirs(L)
    BY <1>a, <2>1 DEF WokenHeirs
  <2>2. CASE x \notin Heirs(L)
    BY <1>0, <2>2, ServedFacts DEF Pending
  <2> QED
    BY <2>1, <2>2
<1>1. CASE Unlocked
  BY <1>1 DEF Unlocked, lockVars
<1>2. ASSUME NEW t \in Threads, NEW k \in Locks,
             EnterFree(t, k) \/ EnterAgain(t, k) \/ ExitInner(t, k)
      PROVE  Pending(requests', x)
  BY <1>2 DEF EnterFree, EnterAgain, ExitInner
<1>3. ASSUME NEW t \in Threads, NEW k \in Locks, EnterBlocked(t, k) PROVE Pending(requests', x)
  <2>1. \A l \in Locks : x \in Elems(requests[l]) => x \in Elems(requests'[l])
    BY <1>0, <1>3, AppendLemma DEF EnterBlocked
  <2> QED
    BY <2>1 DEF Pending
<1>4. ASSUME NEW t \in Threads, NEW k \in Locks, ExitLast(t, k) PROVE Pending(requests', x)
  <2>1. Wakes(WokenHeirs({k}), Demoted({k})) /\ requests' = Served({k})
    BY <1>4, ExitWakes DEF ExitLast
  <2>2. x \notin WokenHeirs({k})
    BY <2>1 DEF Wakes, StatusBy
  <2>3. {k} \in SUBSET Locks
    OBVIOUS
  <2> QED
    BY <1>a, <2>1, <2>2, <2>3
<1>5. ASSUME NEW t \in Threads, ThreadExit(t) \/ ReapDead(t) PROVE Pending(requests', x)
  <2> DEFINE L == Owned(t)
             Q == Served(L)
  <2>1. requests' = Deleted(Q, t) /\ L \in SUBSET Locks
    BY <1>5 DEF ThreadExit, ReapDead, Passivate, Owned, Deleted
  <2>2. EndStep(t)
    BY <1>5, EndsActions
  <2>3. x # t /\ x \notin WokenHeirs(L)
    BY <2>2 DEF EndStep, Ends, StatusBy, Ending, Demoted
  <2>4. Pending(Q, x) /\ Q \in [Locks -> Seq(Threads)]
    BY <1>0, <1>a, <2>1, <2>3, ServedType
  <2> HIDE DEF Q
  <2>5. \A l \in Locks : x \in Elems(Q[l]) => x \in Elems(Deleted(Q, t)[l])
    BY <2>3, <2>4, DeletedFacts
  <2> QED
    BY <2>1, <2>4, <2>5 DEF Pending
<1> QED
  BY <1>1, <1>2, <1>3, <1>4, <1>5, LockCases

-----------------------------------------------------------------------------
(* The lists, their order, and the calls.                                  *)

LEMMA ListStep ==
  ASSUME Known, [Next]_vars, NEW x \in Threads
  PROVE  ListInv(x)'
<1>0. /\ ListInv(x) /\ waiting \subseteq Threads
      /\ status \in [Threads -> {"Unstarted", "Ready", "Waiting", "Terminated"}]
  BY DEF Known, TypeOK
<1>a. aborts[x] \in Nat /\ aborts'[x] \in Nat /\ aborts[x] <= aborts'[x]
  BY AbortsStep
<1>b. Tangled(x) /\ status'[x] = "Waiting" => aborts'[x] > 1 /\ Pending(requests', x)
  BY <1>a, PendingStep DEF Tangled
<1> USE DEF ListInv, Listed, Alive
<1>c. /\ x \in ready => status[x] \in {"Ready", "Waiting"} /\ x \notin suspended
      /\ x \in waiting <=> status[x] \in {"Ready", "Waiting"} /\ x \notin ready
      /\ status[x] = "Ready" /\ x \notin suspended => x \in ready
      /\ x \in ready /\ status[x] = "Waiting" => Tangled(x)
      /\ x \in suspended => status[x] \notin {"Unstarted", "Terminated"}
  BY <1>0
<1> SUFFICES
      /\ x \in ready' => status'[x] \in {"Ready", "Waiting"} /\ x \notin suspended'
      /\ x \in waiting' <=> status'[x] \in {"Ready", "Waiting"} /\ x \notin ready'
      /\ status'[x] = "Ready" /\ x \notin suspended' => x \in ready'
      /\ x \in ready' /\ status'[x] = "Waiting" => aborts'[x] > 1 /\ Pending(requests', x)
      /\ x \in suspended' => status'[x] \notin {"Unstarted", "Terminated"}
  BY DEF Tangled
<1>1. CASE Stays
  BY <1>b, <1>c, <1>1 DEF Stays, listVars
<1>2. ASSUME NEW t \in Threads, Blocks(t) PROVE ListInv(x)'
  <2>1. t \in Listed /\ t \notin suspended
    BY <1>2 DEF Blocks, Known
  <2> QED
    BY <1>0, <1>b, <1>c, <1>2, <2>1 DEF Blocks, Tangled
<1>3. ASSUME NEW t \in Threads, EndStep(t) PROVE ListInv(x)'
  <2> DEFINE W == Ending(t)
             D == Demoted(Owned(t))
  <2>1. t \notin suspended /\ Ends(t, W, D)
    BY <1>3 DEF EndStep, Ends, Known
  <2> HIDE DEF W, D
  <2>3. CASE x = t
    BY <2>1, <2>3 DEF Ends, Tangled
  <2>4. CASE x # t
    <3>1. /\ status'[x] = IF x \in D THEN "Waiting" ELSE IF x \in W THEN "Ready" ELSE status[x]
          /\ x \in ready' <=> x \in ready \/ (x \in W /\ x \notin suspended)
          /\ x \in waiting' <=> (x \in waiting /\ x \notin W) \/ (x \in W /\ x \in suspended)
          /\ x \in suspended' <=> x \in suspended
          /\ x \in D \cup W => status[x] \in {"Ready", "Waiting"}
          /\ x \in D /\ (x \in ready \/ x \in W) => aborts[x] > 1 /\ Pending(requests', x)
      BY <1>0, <2>1, <2>4 DEF Ends, Demotes, StatusBy
    <3> QED
      BY <1>a, <1>b, <1>c, <3>1 DEF Tangled
  <2> QED
    BY <2>3, <2>4
<1>4. ASSUME NEW W, NEW D, Wakes(W, D) PROVE ListInv(x)'
  <2>1. /\ status'[x] = IF x \in D THEN "Waiting" ELSE IF x \in W THEN "Ready" ELSE status[x]
        /\ x \in ready' <=> x \in ready \/ (x \in W /\ x \notin suspended)
        /\ x \in waiting' <=> (x \in waiting /\ x \notin W) \/ (x \in W /\ x \in suspended)
        /\ x \in suspended' <=> x \in suspended
        /\ x \in D \cup W => status[x] \in {"Ready", "Waiting"}
        /\ x \in D /\ (x \in ready \/ x \in W) => aborts[x] > 1 /\ Pending(requests', x)
    BY <1>0, <1>4 DEF Wakes, Demotes, StatusBy, PutReady
  <2> QED
    BY <1>a, <1>b, <1>c, <2>1 DEF Tangled
<1>5. ASSUME NEW t \in Threads, Moves(t) PROVE ListInv(x)'
  <2>1. CASE SuspendSelf(t)
    BY <1>0, <1>b, <1>c, <2>1, RunningReady DEF SuspendSelf, Tangled
  <2>2. CASE EndQuantum(t)
    <3>1. t \in ready /\ status' = status /\ suspended' = suspended
      BY <2>2, RunningReady DEF EndQuantum, threadVars
    <3>2. CASE status[t] = "Waiting"
      BY <1>0, <1>b, <1>c, <2>2, <3>1, <3>2 DEF EndQuantum, Tangled
    <3>3. CASE status[t] # "Waiting"
      BY <1>0, <1>b, <1>c, <2>2, <3>1, <3>3 DEF EndQuantum, Tangled, listVars
    <3> QED
      BY <3>2, <3>3
  <2>3. ASSUME NEW u \in Threads, Start(t, u) PROVE ListInv(x)'
    <3>1. u \notin suspended /\ u \notin waiting
      BY <2>3 DEF Start, Known
    <3> QED
      BY <1>0, <1>b, <1>c, <2>3, <3>1 DEF Start, Tangled, threadVars
  <2>4. ASSUME NEW u \in Threads, Suspend(t, u) PROVE ListInv(x)'
    BY <1>0, <1>b, <1>c, <2>4 DEF Suspend, Tangled
  <2>5. ASSUME NEW u \in Threads, Resume(t, u) PROVE ListInv(x)'
    BY <1>0, <1>b, <1>c, <2>5 DEF Resume, Tangled
  <2> QED
    BY <1>5, <2>1, <2>2, <2>3, <2>4, <2>5 DEF Moves
<1> QED
  BY <1>1, <1>2, <1>3, <1>4, <1>5, Shapes DEF Tangled

LEMMA OrderStep ==
  ASSUME Known, [Next]_vars
  PROVE  Ordered'
<1>0. OrderOn(waiting, ahead)
  BY DEF Known, Ordered
<1>a. ASSUME NEW out, NEW back, out \cap back = {}, back \subseteq waiting \/ \E u : back = {u},
             waiting' = (waiting \ out) \cup back, ahead' = Relink(out, back)
      PROVE  Ordered'
  BY <1>0, <1>a, RelinkOrder DEF Ordered
<1>b. \A x \in Threads : x \in suspended /\ Alive(x) => x \in waiting
  BY DEF Known, TypeOK, ListInv, Listed, Alive
<1>1. CASE Stays
  BY <1>0, <1>1 DEF Stays, listVars, Ordered
<1>2. ASSUME NEW t \in Threads, Blocks(t) PROVE Ordered'
  BY <1>a, <1>2 DEF Blocks
<1>3. ASSUME NEW t \in Threads, EndStep(t) PROVE Ordered'
  <2> DEFINE W == Ending(t)
             out == {t} \cup (W \ suspended)
             back == W \cap suspended
  <2>1. waiting' = (waiting \ out) \cup back /\ ahead' = Relink(out, back)
    BY <1>3 DEF EndStep, Ends
  <2>2. out \cap back = {} /\ back \subseteq waiting
    BY <1>3, <1>b DEF EndStep, Ends
  <2> HIDE DEF out, back
  <2> QED
    BY <1>a, <2>1, <2>2
<1>4. ASSUME NEW W, NEW D, Wakes(W, D) PROVE Ordered'
  <2> DEFINE out == W \ suspended
             back == W \cap suspended
  <2>1. waiting' = (waiting \ out) \cup back /\ ahead' = Relink(out, back)
    BY <1>4 DEF Wakes, PutReady
  <2>2. out \cap back = {} /\ back \subseteq waiting
    BY <1>4, <1>b DEF Wakes
  <2> HIDE DEF out, back
  <2> QED
    BY <1>a, <2>1, <2>2
<1>5. ASSUME NEW t \in Threads, Moves(t) PROVE Ordered'
  <2>1. CASE SuspendSelf(t)
    BY <1>a, <2>1 DEF SuspendSelf
  <2>2. ASSUME NEW u \in Threads, Start(t, u) PROVE Ordered'
    BY <1>0, <2>2 DEF Start, Ordered
  <2>3. ASSUME NEW u \in Threads, Suspend(t, u) PROVE Ordered'
    BY <1>a, <2>3 DEF Suspend
  <2>4. ASSUME NEW u \in Threads, Resume(t, u) PROVE Ordered'
    <3>1. CASE status[u] = "Ready"
      <4>1. waiting' = (waiting \ {u}) \cup {} /\ ahead' = Relink({u}, {})
        BY <2>4, <3>1 DEF Resume
      <4> QED
        BY <1>a, <4>1
    <3>2. CASE status[u] # "Ready"
      <4>1. status[u] = "Waiting"
        BY <2>4, <3>2 DEF Resume, Alive, Known, TypeOK
      <4>2. u \in waiting
        BY <1>b, <2>4 DEF Resume
      <4>3. waiting' = (waiting \ {}) \cup {u} /\ ahead' = Relink({}, {u})
        BY <2>4, <3>2, <4>2 DEF Resume
      <4> QED
        BY <1>a, <4>3
    <3> QED
      BY <3>1, <3>2
  <2>5. CASE EndQuantum(t)
    BY <1>0, <1>a, <2>5 DEF EndQuantum, listVars, Ordered
  <2> QED
    BY <1>5, <2>1, <2>2, <2>3, <2>4, <2>5 DEF Moves
<1> QED
  BY <1>1, <1>2, <1>3, <1>4, <1>5, Shapes

LEMMA CallStep ==
  ASSUME Known, [Next]_vars, NEW x \in Threads
  PROVE  CallInv(x)'
<1>0. /\ CallInv(x) /\ ListInv(x)
      /\ x \in ready => wait[x] = NoWait /\ x \notin sleeping
      /\ status \in [Threads -> {"Unstarted", "Ready", "Waiting", "Terminated"}]
      /\ call \in [Threads -> [op : Ops, lock : Locks \cup {NoLock}]]
      /\ wait \in [Threads -> Waits \cup {NoWait}]
  BY DEF Known, TypeOK, EnterInv, ThreadInv
<1> USE DEF CallInv, Alive
<1>1. CASE Stays
  BY <1>0, <1>1 DEF Stays, listVars
<1>2. ASSUME NEW t \in Threads, Blocks(t) PROVE CallInv(x)'
  BY <1>0, <1>2 DEF Blocks
<1>3. ASSUME NEW t \in Threads, EndStep(t) PROVE CallInv(x)'
  <2> DEFINE W == Ending(t)
             D == Demoted(Owned(t))
  <2>1. Ends(t, W, D)
    BY <1>3 DEF EndStep
  <2> HIDE DEF W, D
  <2> QED
    BY <1>0, <2>1 DEF Ends, StatusBy
<1>4. ASSUME NEW W, NEW D, Wakes(W, D) PROVE CallInv(x)'
  BY <1>0, <1>4 DEF Wakes, WaitsAfter, StatusBy
<1>5. ASSUME NEW t \in Threads, Moves(t) PROVE CallInv(x)'
  <2>1. CASE SuspendSelf(t) \/ EndQuantum(t)
    BY <1>0, <2>1, RunningReady DEF SuspendSelf, EndQuantum, threadVars, waitVars
  <2>2. ASSUME NEW u \in Threads, Start(t, u) \/ Suspend(t, u) PROVE CallInv(x)'
    BY <1>0, <2>2 DEF Start, Suspend, threadVars, waitVars
  <2>3. ASSUME NEW u \in Threads, Resume(t, u) PROVE CallInv(x)'
    BY <1>0, <2>3 DEF Resume
  <2> QED
    BY <1>5, <2>1, <2>2, <2>3 DEF Moves
<1> QED
  BY <1>1, <1>2, <1>3, <1>4, <1>5, Shapes

-----------------------------------------------------------------------------
(* Locks, their owners and their queues.                                   *)

(* A lock that changes owner is free only when nobody is queued, and its   *)
(* new owner is alive.                                                     *)
LEMMA NewOwner ==
  ASSUME Known, NEW L \in SUBSET Locks, ChangeOwner(L), NEW l \in Locks
  PROVE  /\ owner'[l] = NoThread => Served(L)[l] = <<>>
         /\ owner'[l] = NoThread <=> recursion'[l] = 0
         /\ owner'[l] # NoThread => /\ owner'[l] \in Threads
                                    /\ Alive(owner'[l]) /\ owner'[l] \notin dead
         /\ IF l \in L THEN owner'[l] = Heir(l) ELSE owner'[l] = owner[l]
<1>0. /\ LockInv(l) /\ owner[l] \in Threads \cup {NoThread}
      /\ requests \in [Locks -> Seq(Threads)]
  BY DEF Known, TypeOK
<1>1. CASE l \in L
  <2>1. owner'[l] = Heir(l) /\ recursion'[l] = IF Heir(l) = NoThread THEN 0 ELSE 1
    BY <1>1 DEF ChangeOwner
  <2>2. CASE Heir(l) = NoThread
    <3>1. requests[l] = <<>>
      BY <1>0, <2>2, HeadTail, ConstantsAssumption DEF Heir
    <3> QED
      BY <1>1, <2>1, <2>2, <3>1 DEF Served
  <2>3. CASE Heir(l) # NoThread
    <3>1. Heir(l) \in Heirs(L)
      BY <1>1, <2>3 DEF Heirs
    <3> QED
      BY <1>1, <2>1, <2>3, <3>1, HeirFacts
  <2> QED
    BY <2>2, <2>3
<1>2. CASE l \notin L
  <2>1. owner'[l] = owner[l] /\ recursion'[l] = recursion[l] /\ Served(L)[l] = requests[l]
    BY <1>2 DEF ChangeOwner, Served
  <2> QED
    BY <1>0, <1>2, <2>1 DEF LockInv
<1> QED
  BY <1>1, <1>2

LEMMA LockStep ==
  ASSUME Known, [Next]_vars, NEW l \in Locks
  PROVE  LockInv(l)'
<1>0. /\ LockInv(l) /\ owner \in [Locks -> Threads \cup {NoThread}]
      /\ recursion \in [Locks -> 0..MaxRecursion]
      /\ requests \in [Locks -> Seq(Threads)]
  BY DEF Known, TypeOK
<1>a. ASSUME NEW x \in Threads, Alive(x), x \notin dead' PROVE Alive(x)'
  BY <1>a, AliveStep
<1>b. ASSUME owner'[l] = owner[l], recursion'[l] = recursion[l],
             requests'[l] = requests[l] \/ owner[l] # NoThread, dead' = dead
      PROVE  LockInv(l)'
  BY <1>0, <1>a, <1>b DEF LockInv, Alive
<1>1. CASE Unlocked
  BY <1>1, <1>b DEF Unlocked, lockVars
<1>2. ASSUME NEW t \in Threads, NEW k \in Locks, EnterFree(t, k) PROVE LockInv(l)'
  <2>1. CASE k = l
    <3>1. owner'[l] = t /\ recursion'[l] = 1 /\ requests'[l] = requests[l] /\ dead' = dead
      BY <1>0, <1>2, <2>1 DEF EnterFree, threadVars
    <3>2. Alive(t) /\ t \notin dead /\ t # NoThread
      BY <1>2, RunningReady DEF EnterFree
    <3> QED
      BY <1>a, <3>1, <3>2 DEF LockInv, Alive
  <2>2. CASE k # l
    BY <1>0, <1>2, <1>b, <2>2 DEF EnterFree, threadVars
  <2> QED
    BY <2>1, <2>2
<1>3. ASSUME NEW t \in Threads, NEW k \in Locks, EnterAgain(t, k) \/ ExitInner(t, k)
      PROVE  LockInv(l)'
  <2>1. /\ owner'[l] = owner[l] /\ requests'[l] = requests[l] /\ dead' = dead
    BY <1>3 DEF EnterAgain, ExitInner, threadVars
  <2>2. owner[l] = NoThread <=> recursion'[l] = 0
    <3>1. CASE k = l
      <4>1. owner[l] # NoThread /\ recursion[l] \in Nat
        BY <1>0, <1>3, <3>1, RunningReady DEF EnterAgain, ExitInner
      <4>2. recursion'[l] = recursion[l] + 1 \/ (recursion[l] > 1 /\ recursion'[l] = recursion[l] - 1)
        BY <1>0, <1>3, <3>1 DEF EnterAgain, ExitInner
      <4> QED
        BY <4>1, <4>2
    <3>2. CASE k # l
      BY <1>0, <1>3, <3>2 DEF EnterAgain, ExitInner, LockInv
    <3> QED
      BY <3>1, <3>2
  <2> QED
    BY <1>0, <1>a, <2>1, <2>2 DEF LockInv, Alive
<1>4. ASSUME NEW t \in Threads, NEW k \in Locks, EnterBlocked(t, k) PROVE LockInv(l)'
  BY <1>0, <1>4, <1>b DEF EnterBlocked, threadVars
<1>5. ASSUME NEW t \in Threads, NEW k \in Locks, ExitLast(t, k) PROVE LockInv(l)'
  <2>1. {k} \in SUBSET Locks /\ ChangeOwner({k}) /\ requests' = Served({k}) /\ dead' = dead
    BY <1>5 DEF ExitLast, threadVars
  <2>2. /\ owner'[l] = NoThread => requests'[l] = <<>>
        /\ owner'[l] = NoThread <=> recursion'[l] = 0
        /\ owner'[l] # NoThread => /\ owner'[l] \in Threads
                                   /\ Alive(owner'[l]) /\ owner'[l] \notin dead
    BY <2>1, NewOwner
  <2> QED
    BY <1>a, <2>1, <2>2 DEF LockInv, Alive
<1>6. ASSUME NEW t \in Threads, ThreadExit(t) \/ ReapDead(t) PROVE LockInv(l)'
  <2> DEFINE L == Owned(t)
  <2>1. /\ L \in SUBSET Locks /\ ChangeOwner(L) /\ dead' = dead \cup {t}
        /\ requests' = Deleted(Served(L), t)
    BY <1>6 DEF ThreadExit, ReapDead, Passivate, Owned, Deleted
  <2>2. t \notin Heirs(L)
    <3>1. CASE ThreadExit(t)
      BY <3>1 DEF ThreadExit
    <3>2. CASE ReapDead(t)
      <4>1. \A k \in Locks : owner[k] # t
        BY <3>2, ConstantsAssumption DEF ReapDead, Known, TypeOK, LockInv
      <4> QED
        BY <4>1 DEF Owned, Heirs
    <3> QED
      BY <1>6, <3>1, <3>2
  <2>3. /\ owner'[l] = NoThread => Served(L)[l] = <<>>
        /\ owner'[l] = NoThread <=> recursion'[l] = 0
        /\ owner'[l] # NoThread => /\ owner'[l] \in Threads
                                   /\ Alive(owner'[l]) /\ owner'[l] \notin dead
        /\ IF l \in L THEN owner'[l] = Heir(l) ELSE owner'[l] = owner[l]
    BY <2>1, NewOwner
  <2>4. owner'[l] # NoThread => owner'[l] # t
    BY <2>2, <2>3 DEF Heirs, Owned
  <2>5. owner'[l] = NoThread => requests'[l] = <<>>
    <3>1. Served(L)[l] \in Seq(Threads)
      BY <1>0, ServedType
    <3>2. ASSUME owner'[l] = NoThread PROVE WithoutRequest(Served(L)[l], t) = <<>>
      BY <2>3, <3>1, <3>2, NoneKept
    <3>3. requests'[l] = WithoutRequest(Served(L)[l], t)
      BY <2>1 DEF Deleted
    <3> QED
      BY <3>2, <3>3
  <2> QED
    BY <1>a, <2>1, <2>3, <2>4, <2>5 DEF LockInv, Alive
<1> QED
  BY <1>1, <1>2, <1>3, <1>4, <1>5, <1>6, LockCases

(* A new request of t is one more place of t, and of nobody else.          *)
Added(Q, l, t) == [Q EXCEPT ![l] = Append(@, t)]

LEMMA AddedPlaces ==
  ASSUME NEW Q \in [Locks -> Seq(Threads)], NEW l \in Locks, NEW t \in Threads, NEW x \in Threads
  PROVE  /\ Places(Added(Q, l, t), x) \subseteq Places(Q, x) \cup {<<l, Len(Q[l]) + 1>>}
         /\ x # t => Places(Added(Q, l, t), x) \subseteq Places(Q, x)
         /\ \A k \in Locks : x \in Elems(Added(Q, l, t)[k]) => x \in Elems(Q[k]) \/ (x = t /\ k = l)
<1> DEFINE R == Added(Q, l, t)
<1>1. ASSUME NEW k \in Locks, NEW i \in DOMAIN R[k]
      PROVE  \/ i \in DOMAIN Q[k] /\ Q[k][i] = R[k][i]
             \/ k = l /\ i = Len(Q[l]) + 1 /\ R[k][i] = t
  <2>1. CASE k = l
    <3>1. R[k] = Append(Q[l], t) /\ Q[l] \in Seq(Threads)
      BY <2>1 DEF Added
    <3>2. i \in 1..(Len(Q[l]) + 1) /\ Len(Q[l]) \in Nat
      BY <3>1
    <3> QED
      BY <2>1, <3>1, <3>2
  <2>2. CASE k # l
    BY <2>2 DEF Added
  <2> QED
    BY <2>1, <2>2
<1>2. ASSUME NEW p \in Places(R, x), p \notin Places(Q, x)
      PROVE  x = t /\ p = <<l, Len(Q[l]) + 1>>
  <2>1. /\ p[1] \in Locks /\ p[2] \in Nat /\ p = <<p[1], p[2]>>
        /\ p[2] \in DOMAIN R[p[1]] /\ R[p[1]][p[2]] = x
    BY DEF Places
  <2>2. ~(p[2] \in DOMAIN Q[p[1]] /\ Q[p[1]][p[2]] = x)
    BY <1>2, <2>1 DEF Places
  <2> QED
    BY <1>1, <2>1, <2>2
<1>3. ASSUME NEW k \in Locks, x \in Elems(R[k])
      PROVE  x \in Elems(Q[k]) \/ (x = t /\ k = l)
  <2>1. PICK i \in DOMAIN R[k] : R[k][i] = x
    BY <1>3 DEF Elems
  <2> QED
    BY <1>1, <2>1 DEF Elems
<1> QED
  BY <1>2, <1>3

(* The requests of a thread x that does not end when the locks of L change *)
(* owner: if x has become the owner of a lock and is still queued for it,  *)
(* it is not restarted.                                                    *)
LEMMA HandedOver ==
  ASSUME Known, TypeOK', NEW L \in SUBSET Locks, ChangeOwner(L), NEW x \in Threads,
         Injects(Places(requests', x), Places(Served(L), x)),
         \A l \in Locks : x \in Elems(requests'[l]) => x \in Elems(Served(L)[l]),
         aborts' = aborts, x \notin dead => x \notin dead',
         Alive(x) /\ x \notin dead => Alive(x)',
         Blocked(x) /\ x \notin WokenHeirs(L) => Blocked(x)',
         Settled(x)' => x \in WokenHeirs(L) \/ Settled(x)
  PROVE  RequestInv(x)'
<1>0. /\ RequestInv(x) /\ requests \in [Locks -> Seq(Threads)]
      /\ requests' \in [Locks -> Seq(Threads)]
      /\ Bound(x) \in Nat /\ Bound(x)' \in Nat /\ aborts[x] \in Nat
  BY BoundType, BoundTypeNext DEF Known, TypeOK
<1>1. \A l \in Locks : x \in Elems(Served(L)[l]) => x \in Elems(requests[l])
  BY <1>0, ServedFacts
<1>2. Pending(requests', x) => Pending(Served(L), x) /\ Pending(requests, x)
  BY <1>1 DEF Pending
<1>a. x \in WokenHeirs(L) => ~Pending(requests', x)
  BY <1>2 DEF WokenHeirs
<1>3. Pending(requests', x) => Alive(x)' /\ x \notin dead'
  BY <1>0, <1>2 DEF RequestInv
<1>4. AtMost(Bound(x)', Places(requests', x))
  <2>1. CASE x \in WokenHeirs(L)
    <3>2. Places(requests', x) = {}
      BY <1>0, <1>a, <2>1, PlacesPending
    <3> QED
      BY <1>0, <3>2, AtMostEmpty
  <2>2. CASE x \notin WokenHeirs(L)
    <3>1. Bound(x) <= Bound(x)'
      BY <1>0, <2>2 DEF Bound
    <3>2. AtMost(Bound(x), Places(requests, x))
      BY <1>0 DEF RequestInv
    <3>3. AtMost(Bound(x), Places(Served(L), x))
      BY <1>0, <3>2, ServedFacts, AtMostInjects
    <3>4. AtMost(Bound(x), Places(requests', x))
      BY <1>0, <3>3, AtMostInjects
    <3> QED
      BY <1>0, <3>1, <3>4, AtMostUp
  <2> QED
    BY <2>1, <2>2
<1>5. ASSUME NEW l \in Locks, owner'[l] = x, x \in Elems(requests'[l])
      PROVE  aborts'[x] > 0
  <2>1. Pending(Served(L), x) /\ x \in Elems(requests[l])
    BY <1>1, <1>5 DEF Pending
  <2>2. CASE l \in L
    <3>1. x = Heir(l) /\ x # NoThread
      BY <1>5, <2>2, NewOwner, ConstantsAssumption
    <3>2. x \in Heirs(L)
      BY <2>2, <3>1 DEF Heirs
    <3> QED
      BY <2>1, <3>2, HeirFacts
  <2>3. CASE l \notin L
    <3>1. owner[l] = x
      BY <1>5, <2>3, NewOwner
    <3> QED
      BY <1>0, <2>1, <3>1 DEF RequestInv, SelfQueued
  <2> QED
    BY <2>2, <2>3
<1>6. Settled(x)' => ~Pending(requests', x)
  BY <1>0, <1>2, <1>a DEF RequestInv
<1> QED
  BY <1>3, <1>4, <1>5, <1>6 DEF RequestInv, SelfQueued

LEMMA RequestStep ==
  ASSUME Known, [Next]_vars, NEW x \in Threads
  PROVE  RequestInv(x)'
<1>t. TypeOK'
  BY TypeStep DEF Known
<1>0. /\ RequestInv(x) /\ owner \in [Locks -> Threads \cup {NoThread}]
      /\ requests \in [Locks -> Seq(Threads)] /\ requests' \in [Locks -> Seq(Threads)]
      /\ Bound(x) \in Nat /\ Bound(x)' \in Nat
      /\ aborts[x] \in Nat /\ aborts'[x] \in Nat /\ aborts[x] <= aborts'[x]
  BY <1>t, BoundType, BoundTypeNext, AbortsStep DEF Known, TypeOK
<1>a. Alive(x) /\ x \notin dead' => Alive(x)'
  BY AliveStep
<1>1. CASE Unlocked
  <2>1. /\ requests' = requests /\ owner' = owner /\ dead' = dead
        /\ Blocked(x) => Blocked(x)' \/ aborts'[x] > aborts[x]
        /\ Settled(x)' => Settled(x)
    BY <1>1 DEF Unlocked, lockVars
  <2>2. AtMost(Bound(x)', Places(requests', x))
    <3>1. Bound(x) <= Bound(x)'
      BY <1>0, <2>1 DEF Bound
    <3> QED
      BY <1>0, <2>1, <3>1, AtMostUp DEF RequestInv
  <2>3. Pending(requests', x) => Alive(x)' /\ x \notin dead'
    BY <1>0, <1>a, <2>1 DEF RequestInv
  <2>4. SelfQueued(x)' => aborts'[x] > 0
    BY <1>0, <2>1 DEF RequestInv, SelfQueued
  <2>5. Settled(x)' => ~Pending(requests', x)
    BY <1>0, <2>1 DEF RequestInv
  <2> QED
    BY <2>2, <2>3, <2>4, <2>5 DEF RequestInv
<1>2. ASSUME NEW t \in Threads, NEW k \in Locks,
             EnterFree(t, k) \/ EnterAgain(t, k) \/ ExitInner(t, k)
      PROVE  RequestInv(x)'
  <2>1. /\ requests' = requests /\ dead' = dead /\ aborts' = aborts /\ raised' = raised
        /\ status' = status /\ call' = call /\ ready' = ready
        /\ \A l \in Locks : owner'[l] = owner[l] \/ (owner[l] = NoThread /\ l = k)
    BY <1>0, <1>2 DEF EnterFree, EnterAgain, ExitInner, threadVars, listVars
  <2>2. Bound(x)' = Bound(x) /\ (Settled(x)' => Settled(x))
    BY <2>1 DEF Bound, Blocked, Settled, InEnter
  <2>3. \A l \in Locks : owner[l] = NoThread => Elems(requests[l]) = {}
    BY DEF Known, LockInv, Elems
  <2>4. AtMost(Bound(x)', Places(requests', x))
    BY <1>0, <2>1, <2>2 DEF RequestInv
  <2>5. Pending(requests', x) => Alive(x)' /\ x \notin dead'
    BY <1>0, <1>a, <2>1 DEF RequestInv
  <2>6. SelfQueued(x)' => aborts'[x] > 0
    BY <1>0, <2>1, <2>3 DEF RequestInv, SelfQueued
  <2>7. Settled(x)' => ~Pending(requests', x)
    BY <1>0, <2>1, <2>2 DEF RequestInv
  <2> QED
    BY <2>4, <2>5, <2>6, <2>7 DEF RequestInv
<1>3. ASSUME NEW t \in Threads, NEW k \in Locks, EnterBlocked(t, k) PROVE RequestInv(x)'
  <2>1. /\ requests' = Added(requests, k, t) /\ owner' = owner
        /\ dead' = dead /\ aborts' = aborts /\ raised' = raised /\ owner[k] # t
        /\ ready' = ready \ {t}
        /\ x # t => status'[x] = status[x] /\ call'[x] = call[x]
    BY <1>3 DEF EnterBlocked, Block, Added, threadVars, Known, TypeOK
  <2>2. Alive(t) /\ t \notin dead /\ Blocked(t)' /\ ~Settled(t)' /\ ~Blocked(t)
    BY <1>3, <2>1, RunningReady
       DEF EnterBlocked, Block, Blocked, Settled, InEnter, Known, TypeOK
  <2> DEFINE s == <<k, Len(requests[k]) + 1>>
             R == Added(requests, k, t)
  <2>a. /\ Places(R, x) \subseteq Places(requests, x) \cup {s}
        /\ x # t => Places(R, x) \subseteq Places(requests, x)
        /\ \A l \in Locks : x \in Elems(R[l]) => x \in Elems(requests[l]) \/ (x = t /\ l = k)
    BY <1>0, AddedPlaces
  <2> HIDE DEF s, R
  <2>b. requests' = R
    BY <2>1 DEF R
  <2>3. /\ Places(requests', x) \subseteq Places(requests, x) \cup {s}
        /\ x # t => Places(requests', x) \subseteq Places(requests, x)
        /\ \A l \in Locks : x \in Elems(requests'[l]) => x \in Elems(requests[l]) \/ (x = t /\ l = k)
    BY <2>a, <2>b
  <2>4. AtMost(Bound(x), Places(requests, x))
    BY <1>0 DEF RequestInv
  <2>c. SelfQueued(x)' => aborts'[x] > 0
    BY <1>0, <2>1, <2>3 DEF RequestInv, SelfQueued
  <2>5. CASE x = t
    <3>1. Bound(x)' = Bound(x) + 1
      BY <1>0, <2>1, <2>2, <2>5 DEF Bound
    <3>2. AtMost(Bound(x)', Places(requests', x))
      BY <1>0, <2>3, <2>4, <3>1, AtMostAdd
    <3>3. Alive(x)' /\ x \notin dead'
      BY <1>a, <2>1, <2>2, <2>5
    <3> QED
      BY <2>c, <2>2, <2>5, <3>2, <3>3 DEF RequestInv
  <2>6. CASE x # t
    <3>1. Bound(x)' = Bound(x) /\ (Settled(x)' => Settled(x))
      BY <2>1, <2>6 DEF Bound, Blocked, Settled, InEnter
    <3>2. Places(requests', x) \in SUBSET Places(requests, x)
      BY <2>3, <2>6
    <3>3. AtMost(Bound(x)', Places(requests', x))
      BY <1>0, <2>4, <3>1, <3>2, AtMostSubset
    <3>4. Pending(requests', x) => Pending(requests, x)
      BY <2>3, <2>6 DEF Pending
    <3>5. Pending(requests', x) => Alive(x)' /\ x \notin dead'
      BY <1>0, <1>a, <2>1, <3>4 DEF RequestInv
    <3>6. Settled(x)' => ~Pending(requests', x)
      BY <1>0, <3>1, <3>4 DEF RequestInv
    <3> QED
      BY <2>c, <3>3, <3>5, <3>6 DEF RequestInv
  <2> QED
    BY <2>5, <2>6
<1>4. ASSUME NEW t \in Threads, NEW k \in Locks, ExitLast(t, k) PROVE RequestInv(x)'
  <2> DEFINE L == {k}
             W == WokenHeirs(L)
             D == Demoted(L)
  <2>1. /\ L \in SUBSET Locks /\ ChangeOwner(L) /\ requests' = Served(L)
        /\ dead' = dead /\ aborts' = aborts /\ call' = call /\ raised' = raised
    BY <1>4 DEF ExitLast, threadVars
  <2>2. /\ status'[x] = IF x \in D THEN "Waiting" ELSE IF x \in W THEN "Ready" ELSE status[x]
        /\ ready' = ready \cup (W \ suspended)
    BY <1>4, ExitWakes DEF Wakes, StatusBy, PutReady
  <2>3. Injects(Places(requests', x), Places(Served(L), x))
    <3>1. Places(requests', x) = Places(Served(L), x)
      BY <2>1
    <3> DEFINE S == Places(Served(L), x)
    <3>2. [p \in S |-> p] \in [S -> S] /\ \A p, q \in S : [r \in S |-> r][p] = [r \in S |-> r][q] => p = q
      OBVIOUS
    <3>3. Injects(S, S)
      BY <3>2 DEF Injects
    <3> QED
      BY <3>1, <3>3
  <2>4. \A l \in Locks : x \in Elems(requests'[l]) => x \in Elems(Served(L)[l])
    BY <2>1
  <2>5. /\ Blocked(x) /\ x \notin W => Blocked(x)'
        /\ Settled(x)' => x \in W \/ Settled(x)
    BY <2>1, <2>2 DEF Blocked, Settled, InEnter
  <2> HIDE DEF L
  <2> QED
    BY <1>t, <1>a, <2>1, <2>3, <2>4, <2>5, HandedOver
<1>5. ASSUME NEW t \in Threads, ThreadExit(t) \/ ReapDead(t) PROVE RequestInv(x)'
  <2> DEFINE L == Owned(t)
             Q == Served(L)
             W == Ending(t)
             D == Demoted(L)
  <2>1. /\ L \in SUBSET Locks /\ ChangeOwner(L) /\ dead' = dead \cup {t}
        /\ aborts' = aborts /\ call' = call /\ raised' = raised \ {t}
        /\ requests' = Deleted(Q, t)
    BY <1>5 DEF ThreadExit, ReapDead, Passivate, Owned, Deleted
  <2>a. Q \in [Locks -> Seq(Threads)]
    BY <1>0, ServedType
  <2> HIDE DEF Q
  <2>2. Ends(t, W, D)
    BY <1>5, EndsActions DEF EndStep
  <2>3. /\ Injects(Places(requests', x), Places(Q, x))
        /\ \A l \in Locks : x \in Elems(requests'[l]) => x \in Elems(Q[l])
        /\ \A l \in Locks : t \notin Elems(requests'[l])
    BY <2>1, <2>a, DeletedFacts
  <2>4. CASE x = t
    <3>1. ~Pending(requests', t) /\ ~SelfQueued(t)'
      BY <2>3 DEF Pending, SelfQueued
    <3>2. Places(requests', t) = {}
      BY <1>0, <3>1, PlacesPending
    <3>3. AtMost(Bound(t)', Places(requests', t))
      BY <1>0, <2>4, <3>2, AtMostEmpty
    <3> QED
      BY <2>4, <3>1, <3>3 DEF RequestInv
  <2>5. CASE x # t
    <3>1. x \notin dead => x \notin dead'
      BY <2>1, <2>5
    <3>2. /\ Blocked(x) /\ x \notin WokenHeirs(L) => Blocked(x)'
          /\ Settled(x)' => x \in WokenHeirs(L) \/ Settled(x)
      <4>1. InEnter(x) /\ x \notin WokenHeirs(L) => x \notin W
        BY FreedFacts DEF Ending, InEnter
      <4>2. x \notin W => /\ status'[x] = IF x \in D THEN "Waiting" ELSE status[x]
                          /\ x \in ready' => x \in ready
        BY <2>2, <2>5 DEF Ends, StatusBy
      <4>3. InEnter(x)' <=> InEnter(x)
        BY <2>1, <2>5 DEF InEnter
      <4> HIDE DEF L, W, D
      <4> QED
        BY <4>1, <4>2, <4>3 DEF Blocked, Settled
    <3> HIDE DEF L
    <3>3. Injects(Places(requests', x), Places(Served(L), x))
          /\ \A l \in Locks : x \in Elems(requests'[l]) => x \in Elems(Served(L)[l])
      BY <2>3 DEF Q
    <3> QED
      BY <1>t, <1>a, <2>1, <3>1, <3>2, <3>3, HandedOver
  <2> QED
    BY <2>4, <2>5
<1> QED
  BY <1>1, <1>2, <1>3, <1>4, <1>5, LockCases

(* The invariant is inductive.                                             *)
LEMMA KnownStep == Known /\ [Next]_vars => Known'
<1> SUFFICES ASSUME Known, [Next]_vars PROVE Known'
  OBVIOUS
<1>1. TypeOK' /\ EnterInv'
  BY TypeStep, EnterStep DEF Known
<1>2. Ordered'
  BY OrderStep
<1>3. \A t \in Threads : ListInv(t)' /\ CallInv(t)' /\ RequestInv(t)'
  BY ListStep, CallStep, RequestStep
<1>4. \A l \in Locks : LockInv(l)'
  BY LockStep
<1> QED
  BY <1>1, <1>2, <1>3, <1>4 DEF Known

(* Lists, calls, requests and locks are as the invariant says in every     *)
(* reachable state, whatever the number of Aborts.                         *)
THEOREM KnownAlways == Spec => []Known
<1>1. Init => Known
  BY KnownInit
<1>2. Known /\ [Next]_vars => Known'
  BY KnownStep
<1> QED
  BY <1>1, <1>2, PTL DEF Spec

(* The two lists share out the threads with work left, and a status or     *)
(* flag changes only with the move between them, except where              *)
(* ChangeLockRequestCount makes a thread of the ready list Waiting: one    *)
(* that was aborted twice and still has a lock request.                    *)
THEOREM ListsCorrect == Spec => []ListsAgree
<1>1. Known => ListsAgree
  <2> SUFFICES ASSUME Known PROVE ListsAgree
    OBVIOUS
  <2>1. /\ \A t \in Threads : ListInv(t)
        /\ ready \subseteq Threads /\ waiting \subseteq Threads
        /\ current \in ready \cup {NoThread}
    BY DEF Known, TypeOK, EnterInv, CurrentInv
  <2>2. /\ ready \subseteq Listed \ suspended
        /\ waiting = Listed \ ready
    BY <2>1 DEF ListInv, Listed
  <2>3. \A t \in waiting : status[t] = "Ready" => t \in suspended
    BY <2>1, <2>2 DEF ListInv
  <2>4. \A t \in ready : status[t] = "Waiting" => Tangled(t)
    BY <2>1 DEF ListInv
  <2>5. \A u, v \in waiting : u # v => (<<u, v>> \in ahead) # (<<v, u>> \in ahead)
    BY OrderTotal DEF Known, Ordered
  <2> QED
    BY <2>1, <2>2, <2>3, <2>4, <2>5 DEF ListsAgree
<1> QED
  BY <1>1, KnownAlways, PTL

(* A free lock has an empty queue and no recursion, an owner is alive, and *)
(* a terminated thread holds no lock and waits for none: Passivate hands   *)
(* over and deletes all of them.                                           *)
THEOREM LocksCorrect == Spec => []LocksConsistent
<1>1. Known => LocksConsistent
  BY DEF Known, LocksConsistent, LockInv, RequestInv
<1> QED
  BY <1>1, KnownAlways, PTL

(* A thread is queued once for the lock it is blocked on, and once more at *)
(* most for every Abort of an Enter.                                       *)
THEOREM RequestsCorrect == Spec => []RequestsAccounted
<1>1. Known => RequestsAccounted
  <2> SUFFICES ASSUME Known, NEW t \in Threads
               PROVE  Cardinality(QueuedFor(t)) <= Bound(t)
    BY DEF RequestsAccounted, Bound, Blocked
  <2>1. AtMost(Bound(t), Places(requests, t))
    BY DEF Known, RequestInv
  <2>2. QueuedFor(t) = Places(requests, t)
    BY QueuedForPlaces DEF Known, TypeOK
  <2> QED
    BY <2>1, <2>2 DEF AtMost
<1> QED
  BY <1>1, KnownAlways, PTL

-----------------------------------------------------------------------------
(* Join, blocked threads and wake-ups.                                     *)

JoinInv == signaled \cap Threads = dead

(* A Thread object is signaled exactly when the thread has ended, and then *)
(* its locks were handed over: Join returns neither early nor never.       *)
THEOREM JoinCorrect == Spec => []JoinSeesEnd
<1>1. Init => JoinInv
  BY DEF Init, JoinInv
<1>2. Known /\ JoinInv /\ [Next]_vars => JoinInv'
  <2> SUFFICES ASSUME Known, JoinInv, [Next]_vars PROVE JoinInv'
    OBVIOUS
  <2> USE DEF JoinInv, vars, listVars, threadVars, waitVars
  <2>0. (AutoReset \cup ManualReset) \cap Threads = {}
    BY ConstantsAssumption
  <2>a. \A w, sig : Consumed(w, sig) \cap Threads = {}
    BY <2>0 DEF Consumed
  <2>1. CASE UNCHANGED vars
    BY <2>1
  <2>2. ASSUME NEW t \in Threads, Passivate(t) PROVE JoinInv'
    BY <2>2 DEF Passivate, SignalEffect
  <2>3. ASSUME NEW t \in Threads, Engine(t) PROVE JoinInv'
    BY <2>2, <2>3 DEF Engine, Dispatch, WaitTimeout, SleepTimeout, ReapDead
  <2>4. ASSUME NEW t \in Threads, MonitorCall(t) PROVE JoinInv'
    BY <2>4 DEF MonitorCall, EnterFree, EnterAgain, EnterBlocked, ExitInner, ExitLast
  <2>5. ASSUME NEW t \in Threads, WaitCall(t) PROVE JoinInv'
    <3>1. ASSUME NEW h \in Handles, Set(t, h) PROVE JoinInv'
      <4> DEFINE used == UNION {Consumed(wait[u], signaled \cup {h}) : u \in Freed(h)}
      <4>1. used \cap Threads = {}
        BY <2>a
      <4>2. signaled' = (signaled \cup {h}) \ used /\ h \notin Threads /\ dead' = dead
        BY <3>1, <2>0 DEF Set, SignalEffect
      <4> HIDE DEF used
      <4> QED
        BY <4>1, <4>2
    <3>2. ASSUME NEW h \in Handles, SetHangs(t, h) \/ Reset(t, h) PROVE JoinInv'
      BY <2>0, <3>2 DEF SetHangs, Reset
    <3>3. ASSUME NEW w \in Waits, WaitSignaled(t, w) PROVE JoinInv'
      <4>1. Consumed(w, signaled) \cap Threads = {}
        BY <2>a
      <4> QED
        BY <3>3, <4>1 DEF WaitSignaled
    <3>4. ASSUME NEW w \in Waits, WaitBlocked(t, w) PROVE JoinInv'
      BY <3>4 DEF WaitBlocked
    <3>5. ASSUME NEW timed \in BOOLEAN, Sleep(t, timed) PROVE JoinInv'
      BY <3>5 DEF Sleep
    <3> QED
      BY <2>5, <3>1, <3>2, <3>3, <3>4, <3>5 DEF WaitCall
  <2>6. ASSUME NEW t \in Threads, ThreadCall(t) PROVE JoinInv'
    <3>1. ASSUME NEW u \in Threads, Start(t, u) PROVE JoinInv'
      BY <3>1 DEF Start, Known, CallInv
    <3>2. ASSUME NEW u \in Threads, Suspend(t, u) \/ Resume(t, u) \/ Abort(t, u) PROVE JoinInv'
      BY <3>2 DEF Suspend, Resume, Abort
    <3>3. CASE EndQuantum(t) \/ SuspendSelf(t) \/ ThreadExit(t) \/ ExitHangs(t) \/ ExitCorrupts(t)
      BY <2>2, <3>3 DEF EndQuantum, SuspendSelf, ThreadExit, ExitHangs, ExitCorrupts
    <3> QED
      BY <2>6, <3>1, <3>2, <3>3 DEF ThreadCall
  <2> QED
    BY <2>1, <2>3, <2>4, <2>5, <2>6 DEF Next
<1>3. Spec => []JoinInv
  BY <1>1, <1>2, KnownAlways, PTL DEF Spec
<1>4. Known /\ JoinInv => JoinSeesEnd
  <2> SUFFICES ASSUME Known, JoinInv PROVE JoinSeesEnd
    OBVIOUS
  <2>1. ASSUME NEW t \in dead PROVE t # current /\ Owned(t) = {}
    <3>1. t \in Threads /\ t # NoThread
      BY ConstantsAssumption DEF Known, TypeOK
    <3>2. t # current
      BY <3>1 DEF Known, EnterInv, CurrentInv
    <3>3. \A l \in Locks : owner[l] # t
      BY <3>1 DEF Known, LockInv
    <3> QED
      BY <3>2, <3>3 DEF Owned
  <2> QED
    BY <2>1 DEF JoinSeesEnd, JoinInv
<1> QED
  BY <1>3, <1>4, KnownAlways, PTL

(* A thread that is blocked after a step was blocked before, in the same   *)
(* call and wait, or blocks in this step, or has a request that is queued. *)
Resting(x) ==
  status[x] = "Waiting" /\ call'[x] = call[x] /\ wait'[x] = wait[x]

LEMMA StayBlocked ==
  ASSUME Known, [Next]_vars, NEW x \in Threads, status'[x] = "Waiting"
  PROVE  Resting(x) \/ Blocks(x) \/ Pending(requests', x)
<1>0. /\ status \in [Threads -> {"Unstarted", "Ready", "Waiting", "Terminated"}]
      /\ call \in [Threads -> [op : Ops, lock : Locks \cup {NoLock}]]
      /\ wait \in [Threads -> Waits \cup {NoWait}]
  BY DEF Known, TypeOK
<1>a. status[x] = "Waiting" /\ x \in ready => Pending(requests', x)
  BY PendingStep DEF Known, ListInv, Tangled
<1>1. CASE Stays
  BY <1>0, <1>1, <1>a DEF Stays, Resting
<1>2. ASSUME NEW t \in Threads, Blocks(t) PROVE Resting(x) \/ Blocks(x)
  <2>1. CASE x = t
    BY <1>2, <2>1
  <2>2. CASE x # t
    BY <1>0, <1>2, <2>2 DEF Blocks, Resting
  <2> QED
    BY <2>1, <2>2
<1>3. ASSUME NEW t \in Threads, EndStep(t) PROVE Resting(x) \/ Pending(requests', x)
  <2> DEFINE W == Ending(t)
             D == Demoted(Owned(t))
  <2>1. Ends(t, W, D)
    BY <1>3 DEF EndStep
  <2> HIDE DEF W, D
  <2> QED
    BY <2>1 DEF Ends, Demotes, StatusBy, Resting
<1>4. ASSUME NEW W, NEW D, Wakes(W, D) PROVE Resting(x) \/ Pending(requests', x)
  BY <1>4 DEF Wakes, WaitsAfter, Demotes, StatusBy, Resting
<1>5. ASSUME NEW t \in Threads, Moves(t) PROVE Resting(x) \/ Pending(requests', x)
  <2>1. CASE SuspendSelf(t) \/ EndQuantum(t)
    <3>1. t \in ready
      BY <2>1, RunningReady DEF SuspendSelf, EndQuantum
    <3> QED
      BY <1>0, <1>a, <2>1, <3>1 DEF SuspendSelf, EndQuantum, waitVars, Resting
  <2>2. ASSUME NEW u \in Threads, Start(t, u) \/ Suspend(t, u) PROVE Resting(x)
    BY <1>0, <2>2 DEF Start, Suspend, waitVars, Resting
  <2>3. ASSUME NEW u \in Threads, Resume(t, u) PROVE Resting(x)
    BY <1>0, <2>3 DEF Resume, Resting
  <2> QED
    BY <1>5, <2>1, <2>2, <2>3 DEF Moves
<1> QED
  BY <1>1, <1>2, <1>3, <1>4, <1>5, Shapes

StuckInv ==
  \A t \in Threads : status[t] = "Waiting" =>
    \/ call[t].op = "Wait" /\ wait[t] # NoWait
    \/ call[t].op = "Sleep"
    \/ Pending(requests, t)

LEMMA StuckStep ==
  ASSUME <<>> \notin WaitArrays, Known, StuckInv, [Next]_vars
  PROVE  StuckInv'
<1> SUFFICES ASSUME NEW x \in Threads, status'[x] = "Waiting"
             PROVE  \/ call'[x].op = "Wait" /\ wait'[x] # NoWait
                    \/ call'[x].op = "Sleep"
                    \/ Pending(requests', x)
  BY DEF StuckInv
<1>1. CASE Resting(x)
  BY <1>1, PendingStep DEF StuckInv, Resting
<1>2. CASE Blocks(x)
  <2>1. ASSUME NEW w \in Waits PROVE w # NoWait
    <3>1. w.objs \in Arrays
      BY DEF Waits, Arrays
    <3>2. w.objs # <<>>
      <4>1. \A h : Len(<<h>>) = 1
        OBVIOUS
      <4>2. Len(<<>>) = 0
        OBVIOUS
      <4>3. \A h : <<h>> # <<>>
        BY <4>1, <4>2
      <4> QED
        BY <3>1, <4>3 DEF Arrays
    <3> QED
      BY <3>2 DEF NoWait
  <2> QED
    BY <1>2, <2>1 DEF Blocks
<1> QED
  BY <1>1, <1>2, StayBlocked

(* Every blocked thread has a wait, a sleep or a request for a lock that   *)
(* another live thread owns, so that somebody or the clock can restart it, *)
(* or it was aborted and is queued for a lock of its own; provided no      *)
(* program waits for any of an empty array.                                *)
THEOREM NobodyStuck ==
  ASSUME <<>> \notin WaitArrays
  PROVE  Spec => []NoStuckThread
<1>1. Init => StuckInv
  BY DEF Init, StuckInv
<1>2. Known /\ StuckInv /\ [Next]_vars => StuckInv'
  BY StuckStep
<1>3. Known /\ StuckInv => NoStuckThread
  <2> SUFFICES ASSUME Known, NEW t \in Threads, Pending(requests, t)
               PROVE  \/ \E l \in Locks : t \in Elems(requests[l]) /\ owner[l] \notin {t, NoThread}
                      \/ aborts[t] > 0 /\ SelfQueued(t)
    BY DEF StuckInv, NoStuckThread
  <2>1. PICK l \in Locks : t \in Elems(requests[l])
    BY DEF Pending
  <2>2. owner[l] # NoThread
    BY <2>1 DEF Known, LockInv, Elems
  <2>3. SelfQueued(t) => aborts[t] > 0
    BY DEF Known, RequestInv
  <2> QED
    BY <2>1, <2>2, <2>3 DEF SelfQueued
<1> QED
  BY <1>1, <1>2, <1>3, KnownAlways, PTL DEF Spec

(* What is satisfied stays so when more objects are signaled.              *)
LEMMA SatisfiedMore ==
  ASSUME NEW w, NEW S, NEW S2, S \subseteq S2, Satisfied(w, S)
  PROVE  Satisfied(w, S2)
BY DEF Satisfied

(* If a thread takes the signal of h, one that is freed does.              *)
LEMMA FirstTaker ==
  ASSUME Known, NEW h, Takers(h) # {}
  PROVE  Takers(h) \cap Freed(h) # {}
<1>1. Takers(h) \in SUBSET waiting
  BY DEF Takers, Satisfiable
<1>2. PICK u \in Takers(h) : \A v \in Takers(h) : u = v \/ <<u, v>> \in ahead
  BY <1>1 DEF Known, Ordered, OrderOn
<1>3. u \in Freed(h)
  BY <1>2 DEF Freed, Takers
<1> QED
  BY <1>2, <1>3

(* A thread whose wait is not satisfied and that SignalObject of h does    *)
(* not free has a wait that is not satisfied afterwards.                   *)
LEMMA LeftBlocked ==
  ASSUME Known, NEW h, NEW x \in Threads \ Freed(h), wait[x] # NoWait,
         ~Satisfied(wait[x], signaled),
         signaled' \subseteq signaled \cup {h},
         Takers(h) \cap Freed(h) # {} => h \notin signaled'
  PROVE  ~Satisfied(wait[x], signaled')
<1>1. x \in waiting
  <2>1. Alive(x) /\ x \notin ready /\ ListInv(x)
    BY DEF Known, CallInv, EnterInv, ThreadInv
  <2>2. status[x] \in {"Unstarted", "Ready", "Waiting", "Terminated"}
    BY DEF Known, TypeOK
  <2> QED
    BY <2>1, <2>2 DEF ListInv, Listed, Alive
<1>2. CASE x \notin Satisfiable(h)
  <2>1. ~Satisfied(wait[x], signaled \cup {h})
    BY <1>1, <1>2 DEF Satisfiable
  <2> QED
    BY <2>1, SatisfiedMore
<1>3. CASE x \in Satisfiable(h)
  <2>1. Takers(h) # {}
    BY <1>3 DEF Freed
  <2>2. signaled' \subseteq signaled
    BY <2>1, FirstTaker
  <2> QED
    BY <2>2, SatisfiedMore
<1> QED
  BY <1>2, <1>3

(* How a step changes the result of x: a thread whose wait times out loses *)
(* it unless it is suspended.                                              *)
FreedIn(x) ==
  \E t \in Threads, h \in Handles :
    /\ Set(t, h) \/ (h = t /\ (ThreadExit(t) \/ ReapDead(t)))
    /\ x \in Freed(h)

LEMMA ResultStep ==
  ASSUME Known, [Next]_vars, NEW x \in Threads
  PROVE  \/ result'[x] \in {result[x], "Init"}
         \/ result'[x] = "Timeout" /\ wait'[x] = NoWait
         \/ result'[x] = "Signaled" /\ FreedIn(x)
<1> DEFINE Goal ==
      \/ result'[x] \in {result[x], "Init"}
      \/ result'[x] = "Timeout" /\ wait'[x] = NoWait
      \/ result'[x] = "Signaled" /\ FreedIn(x)
<1>0. result \in [Threads -> {"Init", "Signaled", "Timeout"}]
  BY DEF Known, TypeOK
<1> USE DEF vars, listVars, threadVars, waitVars
<1>1. CASE UNCHANGED vars
  BY <1>1
<1>2. ASSUME NEW t \in Threads, NEW h \in Handles, Set(t, h) PROVE Goal
  <2>1. result' = [u \in Threads |-> IF u \in Freed(h) THEN "Signaled" ELSE result[u]]
    BY <1>2 DEF Set, SignalEffect
  <2> QED
    BY <1>2, <2>1 DEF FreedIn
<1>3. ASSUME NEW t \in Threads, ThreadExit(t) \/ ReapDead(t) PROVE Goal
  <2>1. result' = [u \in Threads |-> IF u \in Freed(t) THEN "Signaled" ELSE result[u]]
    BY <1>3 DEF ThreadExit, ReapDead, Passivate, SignalEffect
  <2>2. t \in Handles
    BY DEF Handles
  <2> QED
    BY <1>3, <2>1, <2>2 DEF FreedIn
<1>a. ASSUME NEW t \in Threads, WaitTimeout(t) \/ SleepTimeout(t) PROVE Goal
  <2>1. t \notin suspended /\ wait' = WaitsAfter({t})
    BY <1>a DEF WaitTimeout, SleepTimeout
  <2>2. wait'[t] = NoWait
    BY <2>1 DEF WaitsAfter
  <2>3. result' = result \/ result' = [result EXCEPT ![t] = "Timeout"]
    BY <1>a DEF WaitTimeout, SleepTimeout
  <2> QED
    BY <1>0, <2>2, <2>3
<1>4. ASSUME NEW t \in Threads, Engine(t) PROVE Goal
  BY <1>0, <1>3, <1>a, <1>4 DEF Engine, Dispatch
<1>5. ASSUME NEW t \in Threads, MonitorCall(t) PROVE Goal
  BY <1>5 DEF MonitorCall, EnterFree, EnterAgain, EnterBlocked, ExitInner, ExitLast
<1>6. ASSUME NEW t \in Threads, WaitCall(t) PROVE Goal
  <2>1. ASSUME NEW w \in Waits, WaitBlocked(t, w) PROVE Goal
    BY <1>0, <2>1 DEF WaitBlocked
  <2> QED
    BY <1>2, <1>6, <2>1 DEF WaitCall, SetHangs, Reset, WaitSignaled, Sleep
<1>7. ASSUME NEW t \in Threads, ThreadCall(t) PROVE Goal
  BY <1>3, <1>7 DEF ThreadCall, EndQuantum, SuspendSelf, ExitHangs, ExitCorrupts, Start, Suspend,
                    Resume, Abort
<1> QED
  BY <1>1, <1>4, <1>5, <1>6, <1>7 DEF Next

(* A wait that nothing has ended after a step was the same before, or is   *)
(* of a thread that blocks in this step.                                   *)
LEMMA StillStep ==
  ASSUME Known, [Next]_vars, NEW x \in Threads, wait'[x] # NoWait
  PROVE  Blocks(x) \/ (wait'[x] = wait[x] /\ (result'[x] = "Init" => StillWaits(x)))
<1> DEFINE Same == wait'[x] = wait[x] /\ (result'[x] = "Init" => StillWaits(x))
<1>0. /\ result \in [Threads -> {"Init", "Signaled", "Timeout"}]
      /\ wait \in [Threads -> Waits \cup {NoWait}]
  BY DEF Known, TypeOK
<1> USE DEF vars, listVars, threadVars, waitVars, StillWaits
<1>a. \A W : WaitsAfter(W)[x] # NoWait => WaitsAfter(W)[x] = wait[x]
  BY DEF WaitsAfter
<1>b. ASSUME NEW W, NEW r, NEW v \in Threads,
             wait' = WaitsAfter(W) \/ wait' = [WaitsAfter(W) EXCEPT ![v] = NoWait],
             result'[x] = result[x] \/ result'[x] = r, r # "Init"
      PROVE  Same
  <2>1. wait'[x] = WaitsAfter(W)[x]
    BY <1>b DEF WaitsAfter
  <2> QED
    BY <1>a, <1>b, <2>1
<1>1. CASE UNCHANGED vars
  BY <1>1
<1>2. ASSUME NEW t \in Threads, Passivate(t) PROVE Same
  <2>1. /\ wait' = [WaitsAfter(Ending(t)) EXCEPT ![t] = NoWait]
        /\ result'[x] = result[x] \/ result'[x] = "Signaled"
    BY <1>2 DEF Passivate, SignalEffect, Ending
  <2> QED
    BY <1>b, <2>1
<1>3. ASSUME NEW t \in Threads, Engine(t) PROVE Same
  <2>1. CASE Dispatch(t)
    <3>1. wait[t] = NoWait
      BY <2>1 DEF Dispatch, Known, EnterInv, ThreadInv
    <3> QED
      BY <1>0, <2>1, <3>1 DEF Dispatch
  <2>2. CASE WaitTimeout(t) \/ SleepTimeout(t)
    <3>1. /\ wait' = WaitsAfter({t})
          /\ result'[x] = result[x] \/ result'[x] = "Timeout"
      BY <1>0, <2>2 DEF WaitTimeout, SleepTimeout
    <3> QED
      BY <1>b, <3>1
  <2> QED
    BY <1>2, <1>3, <2>1, <2>2 DEF Engine, ReapDead
<1>4. ASSUME NEW t \in Threads, MonitorCall(t) PROVE Same
  <2>1. ASSUME NEW l \in Locks, ExitLast(t, l) PROVE Same
    <3>1. wait' = WaitsAfter(WokenHeirs({l})) /\ result' = result
      BY <2>1 DEF ExitLast
    <3> QED
      BY <1>a, <3>1
  <2> QED
    BY <1>4, <2>1 DEF MonitorCall, EnterFree, EnterAgain, EnterBlocked, ExitInner
<1>5. ASSUME NEW t \in Threads, WaitCall(t) PROVE Blocks(x) \/ Same
  <2>1. ASSUME NEW h \in Handles, Set(t, h) PROVE Same
    <3>1. wait' = WaitsAfter(Freed(h)) /\ (result'[x] = result[x] \/ result'[x] = "Signaled")
      BY <2>1 DEF Set, SignalEffect
    <3> QED
      BY <1>b, <3>1
  <2>2. ASSUME NEW w \in Waits, WaitBlocked(t, w) PROVE Blocks(x) \/ Same
    <3>1. CASE x = t
      BY <2>2, <3>1, BlocksActions
    <3>2. CASE x # t
      BY <1>0, <2>2, <3>2 DEF WaitBlocked
    <3> QED
      BY <3>1, <3>2
  <2> QED
    BY <1>5, <2>1, <2>2 DEF WaitCall, SetHangs, Reset, WaitSignaled, Sleep
<1>6. ASSUME NEW t \in Threads, ThreadCall(t) PROVE Same
  <2>1. ASSUME NEW u \in Threads, Abort(t, u) PROVE Same
    <3>1. wait' = WaitsAfter({u}) /\ result' = result
      BY <2>1 DEF Abort
    <3> QED
      BY <1>a, <3>1
  <2>2. ASSUME NEW u \in Threads, Resume(t, u) PROVE Same
    BY <1>0, <2>2 DEF Resume
  <2> QED
    BY <1>2, <1>6, <2>1, <2>2 DEF ThreadCall, EndQuantum, SuspendSelf, ThreadExit, ExitHangs,
                                  ExitCorrupts, Start, Suspend
<1> QED
  BY <1>1, <1>3, <1>4, <1>5, <1>6 DEF Next

(* Nobody whose wait is not ended waits on objects that are signaled,      *)
(* although SignalObject stops at the first thread that takes the signal   *)
(* and never looks at threads that are not in the waiting list.            *)
THEOREM WaitersSeen == Spec => []WaitersUnsignaled
<1>1. Init => WaitersUnsignaled
  BY DEF Init, WaitersUnsignaled, StillWaits
<1>2. Known /\ WaitersUnsignaled /\ [Next]_vars => WaitersUnsignaled'
  <2> SUFFICES ASSUME Known, WaitersUnsignaled, [Next]_vars,
                      NEW x \in Threads, wait'[x] # NoWait, result'[x] = "Init"
               PROVE  ~Satisfied(wait'[x], signaled')
    BY DEF WaitersUnsignaled, StillWaits
  <2>1. CASE Blocks(x)
    BY <2>1 DEF Blocks
  <2>2. CASE wait'[x] = wait[x] /\ StillWaits(x)
    <3>0. wait'[x] = wait[x] /\ wait[x] # NoWait /\ ~Satisfied(wait[x], signaled)
      BY <2>2 DEF WaitersUnsignaled, StillWaits
    <3>1. CASE signaled' \subseteq signaled
      BY <3>0, <3>1, SatisfiedMore
    <3>2. ASSUME NEW t \in Threads, NEW h \in Handles, Set(t, h)
          PROVE  ~Satisfied(wait[x], signaled')
      <4>1. x \notin Freed(h)
        BY <3>2 DEF Set, SignalEffect
      <4>2. signaled' = (signaled \cup {h})
                          \ UNION {Consumed(wait[u], signaled \cup {h}) : u \in Freed(h)}
        BY <3>2 DEF Set, SignalEffect
      <4>3. ASSUME NEW u \in Takers(h) \cap Freed(h) PROVE h \notin signaled'
        BY <4>2 DEF Takers
      <4> QED
        BY <3>0, <4>1, <4>2, <4>3, LeftBlocked
    <3>3. ASSUME NEW t \in Threads, ThreadExit(t) \/ ReapDead(t)
          PROVE  ~Satisfied(wait[x], signaled')
      <4>1. x \notin Freed(t) /\ signaled' \subseteq signaled \cup {t}
        BY <3>3 DEF ThreadExit, ReapDead, Passivate, SignalEffect
      <4>2. Takers(t) = {}
        BY ConstantsAssumption DEF Takers, Consumed
      <4> QED
        BY <3>0, <4>1, <4>2, LeftBlocked
    <3>4. \/ signaled' \subseteq signaled
          \/ \E t \in Threads : \/ ThreadExit(t) \/ ReapDead(t)
                                \/ \E h \in Handles : Set(t, h)
      <4> USE DEF vars, listVars, threadVars, waitVars
      <4>1. CASE UNCHANGED vars
        BY <4>1
      <4>2. ASSUME NEW t \in Threads, Engine(t) PROVE signaled' \subseteq signaled \/ ReapDead(t)
        BY <4>2 DEF Engine, Dispatch, WaitTimeout, SleepTimeout
      <4>3. ASSUME NEW t \in Threads, MonitorCall(t) PROVE signaled' \subseteq signaled
        BY <4>3 DEF MonitorCall, EnterFree, EnterAgain, EnterBlocked, ExitInner, ExitLast
      <4>4. ASSUME NEW t \in Threads, WaitCall(t)
            PROVE  signaled' \subseteq signaled \/ \E h \in Handles : Set(t, h)
        BY <4>4 DEF WaitCall, SetHangs, Reset, WaitSignaled, WaitBlocked, Sleep
      <4>5. ASSUME NEW t \in Threads, ThreadCall(t) PROVE signaled' \subseteq signaled \/ ThreadExit(t)
        BY <4>5 DEF ThreadCall, EndQuantum, SuspendSelf, ExitHangs, ExitCorrupts, Start, Suspend,
                    Resume, Abort
      <4> QED
        BY <4>1, <4>2, <4>3, <4>4, <4>5 DEF Next
    <3> QED
      BY <3>0, <3>1, <3>2, <3>3, <3>4
  <2> QED
    BY <2>1, <2>2, StillStep
<1> QED
  BY <1>1, <1>2, KnownAlways, PTL DEF Spec

-----------------------------------------------------------------------------
(* One signal of an auto-reset event frees one thread.                     *)

(* Of the threads blocked in WaitOne on h, a step frees one at most, and   *)
(* then the event is no longer signaled: the first taker in the order of   *)
(* the list stops the loop of SignalObject.                                *)
LEMMA SpentOnceStep ==
  ASSUME Known, WaitersUnsignaled, [Next]_vars, NEW h \in AutoReset
  PROVE  LET freed == {u \in Threads : FreedBySignal(u, h)}
         IN  Cardinality(freed) <= 1 /\ (freed # {} => h \notin signaled')
<1> DEFINE freed == {u \in Threads : FreedBySignal(u, h)}
<1>0. h \in Handles /\ h \notin Threads
  BY ConstantsAssumption DEF Handles
<1>1. ASSUME NEW u \in freed
      PROVE  /\ u \in Takers(h) \cap Freed(h)
             /\ \E t \in Threads : Set(t, h)
  <2>1. /\ u \in Threads /\ StillWaits(u) /\ wait[u].objs = <<h>>
        /\ result'[u] = "Signaled"
    BY DEF FreedBySignal
  <2>2. wait[u] # NoWait /\ result[u] = "Init" /\ ~Satisfied(wait[u], signaled)
    BY <2>1 DEF StillWaits, WaitersUnsignaled
  <2>3. PICK t \in Threads, k \in Handles :
              /\ Set(t, k) \/ (k = t /\ (ThreadExit(t) \/ ReapDead(t)))
              /\ u \in Freed(k)
    BY <2>1, <2>2, ResultStep DEF FreedIn
  <2>4. Satisfied(wait[u], signaled \cup {k})
    BY <2>3 DEF Freed, Satisfiable
  <2>5. DOMAIN wait[u].objs = {1} /\ wait[u].objs[1] = h
    BY <2>1
  <2>6. k = h
    BY <2>2, <2>4, <2>5 DEF Satisfied
  <2>7. h \in Consumed(wait[u], signaled \cup {h})
    <3>1. CASE wait[u].all
      BY <2>5, <3>1 DEF Consumed, Elems
    <3>2. CASE ~wait[u].all
      <4>1. \A i \in 1..(1 - 1) : FALSE
        OBVIOUS
      <4> QED
        BY <2>5, <3>2, <4>1 DEF Consumed
    <3> QED
      BY <3>1, <3>2
  <2>8. u \in Takers(h)
    BY <2>3, <2>6, <2>7 DEF Takers, Freed
  <2> QED
    BY <1>0, <2>3, <2>6, <2>8
<1>2. ASSUME NEW u \in freed, NEW v \in freed PROVE u = v
  <2>1. u = v \/ (<<u, v>> \in ahead /\ <<v, u>> \in ahead)
    BY <1>1 DEF Freed
  <2> QED
    BY <2>1 DEF Known, Ordered, OrderOn
<1>3. Cardinality(freed) <= 1
  <2> HIDE DEF freed
  <2>1. CASE freed = {}
    BY <2>1, FS_EmptySet
  <2>2. CASE freed # {}
    <3>1. PICK u \in freed : TRUE
      BY <2>2
    <3>2. freed = {u}
      BY <1>2
    <3> QED
      BY <3>2, FS_Singleton
  <2> QED
    BY <2>1, <2>2
<1>4. ASSUME freed # {} PROVE h \notin signaled'
  <2>1. PICK u \in freed : TRUE
    BY <1>4
  <2>2. PICK t \in Threads : Set(t, h)
    BY <1>1
  <2>3. signaled' = (signaled \cup {h})
                      \ UNION {Consumed(wait[v], signaled \cup {h}) : v \in Freed(h)}
    BY <2>2 DEF Set, SignalEffect
  <2>4. u \in Freed(h) /\ h \in Consumed(wait[u], signaled \cup {h})
    BY <1>1 DEF Takers
  <2> QED
    BY <2>3, <2>4
<1> QED
  BY <1>3, <1>4

(* One signal of an auto-reset event is not spent twice.                   *)
THEOREM SignalOnce == Spec => SignalSpentOnce
<1>1. Known /\ WaitersUnsignaled /\ [Next]_vars
        => [\A h \in AutoReset :
              LET freed == {u \in Threads : FreedBySignal(u, h)}
              IN  Cardinality(freed) <= 1 /\ (freed # {} => h \notin signaled')]_vars
  BY SpentOnceStep
<1> QED
  BY <1>1, KnownAlways, WaitersSeen, PTL DEF Spec, SignalSpentOnce

(* Where nobody is suspended, a wait ends with its result.                 *)
Unsuspended == suspended = {} /\ \A u \in Threads : wait[u] # NoWait => result[u] = "Init"

LEMMA UnsuspendedStep ==
  ASSUME Suspendable = {}, Known, Unsuspended, [Next]_vars
  PROVE  Unsuspended'
<1>1. suspended' = {}
  <2> USE DEF vars, threadVars, Unsuspended
  <2>1. CASE UNCHANGED vars
    BY <2>1
  <2>2. ASSUME NEW t \in Threads, Engine(t) PROVE suspended' = {}
    BY <2>2 DEF Engine, Dispatch, WaitTimeout, SleepTimeout, ReapDead, Passivate
  <2>3. ASSUME NEW t \in Threads, MonitorCall(t) PROVE suspended' = {}
    BY <2>3 DEF MonitorCall, EnterFree, EnterAgain, EnterBlocked, ExitInner, ExitLast
  <2>4. ASSUME NEW t \in Threads, WaitCall(t) PROVE suspended' = {}
    BY <2>4 DEF WaitCall, Set, SetHangs, Reset, WaitSignaled, WaitBlocked, Sleep
  <2>5. ASSUME NEW t \in Threads, ThreadCall(t) PROVE suspended' = {}
    BY <2>5 DEF ThreadCall, EndQuantum, SuspendSelf, ThreadExit, Passivate, ExitHangs,
                ExitCorrupts, Start, Suspend, Resume, Abort
  <2> QED
    BY <2>1, <2>2, <2>3, <2>4, <2>5 DEF Next
<1>2. ASSUME NEW x \in Threads, wait'[x] # NoWait PROVE result'[x] = "Init"
  <2>1. CASE Blocks(x)
    BY <1>2, <2>1 DEF Blocks
  <2>2. CASE wait'[x] = wait[x]
    <3>1. result[x] = "Init"
      BY <1>2, <2>2 DEF Unsuspended
    <3>2. ASSUME FreedIn(x) PROVE wait'[x] = NoWait
      <4>1. PICK t \in Threads, h \in Handles :
              /\ Set(t, h) \/ (h = t /\ (ThreadExit(t) \/ ReapDead(t)))
              /\ x \in Freed(h)
        BY <3>2 DEF FreedIn
      <4>2. CASE Set(t, h)
        BY <4>1, <4>2 DEF Set, WaitsAfter, Unsuspended
      <4>3. CASE h = t /\ (ThreadExit(t) \/ ReapDead(t))
        <5>1. x \in Ending(t) /\ EndStep(t)
          BY <4>1, <4>3, EndsActions DEF Ending
        <5> QED
          BY <5>1 DEF EndStep, Ends, Unsuspended
      <4> QED
        BY <4>1, <4>2, <4>3
    <3> QED
      BY <1>2, <3>1, <3>2, ResultStep
  <2> QED
    BY <1>2, <2>1, <2>2, StillStep
<1> QED
  BY <1>1, <1>2 DEF Unsuspended

(* No Set is lost where no thread is ever suspended: one that leaves its   *)
(* auto-reset event unsignaled frees a thread that was still waiting.      *)
THEOREM SetNotLost ==
  ASSUME Suspendable = {}
  PROVE  Spec => SetFreesWaiter
<1>1. Init => Unsuspended
  BY DEF Init, Unsuspended
<1>2. Known /\ Unsuspended /\ [Next]_vars => Unsuspended'
  BY UnsuspendedStep
<1>3. ASSUME Known, Unsuspended,
             NEW t \in Threads, NEW h \in AutoReset, Set(t, h), h \notin signaled'
      PROVE  \E u \in Threads : StillWaits(u) /\ result'[u] = "Signaled"
  <2>1. PICK u \in Freed(h) : TRUE
    <3>1. signaled' = (signaled \cup {h})
                        \ UNION {Consumed(wait[v], signaled \cup {h}) : v \in Freed(h)}
      BY <1>3 DEF Set, SignalEffect
    <3> QED
      BY <1>3, <3>1
  <2>2. u \in Threads /\ wait[u] # NoWait
    BY FreedFacts, <1>3
  <2>3. StillWaits(u)
    BY <1>3, <2>2 DEF Unsuspended, StillWaits
  <2>4. result'[u] = "Signaled"
    BY <1>3, <2>1, <2>2 DEF Set, SignalEffect
  <2> QED
    BY <2>2, <2>3, <2>4
<1>4. Known /\ Unsuspended /\ [Next]_vars
        => [\A t \in Threads, h \in AutoReset :
              Set(t, h) /\ h \notin signaled'
                => \E u \in Threads : StillWaits(u) /\ result'[u] = "Signaled"]_vars
  BY <1>3
<1> QED
  BY <1>1, <1>2, <1>4, KnownAlways, PTL DEF Spec, SetFreesWaiter

=============================================================================
