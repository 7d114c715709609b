------------------------- MODULE Completions_proofs -------------------------
(***************************************************************************)
(* Proofs about Completions, for any completions, delays and reach of the  *)
(* register: its types and lists; and, where the sleep does not let        *)
(* interrupt handlers run, that the compare register stands for the first  *)
(* completion, that none runs early, that the thread does not sleep on     *)
(* work, and that every step is one of Alarms.                             *)
(***************************************************************************)
EXTENDS Completions, SequenceTheorems, TLAPS

Distinct(q) == \A i, j \in DOMAIN q : i < j => q[i] # q[j]

Sorted(q, time) == \A i, j \in DOMAIN q : i < j => time[q[i]] <= time[q[j]]

-----------------------------------------------------------------------------
(* Lemmas about the operations on lists.                                   *)

(* The members of a list.                                                  *)
LEMMA LinkedLemma ==
  ASSUME NEW q \in Seq(Timers)
  PROVE  /\ Linked(q) \subseteq Timers
         /\ q # <<>> => /\ Head(q) \in Linked(q) /\ Head(q) = q[1]
                        /\ 1 \in DOMAIN q
         /\ DOMAIN q = 1..Len(q) /\ Len(q) \in Nat
         /\ \A k \in DOMAIN q : q[k] \in Linked(q)
         /\ q = <<>> => Linked(q) = {}
<1>1. DOMAIN q = 1..Len(q) /\ Len(q) \in Nat /\ \A k \in 1..Len(q) : q[k] \in Timers
  OBVIOUS
<1>2. q # <<>> => Head(q) = q[1] /\ 1 \in 1..Len(q)
  OBVIOUS
<1>3. q = <<>> => DOMAIN q = {}
  OBVIOUS
<1> QED
  BY <1>1, <1>2, <1>3 DEF Linked

(* r is q with the gap at i closed.                                        *)
IsCut(q, i, r) ==
  /\ r \in Seq(Timers)
  /\ Len(r) = Len(q) - 1
  /\ \A k \in 1..(Len(q) - 1) : r[k] = q[IF k < i THEN k ELSE k + 1]

(* RemoveAt closes the gap.                                                *)
LEMMA RemoveAtLemma ==
  ASSUME NEW q \in Seq(Timers), NEW i \in DOMAIN q
  PROVE  IsCut(q, i, RemoveAt(q, i))
<1> DEFINE a == SubSeq(q, 1, i - 1)
           b == SubSeq(q, i + 1, Len(q))
           r == a \o b
<1>1. i \in 1..Len(q) /\ Len(q) \in Nat
  OBVIOUS
<1>2. /\ a \in Seq(Timers) /\ Len(a) = i - 1
      /\ \A k \in 1..(i - 1) : a[k] = q[k]
  BY <1>1, SubSeqProperties
<1>3. /\ b \in Seq(Timers) /\ Len(b) = Len(q) - i
      /\ \A k \in 1..(Len(q) - i) : b[k] = q[i + k]
  BY <1>1, SubSeqProperties
<1>4. RemoveAt(q, i) = r
  BY DEF RemoveAt
<1> HIDE DEF a, b
<1>5. /\ r \in Seq(Timers)
      /\ Len(r) = Len(a) + Len(b)
      /\ \A j \in 1..(Len(a) + Len(b)) :
           r[j] = IF j <= Len(a) THEN a[j] ELSE b[j - Len(a)]
  BY <1>2, <1>3, ConcatProperties
<1> HIDE DEF r
<1>6. ASSUME NEW k \in 1..(Len(q) - 1)
      PROVE  r[k] = q[IF k < i THEN k ELSE k + 1]
  <2>1. k \in 1..(Len(a) + Len(b))
    BY <1>1, <1>2, <1>3
  <2>2. CASE k < i
    <3>1. k \in 1..(i - 1) /\ k <= Len(a)
      BY <1>1, <1>2, <2>2
    <3> QED
      BY <1>2, <1>5, <2>1, <2>2, <3>1
  <2>3. CASE ~(k < i)
    <3>1. ~(k <= Len(a)) /\ k - Len(a) = k - i + 1
          /\ k - i + 1 \in 1..(Len(q) - i) /\ i + (k - i + 1) = k + 1
      BY <1>1, <1>2, <2>3
    <3> QED
      BY <1>3, <1>5, <2>1, <2>3, <3>1
  <2> QED
    BY <2>2, <2>3
<1>7. Len(r) = Len(q) - 1
  BY <1>1, <1>2, <1>3, <1>5
<1> QED
  BY <1>4, <1>5, <1>6, <1>7 DEF IsCut

(* The others stay linked, once, and in order.                             *)
LEMMA RemovedLemma ==
  ASSUME NEW q \in Seq(Timers), NEW i \in DOMAIN q, Distinct(q),
         NEW r, IsCut(q, i, r)
  PROVE  /\ Distinct(r)
         /\ Linked(r) = Linked(q) \ {q[i]}
         /\ \A time \in [Timers -> Nat] : Sorted(q, time) => Sorted(r, time)
         /\ i # 1 => r # <<>> /\ Head(r) = Head(q)
         /\ i = 1 /\ r # <<>> => Head(r) = q[2]
<1> DEFINE S(k) == IF k < i THEN k ELSE k + 1
<1>0. /\ r \in Seq(Timers) /\ Len(r) = Len(q) - 1
      /\ \A k \in 1..(Len(q) - 1) : r[k] = q[IF k < i THEN k ELSE k + 1]
  BY DEF IsCut
<1>1. /\ DOMAIN r = 1..(Len(q) - 1) /\ DOMAIN q = 1..Len(q) /\ Len(q) \in Nat
      /\ i \in 1..Len(q)
  BY <1>0
<1>2. ASSUME NEW j \in DOMAIN r, NEW k \in DOMAIN r, j < k
      PROVE  /\ r[j] = q[S(j)] /\ r[k] = q[S(k)]
             /\ S(j) \in DOMAIN q /\ S(k) \in DOMAIN q /\ S(j) < S(k)
  BY <1>0, <1>1, <1>2
<1>3. Distinct(r)
  BY <1>2 DEF Distinct
<1>4. ASSUME NEW time \in [Timers -> Nat], Sorted(q, time)
      PROVE  Sorted(r, time)
  <2> SUFFICES ASSUME NEW j \in DOMAIN r, NEW k \in DOMAIN r, j < k
               PROVE  time[r[j]] <= time[r[k]]
    BY DEF Sorted
  <2>1. \A x, y \in DOMAIN q : x < y => time[q[x]] <= time[q[y]]
    BY <1>4 DEF Sorted
  <2>2. /\ r[j] = q[S(j)] /\ r[k] = q[S(k)]
        /\ S(j) \in DOMAIN q /\ S(k) \in DOMAIN q /\ S(j) < S(k)
    BY <1>2
  <2> HIDE DEF S
  <2> QED
    BY <2>1, <2>2
<1>5. ASSUME NEW k \in DOMAIN r PROVE r[k] \in Linked(q) \ {q[i]}
  <2>1. r[k] = q[S(k)] /\ S(k) \in DOMAIN q /\ (S(k) < i \/ i < S(k))
    BY <1>0, <1>1
  <2> QED
    BY <2>1 DEF Distinct, Linked
<1>6. ASSUME NEW k \in DOMAIN q, q[k] # q[i] PROVE q[k] \in Linked(r)
  <2>1. CASE k < i
    <3>1. k \in DOMAIN r /\ r[k] = q[k]
      BY <1>0, <1>1, <2>1
    <3> QED
      BY <3>1 DEF Linked
  <2>2. CASE k > i
    <3>1. k - 1 \in DOMAIN r /\ ~(k - 1 < i) /\ (k - 1) + 1 = k
      BY <1>0, <1>1, <2>2
    <3>2. r[k - 1] = q[k]
      BY <1>0, <1>1, <3>1
    <3> QED
      BY <3>1, <3>2 DEF Linked
  <2> QED
    BY <1>1, <1>6, <2>1, <2>2
<1>7. Linked(r) = Linked(q) \ {q[i]}
  BY <1>5, <1>6 DEF Linked
<1>8. i # 1 => r # <<>> /\ Head(r) = Head(q)
  <2> SUFFICES ASSUME i # 1 PROVE r # <<>> /\ Head(r) = Head(q)
    OBVIOUS
  <2>1. 1 \in DOMAIN r /\ 1 < i
    BY <1>0, <1>1
  <2>2. r[1] = q[1] /\ Len(r) # 0 /\ Len(q) # 0
    BY <1>0, <1>1, <2>1
  <2> QED
    BY <2>2
<1>9. i = 1 /\ r # <<>> => Head(r) = q[2]
  <2> SUFFICES ASSUME i = 1, r # <<>> PROVE Head(r) = q[2]
    OBVIOUS
  <2>1. 1 \in DOMAIN r /\ ~(1 < i) /\ Head(r) = r[1]
    BY <1>0
  <2> QED
    BY <1>0, <1>1, <2>1
<1> QED
  BY <1>3, <1>4, <1>7, <1>8, <1>9

(* The tail of a list is the list without its first element.               *)
LEMMA TailLemma ==
  ASSUME NEW q \in Seq(Timers), Distinct(q), q # <<>>
  PROVE  /\ Tail(q) \in Seq(Timers) /\ Distinct(Tail(q))
         /\ Linked(Tail(q)) = Linked(q) \ {Head(q)}
         /\ \A time \in [Timers -> Nat] : Sorted(q, time) => Sorted(Tail(q), time)
         /\ Tail(q) # <<>> => Head(Tail(q)) = q[2]
<1>1. /\ Tail(q) \in Seq(Timers) /\ Len(Tail(q)) = Len(q) - 1
      /\ \A k \in 1..(Len(q) - 1) : Tail(q)[k] = q[k + 1]
      /\ 1 \in DOMAIN q /\ Head(q) = q[1] /\ Len(q) \in Nat
  OBVIOUS
<1> DEFINE r == Tail(q)
           i == 1
<1> HIDE DEF r, i
<1>2. r \in Seq(Timers) /\ Len(r) = Len(q) - 1 /\ i \in DOMAIN q
  BY <1>1 DEF r, i
<1>3. IsCut(q, i, r)
  <2>1. \A k \in 1..(Len(q) - 1) : r[k] = q[IF k < i THEN k ELSE k + 1]
    BY <1>1 DEF r, i
  <2> QED
    BY <1>2, <2>1 DEF IsCut
<1>4. /\ Distinct(r)
      /\ Linked(r) = Linked(q) \ {q[i]}
      /\ \A time \in [Timers -> Nat] : Sorted(q, time) => Sorted(r, time)
      /\ i = 1 /\ r # <<>> => Head(r) = q[2]
  BY <1>2, <1>3, RemovedLemma
<1> QED
  BY <1>1, <1>4 DEF r, i

(* r is q with t after its n-th element.                                   *)
IsInserted(q, n, t, r) ==
  /\ r \in Seq(Timers) /\ Len(r) = Len(q) + 1
  /\ \A k \in 1..Len(q) : k <= n => r[k] = q[k]
  /\ r[n + 1] = t
  /\ \A k \in 1..Len(q) : k > n => r[k + 1] = q[k]

(* InsertAt makes room for one element.                                    *)
LEMMA InsertAtLemma ==
  ASSUME NEW q \in Seq(Timers), NEW t \in Timers, NEW n \in 0..Len(q)
  PROVE  IsInserted(q, n, t, InsertAt(q, n, t))
<1> DEFINE a == SubSeq(q, 1, n)
           b == SubSeq(q, n + 1, Len(q))
           m == a \o <<t>>
           r == m \o b
<1>1. n \in 0..Len(q) /\ Len(q) \in Nat /\ DOMAIN q = 1..Len(q)
  OBVIOUS
<1>2. /\ a \in Seq(Timers) /\ Len(a) = n
      /\ \A k \in 1..n : a[k] = q[k]
  BY <1>1, SubSeqProperties
<1>3. /\ b \in Seq(Timers) /\ Len(b) = Len(q) - n
      /\ \A k \in 1..(Len(q) - n) : b[k] = q[n + k]
  <2>1. n + 1 \in Int /\ Len(q) \in Int /\ \A k \in (n + 1)..Len(q) : q[k] \in Timers
    BY <1>1
  <2>2. b \in Seq(Timers)
    BY <2>1, SubSeqProperties
  <2>3. /\ n + 1 \in 1..(Len(q) + 1) /\ Len(q) \in n..Len(q)
        /\ Len(b) = IF n + 1 <= Len(q) THEN Len(q) - (n + 1) + 1 ELSE 0
        /\ \A k \in 1..(Len(q) - (n + 1) + 1) : b[k] = q[n + 1 + k - 1]
    BY <1>1, <2>1, SubSeqProperties
  <2>4. Len(q) - (n + 1) + 1 = Len(q) - n
    <3>1. \A x, y \in Int : x - (y + 1) + 1 = x - y
      OBVIOUS
    <3>2. Len(q) \in Int /\ n \in Int
      BY <1>1
    <3> QED
      BY <3>1, <3>2
  <2>5. \A k \in 1..(Len(q) - n) : n + 1 + k - 1 = n + k
    BY <1>1
  <2>6. (IF n + 1 <= Len(q) THEN Len(q) - (n + 1) + 1 ELSE 0) = Len(q) - n
    <3>1. \A x, y \in Nat : x <= y => (IF x + 1 <= y THEN y - (x + 1) + 1 ELSE 0) = y - x
      OBVIOUS
    <3>2. Len(q) \in Nat /\ n \in Nat /\ n <= Len(q)
      BY <1>1
    <3> QED
      BY <3>1, <3>2
  <2>7. Len(b) = Len(q) - n
    BY <2>3, <2>6
  <2>8. \A k \in 1..(Len(q) - n) : b[k] = q[n + k]
    BY <2>3, <2>4, <2>5
  <2> QED
    BY <2>2, <2>7, <2>8
<1>4. InsertAt(q, n, t) = r
  <2>1. <<t>> \in Seq(Timers)
    OBVIOUS
  <2> QED
    BY DEF InsertAt
<1> HIDE DEF a, b
<1>5. /\ m \in Seq(Timers) /\ Len(m) = n + 1
      /\ \A j \in 1..(n + 1) : m[j] = IF j <= n THEN a[j] ELSE t
  <2>1. <<t>> \in Seq(Timers) /\ Len(<<t>>) = 1 /\ <<t>>[1] = t
    OBVIOUS
  <2> HIDE DEF m
  <2>2. /\ m \in Seq(Timers) /\ Len(m) = Len(a) + 1
        /\ \A j \in 1..(Len(a) + 1) : m[j] = IF j <= Len(a) THEN a[j] ELSE <<t>>[j - Len(a)]
    BY <1>2, <2>1, ConcatProperties DEF m
  <2>3. \A j \in 1..(n + 1) : ~(j <= n) => j - n = 1
    BY <1>1
  <2> QED
    BY <1>2, <2>1, <2>2, <2>3
<1> HIDE DEF m
<1>6. /\ r \in Seq(Timers) /\ Len(r) = Len(q) + 1
      /\ \A j \in 1..(Len(q) + 1) :
           r[j] = IF j <= n + 1 THEN m[j] ELSE b[j - (n + 1)]
  <2>1. /\ r \in Seq(Timers) /\ Len(r) = Len(m) + Len(b)
        /\ \A j \in 1..(Len(m) + Len(b)) :
             r[j] = IF j <= Len(m) THEN m[j] ELSE b[j - Len(m)]
    BY <1>3, <1>5, ConcatProperties
  <2>2. Len(m) + Len(b) = Len(q) + 1
    BY <1>1, <1>3, <1>5
  <2> QED
    BY <1>5, <2>1, <2>2
<1> HIDE DEF r
<1>7. DOMAIN r = 1..(Len(q) + 1)
  BY <1>6
<1>8. ASSUME NEW k \in 1..Len(q), k <= n PROVE r[k] = q[k]
  <2>1. k \in 1..n /\ k \in 1..(n + 1) /\ k \in 1..(Len(q) + 1) /\ k <= n + 1
    BY <1>1, <1>8
  <2> QED
    BY <1>2, <1>5, <1>6, <1>8, <2>1
<1>9. r[n + 1] = t
  <2>1. n + 1 \in 1..(n + 1) /\ n + 1 \in 1..(Len(q) + 1) /\ n + 1 <= n + 1 /\ ~(n + 1 <= n)
    BY <1>1
  <2> QED
    BY <1>5, <1>6, <2>1
<1>10. ASSUME NEW k \in 1..Len(q), k > n PROVE r[k + 1] = q[k]
  <2>1. k + 1 \in 1..(Len(q) + 1) /\ ~(k + 1 <= n + 1) /\ (k + 1) - (n + 1) = k - n
        /\ k - n \in 1..(Len(q) - n) /\ n + (k - n) = k
    BY <1>1, <1>10
  <2> QED
    BY <1>3, <1>6, <2>1
<1> QED
  BY <1>4, <1>6, <1>8, <1>9, <1>10 DEF IsInserted

(* EnqueueTicks finds the place of t, for time d, after n elements of q.   *)
Place(q, n, t, d) ==
  /\ q \in Seq(Timers) /\ Distinct(q) /\ Sorted(q, at)
  /\ at \in [Timers -> 0..MaxTime]
  /\ t \in Timers /\ t \notin Linked(q)
  /\ d \in 0..MaxTime /\ n \in 0..Len(q)
  /\ StopsAfter(q, n, d)

(* EnqueueTicks keeps the list sorted.                                     *)
LEMMA InsertLemma ==
  ASSUME NEW q, NEW n, NEW t, NEW d, Place(q, n, t, d),
         NEW r, IsInserted(q, n, t, r)
  PROVE  /\ r \in Seq(Timers)
         /\ Distinct(r)
         /\ Sorted(r, [at EXCEPT ![t] = d])
         /\ Linked(r) = Linked(q) \cup {t}
         /\ r # <<>>
         /\ Head(r) = IF n = 0 THEN t ELSE Head(q)
<1> DEFINE time == [at EXCEPT ![t] = d]
<1>1. /\ q \in Seq(Timers) /\ Distinct(q) /\ Sorted(q, at)
      /\ at \in [Timers -> 0..MaxTime]
      /\ t \in Timers /\ t \notin Linked(q)
      /\ d \in 0..MaxTime /\ n \in 0..Len(q)
      /\ StopsAfter(q, n, d)
  BY DEF Place
<1>2. n \in 0..Len(q) /\ Len(q) \in Nat /\ DOMAIN q = 1..Len(q)
  BY <1>1
<1>3. r \in Seq(Timers) /\ Len(r) = Len(q) + 1
  BY DEF IsInserted
<1>4. DOMAIN r = 1..(Len(q) + 1)
  BY <1>3
<1>5. \A k \in 1..Len(q) : k <= n => r[k] = q[k]
  BY DEF IsInserted
<1>6. r[n + 1] = t
  BY DEF IsInserted
<1>7. \A k \in 1..Len(q) : k > n => r[k + 1] = q[k]
  BY DEF IsInserted
<1>8. \A k \in DOMAIN q : q[k] \in Timers /\ at[q[k]] \in Nat /\ q[k] # t
  BY <1>1 DEF Linked
<1>9. /\ \A j, k \in DOMAIN q : j < k => q[j] # q[k]
      /\ \A j, k \in DOMAIN q : j < k => at[q[j]] <= at[q[k]]
  BY <1>1 DEF Distinct, Sorted
<1>10. /\ \A k \in 1..n : at[q[k]] <= d
       /\ n < Len(q) => d < at[q[n + 1]]
  BY <1>1 DEF StopsAfter
<1>11. n \in Nat /\ d \in Nat
  BY <1>1, <1>2
<1>12. ASSUME NEW k \in DOMAIN r, k <= n
       PROVE  k \in DOMAIN q /\ r[k] = q[k] /\ at[q[k]] <= d
  <2>1. k \in 1..Len(q) /\ k \in 1..n
    BY <1>2, <1>4, <1>12
  <2>2. r[k] = q[k]
    BY <1>5, <1>12, <2>1
  <2>3. at[q[k]] <= d
    BY <1>10, <2>1
  <2> QED
    BY <1>2, <2>1, <2>2, <2>3
<1>13. ASSUME NEW k \in DOMAIN r, k > n + 1
       PROVE  k - 1 \in DOMAIN q /\ r[k] = q[k - 1] /\ d <= at[q[k - 1]]
  <2>1. k - 1 \in 1..Len(q) /\ k - 1 > n /\ (k - 1) + 1 = k /\ n < Len(q)
        /\ n + 1 \in DOMAIN q /\ (n + 1 < k - 1 \/ n + 1 = k - 1)
    BY <1>2, <1>11, <1>4, <1>13
  <2>2. r[k] = q[k - 1]
    BY <1>7, <2>1
  <2>3. at[q[n + 1]] <= at[q[k - 1]]
    <3>1. CASE n + 1 < k - 1
      <4>1. n + 1 \in DOMAIN q /\ k - 1 \in DOMAIN q
        BY <1>2, <2>1
      <4> QED
        BY <1>9, <3>1, <4>1
    <3>2. CASE n + 1 = k - 1
      BY <1>8, <2>1, <3>2
    <3> QED
      BY <2>1, <3>1, <3>2
  <2>4. d <= at[q[k - 1]]
    <3>1. d < at[q[n + 1]]
      BY <1>10, <2>1
    <3>2. n + 1 \in DOMAIN q /\ k - 1 \in DOMAIN q
      BY <1>2, <2>1
    <3>3. at[q[n + 1]] \in Nat /\ at[q[k - 1]] \in Nat
      BY <1>8, <3>2
    <3> QED
      BY <1>11, <2>3, <3>1, <3>3
  <2> QED
    BY <1>2, <2>1, <2>2, <2>4
<1>14. ASSUME NEW j \in DOMAIN r, NEW k \in DOMAIN r, j < k
       PROVE  r[j] # r[k] /\ time[r[j]] <= time[r[k]]
  <2>1. j \in Nat /\ k \in Nat
    BY <1>2, <1>4
  <2>2. time[t] = d /\ \A x \in Timers : x # t => time[x] = at[x]
    BY <1>1
  <2>3. \A i \in DOMAIN q : time[q[i]] = at[q[i]]
    BY <1>8, <2>2
  <2> HIDE DEF time
  <2>4. CASE k <= n
    <3>1. j <= n
      BY <1>11, <1>14, <2>1, <2>4
    <3>2. /\ j \in DOMAIN q /\ r[j] = q[j]
          /\ k \in DOMAIN q /\ r[k] = q[k]
      BY <1>12, <2>4, <3>1
    <3>3. q[j] # q[k] /\ at[q[j]] <= at[q[k]]
      BY <1>9, <1>14, <3>2
    <3> QED
      BY <2>3, <3>2, <3>3
  <2>5. CASE k = n + 1
    <3>1. j <= n
      BY <1>11, <1>14, <2>1, <2>5
    <3>2. j \in DOMAIN q /\ r[j] = q[j] /\ at[q[j]] <= d
      BY <1>12, <3>1
    <3>3. r[k] = t
      BY <1>6, <2>5
    <3> QED
      BY <1>8, <2>2, <2>3, <3>2, <3>3
  <2>6. CASE k > n + 1
    <3>1. k - 1 \in DOMAIN q /\ r[k] = q[k - 1] /\ d <= at[q[k - 1]]
      BY <1>13, <2>6
    <3>2. CASE j <= n
      <4>1. j \in DOMAIN q /\ r[j] = q[j]
        BY <1>12, <3>2
      <4>2. j < k - 1
        BY <1>11, <2>1, <2>6, <3>2
      <4>3. q[j] # q[k - 1] /\ at[q[j]] <= at[q[k - 1]]
        BY <1>9, <3>1, <4>1, <4>2
      <4> QED
        BY <2>3, <3>1, <4>1, <4>3
    <3>3. CASE j = n + 1
      <4>1. r[j] = t
        BY <1>6, <3>3
      <4> QED
        BY <1>8, <2>2, <2>3, <3>1, <4>1
    <3>4. CASE j > n + 1
      <4>1. j - 1 \in DOMAIN q /\ r[j] = q[j - 1]
        BY <1>13, <3>4
      <4>2. j - 1 < k - 1
        BY <1>14, <2>1
      <4>3. q[j - 1] # q[k - 1] /\ at[q[j - 1]] <= at[q[k - 1]]
        BY <1>9, <3>1, <4>1, <4>2
      <4> QED
        BY <2>3, <3>1, <4>1, <4>3
    <3> QED
      BY <1>11, <2>1, <3>2, <3>3, <3>4
  <2> QED
    BY <1>11, <2>1, <2>4, <2>5, <2>6
<1>15. Linked(r) = Linked(q) \cup {t}
  <2>1. ASSUME NEW k \in DOMAIN r PROVE r[k] \in Linked(q) \cup {t}
    <3>1. k <= n \/ k = n + 1 \/ k > n + 1
      BY <1>11, <1>4
    <3> QED
      BY <1>6, <1>12, <1>13, <3>1 DEF Linked
  <2>2. ASSUME NEW k \in DOMAIN q PROVE q[k] \in Linked(r)
    <3>1. k \in 1..Len(q) /\ k \in DOMAIN r /\ k + 1 \in DOMAIN r /\ (k <= n \/ k > n)
      BY <1>2, <1>4
    <3> QED
      BY <1>5, <1>7, <3>1 DEF Linked
  <2>3. t \in Linked(r)
    <3>1. n + 1 \in DOMAIN r
      BY <1>2, <1>4
    <3> QED
      BY <1>6, <3>1 DEF Linked
  <2> QED
    BY <2>1, <2>2, <2>3 DEF Linked
<1>16. r # <<>> /\ Head(r) = IF n = 0 THEN t ELSE Head(q)
  <2>1. r # <<>> /\ Head(r) = r[1] /\ (n # 0 => Head(q) = q[1] /\ 1 \in 1..Len(q) /\ 1 <= n)
    BY <1>2, <1>3
  <2> QED
    BY <1>2, <1>5, <1>6, <2>1
<1> QED
  BY <1>3, <1>14, <1>15, <1>16 DEF Distinct, Sorted

(* The first completion is the earliest.                                   *)
LEMMA HeadLeast ==
  ASSUME NEW q \in Seq(Timers), NEW time \in [Timers -> 0..MaxTime],
         Sorted(q, time), NEW u \in Linked(q)
  PROVE  q # <<>> /\ time[Head(q)] <= time[u]
<1>1. PICK k \in DOMAIN q : u = q[k]
  BY DEF Linked
<1>2. q # <<>> /\ Head(q) = q[1] /\ 1 \in DOMAIN q /\ 1 <= k
  BY <1>1
<1>3. time[q[1]] \in Nat
  BY <1>2
<1>4. CASE k = 1
  BY <1>1, <1>2, <1>3, <1>4
<1>5. CASE 1 < k
  BY <1>1, <1>2, <1>5 DEF Sorted
<1> QED
  BY <1>1, <1>2, <1>4, <1>5

(* A time of a completion that is not linked does not matter.              *)
LEMMA SortedElse ==
  ASSUME NEW q \in Seq(Timers), NEW time \in [Timers -> 0..MaxTime],
         Sorted(q, time), NEW t \in Timers, t \notin Linked(q), NEW v
  PROVE  Sorted(q, [time EXCEPT ![t] = v])
<1>1. \A k \in DOMAIN q : q[k] \in Timers /\ q[k] # t
  BY DEF Linked
<1>2. \A x \in Timers : x # t => [time EXCEPT ![t] = v][x] = time[x]
  OBVIOUS
<1> QED
  BY <1>1, <1>2 DEF Sorted

-----------------------------------------------------------------------------
(* The lists under the actions.                                            *)

Good(q, time, c) ==
  /\ q \in Seq(Timers) /\ c \in Seq(Timers)
  /\ time \in [Timers -> 0..MaxTime]
  /\ Distinct(q) /\ Distinct(c)
  /\ Sorted(q, time)
  /\ Linked(q) \cap Linked(c) = {}

Lists == Good(queue, at, conts)

First == FirstTime(queue, at)

(* The compare is set to the first time, or neither changes.               *)
ClockFollows(pending) ==
  \/ UNCHANGED clockVars /\ First' = First
  \/ SetCompare(First', pending)

(* The named parts are the invariant of the module.                        *)
LEMMA ListsMean ==
  ASSUME Lists
  PROVE  ListsOK
BY DEF Lists, Good, ListsOK, Distinct, Sorted

(* The time of the first completion, or Idle, which no completion has.     *)
LEMMA FirstLemma ==
  ASSUME Lists
  PROVE  /\ First \in 0..Idle
         /\ queue = <<>> <=> First = Idle
         /\ queue # <<>> => /\ First = at[Head(queue)] /\ First \in 0..MaxTime
                            /\ Head(queue) \in Linked(queue) /\ Head(queue) \in Timers
         /\ \A u \in Timers : Due[u] # Idle => u \in Linked(queue) /\ First <= Due[u]
<1> USE CompletionsAssumption
<1>1. /\ queue \in Seq(Timers) /\ at \in [Timers -> 0..MaxTime] /\ Sorted(queue, at)
  BY DEF Lists, Good
<1>2. queue # <<>> => Head(queue) \in Linked(queue) /\ Head(queue) \in Timers
  BY <1>1, LinkedLemma
<1>3. queue # <<>> => First = at[Head(queue)] /\ First \in 0..MaxTime
  BY <1>1, <1>2 DEF First, FirstTime
<1>4. Idle = MaxTime + 1 /\ MaxTime \in Nat
  BY DEF Idle, CompletionsAssumption
<1>5. queue = <<>> => First = Idle
  BY DEF First, FirstTime
<1>6. ASSUME NEW u \in Timers, Due[u] # Idle
      PROVE  u \in Linked(queue) /\ First <= Due[u]
  <2>1. u \in Linked(queue) /\ Due[u] = at[u]
    BY <1>6 DEF Due
  <2> QED
    BY <1>1, <1>3, <2>1, HeadLeast
<1> HIDE CompletionsAssumption
<1>7. First \in 0..Idle /\ (queue # <<>> => First # Idle)
  BY <1>3, <1>4, <1>5
<1> QED
  BY <1>2, <1>3, <1>5, <1>6, <1>7

(* r is q without its i-th element.                                        *)
Without(q, i, r) ==
  /\ r \in Seq(Timers)
  /\ Distinct(r)
  /\ Linked(r) = Linked(q) \ {q[i]}
  /\ \A time \in [Timers -> Nat] : Sorted(q, time) => Sorted(r, time)
  /\ i # 1 => q # <<>> /\ r # <<>> /\ Head(r) = Head(q)

(* RemoveAt and Tail are such lists, and agree on the next head.           *)
LEMMA WithoutLemma ==
  ASSUME NEW q \in Seq(Timers), Distinct(q), NEW i \in DOMAIN q
  PROVE  /\ Without(q, i, RemoveAt(q, i))
         /\ i = 1 => \A time : FirstTime(RemoveAt(q, i), time) = FirstTime(Tail(q), time)
<1> DEFINE r == RemoveAt(q, i)
<1>0. IsCut(q, i, r)
  BY RemoveAtLemma
<1> HIDE DEF r
<1>1. r \in Seq(Timers) /\ Len(r) = Len(q) - 1
  BY <1>0 DEF IsCut
<1>2. /\ Distinct(r)
      /\ Linked(r) = Linked(q) \ {q[i]}
      /\ \A time \in [Timers -> Nat] : Sorted(q, time) => Sorted(r, time)
      /\ i # 1 => r # <<>> /\ Head(r) = Head(q)
      /\ i = 1 /\ r # <<>> => Head(r) = q[2]
  BY <1>0, RemovedLemma
<1>3. q # <<>>
  OBVIOUS
<1>4. /\ Tail(q) # <<>> => Head(Tail(q)) = q[2]
      /\ Tail(q) \in Seq(Timers) /\ Len(Tail(q)) = Len(q) - 1
  BY <1>3, TailLemma
<1>5. Tail(q) = <<>> <=> r = <<>>
  BY <1>1, <1>4, EmptySeq
<1>6. ASSUME i = 1, NEW time PROVE FirstTime(r, time) = FirstTime(Tail(q), time)
  BY <1>2, <1>4, <1>5, <1>6 DEF FirstTime
<1> QED
  BY <1>1, <1>2, <1>3, <1>6 DEF Without, r

LEMMA WithoutHead ==
  ASSUME NEW q \in Seq(Timers), Distinct(q), q # <<>>
  PROVE  /\ 1 \in DOMAIN q /\ q[1] = Head(q)
         /\ Without(q, 1, Tail(q))
<1>1. 1 \in DOMAIN q /\ q[1] = Head(q)
  OBVIOUS
<1> QED
  BY <1>1, TailLemma DEF Without

(* A completion leaves the queue.                                          *)
LEMMA QueueLoses ==
  ASSUME Lists, NEW i \in DOMAIN queue, Without(queue, i, queue'),
         at' = [at EXCEPT ![queue[i]] = 0]
  PROVE  /\ Good(queue', at', conts)
         /\ First' = FirstTime(queue', at)
         /\ i # 1 => First' = First
         /\ Due' = [Due EXCEPT ![queue[i]] = Idle]
         /\ queue[i] \in Timers /\ queue[i] \notin Linked(queue')
         /\ queue[i] \notin Linked(conts)
<1> DEFINE t == queue[i]
<1>1. /\ queue \in Seq(Timers) /\ conts \in Seq(Timers) /\ at \in [Timers -> 0..MaxTime]
      /\ Distinct(conts) /\ Sorted(queue, at) /\ Linked(queue) \cap Linked(conts) = {}
  BY DEF Lists, Good
<1>2. t \in Timers /\ t \in Linked(queue)
  BY <1>1 DEF Linked
<1>3. /\ queue' \in Seq(Timers) /\ Distinct(queue')
      /\ Linked(queue') = Linked(queue) \ {t}
      /\ i # 1 => queue # <<>> /\ queue' # <<>> /\ Head(queue') = Head(queue)
  BY DEF Without
<1>4. Sorted(queue', at)
  <2>1. at \in [Timers -> Nat]
    BY <1>1
  <2> QED
    BY <1>1, <2>1 DEF Without
<1>5. at' \in [Timers -> 0..MaxTime] /\ \A u \in Timers : u # t => at'[u] = at[u]
  BY <1>1, CompletionsAssumption DEF CompletionsAssumption
<1>6. Sorted(queue', at')
  BY <1>1, <1>2, <1>3, <1>4, SortedElse
<1>7. Good(queue', at', conts)
  BY <1>1, <1>3, <1>5, <1>6 DEF Good
<1>8. First' = FirstTime(queue', at)
  <2>1. queue' # <<>> => Head(queue') \in Linked(queue') /\ Head(queue') \in Timers
    BY <1>3, LinkedLemma
  <2> QED
    BY <1>3, <1>5, <2>1 DEF First, FirstTime
<1>9. i # 1 => First' = First
  BY <1>3, <1>8 DEF First, FirstTime
<1>10. Due' = [Due EXCEPT ![t] = Idle]
  <2>1. Due = [u \in Timers |-> IF u \in Linked(queue) THEN at[u] ELSE Idle]
    BY DEF Due
  <2>2. Due' = [u \in Timers |-> IF u \in Linked(queue') THEN at'[u] ELSE Idle]
    BY DEF Due
  <2>3. \A u \in Timers : Due'[u] = [Due EXCEPT ![t] = Idle][u]
    BY <1>2, <1>3, <1>5, <2>1, <2>2
  <2> QED
    BY <2>1, <2>2, <2>3
<1> QED
  BY <1>1, <1>2, <1>3, <1>7, <1>8, <1>9, <1>10

(* A completion enters the queue.                                          *)
LEMMA QueueGains ==
  ASSUME NEW q, NEW time, NEW c, Good(q, time, c), at = time,
         NEW t \in Timers, t \notin Linked(q), t \notin Linked(c),
         NEW d \in 0..MaxTime, NEW n \in 0..Len(q), StopsAfter(q, n, d),
         queue' = InsertAt(q, n, t), at' = [at EXCEPT ![t] = d]
  PROVE  /\ Good(queue', at', c)
         /\ First' = IF n = 0 THEN d ELSE FirstTime(q, time)
         /\ Linked(queue') = Linked(q) \cup {t}
<1>1. /\ q \in Seq(Timers) /\ at \in [Timers -> 0..MaxTime] /\ c \in Seq(Timers)
      /\ Distinct(q) /\ Sorted(q, at) /\ Distinct(c) /\ Linked(q) \cap Linked(c) = {}
  BY DEF Good
<1>2. /\ queue' \in Seq(Timers)
      /\ Distinct(queue')
      /\ Sorted(queue', at')
      /\ Linked(queue') = Linked(q) \cup {t}
      /\ queue' # <<>>
      /\ Head(queue') = IF n = 0 THEN t ELSE Head(q)
  <2> DEFINE r == InsertAt(q, n, t)
  <2>0. Place(q, n, t, d)
    BY <1>1 DEF Place
  <2>1. IsInserted(q, n, t, r)
    BY <1>1, InsertAtLemma
  <2>2. queue' = r
    OBVIOUS
  <2> HIDE DEF r
  <2>3. /\ r \in Seq(Timers)
        /\ Distinct(r)
        /\ Sorted(r, [at EXCEPT ![t] = d])
        /\ Linked(r) = Linked(q) \cup {t}
        /\ r # <<>>
        /\ Head(r) = IF n = 0 THEN t ELSE Head(q)
    BY <2>0, <2>1, InsertLemma
  <2> QED
    BY <2>2, <2>3
<1>3. at' \in [Timers -> 0..MaxTime] /\ at'[t] = d
      /\ \A u \in Timers : u # t => at'[u] = at[u]
  BY <1>1
<1>4. n # 0 => q # <<>> /\ Head(q) \in Timers /\ Head(q) \in Linked(q)
  <2>1. n # 0 => q # <<>>
    BY <1>1
  <2> QED
    BY <1>1, <2>1, LinkedLemma
<1>5. First' = IF n = 0 THEN d ELSE FirstTime(q, time)
  BY <1>2, <1>3, <1>4 DEF First, FirstTime
<1> QED
  BY <1>1, <1>2, <1>3, <1>5 DEF Good

(* The lists, the clock and the alarms under each action.                  *)
LEMMA EnqueueLists ==
  ASSUME Lists, now \in 0..MaxTime, NEW t \in Timers, NEW d \in EnqueueTimes, Enqueue(t, d)
  PROVE  /\ Lists' /\ ClockFollows(irq)
         /\ Due[t] = Idle /\ Due' = [Due EXCEPT ![t] = d] /\ d \in 1..MaxTime
<1>1. d \in 1..MaxTime /\ d \in 0..MaxTime
  BY CompletionsAssumption DEF EnqueueTimes, CompletionsAssumption
<1>2. PICK n \in 0..Len(queue) :
        /\ StopsAfter(queue, n, d)
        /\ queue' = InsertAt(queue, n, t)
        /\ IF n = 0 THEN SetCompare(d, irq) ELSE UNCHANGED clockVars
  BY DEF Enqueue
<1>3. /\ t \notin Linked(queue) /\ t \notin Linked(conts)
      /\ at' = [at EXCEPT ![t] = d] /\ conts' = conts
  BY DEF Enqueue, IsLinked
<1>4. Good(queue, at, conts)
  BY DEF Lists
<1>5. /\ Good(queue', at', conts)
      /\ First' = IF n = 0 THEN d ELSE FirstTime(queue, at)
      /\ Linked(queue') = Linked(queue) \cup {t}
  BY <1>1, <1>2, <1>3, <1>4, QueueGains
<1>6. Lists'
  BY <1>3, <1>5 DEF Lists
<1>7. ClockFollows(irq)
  BY <1>2, <1>5 DEF ClockFollows, First
<1>8. Due[t] = Idle /\ Due' = [Due EXCEPT ![t] = d]
  <2>1. Due = [u \in Timers |-> IF u \in Linked(queue) THEN at[u] ELSE Idle]
    BY DEF Due
  <2>2. Due' = [u \in Timers |-> IF u \in Linked(queue') THEN at'[u] ELSE Idle]
    BY DEF Due
  <2>3. at'[t] = d /\ \A u \in Timers : u # t => at'[u] = at[u]
    BY <1>3, <1>4 DEF Good
  <2>4. \A u \in Timers : Due'[u] = [Due EXCEPT ![t] = d][u]
    BY <1>5, <2>1, <2>2, <2>3
  <2> QED
    BY <1>3, <2>1, <2>2, <2>4
<1> QED
  BY <1>1, <1>6, <1>7, <1>8

LEMMA AbortLists ==
  ASSUME Lists, NEW t \in Timers, Abort(t)
  PROVE  Lists' /\ ClockFollows(irq) /\ Due' = [Due EXCEPT ![t] = Idle]
<1>1. PICK i \in DOMAIN queue :
        /\ queue[i] = t
        /\ queue' = RemoveAt(queue, i)
        /\ IF i = 1 THEN SetCompare(FirstTime(Tail(queue), at), irq)
                    ELSE UNCHANGED clockVars
  BY DEF Abort
<1>2. at' = [at EXCEPT ![t] = 0] /\ conts' = conts
  BY DEF Abort
<1>3. queue \in Seq(Timers) /\ Distinct(queue)
  BY DEF Lists, Good
<1>4. /\ Without(queue, i, queue')
      /\ i = 1 => FirstTime(queue', at) = FirstTime(Tail(queue), at)
  BY <1>1, <1>3, WithoutLemma
<1>5. /\ Good(queue', at', conts)
      /\ First' = FirstTime(queue', at)
      /\ i # 1 => First' = First
      /\ Due' = [Due EXCEPT ![t] = Idle]
  BY <1>1, <1>2, <1>4, QueueLoses
<1>6. Lists'
  BY <1>2, <1>5 DEF Lists
<1>7. ClockFollows(irq)
  BY <1>1, <1>4, <1>5 DEF ClockFollows
<1> QED
  BY <1>5, <1>6, <1>7

(* A continuation leaves its list.                                         *)
LEMMA ContLeaves ==
  ASSUME Lists, NEW i \in DOMAIN conts, Without(conts, i, conts'),
         queue' = queue, at' = at
  PROVE  Lists' /\ First' = First /\ Due' = Due
<1>1. Good(queue, at, conts')
  BY DEF Lists, Good, Without
<1>2. Lists'
  BY <1>1 DEF Lists
<1>3. First' = First
  BY DEF First, FirstTime
<1>4. Due' = Due
  BY DEF Due
<1> QED
  BY <1>2, <1>3, <1>4

LEMMA AbortContLists ==
  ASSUME Lists, NEW t \in Timers, AbortCont(t)
  PROVE  Lists' /\ First' = First /\ Due' = Due /\ conts # <<>>
<1>1. PICK i \in DOMAIN conts : conts[i] = t /\ conts' = RemoveAt(conts, i)
  BY DEF AbortCont
<1>2. conts \in Seq(Timers) /\ Distinct(conts)
  BY DEF Lists, Good
<1>3. Without(conts, i, conts')
  BY <1>1, <1>2, WithoutLemma
<1>4. queue' = queue /\ at' = at
  BY DEF AbortCont
<1> QED
  BY <1>1, <1>2, <1>3, <1>4, ContLeaves

LEMMA TailLists ==
  ASSUME Lists, conts # <<>>, conts' = Tail(conts), queue' = queue, at' = at
  PROVE  Lists' /\ First' = First /\ Due' = Due
<1>1. conts \in Seq(Timers) /\ Distinct(conts)
  BY DEF Lists, Good
<1>2. 1 \in DOMAIN conts /\ Without(conts, 1, conts')
  BY <1>1, WithoutHead
<1> QED
  BY <1>2, ContLeaves

LEMMA SameLists ==
  ASSUME Lists, conts' = conts, queue' = queue, at' = at
  PROVE  Lists' /\ First' = First /\ Due' = Due
BY DEF Lists, First, FirstTime, Due

(* The interrupt takes the first completion.                               *)
LEMMA IsrTakes ==
  ASSUME Lists, queue # <<>>, queue' = Tail(queue),
         at' = [at EXCEPT ![Head(queue)] = 0]
  PROVE  /\ Good(queue', at', conts)
         /\ First' = FirstTime(Tail(queue), at)
         /\ Due' = [Due EXCEPT ![Head(queue)] = Idle]
         /\ Head(queue) \in Timers /\ Head(queue) \notin Linked(queue')
         /\ Head(queue) \notin Linked(conts)
<1>1. queue \in Seq(Timers) /\ Distinct(queue)
  BY DEF Lists, Good
<1>2. 1 \in DOMAIN queue /\ queue[1] = Head(queue) /\ Without(queue, 1, queue')
  BY <1>1, WithoutHead
<1> QED
  BY <1>2, QueueLoses

LEMMA IsrFiresLists ==
  ASSUME Lists, IsrFires
  PROVE  /\ Lists' /\ SetCompare(First', FALSE)
         /\ Due' = [Due EXCEPT ![Head(queue)] = Idle]
<1>1. /\ queue # <<>> /\ queue' = Tail(queue) /\ conts' = conts
      /\ at' = [at EXCEPT ![Head(queue)] = 0]
      /\ SetCompare(FirstTime(Tail(queue), at), FALSE)
  BY DEF IsrFires
<1>2. /\ Good(queue', at', conts)
      /\ First' = FirstTime(Tail(queue), at)
      /\ Due' = [Due EXCEPT ![Head(queue)] = Idle]
  BY <1>1, IsrTakes
<1>3. Lists'
  BY <1>1, <1>2 DEF Lists
<1> QED
  BY <1>1, <1>2, <1>3

LEMMA IsrPostsLists ==
  ASSUME Lists, IsrPosts
  PROVE  /\ Lists' /\ SetCompare(First', FALSE)
         /\ Due' = [Due EXCEPT ![Head(queue)] = Idle]
<1> DEFINE t == Head(queue)
<1>1. /\ queue # <<>> /\ queue' = Tail(queue) /\ conts' = Append(conts, t)
      /\ at' = [at EXCEPT ![t] = 0]
      /\ SetCompare(FirstTime(Tail(queue), at), FALSE)
  BY DEF IsrPosts
<1>2. /\ Good(queue', at', conts)
      /\ First' = FirstTime(Tail(queue), at)
      /\ Due' = [Due EXCEPT ![t] = Idle]
      /\ t \in Timers /\ t \notin Linked(queue') /\ t \notin Linked(conts)
  BY <1>1, IsrTakes
<1>3. conts \in Seq(Timers) /\ Distinct(conts)
  BY DEF Lists, Good
<1>4. /\ conts' \in Seq(Timers) /\ Len(conts') = Len(conts) + 1
      /\ \A k \in 1..Len(conts) : conts'[k] = conts[k]
      /\ conts'[Len(conts) + 1] = t
  BY <1>1, <1>2, <1>3, AppendProperties
<1>5. /\ DOMAIN conts = 1..Len(conts) /\ DOMAIN conts' = 1..(Len(conts) + 1)
      /\ Len(conts) \in Nat
  BY <1>3, <1>4
<1>6. ASSUME NEW k \in DOMAIN conts'
      PROVE  \/ k \in DOMAIN conts /\ conts'[k] = conts[k] /\ conts[k] # t
             \/ k = Len(conts) + 1 /\ conts'[k] = t
  BY <1>2, <1>4, <1>5 DEF Linked
<1>7. Distinct(conts')
  <2> SUFFICES ASSUME NEW j \in DOMAIN conts', NEW k \in DOMAIN conts', j < k
               PROVE  conts'[j] # conts'[k]
    BY DEF Distinct
  <2>1. j \in DOMAIN conts /\ conts'[j] = conts[j] /\ conts[j] # t
    BY <1>5, <1>6
  <2> QED
    BY <1>3, <1>6, <2>1 DEF Distinct
<1>8. Linked(conts') \subseteq Linked(conts) \cup {t}
  BY <1>6 DEF Linked
<1>9. Good(queue', at', conts')
  BY <1>2, <1>4, <1>7, <1>8 DEF Good
<1> QED
  BY <1>1, <1>2, <1>9 DEF Lists

LEMMA IsrFiresAgainLists ==
  ASSUME Lists, now \in 0..MaxTime, NEW d \in Deadlines, IsrFiresAgain(d)
  PROVE  /\ Lists' /\ SetCompare(First', FALSE)
         /\ Due' = [Due EXCEPT ![Head(queue)] = d] /\ d > now /\ d \in 0..MaxTime
<1> DEFINE t == Head(queue)
           q == Tail(queue)
<1>1. d \in 0..MaxTime /\ d > now
  BY CompletionsAssumption DEF Deadlines, CompletionsAssumption
<1>2. /\ queue # <<>> /\ conts' = conts /\ at' = [at EXCEPT ![t] = d]
  BY DEF IsrFiresAgain
<1>3. PICK n \in 0..Len(q) :
        /\ StopsAfter(q, n, d)
        /\ queue' = InsertAt(q, n, t)
        /\ SetCompare(IF n = 0 THEN d ELSE at[queue[2]], FALSE)
  BY DEF IsrFiresAgain
<1>4. /\ queue \in Seq(Timers) /\ conts \in Seq(Timers)
      /\ at \in [Timers -> 0..MaxTime]
      /\ Distinct(queue) /\ Distinct(conts) /\ Sorted(queue, at)
      /\ Linked(queue) \cap Linked(conts) = {}
  BY DEF Lists, Good
<1>5. /\ q \in Seq(Timers) /\ Distinct(q)
      /\ Linked(q) = Linked(queue) \ {t}
      /\ \A time \in [Timers -> Nat] : Sorted(queue, time) => Sorted(q, time)
      /\ q # <<>> => Head(q) = queue[2]
  BY <1>2, <1>4, TailLemma
<1>6. t \in Timers /\ t \in Linked(queue) /\ t \notin Linked(q) /\ t \notin Linked(conts)
  BY <1>2, <1>4, <1>5, LinkedLemma
<1>7. Good(q, at, conts)
  <2>1. at \in [Timers -> Nat]
    BY <1>4
  <2> QED
    BY <1>4, <1>5, <2>1 DEF Good
<1> HIDE DEF q, t
<1>8. /\ Good(queue', at', conts)
      /\ First' = IF n = 0 THEN d ELSE FirstTime(q, at)
      /\ Linked(queue') = Linked(q) \cup {t}
  BY <1>1, <1>2, <1>3, <1>6, <1>7, QueueGains
<1>9. Lists'
  BY <1>2, <1>8 DEF Lists
<1>10. SetCompare(First', FALSE)
  <2>1. n # 0 => q # <<>>
    BY <1>3, <1>5
  <2>2. n # 0 => FirstTime(q, at) = at[queue[2]]
    BY <1>5, <2>1 DEF FirstTime
  <2> QED
    BY <1>3, <1>8, <2>2
<1>11. Due' = [Due EXCEPT ![t] = d]
  <2>1. Due = [u \in Timers |-> IF u \in Linked(queue) THEN at[u] ELSE Idle]
    BY DEF Due
  <2>2. Due' = [u \in Timers |-> IF u \in Linked(queue') THEN at'[u] ELSE Idle]
    BY DEF Due
  <2>3. at'[t] = d /\ \A u \in Timers : u # t => at'[u] = at[u]
    BY <1>2, <1>4, <1>6
  <2>4. \A u \in Timers : Due'[u] = [Due EXCEPT ![t] = d][u]
    BY <1>5, <1>6, <1>8, <2>1, <2>2, <2>3
  <2> QED
    BY <1>6, <2>1, <2>2, <2>4
<1> QED
  BY <1>1, <1>9, <1>10, <1>11 DEF t

-----------------------------------------------------------------------------
(* Types, and the lists.                                                   *)

ClockTyped ==
  /\ now \in 0..MaxTime
  /\ compare \in 0..(MaxTime + MaxDiff)
  /\ match \in 0..(now + MaxDiff)
  /\ irq \in BOOLEAN

RestTyped ==
  /\ events \subseteq Events
  /\ pc \in {"run", "cont", "release", "acquire", "probe", "check", "sleep"}
  /\ mask \subseteq Events
  /\ expire \in 0..MaxTime
  /\ internal \in BOOLEAN
  /\ runConts \in BOOLEAN
  /\ restore \in {"None", "Idle", "First"}

Typed == Lists /\ ClockTyped /\ RestTyped

LEMMA TypedMeans ==
  ASSUME Typed
  PROVE  TypeOK /\ ListsOK
<1>1. TypeOK
  BY DEF Typed, Lists, Good, ClockTyped, RestTyped, TypeOK
<1> QED
  BY <1>1, ListsMean DEF Typed

(* What setting the compare for c does: a time in the past forces the      *)
(* interrupt, another comes no later than c.                               *)
LEMMA CompareLemma ==
  ASSUME ClockTyped, NEW c, c \in 0..Idle \/ c \in 0..(MaxTime + MaxDiff),
         NEW pending \in BOOLEAN, SetCompare(c, pending), now' = now
  PROVE  /\ ClockTyped'
         /\ compare' = c
         /\ irq' \/ (now < match' /\ match' <= c)
         /\ pending => irq'
<1>1. /\ MaxTime \in Nat /\ MaxDiff \in Nat /\ MaxDiff > 0 /\ Idle = MaxTime + 1
  BY CompletionsAssumption DEF CompletionsAssumption, Idle
<1>2. now \in Nat /\ c \in Nat /\ now <= MaxTime /\ c <= MaxTime + MaxDiff /\ match \in 0..(now + MaxDiff)
  BY <1>1 DEF ClockTyped
<1>3. compare' = c /\ c \in 0..(MaxTime + MaxDiff)
  BY <1>1, <1>2 DEF SetCompare
<1>4. CASE c <= now
  <2>1. irq' = TRUE /\ match' = match
    BY <1>4 DEF SetCompare
  <2> QED
    BY <1>3, <2>1 DEF ClockTyped
<1>5. CASE c > now
  <2>1. irq' = pending /\ match' = Reach(c)
    BY <1>2, <1>5 DEF SetCompare
  <2>2. now < Reach(c) /\ Reach(c) <= c /\ Reach(c) \in 0..(now + MaxDiff)
    BY <1>1, <1>2, <1>5 DEF Reach
  <2> QED
    BY <1>3, <2>1, <2>2 DEF ClockTyped
<1> QED
  BY <1>2, <1>4, <1>5

LEMMA ClockFollowsTyped ==
  ASSUME ClockTyped, First \in 0..Idle, First' \in 0..Idle, ClockFollows(irq), now' = now
  PROVE  ClockTyped'
<1>1. CASE UNCHANGED clockVars
  BY <1>1 DEF ClockTyped, clockVars
<1>2. CASE SetCompare(First', irq)
  <2>1. irq \in BOOLEAN
    BY DEF ClockTyped
  <2> QED
    BY <1>2, <2>1, CompareLemma
<1> QED
  BY <1>1, <1>2 DEF ClockFollows

LEMMA FirstTyped ==
  ASSUME NEW q, NEW time, NEW c, Good(q, time, c)
  PROVE  /\ FirstTime(q, time) \in 0..Idle
         /\ q = <<>> <=> FirstTime(q, time) = Idle
<1>1. MaxTime \in Nat /\ Idle = MaxTime + 1
  BY CompletionsAssumption DEF CompletionsAssumption, Idle
<1>2. q # <<>> => Head(q) \in Timers /\ time[Head(q)] \in 0..MaxTime
  BY LinkedLemma DEF Good
<1> QED
  BY <1>1, <1>2 DEF FirstTime

LEMMA FirstTypedNext ==
  ASSUME Lists'
  PROVE  First' \in 0..Idle /\ (queue' = <<>> <=> First' = Idle)
<1>1. Good(queue', at', conts')
  BY DEF Lists
<1> QED
  BY <1>1, FirstTyped DEF First

(* Every step keeps the types and the lists.                               *)
LEMMA TypedStep ==
  ASSUME Typed, [Next]_vars
  PROVE  Typed'
<1> USE DEF Typed
<1>0. /\ MaxTime \in Nat /\ now \in 0..MaxTime /\ First \in 0..Idle /\ Idle = MaxTime + 1
  <2>1. First \in 0..Idle
    BY FirstTyped DEF Lists, First
  <2> QED
    BY <2>1, CompletionsAssumption DEF CompletionsAssumption, Idle, ClockTyped
<1>1. CASE UNCHANGED vars
  <2>1. Lists'
    BY <1>1, SameLists DEF vars
  <2>2. ClockTyped' /\ RestTyped'
    BY <1>1 DEF vars, clockVars, waitVars, ClockTyped, RestTyped
  <2> QED
    BY <2>1, <2>2
<1>2. CASE Tick
  <2>1. Lists'
    BY <1>2, SameLists DEF Tick
  <2>2. RestTyped'
    BY <1>2 DEF Tick, waitVars, RestTyped
  <2>3. ClockTyped'
    BY <1>0, <1>2, CompletionsAssumption DEF Tick, ClockTyped, CompletionsAssumption
  <2> QED
    BY <2>1, <2>2, <2>3
<1>3. CASE TimerIsr
  <2>1. CASE IsrPosts
    <3>1. Lists' /\ SetCompare(First', FALSE)
      BY <2>1, IsrPostsLists
    <3>2. now' = now /\ RestTyped'
      BY <2>1 DEF IsrPosts, RestTyped, waitVars, Events
    <3> QED
      BY <3>1, <3>2, FirstTypedNext, CompareLemma
  <2>2. CASE IsrFires
    <3>1. Lists' /\ SetCompare(First', FALSE)
      BY <2>2, IsrFiresLists
    <3>2. now' = now /\ RestTyped'
      BY <2>2 DEF IsrFires, RestTyped, waitVars, Events
    <3> QED
      BY <3>1, <3>2, FirstTypedNext, CompareLemma
  <2>3. ASSUME NEW d \in Deadlines, IsrFiresAgain(d) PROVE Typed'
    <3>1. Lists' /\ SetCompare(First', FALSE)
      BY <1>0, <2>3, IsrFiresAgainLists
    <3>2. now' = now /\ RestTyped'
      BY <2>3 DEF IsrFiresAgain, RestTyped, waitVars, Events
    <3> QED
      BY <3>1, <3>2, FirstTypedNext, CompareLemma
  <2>4. CASE IsrIdle
    <3>1. Lists'
      BY <2>4, SameLists DEF IsrIdle
    <3> QED
      BY <2>4, <3>1 DEF IsrIdle, ClockTyped, RestTyped, waitVars
  <2>5. CASE IsrEarly
    <3>1. Lists'
      BY <2>5, SameLists DEF IsrEarly
    <3>2. now' = now /\ RestTyped' /\ SetCompare(compare, FALSE)
      BY <2>5 DEF IsrEarly, RestTyped, waitVars
    <3>3. ClockTyped'
      BY <3>2, CompareLemma DEF ClockTyped
    <3> QED
      BY <3>1, <3>2, <3>3
  <2> QED
    BY <1>3, <2>1, <2>2, <2>3, <2>4, <2>5 DEF TimerIsr
<1>4. CASE DeviceIsr
  <2>1. Lists'
    BY <1>4, SameLists DEF DeviceIsr
  <2> QED
    BY <1>4, <2>1 DEF DeviceIsr, ClockTyped, RestTyped, clockVars, waitVars, Events
<1>5. CASE Calls
  <2>1. ASSUME NEW t \in Timers, NEW d \in EnqueueTimes, Enqueue(t, d) PROVE Typed'
    <3>1. Lists' /\ ClockFollows(irq)
      BY <1>0, <2>1, EnqueueLists
    <3>2. now' = now /\ RestTyped'
      BY <2>1 DEF Enqueue, RestTyped, waitVars
    <3> QED
      BY <1>0, <3>1, <3>2, FirstTypedNext, ClockFollowsTyped
  <2>2. ASSUME NEW t \in Timers, Abort(t) PROVE Typed'
    <3>1. Lists' /\ ClockFollows(irq)
      BY <2>2, AbortLists
    <3>2. now' = now /\ RestTyped'
      BY <2>2 DEF Abort, RestTyped, waitVars
    <3> QED
      BY <1>0, <3>1, <3>2, FirstTypedNext, ClockFollowsTyped
  <2>3. ASSUME NEW t \in Timers, AbortCont(t) PROVE Typed'
    <3>1. Lists'
      BY <2>3, AbortContLists
    <3> QED
      BY <2>3, <3>1 DEF AbortCont, ClockTyped, RestTyped, clockVars, waitVars
  <2>4. CASE RunContinuation
    <3>1. Lists'
      BY <2>4, TailLists DEF RunContinuation
    <3> QED
      BY <2>4, <3>1 DEF RunContinuation, ClockTyped, RestTyped, clockVars, waitVars
  <2>5. ASSUME NEW m \in Masks, GetEvents(m) PROVE Typed'
    <3>1. Lists'
      BY <2>5, SameLists DEF GetEvents
    <3> QED
      BY <2>5, <3>1 DEF GetEvents, ClockTyped, RestTyped, clockVars, waitVars
  <2>6. ASSUME NEW m \in Masks, NEW e \in Deadlines, NEW int \in BOOLEAN, Wait(m, e, int)
        PROVE  Typed'
    <3>1. Lists'
      BY <2>6, SameLists DEF Wait
    <3>2. m \subseteq Events /\ e \in 0..MaxTime
      BY <1>0, CompletionsAssumption DEF CompletionsAssumption, Deadlines
    <3> QED
      BY <2>6, <3>1, <3>2 DEF Wait, ClockTyped, RestTyped, clockVars, waitVars
  <2> QED
    BY <1>5, <2>1, <2>2, <2>3, <2>4, <2>5, <2>6 DEF Calls
<1>6. CASE AfterSleep
  <2>1. Lists'
    BY <1>6, SameLists DEF AfterSleep
  <2>2. now' = now /\ RestTyped'
    BY <1>6 DEF AfterSleep, RestTyped, waitVars
  <2>3. UNCHANGED clockVars \/ \E c \in 0..Idle : SetCompare(c, irq)
    <3>1. Idle \in 0..Idle
      BY <1>0
    <3>2. restore \in {"None", "Idle", "First"}
      BY DEF RestTyped
    <3> QED
      BY <1>6, <3>1, <3>2 DEF AfterSleep
  <2>4. irq \in BOOLEAN
    BY DEF ClockTyped
  <2>5. CASE UNCHANGED clockVars
    BY <2>1, <2>2, <2>5 DEF ClockTyped, clockVars
  <2>6. ASSUME NEW c \in 0..Idle, SetCompare(c, irq) PROVE Typed'
    BY <2>1, <2>2, <2>4, <2>6, CompareLemma
  <2> QED
    BY <2>3, <2>5, <2>6
<1>7. CASE GoToSleep
  <2>1. Lists'
    BY <1>7, SameLists DEF GoToSleep
  <2>2. now' = now /\ RestTyped'
    BY <1>7 DEF GoToSleep, RestTyped, waitVars
  <2>3. UNCHANGED clockVars \/ SetCompare(expire, irq)
    BY <1>7 DEF GoToSleep
  <2>4. irq \in BOOLEAN /\ expire \in 0..Idle
    BY <1>0 DEF ClockTyped, RestTyped
  <2>5. CASE UNCHANGED clockVars
    BY <2>1, <2>2, <2>5 DEF ClockTyped, clockVars
  <2>6. CASE SetCompare(expire, irq)
    BY <2>1, <2>2, <2>4, <2>6, CompareLemma
  <2> QED
    BY <2>3, <2>5, <2>6
<1>8. CASE Dequeue
  <2>1. Lists'
    BY <1>8, TailLists DEF Dequeue
  <2> QED
    BY <1>8, <2>1 DEF Dequeue, ClockTyped, RestTyped, clockVars, waitVars
<1>9. CASE Return \/ Release \/ Probe \/ DequeueNone \/ Acquire
  <2>1. Lists'
    BY <1>9, SameLists DEF Return, Release, Probe, DequeueNone, Acquire
  <2>2. UNCHANGED <<now, clockVars>>
    BY <1>9 DEF Return, Release, Probe, DequeueNone, Acquire
  <2>3. RestTyped'
    <3>1. CASE Return
      <4>1. /\ pc' = "run" /\ mask' = {} /\ expire' = 0 /\ internal' = FALSE
            /\ UNCHANGED <<events, runConts, restore>>
        BY <3>1 DEF Return
      <4>2. 0 \in 0..MaxTime
        BY <1>0
      <4> QED
        BY <4>1, <4>2 DEF RestTyped
    <3>2. CASE Release
      BY <3>2 DEF Release, RestTyped, waitVars
    <3>3. CASE Probe
      BY <3>3 DEF Probe, RestTyped, waitVars
    <3>4. CASE DequeueNone
      BY <3>4 DEF DequeueNone, RestTyped, waitVars
    <3>5. CASE Acquire
      BY <3>5 DEF Acquire, RestTyped, waitVars
    <3> QED
      BY <1>9, <3>1, <3>2, <3>3, <3>4, <3>5
  <2> QED
    BY <2>1, <2>2, <2>3 DEF ClockTyped, clockVars
<1> QED
  BY <1>1, <1>2, <1>3, <1>4, <1>5, <1>6, <1>7, <1>8, <1>9
     DEF Next, WaitLoop, WakeUp, WakeUpOther

LEMMA InitTyped == Init => Typed
<1> SUFFICES ASSUME Init PROVE Typed
  OBVIOUS
<1>1. /\ MaxTime \in Nat /\ MaxDiff \in Nat
  BY CompletionsAssumption DEF CompletionsAssumption
<1>2. Good(queue, at, conts)
  BY <1>1 DEF Init, Good, Distinct, Sorted, Linked
<1>3. ClockTyped
  <2>1. /\ 0 \in 0..MaxTime /\ MaxDiff \in 0..(MaxTime + MaxDiff)
        /\ MaxDiff \in 0..(0 + MaxDiff)
    BY <1>1
  <2> QED
    BY <2>1 DEF Init, ClockTyped
<1>4. RestTyped
  <2>1. 0 \in 0..MaxTime
    BY <1>1
  <2> QED
    BY <2>1 DEF Init, RestTyped
<1> QED
  BY <1>2, <1>3, <1>4 DEF Typed, Lists

LEMMA TypedAlways == Spec => []Typed
<1>1. Typed /\ [Next]_vars => Typed'
  BY TypedStep
<1> QED
  BY InitTyped, <1>1, PTL DEF Spec

(* Whatever drivers, callbacks and interrupts do, every variable keeps its *)
(* type and the register its reach.                                        *)
THEOREM TypeCorrect == Spec => []TypeOK
<1>1. Typed => TypeOK
  BY TypedMeans
<1> QED
  BY <1>1, TypedAlways, PTL

(* A completion is linked at most once, in one of the two lists, and the   *)
(* queue stays sorted by time: EnqueueTicks, Abort, DequeueAndExec and the *)
(* callbacks that set a completion again keep it so, on any port.          *)
THEOREM ListsCorrect == Spec => []ListsOK
<1>1. Typed => ListsOK
  BY TypedMeans
<1> QED
  BY <1>1, TypedAlways, PTL

-----------------------------------------------------------------------------
(* The compare register, where no handler runs during the sleep.           *)

(* The compare is the first time but in a sleep that has borrowed it; the  *)
(* interrupt comes no later than the first time.                           *)
Armed ==
  /\ queue # <<>> /\ (pc = "sleep" => restore = "None") => compare = First
  /\ pc = "sleep" => (restore = "Idle" <=> queue = <<>>)
  /\ queue # <<>> => irq \/ (now < match /\ match <= First)

LEMMA ArmedByCompare ==
  ASSUME Typed, Lists', NEW pending \in BOOLEAN, SetCompare(First', pending),
         now' = now, pc' # "sleep"
  PROVE  Armed'
<1>1. First' \in 0..Idle
  BY FirstTypedNext
<1>2. compare' = First' /\ (irq' \/ (now < match' /\ match' <= First'))
  BY <1>1, CompareLemma DEF Typed
<1> QED
  BY <1>2 DEF Armed

LEMMA ArmedByClock ==
  ASSUME Typed, Armed, Lists', ClockFollows(irq), now' = now,
         pc # "sleep", pc' # "sleep"
  PROVE  Armed'
<1>1. CASE SetCompare(First', irq)
  <2>1. irq \in BOOLEAN
    BY DEF Typed, ClockTyped
  <2> QED
    BY <1>1, <2>1, ArmedByCompare
<1>2. CASE UNCHANGED clockVars /\ First' = First
  <2>1. queue = <<>> <=> queue' = <<>>
    BY <1>2, FirstTypedNext, FirstLemma DEF Typed
  <2> QED
    BY <1>2, <2>1 DEF Armed, clockVars
<1> QED
  BY <1>1, <1>2 DEF ClockFollows

LEMMA ArmedSame ==
  ASSUME Armed, queue' = queue, at' = at, UNCHANGED <<now, clockVars>>,
         pc # "sleep", pc' # "sleep"
  PROVE  Armed'
BY DEF Armed, clockVars, First, FirstTime

LEMMA ArmedStep ==
  ASSUME SleepRunsIsr = FALSE, Typed, Armed, [Next]_vars
  PROVE  Armed'
<1>0. /\ Typed' /\ Lists' /\ Lists
      /\ MaxTime \in Nat /\ now \in 0..MaxTime /\ First \in 0..Idle /\ Idle = MaxTime + 1
      /\ irq \in BOOLEAN /\ match \in Nat /\ now \in Nat
      /\ IrqsOn => pc # "sleep"
  <2>1. Typed'
    BY TypedStep
  <2>2. First \in 0..Idle
    BY FirstTyped DEF Typed, Lists, First
  <2>3. MaxTime \in Nat /\ MaxDiff \in Nat
    BY CompletionsAssumption DEF CompletionsAssumption
  <2>4. /\ now \in 0..MaxTime /\ now \in Nat /\ irq \in BOOLEAN /\ match \in Nat
    BY <2>3 DEF ClockTyped, Typed
  <2>5. IrqsOn => pc # "sleep"
    BY DEF IrqsOn
  <2> QED
    BY <2>1, <2>2, <2>3, <2>4, <2>5 DEF Idle, Typed
<1>1. CASE UNCHANGED vars
  BY <1>1 DEF vars, clockVars, Armed, First, FirstTime
<1>2. CASE Tick
  <2>1. /\ now' = now + 1 /\ irq' = (irq \/ now + 1 = match)
        /\ UNCHANGED <<queue, at, compare, match, pc, restore>>
    BY <1>2 DEF Tick
  <2>2. First' = First
    BY <2>1 DEF First, FirstTime
  <2>3. now < match => now + 1 < match \/ now + 1 = match
    BY <1>0
  <2> QED
    BY <2>1, <2>2, <2>3 DEF Armed
<1>3. CASE TimerIsr
  <2>1. CASE IsrPosts
    <3>1. SetCompare(First', FALSE)
      BY <1>0, <2>1, IsrPostsLists
    <3>2. now' = now /\ pc' # "sleep"
      BY <1>0, <2>1 DEF IsrPosts, IsrRuns
    <3> QED
      BY <1>0, <3>1, <3>2, ArmedByCompare
  <2>2. CASE IsrFires
    <3>1. SetCompare(First', FALSE)
      BY <1>0, <2>2, IsrFiresLists
    <3>2. now' = now /\ pc' # "sleep"
      BY <1>0, <2>2 DEF IsrFires, IsrRuns
    <3> QED
      BY <1>0, <3>1, <3>2, ArmedByCompare
  <2>3. ASSUME NEW d \in Deadlines, IsrFiresAgain(d) PROVE Armed'
    <3>1. SetCompare(First', FALSE)
      BY <1>0, <2>3, IsrFiresAgainLists
    <3>2. now' = now /\ pc' # "sleep"
      BY <1>0, <2>3 DEF IsrFiresAgain, IsrRuns
    <3> QED
      BY <1>0, <3>1, <3>2, ArmedByCompare
  <2>4. CASE IsrIdle
    BY <1>0, <2>4 DEF IsrIdle, IsrRuns, Armed
  <2>5. CASE IsrEarly
    <3>1. /\ pc # "sleep" /\ pc' = pc /\ queue' = queue /\ at' = at /\ now' = now
          /\ SetCompare(compare, FALSE)
      BY <1>0, <2>5 DEF IsrEarly, IsrRuns
    <3>2. First' = First
      BY <3>1 DEF First, FirstTime
    <3>3. CASE queue # <<>>
      <4>1. SetCompare(First', FALSE)
        BY <3>1, <3>2, <3>3 DEF Armed
      <4> QED
        BY <1>0, <3>1, <4>1, ArmedByCompare
    <3>4. CASE queue = <<>>
      BY <3>1, <3>4 DEF Armed
    <3> QED
      BY <3>3, <3>4
  <2> QED
    BY <1>3, <2>1, <2>2, <2>3, <2>4, <2>5 DEF TimerIsr
<1>4. CASE DeviceIsr
  <2>1. /\ queue' = queue /\ at' = at /\ UNCHANGED <<now, clockVars>>
        /\ pc # "sleep" /\ pc' # "sleep"
    BY <1>0, <1>4 DEF DeviceIsr
  <2> QED
    BY <2>1, ArmedSame
<1>5. CASE Calls
  <2>1. ASSUME NEW t \in Timers, NEW d \in EnqueueTimes, Enqueue(t, d) PROVE Armed'
    <3>1. ClockFollows(irq)
      BY <1>0, <2>1, EnqueueLists
    <3>2. now' = now /\ pc # "sleep" /\ pc' # "sleep"
      BY <1>0, <2>1 DEF Enqueue
    <3> QED
      BY <1>0, <3>1, <3>2, ArmedByClock
  <2>2. ASSUME NEW t \in Timers, Abort(t) PROVE Armed'
    <3>1. ClockFollows(irq)
      BY <1>0, <2>2, AbortLists
    <3>2. now' = now /\ pc # "sleep" /\ pc' # "sleep"
      BY <1>0, <2>2 DEF Abort
    <3> QED
      BY <1>0, <3>1, <3>2, ArmedByClock
  <2>3. ASSUME NEW t \in Timers, AbortCont(t) PROVE Armed'
    <3>1. /\ queue' = queue /\ at' = at /\ UNCHANGED <<now, clockVars>>
          /\ pc # "sleep" /\ pc' # "sleep"
      BY <1>0, <2>3 DEF AbortCont
    <3> QED
      BY <3>1, ArmedSame
  <2>4. CASE RunContinuation
    <3>1. /\ queue' = queue /\ at' = at /\ UNCHANGED <<now, clockVars>>
          /\ pc # "sleep" /\ pc' # "sleep"
      BY <2>4 DEF RunContinuation, ThreadRuns
    <3> QED
      BY <3>1, ArmedSame
  <2>5. ASSUME NEW m \in Masks, GetEvents(m) PROVE Armed'
    <3>1. /\ queue' = queue /\ at' = at /\ UNCHANGED <<now, clockVars>>
          /\ pc # "sleep" /\ pc' # "sleep"
      BY <2>5 DEF GetEvents, ThreadRuns
    <3> QED
      BY <3>1, ArmedSame
  <2>6. ASSUME NEW m \in Masks, NEW e \in Deadlines, NEW int \in BOOLEAN, Wait(m, e, int)
        PROVE  Armed'
    <3>1. /\ queue' = queue /\ at' = at /\ UNCHANGED <<now, clockVars>>
          /\ pc # "sleep" /\ pc' # "sleep"
      BY <2>6 DEF Wait, ThreadRuns
    <3> QED
      BY <3>1, ArmedSame
  <2> QED
    BY <1>5, <2>1, <2>2, <2>3, <2>4, <2>5, <2>6 DEF Calls
<1>6. CASE AfterSleep
  <2>1. /\ pc = "sleep" /\ pc' = "probe" /\ queue' = queue /\ at' = at /\ now' = now
        /\ restore \in {"None", "Idle", "First"}
    BY <1>6 DEF AfterSleep, Typed, RestTyped
  <2>2. First' = First
    BY <2>1 DEF First, FirstTime
  <2>3. CASE queue = <<>>
    BY <2>1, <2>3 DEF Armed
  <2>4. CASE queue # <<>> /\ restore = "None"
    BY <1>6, <2>1, <2>2, <2>4 DEF AfterSleep, Armed, clockVars
  <2>5. CASE queue # <<>> /\ restore = "First"
    <3>1. \E c \in 0..Idle : c = at[Head(queue)] /\ SetCompare(c, irq)
      BY <1>6, <2>5 DEF AfterSleep
    <3>2. SetCompare(First', irq)
      BY <2>2, <2>5, <3>1 DEF First, FirstTime
    <3> QED
      BY <1>0, <2>1, <3>2, ArmedByCompare
  <2> QED
    BY <2>1, <2>3, <2>4, <2>5 DEF Armed
<1>7. CASE GoToSleep
  <2>1. /\ pc = "check" /\ pc' = "sleep" /\ queue' = queue /\ at' = at /\ now' = now
    BY <1>7 DEF GoToSleep
  <2>2. First' = First
    BY <2>1 DEF First, FirstTime
  <2>3. expire \in 0..MaxTime /\ ClockTyped
    BY DEF Typed, RestTyped
  <2>4. CASE queue = <<>>
    <3>1. restore' = "Idle"
      BY <1>7, <2>4 DEF GoToSleep
    <3> QED
      BY <2>1, <2>4, <3>1 DEF Armed
  <2>5. CASE queue # <<>> /\ First > expire
    <3>1. restore' = "First" /\ SetCompare(expire, irq)
      BY <1>7, <2>5 DEF GoToSleep, First, FirstTime
    <3>2. irq' \/ (now < match' /\ match' <= expire)
      <4>1. expire \in 0..Idle
        BY <1>0, <2>3
      <4> QED
        BY <1>0, <2>1, <2>3, <3>1, <4>1, CompareLemma
    <3>3. match' \in Nat
      BY <1>0, <2>1, CompletionsAssumption DEF Typed, ClockTyped, CompletionsAssumption
    <3>4. match' <= expire => match' <= First
      BY <1>0, <2>3, <2>5, <3>3
    <3> QED
      BY <2>1, <2>2, <2>5, <3>1, <3>2, <3>4 DEF Armed
  <2>6. CASE queue # <<>> /\ ~(First > expire)
    <3>1. restore' = "None" /\ UNCHANGED clockVars
      BY <1>7, <2>6 DEF GoToSleep, First, FirstTime
    <3> QED
      BY <2>1, <2>2, <2>6, <3>1 DEF Armed, clockVars
  <2> QED
    BY <2>4, <2>5, <2>6
<1>8. CASE Return \/ Release \/ Probe \/ Dequeue \/ DequeueNone \/ Acquire
  <2>1. /\ queue' = queue /\ at' = at /\ UNCHANGED <<now, clockVars>>
        /\ pc # "sleep" /\ pc' # "sleep"
    BY <1>8 DEF Return, Release, Probe, Dequeue, DequeueNone, Acquire
  <2> QED
    BY <2>1, ArmedSame
<1> QED
  BY <1>1, <1>2, <1>3, <1>4, <1>5, <1>6, <1>7, <1>8
     DEF Next, WaitLoop, WakeUp, WakeUpOther

LEMMA ArmedAlways ==
  ASSUME SleepRunsIsr = FALSE
  PROVE  Spec => [](Typed /\ Armed)
<1>1. Init => Typed /\ Armed
  <2>1. Init => Armed
    BY DEF Init, Armed
  <2> QED
    BY <2>1, InitTyped
<1>2. Typed /\ Armed /\ [Next]_vars => (Typed /\ Armed)'
  BY TypedStep, ArmedStep
<1> QED
  BY <1>1, <1>2, PTL DEF Spec

(* Where no handler runs during CPU_Sleep, the compare register stands for *)
(* the first completion whenever a handler can see it, and the timer       *)
(* interrupt comes no later than that completion is due: EnqueueTicks and  *)
(* Abort of the first one move it, WaitForInterrupts puts it back.         *)
THEOREM InterruptAlwaysComes ==
  ASSUME SleepRunsIsr = FALSE
  PROVE  Spec => []InterruptComes
<1>1. Typed /\ Armed => InterruptComes
  <2> SUFFICES ASSUME Typed, Armed PROVE InterruptComes
    OBVIOUS
  <2>1. ListsOK
    BY TypedMeans
  <2>2. queue # <<>> => First = at[Head(queue)]
    BY DEF First, FirstTime
  <2>3. IrqsOn => pc # "sleep"
    BY DEF IrqsOn
  <2> QED
    BY <2>1, <2>2, <2>3 DEF Armed, InterruptComes
<1> QED
  BY <1>1, ArmedAlways, PTL

LEMMA DueLemma ==
  ASSUME SleepRunsIsr = FALSE, Armed, IsrRuns, compare <= now, queue # <<>>
  PROVE  First <= now /\ First = at[Head(queue)]
BY DEF Armed, IsrRuns, IrqsOn, First, FirstTime

(* Where no handler runs during CPU_Sleep, the assertion of DequeueAndExec *)
(* holds: the completion that the timer interrupt runs is due.             *)
THEOREM DueWhenRun ==
  ASSUME SleepRunsIsr = FALSE
  PROVE  Spec => []AssertDue
<1>1. Armed => AssertDue
  BY DueLemma DEF AssertDue
<1> QED
  BY <1>1, ArmedAlways, PTL

-----------------------------------------------------------------------------
(* No sleep on work.                                                       *)

(* Continuations run before the sleep; a later one brings the timer event, *)
(* which the loop tests again.                                             *)
NoWork ==
  /\ NoSleepOnWork
  /\ pc \in {"acquire", "check"} /\ ~runConts /\ "Timer" \in mask
       => conts = <<>> \/ "Timer" \in events
  /\ pc \in {"release", "cont", "sleep", "probe"} => runConts

LEMMA NoWorkSame ==
  ASSUME NoWork, UNCHANGED <<conts, pc, mask, internal, runConts>>,
         pc = "sleep" => events' = events, events \subseteq events'
  PROVE  NoWork'
BY DEF NoWork, NoSleepOnWork

LEMMA NoWorkStep ==
  ASSUME SleepRunsIsr = FALSE, Typed, NoWork, [Next]_vars
  PROVE  NoWork'
<1>0. IrqsOn => pc # "sleep"
  BY DEF IrqsOn
<1>1. CASE UNCHANGED vars
  BY <1>1, NoWorkSame DEF vars, waitVars
<1>2. CASE Tick
  BY <1>2, NoWorkSame DEF Tick, waitVars
<1>3. CASE TimerIsr
  <2>1. CASE IsrPosts
    <3>1. /\ events' = events \cup {"Timer"} /\ pc # "sleep"
          /\ UNCHANGED <<pc, mask, internal, runConts>>
      BY <1>0, <2>1 DEF IsrPosts, IsrRuns, waitVars
    <3> QED
      BY <3>1 DEF NoWork, NoSleepOnWork
  <2>2. CASE IsrFires
    BY <1>0, <2>2, NoWorkSame DEF IsrFires, IsrRuns, waitVars
  <2>3. ASSUME NEW d \in Deadlines, IsrFiresAgain(d) PROVE NoWork'
    BY <1>0, <2>3, NoWorkSame DEF IsrFiresAgain, IsrRuns, waitVars
  <2>4. CASE IsrIdle
    BY <2>4, NoWorkSame DEF IsrIdle, waitVars
  <2>5. CASE IsrEarly
    BY <2>5, NoWorkSame DEF IsrEarly, waitVars
  <2> QED
    BY <1>3, <2>1, <2>2, <2>3, <2>4, <2>5 DEF TimerIsr
<1>4. CASE DeviceIsr
  BY <1>0, <1>4, NoWorkSame DEF DeviceIsr, waitVars
<1>5. CASE Calls
  <2>1. ASSUME NEW t \in Timers, NEW d \in EnqueueTimes, Enqueue(t, d) PROVE NoWork'
    BY <2>1, NoWorkSame DEF Enqueue, waitVars
  <2>2. ASSUME NEW t \in Timers, Abort(t) PROVE NoWork'
    BY <2>2, NoWorkSame DEF Abort, waitVars
  <2>3. ASSUME NEW t \in Timers, AbortCont(t) PROVE NoWork'
    <3>1. conts # <<>>
      BY <2>3, AbortContLists DEF Typed
    <3>2. pc # "sleep" /\ UNCHANGED <<events, pc, mask, internal, runConts>>
      BY <1>0, <2>3 DEF AbortCont, waitVars
    <3> QED
      BY <3>1, <3>2 DEF NoWork, NoSleepOnWork
  <2>4. CASE RunContinuation
    BY <2>4 DEF RunContinuation, ThreadRuns, NoWork, NoSleepOnWork, waitVars
  <2>5. ASSUME NEW m \in Masks, GetEvents(m) PROVE NoWork'
    BY <2>5 DEF GetEvents, ThreadRuns, NoWork, NoSleepOnWork, waitVars
  <2>6. ASSUME NEW m \in Masks, NEW e \in Deadlines, NEW int \in BOOLEAN, Wait(m, e, int)
        PROVE  NoWork'
    BY <2>6 DEF Wait, NoWork, NoSleepOnWork
  <2> QED
    BY <1>5, <2>1, <2>2, <2>3, <2>4, <2>5, <2>6 DEF Calls
<1>6. CASE AfterSleep
  BY <1>6 DEF AfterSleep, NoWork, NoSleepOnWork, waitVars
<1>7. CASE GoToSleep
  <2>1. /\ pc = "check" /\ events \cap mask = {}
        /\ ~runConts \/ internal
        /\ runConts' = TRUE /\ pc' = "sleep"
        /\ UNCHANGED <<conts, events, mask, internal>>
    BY <1>7 DEF GoToSleep, WaitOver, waitVars
  <2>2. "Timer" \in mask /\ ~internal => conts = <<>>
    BY <2>1 DEF NoWork
  <2> QED
    BY <2>1, <2>2 DEF NoWork, NoSleepOnWork
<1>8. CASE Return
  BY <1>8 DEF Return, NoWork, NoSleepOnWork
<1>9. CASE Release
  BY <1>9 DEF Release, NoWork, NoSleepOnWork, waitVars
<1>10. CASE Probe
  BY <1>10 DEF Probe, NoWork, NoSleepOnWork, waitVars
<1>11. CASE Dequeue
  BY <1>11 DEF Dequeue, NoWork, NoSleepOnWork, waitVars
<1>12. CASE DequeueNone
  BY <1>12 DEF DequeueNone, NoWork, NoSleepOnWork, waitVars
<1>13. CASE Acquire
  BY <1>13 DEF Acquire, NoWork, NoSleepOnWork, waitVars
<1> QED
  BY <1>1, <1>2, <1>3, <1>4, <1>5, <1>6, <1>7, <1>8, <1>9, <1>10, <1>11, <1>12, <1>13
     DEF Next, WaitLoop, WakeUp, WakeUpOther

(* Where no handler runs during CPU_Sleep, Events_WaitForEvents never puts *)
(* the CPU to sleep on an event its caller waits for, nor, if the caller   *)
(* waits for the timer event, on a queued continuation: the continuations  *)
(* run with interrupts enabled, and what interrupts leave behind then is   *)
(* seen when the events are tested again.                                  *)
THEOREM NeverSleepsOnWork ==
  ASSUME SleepRunsIsr = FALSE
  PROVE  Spec => []NoSleepOnWork
<1>1. Init => Typed /\ NoWork
  <2>1. Init => NoWork
    BY DEF Init, NoWork, NoSleepOnWork
  <2> QED
    BY <2>1, InitTyped
<1>2. Typed /\ NoWork /\ [Next]_vars => (Typed /\ NoWork)'
  BY TypedStep, NoWorkStep
<1>3. Typed /\ NoWork => NoSleepOnWork
  BY DEF NoWork
<1> QED
  BY <1>1, <1>2, <1>3, PTL DEF Spec

-----------------------------------------------------------------------------
(* Completions are alarms.                                                 *)

LEMMA InitAlarms == Init => A!Init
<1> SUFFICES ASSUME Init PROVE A!Init
  OBVIOUS
<1>1. Linked(queue) = {}
  BY DEF Init, Linked
<1>2. Due = [t \in Timers |-> Idle]
  BY <1>1 DEF Due
<1> QED
  BY <1>2 DEF Init, A!Init

(* The completion the interrupt runs goes off as an alarm.                 *)
LEMMA IsrIsFire ==
  ASSUME SleepRunsIsr = FALSE, Typed, Armed,
         IsrRuns, compare <= now, queue # <<>>, now' = now,
         NEW d \in 0..Idle, d # Idle => d > now,
         Due' = [Due EXCEPT ![Head(queue)] = d]
  PROVE  A!Next
<1> DEFINE t == Head(queue)
<1>1. /\ MaxTime \in Nat /\ Idle = MaxTime + 1 /\ now \in Nat
  BY CompletionsAssumption DEF CompletionsAssumption, Idle, Typed, ClockTyped
<1>2. /\ t \in Timers /\ t \in Linked(queue)
      /\ First = at[t] /\ First \in 0..MaxTime
      /\ \A u \in Timers : Due[u] # Idle => First <= Due[u]
  BY FirstLemma DEF Typed
<1>3. First <= now
  BY DueLemma
<1>4. Due[t] = First
  BY <1>2 DEF Due
<1>5. First # Idle
  BY <1>1, <1>2
<1>6. A!Fire(t, d)
  BY <1>2, <1>3, <1>4, <1>5 DEF A!Fire
<1>7. d \in (1..MaxTime) \cup {Idle}
  BY <1>1
<1>8. A!GoesOff(t)
  BY <1>6, <1>7 DEF A!GoesOff
<1> QED
  BY <1>2, <1>8 DEF A!Next

LEMMA StepIsAlarms ==
  ASSUME SleepRunsIsr = FALSE, Typed, Armed, [Next]_vars
  PROVE  [A!Next]_(A!vars)
<1>0. /\ MaxTime \in Nat /\ Idle = MaxTime + 1 /\ Idle \in 0..Idle
      /\ now \in 0..MaxTime /\ Lists
  <2>1. MaxTime \in Nat /\ Idle = MaxTime + 1
    BY CompletionsAssumption DEF CompletionsAssumption, Idle
  <2> QED
    BY <2>1 DEF Typed, ClockTyped
<1>s. ASSUME now' = now, queue' = queue, at' = at PROVE UNCHANGED A!vars
  BY <1>s DEF A!vars, Due
<1>1. CASE UNCHANGED vars
  BY <1>1, <1>s DEF vars
<1>2. CASE Tick
  <2>1. Due' = Due
    BY <1>2 DEF Tick, Due
  <2>2. A!Tick
    BY <1>2, <2>1 DEF Tick, A!Tick
  <2> QED
    BY <2>2 DEF A!Next
<1>3. CASE TimerIsr
  <2>1. CASE IsrPosts
    <3>1. Due' = [Due EXCEPT ![Head(queue)] = Idle]
      BY <1>0, <2>1, IsrPostsLists
    <3>2. IsrRuns /\ compare <= now /\ queue # <<>> /\ now' = now
      BY <2>1 DEF IsrPosts
    <3> QED
      BY <1>0, <3>1, <3>2, IsrIsFire
  <2>2. CASE IsrFires
    <3>1. Due' = [Due EXCEPT ![Head(queue)] = Idle]
      BY <1>0, <2>2, IsrFiresLists
    <3>2. IsrRuns /\ compare <= now /\ queue # <<>> /\ now' = now
      BY <2>2 DEF IsrFires
    <3> QED
      BY <1>0, <3>1, <3>2, IsrIsFire
  <2>3. ASSUME NEW d \in Deadlines, IsrFiresAgain(d) PROVE A!Next
    <3>1. Due' = [Due EXCEPT ![Head(queue)] = d] /\ d > now /\ d \in 0..Idle
      <4>1. Due' = [Due EXCEPT ![Head(queue)] = d] /\ d > now /\ d \in 0..MaxTime
        BY <1>0, <2>3, IsrFiresAgainLists
      <4> QED
        BY <1>0, <4>1
    <3>2. IsrRuns /\ compare <= now /\ queue # <<>> /\ now' = now
      BY <2>3 DEF IsrFiresAgain
    <3> QED
      BY <1>0, <3>1, <3>2, IsrIsFire
  <2>4. CASE IsrIdle \/ IsrEarly
    BY <1>s, <2>4 DEF IsrIdle, IsrEarly
  <2> QED
    BY <1>3, <2>1, <2>2, <2>3, <2>4 DEF TimerIsr
<1>4. CASE DeviceIsr
  BY <1>4, <1>s DEF DeviceIsr
<1>5. CASE Calls
  <2>1. ASSUME NEW t \in Timers, NEW d \in EnqueueTimes, Enqueue(t, d) PROVE A!Next
    <3>1. Due[t] = Idle /\ Due' = [Due EXCEPT ![t] = d] /\ d \in 1..MaxTime
      BY <1>0, <2>1, EnqueueLists
    <3>2. now' = now
      BY <2>1 DEF Enqueue
    <3>3. A!Arm(t, d)
      BY <3>1, <3>2 DEF A!Arm
    <3> QED
      BY <3>1, <3>3 DEF A!Next
  <2>2. ASSUME NEW t \in Timers, Abort(t) PROVE A!Next
    <3>1. Due' = [Due EXCEPT ![t] = Idle]
      BY <1>0, <2>2, AbortLists
    <3>2. A!Cancel(t)
      BY <2>2, <3>1 DEF Abort, A!Cancel
    <3> QED
      BY <3>2 DEF A!Next
  <2>3. ASSUME NEW t \in Timers, AbortCont(t) PROVE UNCHANGED A!vars
    BY <1>s, <2>3 DEF AbortCont
  <2>4. CASE RunContinuation
    BY <1>s, <2>4 DEF RunContinuation
  <2>5. ASSUME NEW m \in Masks, GetEvents(m) PROVE UNCHANGED A!vars
    BY <1>s, <2>5 DEF GetEvents
  <2>6. ASSUME NEW m \in Masks, NEW e \in Deadlines, NEW int \in BOOLEAN, Wait(m, e, int)
        PROVE  UNCHANGED A!vars
    BY <1>s, <2>6 DEF Wait
  <2> QED
    BY <1>5, <2>1, <2>2, <2>3, <2>4, <2>5, <2>6 DEF Calls
<1>6. CASE AfterSleep
  BY <1>6, <1>s DEF AfterSleep
<1>7. CASE GoToSleep
  BY <1>7, <1>s DEF GoToSleep
<1>8. CASE Return \/ Release \/ Probe \/ Dequeue \/ DequeueNone \/ Acquire
  BY <1>8, <1>s DEF Return, Release, Probe, Dequeue, DequeueNone, Acquire
<1> QED
  BY <1>1, <1>2, <1>3, <1>4, <1>5, <1>6, <1>7, <1>8
     DEF Next, WaitLoop, WakeUp, WakeUpOther

(* Where no handler runs during CPU_Sleep, completions are the alarms of   *)
(* module Alarms, step by step: each goes off once, never before its time, *)
(* and earlier ones first, whatever is set and aborted in between.  That   *)
(* they do go off is left to the model checker.                            *)
THEOREM StepsAreAlarms ==
  ASSUME SleepRunsIsr = FALSE
  PROVE  Spec => A!Init /\ [][A!Next]_(A!vars)
<1>1. Typed /\ Armed /\ [Next]_vars => [A!Next]_(A!vars)
  BY StepIsAlarms
<1> QED
  BY <1>1, InitAlarms, ArmedAlways, PTL DEF Spec

=============================================================================
