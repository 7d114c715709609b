------------------------- MODULE RoundRobin_proofs --------------------------
(***************************************************************************)
(* Proofs about RoundRobin: its type invariant, the range of the execution *)
(* counters, what Sleep(0) yields to, and the bound on a burst, for any    *)
(* number of threads, any priorities and any thresholds.                   *)
(***************************************************************************)
EXTENDS RoundRobin, SequenceTheorems, FiniteSetTheorems, TLAPS

-----------------------------------------------------------------------------
(* Lemmas about the operators of the model.                                *)

(* Unlinking t leaves the other threads, each once.                        *)
LEMMA UnlinkedLemma ==
  ASSUME NEW q \in Seq(Threads), NEW t, Distinct(q)
  PROVE  /\ Unlinked(q, t) \in Seq(Threads)
         /\ Distinct(Unlinked(q, t))
         /\ Elems(Unlinked(q, t)) = Elems(q) \ {t}
<1>1. CASE t \notin Elems(q)
  BY <1>1 DEF Unlinked
<1>2. CASE t \in Elems(q)
  <2> DEFINE i == CHOOSE j \in DOMAIN q : q[j] = t
             a == SubSeq(q, 1, i - 1)
             b == SubSeq(q, i + 1, Len(q))
             r == a \o b
  <2>1. i \in DOMAIN q /\ q[i] = t
    BY <1>2 DEF Elems
  <2>2. Unlinked(q, t) = r
    BY <1>2 DEF Unlinked
  <2> HIDE DEF i
  <2>3. i \in 1..Len(q) /\ Len(q) \in Nat
    BY <2>1
  <2>4. /\ a \in Seq(Threads) /\ Len(a) = i - 1
        /\ \A k \in 1..(i - 1) : a[k] = q[k]
    BY <2>3, SubSeqProperties
  <2>5. /\ b \in Seq(Threads) /\ Len(b) = Len(q) - i
        /\ \A k \in 1..(Len(q) - i) : b[k] = q[i + k]
    BY <2>3, SubSeqProperties
  <2> HIDE DEF a, b
  <2>6. /\ r \in Seq(Threads)
        /\ Len(r) = Len(a) + Len(b)
        /\ \A j \in 1..(Len(a) + Len(b)) :
             r[j] = IF j <= Len(a) THEN a[j] ELSE b[j - Len(a)]
    BY <2>4, <2>5, ConcatProperties
  <2> HIDE DEF r
  <2>7. Len(r) = Len(q) - 1 /\ DOMAIN r = 1..(Len(q) - 1) /\ DOMAIN q = 1..Len(q)
    BY <2>3, <2>4, <2>5, <2>6
  (* r[k] is q[k] before the gap and q[k + 1] behind it. *)
  <2>8. ASSUME NEW k \in 1..(Len(q) - 1), k < i
        PROVE  r[k] = q[k]
    <3>1. k \in 1..(i - 1) /\ k <= Len(a) /\ k \in 1..(Len(a) + Len(b))
      BY <2>3, <2>4, <2>5, <2>8
    <3> QED
      BY <2>4, <2>6, <3>1
  <2>9. ASSUME NEW k \in 1..(Len(q) - 1), k >= i
        PROVE  r[k] = q[k + 1]
    <3>1. ~(k <= Len(a)) /\ k \in 1..(Len(a) + Len(b)) /\ k - Len(a) = k - i + 1
      BY <2>3, <2>4, <2>5, <2>9
    <3>2. k - i + 1 \in 1..(Len(q) - i) /\ i + (k - i + 1) = k + 1
      BY <2>3, <2>9
    <3>3. r[k] = b[k - i + 1]
      BY <2>6, <3>1
    <3>4. b[k - i + 1] = q[i + (k - i + 1)]
      BY <2>5, <3>2
    <3> QED
      BY <3>2, <3>3, <3>4
  <2>10. \A k \in 1..(Len(q) - 1) :
           r[k] = q[IF k < i THEN k ELSE k + 1]
    BY <2>3, <2>8, <2>9
  <2>11. Distinct(r)
    <3> SUFFICES ASSUME NEW k \in 1..(Len(q) - 1), NEW m \in 1..(Len(q) - 1), r[k] = r[m]
                 PROVE  k = m
      BY <2>7 DEF Distinct
    <3> DEFINE K == IF k < i THEN k ELSE k + 1
               M == IF m < i THEN m ELSE m + 1
    <3>1. K \in DOMAIN q /\ M \in DOMAIN q
      BY <2>3, <2>7
    <3>2. q[K] = q[M]
      BY <2>10
    <3>3. K = M
      BY <3>1, <3>2 DEF Distinct
    <3> QED
      BY <2>3, <3>3
  <2>12. ASSUME NEW x \in Elems(q), x # t PROVE x \in Elems(r)
    <3>1. PICK k \in DOMAIN q : x = q[k]
      BY <2>12 DEF Elems
    <3>2. k # i
      BY <2>1, <2>12, <3>1
    <3>3. CASE k < i
      <4>1. k \in 1..(Len(q) - 1)
        BY <2>3, <2>7, <3>1, <3>3
      <4> QED
        BY <2>7, <2>8, <3>1, <3>3, <4>1 DEF Elems
    <3>4. CASE k > i
      <4>1. k - 1 \in 1..(Len(q) - 1) /\ k - 1 >= i /\ (k - 1) + 1 = k
        BY <2>3, <2>7, <3>1, <3>4
      <4>2. r[k - 1] = q[k]
        BY <2>9, <4>1
      <4> QED
        BY <2>7, <3>1, <4>1, <4>2 DEF Elems
    <3> QED
      BY <2>3, <2>7, <3>1, <3>2, <3>3, <3>4
  <2>13. ASSUME NEW x \in Elems(r) PROVE x \in Elems(q) /\ x # t
    <3>1. PICK k \in 1..(Len(q) - 1) : x = r[k]
      BY <2>7, <2>13 DEF Elems
    <3> DEFINE K == IF k < i THEN k ELSE k + 1
    <3>2. K \in DOMAIN q /\ K # i /\ x = q[K]
      BY <2>3, <2>7, <2>10, <3>1
    <3>3. q[K] # q[i]
      BY <2>1, <3>2 DEF Distinct
    <3> QED
      BY <2>1, <3>2, <3>3 DEF Elems
  <2> QED
    BY <2>2, <2>6, <2>11, <2>12, <2>13
<1> QED
  BY <1>1, <1>2

(* PassedOver counts the longest front of the list whose keys are not      *)
(* smaller than that of t.                                                 *)
LEMMA PassedOverLemma ==
  ASSUME NEW r \in Seq(Threads), NEW t \in Threads, NEW key \in [Threads -> Int]
  PROVE  LET n == PassedOver(r, t, key)
         IN  /\ n \in 0..Len(r)
             /\ \A k \in 1..n : key[r[k]] >= key[t]
             /\ n < Len(r) => key[r[n + 1]] < key[t]
<1> DEFINE S == {i \in DOMAIN r : \A k \in 1..i : key[r[k]] >= key[t]}
           n == Cardinality(S)
<1>1. Len(r) \in Nat /\ DOMAIN r = 1..Len(r) /\ \A k \in 1..Len(r) : r[k] \in Threads
  OBVIOUS
<1>2. ASSUME NEW m \in Nat
      PROVE  IsFiniteSet(1..m) /\ Cardinality(1..m) = m
  <2>1. 1 \in Int /\ m \in Int /\ m = IF 1 > m THEN 0 ELSE m - 1 + 1
    OBVIOUS
  <2> QED
    BY <2>1, FS_Interval
<1>3. S \subseteq 1..Len(r)
  BY <1>1
<1>4. ASSUME NEW i \in S PROVE 1..i \subseteq S
  <2>1. i \in 1..Len(r) /\ \A k \in 1..i : key[r[k]] >= key[t]
    BY <1>1
  <2>2. ASSUME NEW j \in 1..i PROVE j \in S
    <3>1. j \in 1..Len(r) /\ 1..j \subseteq 1..i
      BY <1>1, <2>1
    <3> QED
      BY <1>1, <2>1, <3>1
  <2> QED
    BY <2>2
<1>5. \A i \in S : \A k \in 1..i : key[r[k]] >= key[t]
  OBVIOUS
<1>6. \A i \in 1..Len(r) : (\A k \in 1..i : key[r[k]] >= key[t]) => i \in S
  BY <1>1
<1> HIDE DEF S
<1>7. IsFiniteSet(S) /\ n \in Nat /\ n <= Len(r)
  <2>1. IsFiniteSet(S) /\ n <= Cardinality(1..Len(r))
    BY <1>1, <1>2, <1>3, FS_Subset
  <2> QED
    BY <1>1, <1>2, <2>1, FS_CardinalityType
<1>8. n # 0 => n \in S
  <2> SUFFICES ASSUME n # 0, n \notin S PROVE FALSE
    OBVIOUS
  <2>1. ASSUME NEW i \in S PROVE i \in 1..(n - 1)
    <3>1. i \in 1..Len(r) /\ ~(n \in 1..i)
      BY <1>3, <1>4
    <3> QED
      BY <1>1, <1>7, <3>1
  <2>2. n - 1 \in Nat
    BY <1>7
  <2>3. n <= Cardinality(1..(n - 1))
    BY <1>2, <2>1, <2>2, FS_Subset
  <2> QED
    BY <1>2, <1>7, <2>2, <2>3
<1>9. n + 1 \notin S
  <2> SUFFICES ASSUME n + 1 \in S PROVE FALSE
    OBVIOUS
  <2>1. n + 1 \in Nat /\ 1..(n + 1) \subseteq S
    BY <1>4, <1>7
  <2>2. Cardinality(1..(n + 1)) <= n
    BY <1>7, <2>1, FS_Subset
  <2> QED
    BY <1>2, <1>7, <2>1, <2>2
<1>10. \A k \in 1..n : key[r[k]] >= key[t]
  BY <1>5, <1>7, <1>8
<1>11. ASSUME n < Len(r) PROVE key[r[n + 1]] < key[t]
  <2>1. n + 1 \in 1..Len(r)
    BY <1>1, <1>7, <1>11
  <2>2. ~(key[r[n + 1]] >= key[t])
    <3> SUFFICES ASSUME key[r[n + 1]] >= key[t] PROVE FALSE
      OBVIOUS
    <3>1. ASSUME NEW k \in 1..(n + 1) PROVE key[r[k]] >= key[t]
      <4>1. k \in 1..n \/ k = n + 1
        BY <1>7
      <4> QED
        BY <1>10, <4>1
    <3> QED
      BY <1>6, <1>9, <2>1, <3>1
  <2> QED
    BY <1>1, <2>1, <2>2
<1>12. PassedOver(r, t, key) = n
  BY DEF PassedOver, S
<1> QED
  BY <1>1, <1>7, <1>10, <1>11, <1>12

(* The list with t inserted: the threads passed over, t, the others.       *)
LEMMA InsertedShape ==
  ASSUME NEW q \in Seq(Threads), NEW t \in Threads, NEW key \in [Threads -> Int],
         Distinct(q)
  PROVE  LET r == Unlinked(q, t)
             n == PassedOver(r, t, key)
             s == Inserted(q, t, key)
         IN  /\ s \in Seq(Threads)
             /\ DOMAIN s = 1..(Len(r) + 1) /\ Len(s) = Len(r) + 1
             /\ \A j \in 1..(Len(r) + 1) : /\ j <= n => s[j] = r[j]
                                           /\ j = n + 1 => s[j] = t
                                           /\ j > n + 1 => s[j] = r[j - 1]
<1> DEFINE r == Unlinked(q, t)
           n == PassedOver(r, t, key)
           a == SubSeq(r, 1, n)
           b == SubSeq(r, n + 1, Len(r))
           at == a \o <<t>>
           s == at \o b
<1>1. r \in Seq(Threads) /\ Distinct(r) /\ Elems(r) = Elems(q) \ {t}
  BY UnlinkedLemma
<1> HIDE DEF r
<1>2. Len(r) \in Nat /\ DOMAIN r = 1..Len(r) /\ \A k \in 1..Len(r) : r[k] \in Threads
  BY <1>1
<1>3. n \in 0..Len(r)
  BY <1>1, PassedOverLemma DEF n
<1>5. Inserted(q, t, key) = s
  BY DEF Inserted, r, n
<1> HIDE DEF n
<1>6. /\ a \in Seq(Threads) /\ Len(a) = n
      /\ \A k \in 1..n : a[k] = r[k]
  BY <1>1, <1>2, <1>3, SubSeqProperties
<1>7. /\ b \in Seq(Threads) /\ Len(b) = Len(r) - n
      /\ \A k \in 1..(Len(r) - n) : b[k] = r[n + k]
  <2>1. /\ n + 1 \in 1..(Len(r) + 1)
        /\ Len(r) \in (n + 1) - 1..Len(r)
        /\ n \in Nat
    BY <1>2, <1>3
  <2>2. /\ b \in Seq(Threads)
        /\ Len(b) = IF n + 1 <= Len(r) THEN Len(r) - (n + 1) + 1 ELSE 0
        /\ \A k \in 1..(Len(r) - (n + 1) + 1) : b[k] = r[n + 1 + k - 1]
    BY <1>1, <2>1, SubSeqProperties
  <2> HIDE DEF b
  <2>3. Len(r) - (n + 1) + 1 = Len(r) - n /\ \A k \in Nat : n + 1 + k - 1 = n + k
    BY <1>2, <2>1
  <2>4. Len(b) = Len(r) - n
    <3>1. n <= Len(r) /\ Len(r) \in Nat
      BY <1>2, <1>3
    <3>2. (IF n + 1 <= Len(r) THEN Len(r) - (n + 1) + 1 ELSE 0) = Len(r) - n
      BY <2>1, <3>1
    <3> QED
      BY <2>2, <3>2
  <2> QED
    BY <2>2, <2>3, <2>4
<1> HIDE DEF a, b
<1>8. /\ at \in Seq(Threads) /\ Len(at) = n + 1
      /\ at[n + 1] = t
      /\ \A k \in 1..n : at[k] = r[k]
  <2>1. at = Append(a, t)
    BY <1>6
  <2> QED
    BY <1>2, <1>3, <1>6, <2>1, AppendProperties
<1> HIDE DEF at
<1>9. /\ s \in Seq(Threads)
      /\ Len(s) = Len(at) + Len(b)
      /\ \A j \in 1..(Len(at) + Len(b)) :
           s[j] = IF j <= Len(at) THEN at[j] ELSE b[j - Len(at)]
  BY <1>7, <1>8, ConcatProperties
<1> HIDE DEF s
<1>10. Len(s) = Len(r) + 1 /\ DOMAIN s = 1..(Len(r) + 1)
  BY <1>2, <1>3, <1>7, <1>8, <1>9
(* s[j] is r[j] up to n, then t, then r[j - 1]. *)
<1>11. ASSUME NEW j \in 1..(Len(r) + 1)
       PROVE  /\ j <= n => s[j] = r[j]
              /\ j = n + 1 => s[j] = t
              /\ j > n + 1 => s[j] = r[j - 1]
  <2>1. j \in 1..(Len(at) + Len(b)) /\ j \in Nat /\ n \in Nat
    BY <1>2, <1>3, <1>7, <1>8
  <2>2. ASSUME j <= n PROVE s[j] = r[j]
    <3>1. j <= Len(at) /\ j \in 1..n
      BY <1>8, <2>1, <2>2
    <3> QED
      BY <1>8, <1>9, <2>1, <3>1
  <2>3. ASSUME j = n + 1 PROVE s[j] = t
    BY <1>8, <1>9, <2>1, <2>3
  <2>4. ASSUME j > n + 1 PROVE s[j] = r[j - 1]
    <3>1. ~(j <= Len(at)) /\ j - Len(at) = j - n - 1
      BY <1>8, <2>1, <2>4
    <3>2. j - n - 1 \in 1..(Len(r) - n) /\ n + (j - n - 1) = j - 1
      BY <1>2, <1>3, <2>1, <2>4
    <3>3. s[j] = b[j - n - 1]
      BY <1>9, <2>1, <3>1
    <3>4. b[j - n - 1] = r[n + (j - n - 1)]
      BY <1>7, <3>2
    <3> QED
      BY <3>2, <3>3, <3>4
  <2> QED
    BY <2>2, <2>3, <2>4
<1> QED
  BY <1>5, <1>9, <1>10, <1>11 DEF r, n

(* Inserting t into the list links it exactly once and keeps the others;   *)
(* if none of them has a smaller key, it comes last.                       *)
LEMMA InsertedLemma ==
  ASSUME NEW q \in Seq(Threads), NEW t \in Threads, NEW key \in [Threads -> Int],
         Distinct(q)
  PROVE  /\ Inserted(q, t, key) \in Seq(Threads)
         /\ Distinct(Inserted(q, t, key))
         /\ Elems(Inserted(q, t, key)) = Elems(q) \cup {t}
         /\ (\A u \in Elems(q) \ {t} : key[u] >= key[t])
              => Inserted(q, t, key)[Len(Inserted(q, t, key))] = t
<1> DEFINE r == Unlinked(q, t)
           n == PassedOver(r, t, key)
           s == Inserted(q, t, key)
<1>1. r \in Seq(Threads) /\ Distinct(r) /\ Elems(r) = Elems(q) \ {t}
  BY UnlinkedLemma
<1>9. s \in Seq(Threads)
  BY InsertedShape
<1>10. DOMAIN s = 1..(Len(r) + 1) /\ Len(s) = Len(r) + 1
  BY InsertedShape
<1>11. \A j \in 1..(Len(r) + 1) : /\ j <= n => s[j] = r[j]
                                  /\ j = n + 1 => s[j] = t
                                  /\ j > n + 1 => s[j] = r[j - 1]
  BY InsertedShape
<1>5. n \in 0..Len(r) /\ (n < Len(r) => key[r[n + 1]] < key[t])
  BY <1>1, PassedOverLemma
<1> HIDE DEF r, n, s
<1>2. Len(r) \in Nat /\ DOMAIN r = 1..Len(r) /\ \A k \in 1..Len(r) : r[k] \in Threads
  BY <1>1
<1>3. n \in 0..Len(r)
  BY <1>5
<1>4. (\A u \in Elems(q) \ {t} : key[u] >= key[t]) => n = Len(r)
  <2>1. ASSUME n < Len(r) PROVE r[n + 1] \in Elems(q) \ {t}
    <3>1. n + 1 \in DOMAIN r
      BY <1>2, <1>3, <2>1
    <3> QED
      BY <1>1, <3>1 DEF Elems
  <2>2. ASSUME n < Len(r), \A u \in Elems(q) \ {t} : key[u] >= key[t]
        PROVE  FALSE
    <3>1. r[n + 1] \in Threads /\ key[r[n + 1]] >= key[t]
      <4>1. n + 1 \in 1..Len(r)
        BY <1>2, <1>3, <2>2
      <4> QED
        BY <1>2, <2>1, <2>2, <4>1
    <3>2. key[r[n + 1]] \in Int /\ key[t] \in Int
      BY <3>1
    <3> QED
      BY <1>5, <2>2, <3>1, <3>2
  <2>3. n < Len(r) \/ n = Len(r)
    <3>1. Len(r) \in Int
      BY <1>2
    <3>2. n \in Int /\ n <= Len(r)
      BY <1>3, <3>1
    <3> QED
      BY <3>1, <3>2
  <2> QED
    BY <2>2, <2>3
<1>12. ASSUME NEW j \in 1..(Len(r) + 1), j # n + 1
       PROVE  /\ s[j] = r[IF j <= n THEN j ELSE j - 1]
              /\ (IF j <= n THEN j ELSE j - 1) \in 1..Len(r)
              /\ s[j] # t
  <2> DEFINE J == IF j <= n THEN j ELSE j - 1
  <2>1. J \in 1..Len(r) /\ (j <= n \/ j > n + 1)
    BY <1>2, <1>3, <1>12
  <2>2. s[j] = r[J]
    BY <1>11, <2>1
  <2>3. r[J] \in Elems(r)
    BY <1>2, <2>1 DEF Elems
  <2> QED
    BY <1>1, <2>1, <2>2, <2>3
<1>13. Distinct(s)
  <2> SUFFICES ASSUME NEW j \in 1..(Len(r) + 1), NEW k \in 1..(Len(r) + 1), s[j] = s[k]
               PROVE  j = k
    BY <1>10 DEF Distinct
  <2>1. CASE j = n + 1 \/ k = n + 1
    BY <1>11, <1>12, <2>1
  <2>2. CASE j # n + 1 /\ k # n + 1
    <3> DEFINE J == IF j <= n THEN j ELSE j - 1
               K == IF k <= n THEN k ELSE k - 1
    <3>1. J \in DOMAIN r /\ K \in DOMAIN r /\ r[J] = r[K]
      BY <1>2, <1>12, <2>2
    <3>2. J = K
      BY <1>1, <3>1 DEF Distinct
    <3> QED
      BY <1>2, <1>3, <2>2, <3>2
  <2> QED
    BY <2>1, <2>2
<1>14. t \in Elems(s)
  <2>1. n + 1 \in 1..(Len(r) + 1)
    BY <1>2, <1>3
  <2> QED
    BY <1>10, <1>11, <2>1 DEF Elems
<1>15. ASSUME NEW x \in Elems(q), x # t PROVE x \in Elems(s)
  <2>1. PICK k \in 1..Len(r) : x = r[k]
    BY <1>1, <1>2, <1>15 DEF Elems
  <2>2. CASE k <= n
    <3>1. k \in 1..(Len(r) + 1)
      BY <1>2, <2>1
    <3> QED
      BY <1>10, <1>11, <2>1, <2>2, <3>1 DEF Elems
  <2>3. CASE k > n
    <3>1. k + 1 \in 1..(Len(r) + 1) /\ k + 1 > n + 1 /\ (k + 1) - 1 = k
      BY <1>2, <1>3, <2>1, <2>3
    <3>2. s[k + 1] = r[k]
      BY <1>11, <3>1
    <3> QED
      BY <1>10, <2>1, <3>1, <3>2 DEF Elems
  <2> QED
    BY <1>2, <1>3, <2>1, <2>2, <2>3
<1>16. ASSUME NEW x \in Elems(s), x # t PROVE x \in Elems(q)
  <2>1. PICK j \in 1..(Len(r) + 1) : x = s[j]
    BY <1>10, <1>16 DEF Elems
  <2>2. j # n + 1
    BY <1>11, <1>16, <2>1
  <2> DEFINE J == IF j <= n THEN j ELSE j - 1
  <2>3. J \in DOMAIN r /\ x = r[J]
    BY <1>2, <1>12, <2>1, <2>2
  <2> QED
    BY <1>1, <2>3 DEF Elems
<1>17. n = Len(r) => s[Len(s)] = t
  <2>1. Len(r) + 1 \in 1..(Len(r) + 1)
    BY <1>2
  <2> QED
    BY <1>10, <1>11, <2>1
<1> QED
  BY <1>4, <1>9, <1>13, <1>14, <1>15, <1>16, <1>17 DEF s

(* The debit of a quantum is positive and smaller than the catch-up.       *)
LEMMA DebitLemma ==
  /\ CatchUp \in 2..33
  /\ \A p \in Priorities : QuantumDebit(p) \in 1..(CatchUp - 1)
<1>1. \A n \in 0..5 : PowerOfTwo(n) \in 1..32
  BY DEF PowerOfTwo
<1>2. \A m \in 0..5 : \A n \in 0..m : PowerOfTwo(n) <= PowerOfTwo(m)
  BY DEF PowerOfTwo
<1>3. SystemHighest \in 0..5
  BY RoundRobinAssumption
<1>4. ASSUME NEW p \in Priorities
      PROVE  SystemHighest - p \in 0..5 /\ SystemHighest - p \in 0..SystemHighest
  BY <1>3, RoundRobinAssumption
<1> QED
  BY <1>1, <1>2, <1>3, <1>4 DEF CatchUp, QuantumDebit

-----------------------------------------------------------------------------
(* Type correctness.                                                       *)

(* Who is in which list.                                                   *)
ListsOK ==
  /\ current \in Threads \cup {NoThread}
  /\ ready \in Seq(Threads)
  /\ waiting \subseteq Threads
  /\ unstarted \subseteq Threads
  /\ current # NoThread => current \in Elems(ready)
  /\ waiting \cap Elems(ready) = {}
  /\ unstarted \cap Started = {}
  /\ Distinct(ready)

LEMMA ListsInit == Init => ListsOK
<1> SUFFICES ASSUME Init PROVE ListsOK
  OBVIOUS
<1>1. ready = <<Main>> /\ Main \in Threads
  BY RoundRobinAssumption DEF Init
<1>2. ready \in Seq(Threads) /\ Len(ready) = 1 /\ DOMAIN ready = 1..1 /\ ready[1] = Main
  BY <1>1
<1>3. Elems(ready) = {Main} /\ Distinct(ready)
  BY <1>2 DEF Elems, Distinct
<1> QED
  BY <1>1, <1>2, <1>3 DEF Init, ListsOK, Started

(* The numbers.                                                            *)
NumbersOK ==
  /\ priority \in [Threads -> Priorities]
  /\ counter \in [Threads -> Int]
  /\ global \in Int
  /\ switches \in 0..MaxContextSwitch
  /\ streak \in [who : Threads \cup {NoThread}, n : Nat]

LEMMA NumbersStep == ListsOK /\ NumbersOK /\ [Next]_vars => NumbersOK'
<1> SUFFICES ASSUME ListsOK, NumbersOK, [Next]_vars PROVE NumbersOK'
  OBVIOUS
<1>0. CatchUp \in Int /\ Adjustment \in Int /\ MaxContextSwitch \in Nat \ {0}
  BY DebitLemma, RoundRobinAssumption
<1>1. CASE UNCHANGED vars
  BY <1>1 DEF vars, NumbersOK
<1>2. CASE ScheduleThreads \/ NoReadyThreads
  BY <1>0, <1>2 DEF ScheduleThreads, NoReadyThreads, Adjust, Capped, NumbersOK
<1>3. CASE Dispatch
  <2>1. Head(ready) \in Threads
    BY <1>3 DEF Dispatch, ListsOK
  <2>2. ChargedCounter(Head(ready)) \in Int
    BY <1>0, <2>1, DebitLemma DEF ChargedCounter, Capped, NumbersOK
  <2>3. switches' \in 0..MaxContextSwitch
    BY <1>0, <1>3 DEF Dispatch, NumbersOK
  <2>4. streak' \in [who : Threads \cup {NoThread}, n : Nat]
    BY <1>3, <2>1 DEF Dispatch, NoStreak, NumbersOK
  <2> QED
    BY <1>3, <2>1, <2>2, <2>3, <2>4 DEF Dispatch, NumbersOK
<1>4. ASSUME NEW t \in Threads, EndQuantum(t) \/ Block(t) \/ Terminate(t) \/ Wake(t)
      PROVE  NumbersOK'
  BY <1>4 DEF EndQuantum, Block, Terminate, Wake, NumbersOK
<1>5. ASSUME NEW t \in Threads, SleepZero(t) PROVE NumbersOK'
  BY <1>5 DEF SleepZero, NumbersOK
<1>6. ASSUME NEW t \in Threads, NEW u \in Threads, Start(t, u) \/ Restart(t, u)
      PROVE  NumbersOK'
  BY <1>6 DEF Start, Restart, NumbersOK
<1>7. ASSUME NEW t \in Threads, NEW u \in Threads, NEW p \in Priorities, SetPriority(t, u, p)
      PROVE  NumbersOK'
  BY <1>7 DEF SetPriority, NoStreak, NumbersOK
<1> QED
  BY <1>1, <1>2, <1>3, <1>4, <1>5, <1>6, <1>7 DEF Next

(* The keys the ready list is ordered by are integers.                     *)
LEMMA KeysLemma ==
  ASSUME NEW prio \in [Threads -> Priorities], NEW count \in [Threads -> Int]
  PROVE  Keys(prio, count) \in [Threads -> Int]
<1>1. \A p \in Priorities : p \in Int
  BY RoundRobinAssumption
<1>2. \A t \in Threads : prio[t] \in Int /\ count[t] \in Int
  BY <1>1
<1>3. \A t \in Threads : prio[t] + count[t] \in Int
  BY <1>2
<1> QED
  BY <1>3 DEF Keys

LEMMA ListsStep == ListsOK /\ NumbersOK /\ [Next]_vars => ListsOK'
<1> SUFFICES ASSUME ListsOK, NumbersOK, [Next]_vars PROVE ListsOK'
  OBVIOUS
<1>0. /\ Keys(priority, counter) \in [Threads -> Int]
      /\ Keys(priority, counter') \in [Threads -> Int]
      /\ Keys(priority', counter) \in [Threads -> Int]
  BY NumbersStep, KeysLemma DEF NumbersOK
<1>1. ready \in Seq(Threads) /\ Distinct(ready)
  BY DEF ListsOK
<1>2. CASE UNCHANGED vars
  BY <1>2 DEF ListsOK, vars, Started
<1>3. CASE ScheduleThreads \/ NoReadyThreads
  BY <1>3 DEF ScheduleThreads, NoReadyThreads, ListsOK, Started
<1>4. CASE Dispatch
  <2>1. /\ current' = Head(ready)
        /\ UNCHANGED <<ready, waiting, unstarted>>
    BY <1>4 DEF Dispatch
  <2>2. 1 \in DOMAIN ready /\ Head(ready) = ready[1] /\ ready[1] \in Threads
    BY <1>1, <1>4 DEF Dispatch
  <2>3. Head(ready) \in Elems(ready)
    BY <2>2 DEF Elems
  <2> QED
    BY <2>1, <2>2, <2>3 DEF ListsOK, Started
<1>5. ASSUME NEW t \in Threads PROVE t # NoThread
  BY RoundRobinAssumption
(* The running thread is unlinked. *)
<1>6. ASSUME NEW t \in Threads, Block(t) \/ Terminate(t) PROVE ListsOK'
  <2>1. /\ ready' = Unlinked(ready, t) /\ current' = NoThread
        /\ t \in Elems(ready)
    BY <1>5, <1>6 DEF Block, Terminate, ListsOK
  <2>2. /\ ready' \in Seq(Threads) /\ Distinct(ready')
        /\ Elems(ready') = Elems(ready) \ {t}
    BY <1>1, <2>1, UnlinkedLemma
  <2>3. /\ unstarted' = unstarted
        /\ waiting' = waiting \/ waiting' = waiting \cup {t}
    BY <1>6 DEF Block, Terminate
  <2> QED
    BY <2>1, <2>2, <2>3 DEF ListsOK, Started
(* The running thread is put back. *)
<1>7. ASSUME NEW t \in Threads, NEW key \in [Threads -> Int], current = t, Requeue(t, key),
             UNCHANGED <<waiting, unstarted>>
      PROVE  ListsOK'
  <2>1. /\ ready' = Inserted(ready, t, key) /\ current' = NoThread
        /\ t \in Elems(ready)
    BY <1>5, <1>7 DEF Requeue, ListsOK
  <2>2. /\ ready' \in Seq(Threads) /\ Distinct(ready')
        /\ Elems(ready') = Elems(ready) \cup {t}
    BY <1>1, <2>1, InsertedLemma
  <2> QED
    BY <1>7, <2>1, <2>2 DEF ListsOK, Started
(* Another thread, u, is made ready. *)
<1>8. ASSUME NEW u \in Threads, NEW key \in [Threads -> Int], ready' = Inserted(ready, u, key),
             u \in waiting \cup unstarted \cup Elems(ready),
             waiting' = waiting \ {u}, unstarted' = unstarted \ {u}, current' = current
      PROVE  ListsOK'
  <2>1. /\ ready' \in Seq(Threads) /\ Distinct(ready')
        /\ Elems(ready') = Elems(ready) \cup {u}
    BY <1>1, <1>8, InsertedLemma
  <2> QED
    BY <1>8, <2>1 DEF ListsOK, Started
<1>9. ASSUME NEW t \in Threads, EndQuantum(t) \/ SleepZero(t) PROVE ListsOK'
  BY <1>0, <1>7, <1>9 DEF EndQuantum, SleepZero
<1>10. ASSUME NEW t \in Threads, NEW u \in Threads, Start(t, u) PROVE ListsOK'
  <2>1. waiting \ {u} = waiting
    BY <1>10 DEF Start, ListsOK, Started
  <2> QED
    BY <1>0, <1>8, <1>10, <2>1 DEF Start
<1>11. ASSUME NEW t \in Threads, NEW u \in Threads, Restart(t, u) PROVE ListsOK'
  <2>1. unstarted \ {u} = unstarted
    BY <1>11 DEF Restart, ListsOK, Started
  <2> QED
    BY <1>0, <1>8, <1>11, <2>1 DEF Restart
<1>12. ASSUME NEW u \in Threads, Wake(u) PROVE ListsOK'
  <2>1. unstarted \ {u} = unstarted
    BY <1>12 DEF Wake, ListsOK, Started
  <2> QED
    BY <1>0, <1>8, <1>12, <2>1 DEF Wake
<1>13. ASSUME NEW t \in Threads, NEW u \in Threads, NEW p \in Priorities, SetPriority(t, u, p)
       PROVE  ListsOK'
  <2>1. CASE UNCHANGED <<current, ready>>
    BY <1>13, <2>1 DEF SetPriority, ListsOK, Started
  <2>2. CASE ~UNCHANGED <<current, ready>>
    BY <1>0, <1>7, <1>13, <2>2 DEF SetPriority
  <2> QED
    BY <2>1, <2>2
<1> QED
  BY <1>2, <1>3, <1>4, <1>6, <1>9, <1>10, <1>11, <1>12, <1>13 DEF Next

(* Every variable stays in its range, for any number of threads, and the   *)
(* ready list holds each of its threads once.                              *)
THEOREM TypeCorrect == Spec => []TypeOK
<1>1. Init => ListsOK /\ NumbersOK
  <2>1. Init => ListsOK
    BY ListsInit
  <2>2. Init => NumbersOK
    BY RoundRobinAssumption DEF Init, NoStreak, NumbersOK
  <2> QED
    BY <2>1, <2>2
<1>2. ListsOK /\ NumbersOK /\ [Next]_vars => (ListsOK /\ NumbersOK)'
  BY NumbersStep, ListsStep
<1>3. ListsOK /\ NumbersOK => TypeOK
  BY DEF ListsOK, NumbersOK, TypeOK
<1> QED
  BY <1>1, <1>2, <1>3, PTL DEF Spec

-----------------------------------------------------------------------------
(* The range of the execution counters.                                    *)

(* A quantum lowers the global counter by at most the catch-up, so it ends *)
(* a call of ScheduleThreads at most that far below the threshold per      *)
(* context switch; the counters stay between the global one and 0.         *)
Credit ==
  /\ global <= 0
  /\ global >= -Maximum - CatchUp * (MaxContextSwitch - switches)
  /\ \A t \in Started : counter[t] >= global - 1 /\ counter[t] <= 0
  /\ \A t \in unstarted : counter[t] = 0

LEMMA CreditInit == Init => Credit
<1> SUFFICES ASSUME Init PROVE Credit
  OBVIOUS
<1>1. CatchUp * (MaxContextSwitch - switches) >= 0 /\ CatchUp * (MaxContextSwitch - switches) \in Int
  BY DebitLemma, RoundRobinAssumption DEF Init
<1>2. Started \subseteq Threads
  BY RoundRobinAssumption DEF Init, Started, Elems
<1> QED
  BY <1>1, <1>2, RoundRobinAssumption DEF Init, Credit

LEMMA CreditStep == TypeOK /\ Credit /\ [Next]_vars => Credit'
<1> SUFFICES ASSUME TypeOK, Credit, [Next]_vars PROVE Credit'
  OBVIOUS
<1>0. /\ CatchUp \in 2..33
      /\ MaxContextSwitch \in Nat /\ MaxContextSwitch >= 1
      /\ Maximum \in Nat /\ Adjustment \in Nat
      /\ Adjustment >= CatchUp * MaxContextSwitch
      /\ Maximum >= Adjustment + CatchUp
  BY DebitLemma, RoundRobinAssumption
<1>keys. /\ Keys(priority, counter) \in [Threads -> Int]
      /\ Keys(priority, counter') \in [Threads -> Int]
      /\ Keys(priority', counter) \in [Threads -> Int]
  <2>1. ListsOK /\ NumbersOK
    BY DEF TypeOK, ListsOK, NumbersOK
  <2> QED
    BY <2>1, NumbersStep, KeysLemma DEF NumbersOK
<1>1. /\ global \in Int /\ counter \in [Threads -> Int]
      /\ switches \in 0..MaxContextSwitch
      /\ Started \subseteq Threads /\ unstarted \subseteq Threads
      /\ unstarted \cap Started = {}
      /\ ready \in Seq(Threads) /\ Distinct(ready)
  BY DEF TypeOK, Started, Elems
<1>2. CASE UNCHANGED vars
  BY <1>2 DEF vars, Credit, Started
<1>3. CASE ScheduleThreads
  <2>1. /\ switches' = MaxContextSwitch /\ switches = 0
        /\ Started' = Started /\ unstarted' = unstarted
    BY <1>3 DEF ScheduleThreads, Started
  <2>2. CatchUp * (MaxContextSwitch - switches') = 0
    BY <1>0, <2>1
  <2>3. CASE UNCHANGED <<global, counter>> /\ global >= -Maximum
    BY <1>0, <1>1, <2>1, <2>2, <2>3 DEF Credit
  <2>4. CASE Adjust
    <3>1. /\ global' = global + Adjustment /\ global < -Maximum
          /\ global >= -Maximum - CatchUp * MaxContextSwitch
      BY <1>0, <2>1, <2>4 DEF Adjust, Credit
    <3>2. CatchUp * MaxContextSwitch \in Int
      BY <1>0
    <3>3. global' <= 0 - CatchUp - 1 /\ global' >= -Maximum /\ global' \in Int
      BY <1>0, <1>1, <3>1, <3>2
    <3>4. ASSUME NEW t \in Started
          PROVE  counter'[t] >= global' - 1 /\ counter'[t] <= 0
      <4>1. counter'[t] = Capped(counter[t] + Adjustment, global + Adjustment)
        BY <1>1, <2>4 DEF Adjust, Started
      <4>2. counter[t] \in Int /\ counter[t] >= global - 1
        BY <1>1 DEF Credit
      <4> QED
        BY <1>0, <1>1, <3>1, <3>3, <4>1, <4>2 DEF Capped
    <3>5. ASSUME NEW t \in unstarted PROVE counter'[t] = 0
      BY <1>1, <2>4 DEF Adjust, Credit, Started
    <3> QED
      BY <2>1, <2>2, <3>3, <3>4, <3>5, <1>0 DEF Credit
  <2> QED
    BY <1>3, <2>3, <2>4 DEF ScheduleThreads
<1>4. CASE NoReadyThreads
  <2>1. /\ switches' = 0 /\ UNCHANGED <<counter, global>>
        /\ Started' = Started /\ unstarted' = unstarted
    BY <1>4 DEF NoReadyThreads, Started
  <2>2. CatchUp * (MaxContextSwitch - switches) <= CatchUp * (MaxContextSwitch - switches')
    BY <1>0, <1>1, <2>1
  <2>3. /\ CatchUp * (MaxContextSwitch - switches) \in Int
        /\ CatchUp * (MaxContextSwitch - switches') \in Int
    BY <1>0, <1>1, <2>1
  <2> QED
    BY <1>0, <1>1, <2>1, <2>2, <2>3 DEF Credit
<1>5. CASE Dispatch
  <2> DEFINE t == Head(ready)
             c == ChargedCounter(t)
  <2>1. /\ counter' = [counter EXCEPT ![t] = c]
        /\ global' = (IF c < global THEN c ELSE global)
        /\ switches' = switches - 1 /\ switches > 0
        /\ Started' = Started /\ unstarted' = unstarted
    BY <1>5 DEF Dispatch, Started
  <2>2. t \in Started /\ t \in Threads /\ t \notin unstarted
    <3>1. 1 \in DOMAIN ready /\ t = ready[1]
      BY <1>1, <1>5 DEF Dispatch
    <3>2. t \in Elems(ready)
      BY <3>1 DEF Elems
    <3> QED
      BY <1>1, <3>2 DEF Started
  <2> HIDE DEF t
  <2>3. QuantumDebit(priority[t]) \in 1..(CatchUp - 1)
    BY <2>2, DebitLemma DEF TypeOK
  <2>4. c \in Int /\ c >= global - CatchUp /\ c <= 0
    <3>1. counter[t] \in Int /\ counter[t] >= global - 1 /\ counter[t] <= 0
      BY <1>1, <2>2 DEF Credit
    <3> QED
      BY <1>0, <1>1, <2>3, <3>1 DEF ChargedCounter, Capped
  <2> HIDE DEF c
  <2>5. global' <= global /\ global' \in Int /\ global' <= c /\ global' >= global - CatchUp
    BY <1>0, <1>1, <2>1, <2>4
  <2>6. CatchUp * (MaxContextSwitch - switches') = CatchUp * (MaxContextSwitch - switches) + CatchUp
    BY <1>0, <1>1, <2>1
  <2>7. CatchUp * (MaxContextSwitch - switches) \in Int
    BY <1>0, <1>1
  <2>8. global' >= -Maximum - CatchUp * (MaxContextSwitch - switches')
    BY <1>0, <1>1, <2>5, <2>6, <2>7 DEF Credit
  <2>9. ASSUME NEW u \in Started
        PROVE  counter'[u] >= global' - 1 /\ counter'[u] <= 0
    <3>1. counter'[u] = IF u = t THEN c ELSE counter[u]
      BY <1>1, <2>1
    <3>2. counter[u] \in Int /\ counter[u] >= global - 1 /\ counter[u] <= 0
      BY <1>1 DEF Credit
    <3> QED
      BY <1>1, <2>4, <2>5, <3>1, <3>2
  <2>10. ASSUME NEW u \in unstarted PROVE counter'[u] = 0
    BY <1>1, <2>1, <2>2 DEF Credit
  <2>11. global' <= 0
    BY <1>1, <2>5 DEF Credit
  <2> QED
    BY <2>1, <2>8, <2>9, <2>10, <2>11 DEF Credit
(* The other actions neither lower the global counter nor start a thread   *)
(* with a counter that is not 0.                                           *)
<1>6. ASSUME UNCHANGED <<counter, global, switches>>,
             Started' \subseteq Started \cup unstarted, unstarted' \subseteq unstarted
      PROVE  Credit'
  BY <1>1, <1>6 DEF Credit
<1>7. ASSUME NEW t \in Threads, Block(t) \/ Terminate(t) PROVE Credit'
  <2>1. ready' = Unlinked(ready, t)
    BY <1>7 DEF Block, Terminate
  <2>2. Elems(ready') = Elems(ready) \ {t}
    BY <1>1, <2>1, UnlinkedLemma
  <2>3. current # NoThread /\ t \in Elems(ready)
    BY <1>7, RoundRobinAssumption DEF Block, Terminate, TypeOK
  <2>4. Started' \subseteq Started
    BY <1>7, <2>2, <2>3 DEF Block, Terminate, Started
  <2> QED
    BY <1>6, <1>7, <2>4 DEF Block, Terminate
<1>8. ASSUME NEW u \in Threads, NEW key \in [Threads -> Int], ready' = Inserted(ready, u, key)
      PROVE  Elems(ready') = Elems(ready) \cup {u}
  BY <1>1, <1>8, InsertedLemma
<1>9. ASSUME NEW t \in Threads, current = t PROVE t \in Elems(ready)
  BY <1>9, RoundRobinAssumption DEF TypeOK
<1>10. ASSUME NEW t \in Threads, EndQuantum(t) PROVE Credit'
  <2>1. Elems(ready') = Elems(ready) \cup {t} /\ t \in Elems(ready)
    BY <1>keys, <1>8, <1>9, <1>10 DEF EndQuantum, Requeue
  <2> QED
    BY <1>6, <1>10, <2>1 DEF EndQuantum, Started
<1>11. ASSUME NEW t \in Threads, NEW u \in Threads, Start(t, u) PROVE Credit'
  <2>1. Elems(ready') = Elems(ready) \cup {u}
    BY <1>keys, <1>8, <1>11 DEF Start
  <2> QED
    BY <1>6, <1>11, <2>1 DEF Start, Started
<1>12. ASSUME NEW u \in Threads, Wake(u) \/ \E t \in Threads : Restart(t, u) PROVE Credit'
  <2>1. Elems(ready') = Elems(ready) \cup {u} /\ u \in Started
    BY <1>keys, <1>8, <1>12 DEF Wake, Restart, Started
  <2> QED
    BY <1>6, <1>12, <2>1 DEF Wake, Restart, Started
<1>13. ASSUME NEW t \in Threads, NEW u \in Threads, NEW p \in Priorities, SetPriority(t, u, p)
       PROVE  Credit'
  <2>1. CASE UNCHANGED <<current, ready>>
    BY <1>6, <1>13, <2>1 DEF SetPriority, Started
  <2>2. CASE ~UNCHANGED <<current, ready>>
    <3>1. Elems(ready') = Elems(ready) \cup {t} /\ t \in Elems(ready)
      BY <1>keys, <1>8, <1>9, <1>13, <2>2 DEF SetPriority, Requeue
    <3> QED
      BY <1>6, <1>13, <3>1 DEF SetPriority, Started
  <2> QED
    BY <2>1, <2>2
<1>14. ASSUME NEW t \in Threads, SleepZero(t) PROVE Credit'
  <2>1. Elems(ready') = Elems(ready) \cup {t} /\ t \in Elems(ready)
    BY <1>keys, <1>8, <1>9, <1>14 DEF SleepZero, Requeue
  <2>2. /\ Started' = Started /\ t \in Started /\ unstarted' = unstarted
        /\ UNCHANGED <<global, switches>>
        /\ counter' = [counter EXCEPT ![t] = global - 1]
    BY <1>14, <2>1 DEF SleepZero, Started
  <2>3. ASSUME NEW u \in Started
        PROVE  counter'[u] >= global - 1 /\ counter'[u] <= 0
    BY <1>1, <2>2 DEF Credit
  <2>4. ASSUME NEW u \in unstarted PROVE counter'[u] = 0
    BY <1>1, <2>2 DEF Credit
  <2> QED
    BY <2>2, <2>3, <2>4 DEF Credit
<1> QED
  BY <1>2, <1>3, <1>4, <1>5, <1>7, <1>10, <1>11, <1>12, <1>13, <1>14 DEF Next

(* No execution counter underflows or rises above 0, whatever the          *)
(* threshold, the adjustment and the length of a call of ScheduleThreads.  *)
THEOREM CountersStayInRange == Spec => []CountersInRange
<1>1. Init => Credit
  BY CreditInit
<1>2. TypeOK /\ Credit /\ [Next]_vars => Credit'
  BY CreditStep
<1>3. TypeOK /\ Credit => CountersInRange
  <2> SUFFICES ASSUME TypeOK, Credit PROVE CountersInRange
    OBVIOUS
  <2>1. /\ CatchUp * (MaxContextSwitch - switches) <= CatchUp * MaxContextSwitch
        /\ CatchUp * (MaxContextSwitch - switches) \in Int
        /\ CatchUp * MaxContextSwitch \in Int
    BY DebitLemma, RoundRobinAssumption DEF TypeOK
  <2>2. global \in -(Maximum + CatchUp * MaxContextSwitch) .. 0
    BY <2>1, RoundRobinAssumption DEF TypeOK, Credit
  <2>3. ASSUME NEW t \in Started PROVE counter[t] \in global - 1 .. 0
    <3>1. t \in Threads
      BY DEF Started, Elems, TypeOK
    <3> QED
      BY <3>1 DEF TypeOK, Credit
  <2> QED
    BY <2>2, <2>3 DEF CountersInRange
<1> QED
  BY <1>1, <1>2, <1>3, TypeCorrect, PTL DEF Spec

-----------------------------------------------------------------------------
(* Sleep(0).                                                               *)

(* After Sleep(0) the thread is the last of the ready list, if no other    *)
(* ready thread has a lower priority.                                      *)
THEOREM SleepZeroYields == Spec => YieldsToEqual
<1> DEFINE Yields == \A t \in Threads :
              SleepZero(t) /\ (\A u \in Elems(ready) : priority[u] >= priority[t])
                => ready'[Len(ready')] = t
<1>1. TypeOK /\ Credit => Yields
  <2> SUFFICES ASSUME TypeOK, Credit, NEW t \in Threads, SleepZero(t),
                      \A u \in Elems(ready) : priority[u] >= priority[t]
               PROVE  ready'[Len(ready')] = t
    OBVIOUS
  <2> DEFINE key == Keys(priority, counter')
  <2>1. /\ ready' = Inserted(ready, t, key)
        /\ counter' = [counter EXCEPT ![t] = global - 1]
    BY DEF SleepZero, Requeue
  <2>2. counter' \in [Threads -> Int] /\ \A u \in Threads : priority[u] \in Int
    <3>1. counter' \in [Threads -> Int]
      BY <2>1 DEF TypeOK
    <3>2. \A p \in Priorities : p \in Int
      BY RoundRobinAssumption
    <3> QED
      BY <3>1, <3>2 DEF TypeOK
  <2>3. key \in [Threads -> Int]
    BY <2>2, KeysLemma DEF TypeOK
  <2>4. ASSUME NEW u \in Elems(ready) \ {t} PROVE key[u] >= key[t]
    <3>1. u \in Threads /\ u \in Started /\ u # t
      BY DEF TypeOK, Elems, Started
    <3>2. counter[u] >= global - 1 /\ counter[u] \in Int /\ global \in Int
      BY <3>1 DEF Credit, TypeOK
    <3>3. counter'[u] = counter[u] /\ counter'[t] = global - 1
      BY <2>1, <3>1 DEF TypeOK
    <3>4. key[u] = priority[u] + counter[u] /\ key[t] = priority[t] + (global - 1)
      BY <3>1, <3>3 DEF Keys
    <3>5. priority[u] >= priority[t] /\ priority[u] \in Int /\ priority[t] \in Int
      BY <2>2, <3>1
    <3> HIDE DEF key
    <3> QED
      BY <3>2, <3>4, <3>5
  <2>5. ready \in Seq(Threads) /\ Distinct(ready)
    BY DEF TypeOK
  <2> HIDE DEF key
  <2> QED
    BY <2>1, <2>3, <2>4, <2>5, InsertedLemma
<1>2. TypeOK /\ Credit /\ [Next]_vars => [Yields]_vars
  BY <1>1
<1>3. TypeOK /\ Credit /\ [Next]_vars => Credit'
  BY CreditStep
<1>4. Init => Credit
  BY CreditInit
<1> QED
  BY <1>2, <1>3, <1>4, TypeCorrect, PTL DEF Spec, YieldsToEqual

-----------------------------------------------------------------------------
(* The length of a burst.                                                  *)

(* No thread right behind t in the list q has a larger key.                *)
NoLarger(q, t, key) ==
  \A i \in 1..(Len(q) - 1) : q[i] = t => key[q[i + 1]] <= key[t]

(* That holds for t once it is inserted, and still for every other thread. *)
LEMMA InsertedNext ==
  ASSUME NEW q \in Seq(Threads), NEW t \in Threads, NEW key \in [Threads -> Int],
         Distinct(q)
  PROVE  LET s == Inserted(q, t, key)
         IN  /\ NoLarger(s, t, key)
             /\ \A x \in Threads \ {t} :
                  t \notin Elems(q) /\ NoLarger(q, x, key) => NoLarger(s, x, key)
<1> DEFINE r == Unlinked(q, t)
           n == PassedOver(r, t, key)
           s == Inserted(q, t, key)
<1>1. r \in Seq(Threads) /\ (t \notin Elems(q) => r = q)
  BY UnlinkedLemma DEF Unlinked
<1>2. /\ s \in Seq(Threads) /\ Distinct(s)
      /\ DOMAIN s = 1..(Len(r) + 1) /\ Len(s) = Len(r) + 1
      /\ \A j \in 1..(Len(r) + 1) : /\ j <= n => s[j] = r[j]
                                    /\ j = n + 1 => s[j] = t
                                    /\ j > n + 1 => s[j] = r[j - 1]
  BY InsertedShape, InsertedLemma
<1>3. /\ n \in 0..Len(r)
      /\ \A k \in 1..n : key[r[k]] >= key[t]
      /\ n < Len(r) => key[r[n + 1]] < key[t]
  BY <1>1, PassedOverLemma
<1> HIDE DEF r, n, s
<1>4. Len(r) \in Nat /\ n \in Nat /\ n <= Len(r)
  BY <1>1, <1>3
<1>5. \A k \in 1..Len(r) : r[k] \in Threads /\ key[r[k]] \in Int
  BY <1>1
<1> DEFINE Q == \A i \in 1..(Len(s) - 1) :
                  /\ s[i] = t => key[s[i + 1]] <= key[t]
                  /\ s[i] # t /\ t \notin Elems(q) =>
                       \/ s[i + 1] = t /\ key[t] <= key[s[i]]
                       \/ \E j \in 1..(Len(q) - 1) : q[j] = s[i] /\ q[j + 1] = s[i + 1]
<1> HIDE DEF Q
<1> SUFFICES Q
  <2> SUFFICES ASSUME Q
               PROVE  /\ NoLarger(s, t, key)
                      /\ \A x \in Threads \ {t} :
                           t \notin Elems(q) /\ NoLarger(q, x, key) => NoLarger(s, x, key)
    BY DEF s
  <2>1. NoLarger(s, t, key)
    BY DEF Q, NoLarger
  <2>2. ASSUME NEW x \in Threads \ {t}, t \notin Elems(q), NoLarger(q, x, key),
               NEW k \in 1..(Len(s) - 1), s[k] = x
        PROVE  key[s[k + 1]] <= key[x]
    <3>1. \/ s[k + 1] = t /\ key[t] <= key[s[k]]
          \/ \E j \in 1..(Len(q) - 1) : q[j] = s[k] /\ q[j + 1] = s[k + 1]
      BY <2>2 DEF Q
    <3> QED
      BY <2>2, <3>1 DEF NoLarger
  <2> QED
    BY <2>1, <2>2 DEF NoLarger
<1> USE DEF Q
<1> SUFFICES ASSUME NEW i \in 1..(Len(s) - 1)
             PROVE  /\ s[i] = t => key[s[i + 1]] <= key[t]
                    /\ s[i] # t /\ t \notin Elems(q) =>
                         \/ s[i + 1] = t /\ key[t] <= key[s[i]]
                         \/ \E j \in 1..(Len(q) - 1) : q[j] = s[i] /\ q[j + 1] = s[i + 1]
  OBVIOUS
<1>6. i \in 1..(Len(r) + 1) /\ i + 1 \in 1..(Len(r) + 1) /\ i \in 1..Len(r)
  BY <1>2, <1>4
<1>7. n + 1 \in 1..(Len(r) + 1) /\ s[n + 1] = t
  BY <1>2, <1>4
<1>8. ASSUME s[i] = t PROVE key[s[i + 1]] <= key[t]
  <2>1. i = n + 1
    BY <1>2, <1>6, <1>7, <1>8 DEF Distinct
  <2>2. s[i + 1] = r[n + 1] /\ n < Len(r) /\ n + 1 \in 1..Len(r)
    <3>1. i + 1 > n + 1 /\ (i + 1) - 1 = n + 1 /\ n < Len(r) /\ n + 1 \in 1..Len(r)
      BY <1>4, <1>6, <2>1
    <3> QED
      BY <1>2, <1>6, <3>1
  <2>3. key[r[n + 1]] \in Int /\ key[t] \in Int /\ key[r[n + 1]] < key[t]
    BY <1>3, <1>5, <2>2
  <2> QED
    BY <2>2, <2>3
<1>9. ASSUME s[i] # t, t \notin Elems(q)
      PROVE  \/ s[i + 1] = t /\ key[t] <= key[s[i]]
             \/ \E j \in 1..(Len(q) - 1) : q[j] = s[i] /\ q[j + 1] = s[i + 1]
  <2>1. r = q
    BY <1>1, <1>9
  <2>2. i # n + 1
    BY <1>7, <1>9
  <2>3. CASE i = n
    <3>1. s[i + 1] = t /\ s[i] = r[i] /\ i \in 1..n
      BY <1>2, <1>4, <1>6, <1>7, <2>3
    <3>2. key[r[i]] \in Int /\ key[t] \in Int /\ key[r[i]] >= key[t]
      BY <1>3, <1>5, <1>6, <3>1
    <3> QED
      BY <3>1, <3>2
  <2>4. CASE i < n
    <3>1. i <= n /\ i + 1 <= n /\ i \in 1..(Len(r) - 1)
      BY <1>4, <1>6, <2>4
    <3>2. s[i] = r[i] /\ s[i + 1] = r[i + 1]
      BY <1>2, <1>6, <3>1
    <3> QED
      BY <2>1, <3>1, <3>2
  <2>5. CASE i > n + 1
    <3>1. /\ i + 1 > n + 1 /\ i - 1 \in 1..(Len(r) - 1)
          /\ (i - 1) + 1 = i /\ (i + 1) - 1 = i
      BY <1>4, <1>6, <2>5
    <3>2. s[i] = r[i - 1] /\ s[i + 1] = r[i]
      BY <1>2, <1>6, <2>5, <3>1
    <3> QED
      BY <2>1, <3>1, <3>2
  <2>6. i \in Int /\ n \in Int
    BY <1>4, <1>6
  <2> QED
    BY <2>2, <2>3, <2>4, <2>5, <2>6
<1> QED
  BY <1>8, <1>9

(* What the bound on a burst means for the debits paid.                    *)
LEMMA MaxStreakLemma ==
  ASSUME NEW p \in Priorities, NEW n \in Nat
  PROVE  /\ MaxStreak(p) >= 1 /\ MaxStreak(p) \in Int
         /\ n * QuantumDebit(p) <= CatchUp + 1 + p => n + 1 <= MaxStreak(p)
         /\ n <= MaxStreak(p) => n * QuantumDebit(p) <= 2 * CatchUp + 1
<1> DEFINE d == QuantumDebit(p)
<1>1. p \in 0..5 /\ SystemHighest \in 0..5 /\ p <= SystemHighest
  BY RoundRobinAssumption
<1>2. d \in {1, 2, 4, 8, 16, 32} /\ p + d <= CatchUp
  <2>1. CASE SystemHighest = 0
    BY <1>1, <2>1 DEF QuantumDebit, PowerOfTwo, CatchUp
  <2>2. CASE SystemHighest = 1
    BY <1>1, <2>2 DEF QuantumDebit, PowerOfTwo, CatchUp
  <2>3. CASE SystemHighest = 2
    BY <1>1, <2>3 DEF QuantumDebit, PowerOfTwo, CatchUp
  <2>4. CASE SystemHighest = 3
    BY <1>1, <2>4 DEF QuantumDebit, PowerOfTwo, CatchUp
  <2>5. CASE SystemHighest = 4
    BY <1>1, <2>5 DEF QuantumDebit, PowerOfTwo, CatchUp
  <2>6. CASE SystemHighest = 5
    BY <1>1, <2>6 DEF QuantumDebit, PowerOfTwo, CatchUp
  <2> QED
    BY <1>1, <2>1, <2>2, <2>3, <2>4, <2>5, <2>6
<1>3. CatchUp \in 2..33
  BY DebitLemma
<1>4. MaxStreak(p) = (CatchUp + 1 + p) \div d + 1
  BY DEF MaxStreak
<1> HIDE DEF d
<1>5. CASE d = 1
  BY <1>1, <1>2, <1>3, <1>4, <1>5 DEF d
<1>6. CASE d = 2
  BY <1>1, <1>2, <1>3, <1>4, <1>6 DEF d
<1>7. CASE d = 4
  BY <1>1, <1>2, <1>3, <1>4, <1>7 DEF d
<1>8. CASE d = 8
  BY <1>1, <1>2, <1>3, <1>4, <1>8 DEF d
<1>9. CASE d = 16
  BY <1>1, <1>2, <1>3, <1>4, <1>9 DEF d
<1>10. CASE d = 32
  BY <1>1, <1>2, <1>3, <1>4, <1>10 DEF d
<1> QED
  BY <1>2, <1>5, <1>6, <1>7, <1>8, <1>9, <1>10

(* What holds while t has had the last quanta, which cost it m in all: its *)
(* counter was at most CatchUp + 1 above that of any other thread when it  *)
(* started, its credit is spent before it is adjusted again, and between   *)
(* two quanta no thread right behind it in the ready list has a larger     *)
(* key.                                                                    *)
Lead(t, m) ==
  \A u \in (Started \cup unstarted) \ {t} :
    counter[u] >= counter[t] + m - (CatchUp + 1)

Spent(t, m) == counter[t] <= global \/ counter[t] + m <= global + CatchUp

Behind(t) == NoLarger(ready, t, Keys(priority, counter))

BurstOf(t, n) ==
  /\ n \in Nat /\ n >= 1 /\ n <= MaxStreak(priority[t])
  /\ current \in {NoThread, t}
  /\ t \notin unstarted
  /\ Lead(t, n * QuantumDebit(priority[t]))
  /\ Spent(t, n * QuantumDebit(priority[t]))
  /\ current = NoThread => Behind(t)

Burst == streak.who # NoThread => BurstOf(streak.who, streak.n)

(* The next thread is chosen: a burst starts or goes on.                   *)
LEMMA BurstDispatch ==
  ASSUME TypeOK, Credit, Burst, Dispatch
  PROVE  Burst'
<1>0. SUFFICES ASSUME NEW t, NEW c, NEW p, NEW d,
                    t = Head(ready), c = ChargedCounter(t), p = priority[t],
                    d = QuantumDebit(p)
             PROVE  Burst'
  OBVIOUS
<1>1. /\ current' = t
      /\ counter' = [counter EXCEPT ![t] = c]
      /\ global' = (IF c < global THEN c ELSE global)
      /\ UNCHANGED <<ready, waiting, unstarted, priority>>
      /\ current = NoThread
      /\ streak' = IF Len(ready) = 1 THEN NoStreak
                   ELSE [who |-> t, n |-> IF streak.who = t THEN streak.n + 1 ELSE 1]
  <2>1. /\ current' = t
        /\ counter' = [counter EXCEPT ![t] = c]
        /\ global' = (IF c < global THEN c ELSE global)
        /\ UNCHANGED <<ready, waiting, unstarted, priority>>
        /\ current = NoThread
    BY <1>0 DEF Dispatch
  <2>2. streak' = IF Len(ready) = 1 THEN NoStreak
                  ELSE IF streak.who = t THEN [streak EXCEPT !.n = @ + 1]
                  ELSE [who |-> t, n |-> 1]
    BY <1>0 DEF Dispatch
  <2>3. streak = [who |-> streak.who, n |-> streak.n]
    BY DEF TypeOK
  <2>4. [streak EXCEPT !.n = @ + 1] = [who |-> streak.who, n |-> streak.n + 1]
    BY <2>3
  <2> QED
    BY <2>1, <2>2, <2>4
<1>2. /\ ready \in Seq(Threads) /\ ready # <<>> /\ Len(ready) \in Nat /\ Len(ready) >= 1
      /\ t = ready[1] /\ 1 \in DOMAIN ready
  <2>1. ready \in Seq(Threads) /\ ready # <<>>
    BY DEF TypeOK, Dispatch
  <2> QED
    BY <1>0, <2>1
<1>3. /\ t \in Threads /\ t \in Elems(ready) /\ t \in Started /\ t \notin unstarted
      /\ t # NoThread
  <2>1. t \in Elems(ready) /\ t \in Threads
    BY <1>2 DEF Elems
  <2> QED
    BY <2>1, RoundRobinAssumption DEF TypeOK, Started
<1>4. CatchUp \in Int /\ CatchUp >= 2 /\ p \in Priorities /\ d \in Int /\ d >= 1
  BY <1>0, <1>3, DebitLemma DEF TypeOK
<1>5. /\ counter \in [Threads -> Int] /\ global \in Int
      /\ streak \in [who : Threads \cup {NoThread}, n : Nat]
      /\ Started \subseteq Threads /\ unstarted \subseteq Threads
  BY DEF TypeOK, Started, Elems
<1>6. c = Capped(counter[t], global) - d
  BY <1>0 DEF ChargedCounter
<1>7. c \in Int
  BY <1>3, <1>4, <1>5, <1>6 DEF Capped
<1>8. /\ Started' = Started /\ priority'[t] = p
      /\ counter'[t] = c
      /\ \A u \in Threads \ {t} : counter'[u] = counter[u]
  BY <1>0, <1>1, <1>3, <1>5 DEF Started
<1>9. CASE Len(ready) = 1
  BY <1>1, <1>9 DEF NoStreak, Burst
<1>10. CASE Len(ready) # 1 /\ streak.who # t
  <2>1. streak'.who = t /\ streak'.n = 1
    BY <1>1, <1>10
  <2>2. Capped(counter[t], global) <= global + CatchUp /\ Capped(counter[t], global) \in Int
    BY <1>3, <1>4, <1>5 DEF Capped
  <2>3. Lead(t, d)'
    <3> SUFFICES ASSUME NEW u \in (Started \cup unstarted) \ {t}
                 PROVE  counter[u] >= c + d - (CatchUp + 1)
      BY <1>1, <1>5, <1>8 DEF Lead
    <3>1. counter[u] \in Int /\ counter[u] >= global - 1
      BY <1>5 DEF Credit
    <3> QED
      BY <1>4, <1>5, <1>6, <1>7, <2>2, <3>1
  <2>4. Spent(t, d)'
    <3>1. CASE c < global
      BY <1>1, <1>7, <1>8, <3>1 DEF Spent
    <3>2. CASE ~(c < global)
      BY <1>1, <1>4, <1>5, <1>6, <1>7, <1>8, <2>2, <3>2 DEF Spent
    <3> QED
      BY <3>1, <3>2
  <2>5. MaxStreak(p) >= 1 /\ 1 * d = d
    BY <1>0, <1>4, MaxStreakLemma
  <2>6. BurstOf(t, 1)'
    BY <1>0, <1>1, <1>3, <1>8, <2>3, <2>4, <2>5 DEF BurstOf
  <2> QED
    BY <2>1, <2>6 DEF Burst
<1>11. CASE Len(ready) # 1 /\ streak.who = t
  <2>0. SUFFICES ASSUME NEW n, NEW m, n = streak.n, m = n * d PROVE Burst'
    OBVIOUS
  <2>1. streak'.who = t /\ streak'.n = n + 1 /\ n \in Nat
    BY <1>1, <1>5, <1>11, <2>0
  <2>2. n >= 1 /\ Lead(t, m) /\ Spent(t, m) /\ Behind(t)
    BY <1>0, <1>1, <1>3, <1>11, <2>0 DEF Burst, BurstOf
  <2>3. m \in Int /\ m >= 0 /\ (n + 1) * d = m + d
    <3>1. \A a \in Nat : \A b \in Int : b >= 1 =>
            a * b \in Int /\ a * b >= 0 /\ (a + 1) * b = a * b + b
      OBVIOUS
    <3> QED
      BY <1>4, <2>0, <2>1, <3>1
  (* Its credit is spent, so it is not adjusted: it pays the debit. *)
  <2>4. c = counter[t] - d /\ counter[t] \in Int
    BY <1>3, <1>4, <1>5, <1>6, <2>2, <2>3 DEF Capped, Spent
  <2>5. Lead(t, m + d)'
    <3> SUFFICES ASSUME NEW u \in (Started \cup unstarted) \ {t}
                 PROVE  counter[u] >= c + (m + d) - (CatchUp + 1)
      BY <1>1, <1>5, <1>8 DEF Lead
    <3>1. counter[u] \in Int /\ counter[u] >= counter[t] + m - (CatchUp + 1)
      BY <1>5, <2>2 DEF Lead
    <3> QED
      BY <1>4, <2>3, <2>4, <3>1
  <2>6. Spent(t, m + d)'
    <3>1. CASE c < global
      BY <1>1, <1>7, <1>8, <3>1 DEF Spent
    <3>2. CASE ~(c < global)
      BY <1>1, <1>4, <1>5, <1>7, <1>8, <2>2, <2>3, <2>4, <3>2 DEF Spent
    <3> QED
      BY <3>1, <3>2
  (* The thread behind it has no larger key, yet a counter that leads. *)
  <2>7. n + 1 <= MaxStreak(p)
    <3> DEFINE u == ready[2]
               key == Keys(priority, counter)
    <3>1. 1 \in 1..(Len(ready) - 1) /\ 2 \in 1..Len(ready) /\ 1 + 1 = 2
      <4>1. Len(ready) \in Nat /\ Len(ready) >= 1 /\ Len(ready) # 1
        BY <1>2, <1>11
      <4>2. \A l \in Nat : l >= 1 /\ l # 1 => 1 \in 1..(l - 1) /\ 2 \in 1..l
        OBVIOUS
      <4>3. 1 \in 1..(Len(ready) - 1) /\ 2 \in 1..Len(ready)
        BY <4>1, <4>2
      <4> QED
        BY <4>3
    <3>2. u \in Threads /\ u \in Started /\ u # t
      <4>1. 2 \in DOMAIN ready
        BY <1>2, <3>1
      <4>2. ready[1] # ready[2]
        BY <1>2, <4>1 DEF TypeOK, Distinct
      <4> QED
        BY <1>2, <4>1, <4>2 DEF Started, Elems
    <3>3. key[u] <= key[t]
      BY <1>2, <2>2, <3>1 DEF Behind, NoLarger
    <3> HIDE DEF u
    <3>4. key[u] = priority[u] + counter[u] /\ key[t] = p + counter[t]
      BY <1>0, <1>3, <3>2 DEF Keys
    <3> HIDE DEF key
    <3>5. counter[u] \in Int /\ counter[u] >= counter[t] + m - (CatchUp + 1)
      BY <1>5, <2>2, <3>2 DEF Lead
    <3>6. priority[u] \in Int /\ priority[u] >= 0 /\ p \in Int
      <4>1. \A x \in Priorities : x \in Int /\ x >= 0
        BY RoundRobinAssumption
      <4> QED
        BY <1>4, <3>2, <4>1 DEF TypeOK
    <3>7. m <= CatchUp + 1 + p
      BY <1>4, <2>3, <2>4, <3>3, <3>4, <3>5, <3>6
    <3> QED
      BY <1>0, <1>4, <2>0, <2>1, <3>7, MaxStreakLemma
  <2>8. n + 1 \in Nat /\ n + 1 >= 1
    BY <2>1
  <2>9. BurstOf(t, n + 1)'
    BY <1>0, <1>1, <1>3, <1>8, <2>0, <2>3, <2>5, <2>6, <2>7, <2>8 DEF BurstOf
  <2> QED
    BY <2>1, <2>9 DEF Burst
<1> QED
  BY <1>9, <1>10, <1>11

(* The counters are adjusted: the thread of the burst has no credit to     *)
(* lose, and those that lose some keep enough.                             *)
LEMMA BurstAdjust ==
  ASSUME TypeOK, Credit, Burst, ScheduleThreads, Adjust
  PROVE  Burst'
<1>0. SUFFICES ASSUME NEW t, NEW n, NEW d, NEW m, t = streak.who, n = streak.n,
                    d = QuantumDebit(priority[t]), m = n * d, t # NoThread
             PROVE  Burst'
  <2>1. streak' = streak
    BY DEF ScheduleThreads
  <2> QED
    BY <2>1 DEF Burst
<1>1. /\ streak' = streak
      /\ UNCHANGED <<current, ready, waiting, unstarted, priority>>
      /\ current = NoThread
      /\ Started' = Started
      /\ global' = global + Adjustment /\ global < -Maximum
  BY DEF ScheduleThreads, Adjust, Started
<1>2. /\ counter \in [Threads -> Int] /\ global \in Int
      /\ Started \subseteq Threads /\ unstarted \subseteq Threads
      /\ unstarted \cap Started = {}
      /\ ready \in Seq(Threads) /\ Elems(ready) \subseteq Started
  BY DEF TypeOK, Started, Elems
<1>3. t \in Threads /\ n \in Nat /\ t = streak.who /\ n = streak.n /\ t # NoThread
  BY <1>0 DEF TypeOK
<1>4. /\ CatchUp \in Int /\ CatchUp >= 2
      /\ Adjustment \in Nat /\ Maximum \in Nat /\ Maximum >= Adjustment + CatchUp
  BY DebitLemma, RoundRobinAssumption
<1>5. /\ BurstOf(t, n) /\ Lead(t, m) /\ Spent(t, m) /\ Behind(t)
      /\ n <= MaxStreak(priority[t]) /\ t \notin unstarted /\ n >= 1
  BY <1>0, <1>1 DEF Burst, BurstOf
<1>6. d \in Int /\ d >= 1 /\ m \in Int /\ m >= 0 /\ m <= 2 * CatchUp + 1
  <2>1. priority[t] \in Priorities
    BY <1>3 DEF TypeOK
  <2>2. d \in Int /\ d >= 1
    BY <1>0, <2>1, DebitLemma
  <2>3. m <= 2 * CatchUp + 1
    BY <1>0, <1>3, <1>5, <2>1, MaxStreakLemma
  <2> QED
    BY <1>0, <1>3, <2>2, <2>3
<1>7. \A u \in Started :
        counter'[u] = Capped(counter[u] + Adjustment, global + Adjustment)
  BY <1>2 DEF Adjust, Started
<1>8. \A u \in Threads \ Started : counter'[u] = counter[u]
  BY DEF Adjust, Started
<1>9. counter[t] \in Int /\ counter[t] <= global + CatchUp
  BY <1>2, <1>3, <1>4, <1>5, <1>6 DEF Spent
<1>10. counter'[t] = (IF t \in Started THEN counter[t] + Adjustment ELSE counter[t])
  BY <1>2, <1>3, <1>4, <1>7, <1>8, <1>9 DEF Capped
<1>11. counter'[t] \in Int /\ counter'[t] <= counter[t] + Adjustment
  BY <1>4, <1>9, <1>10
<1>12. counter'[t] <= global' \/ counter'[t] + m <= global' + CatchUp
  <2>1. CASE counter[t] <= global
    BY <1>1, <1>2, <1>4, <1>9, <1>11, <2>1
  <2>2. CASE counter[t] + m <= global + CatchUp
    BY <1>1, <1>2, <1>4, <1>6, <1>9, <1>11, <2>2
  <2> QED
    BY <1>5, <2>1, <2>2 DEF Spent
<1>13. global' \in Int /\ global' <= 0 - CatchUp - 1
  BY <1>1, <1>2, <1>4
<1>14. Lead(t, m)'
  <2> SUFFICES ASSUME NEW u \in (Started \cup unstarted) \ {t}
               PROVE  counter'[u] >= counter'[t] + m - (CatchUp + 1)
    BY <1>1 DEF Lead
  <2>1. counter[u] \in Int /\ counter[u] >= counter[t] + m - (CatchUp + 1)
    BY <1>2, <1>5 DEF Lead
  <2>2. CASE u \in unstarted
    <3>1. counter'[u] = 0
      BY <1>2, <1>8, <2>2 DEF Credit
    <3> QED
      BY <1>4, <1>6, <1>11, <1>12, <1>13, <3>1
  <2>3. CASE u \in Started
    <3>1. counter'[u] = Capped(counter[u] + Adjustment, global')
      BY <1>1, <1>7, <2>3
    <3>2. CASE counter'[u] = counter[u] + Adjustment
      BY <1>4, <1>6, <1>9, <1>11, <2>1, <3>2
    <3>3. CASE counter'[u] = global' + CatchUp
      BY <1>4, <1>6, <1>11, <1>12, <1>13, <3>3
    <3> QED
      BY <3>1, <3>2, <3>3 DEF Capped
  <2> QED
    BY <2>2, <2>3
<1>15. Behind(t)'
  <2> DEFINE key == Keys(priority, counter)
             after == Keys(priority, counter')
  <2> SUFFICES ASSUME NEW i \in 1..(Len(ready) - 1), ready[i] = t
               PROVE  after[ready[i + 1]] <= after[t]
    BY <1>1 DEF Behind, NoLarger
  <2> SUFFICES ASSUME NEW u, u = ready[i + 1] PROVE after[u] <= after[t]
    OBVIOUS
  <2>1. u \in Threads /\ u \in Started /\ t \in Started
    <3>1. i \in DOMAIN ready /\ i + 1 \in DOMAIN ready
      BY <1>2
    <3> QED
      BY <1>2, <3>1 DEF Elems
  <2>2. key[u] <= key[t]
    BY <1>5 DEF Behind, NoLarger
  <2>3. key[u] = priority[u] + counter[u] /\ key[t] = priority[t] + counter[t]
    BY <1>3, <2>1 DEF Keys
  <2>4. after[u] = priority[u] + counter'[u] /\ after[t] = priority[t] + counter'[t]
    BY <1>3, <2>1 DEF Keys
  <2>5. priority[u] \in Int /\ priority[t] \in Int /\ counter[u] \in Int
    <3>1. \A p \in Priorities : p \in Int
      BY RoundRobinAssumption
    <3> QED
      BY <1>2, <1>3, <2>1, <3>1 DEF TypeOK
  <2>6. counter'[u] \in Int /\ counter'[u] <= counter[u] + Adjustment
    <3>1. counter'[u] = Capped(counter[u] + Adjustment, global + Adjustment)
      BY <1>7, <2>1
    <3>2. counter[u] \in Int /\ global \in Int /\ CatchUp \in Int /\ Adjustment \in Int
      BY <1>2, <1>4, <2>5
    <3> QED
      BY <3>1, <3>2 DEF Capped
  <2> HIDE DEF key, after
  <2>7. counter'[t] = counter[t] + Adjustment /\ counter[t] \in Int /\ Adjustment \in Int
    BY <1>4, <1>9, <1>10, <2>1
  <2>8. priority[u] + counter[u] <= priority[t] + counter[t]
    BY <2>2, <2>3
  <2>9. priority[u] + counter'[u] <= priority[t] + counter'[t]
    <3>1. \A a, b, c, e, f, g \in Int :
            a + b <= c + g /\ f <= b + e => a + f <= c + (g + e)
      OBVIOUS
    <3>2. priority[u] + counter'[u] <= priority[t] + (counter[t] + Adjustment)
      BY <2>5, <2>6, <2>7, <2>8, <3>1
    <3> QED
      BY <2>7, <3>2
  <2> QED
    BY <2>4, <2>9
<1>16. Spent(t, m)'
  BY <1>12 DEF Spent
<1> QED
  BY <1>0, <1>1, <1>3, <1>5, <1>14, <1>15, <1>16 DEF Burst, BurstOf

LEMMA BurstStep == TypeOK /\ Credit /\ Burst /\ [Next]_vars => Burst'
<1> SUFFICES ASSUME TypeOK, Credit, Burst, [Next]_vars, NEW w, w = streak.who
             PROVE  Burst'
  OBVIOUS
<1>0. /\ Keys(priority, counter) \in [Threads -> Int]
      /\ Keys(priority, counter') \in [Threads -> Int]
      /\ Keys(priority', counter) \in [Threads -> Int]
  <2>1. ListsOK /\ NumbersOK
    BY DEF TypeOK, ListsOK, NumbersOK
  <2> QED
    BY <2>1, NumbersStep, KeysLemma DEF NumbersOK
<1>1. /\ ready \in Seq(Threads) /\ Distinct(ready)
      /\ streak \in [who : Threads \cup {NoThread}, n : Nat]
      /\ counter \in [Threads -> Int] /\ global \in Int
      /\ Started \subseteq Threads /\ unstarted \subseteq Threads
      /\ \A t \in Threads : t # NoThread
  BY RoundRobinAssumption DEF TypeOK, Started, Elems
<1>2. w # NoThread => BurstOf(w, streak.n) /\ w \in Threads
  BY <1>1 DEF Burst
<1>3. ASSUME NEW t \in Threads, current = t
      PROVE  (w # NoThread => w = t) /\ t \in Elems(ready) /\ t \in Started
  BY <1>1, <1>2, <1>3 DEF BurstOf, TypeOK, Started
(* The burst neither grows nor pays. *)
<1>4. ASSUME UNCHANGED <<streak, counter, global>>,
             w # NoThread => priority'[w] = priority[w],
             Started' \cup unstarted' \subseteq Started \cup unstarted,
             unstarted' \subseteq unstarted,
             current' \in {NoThread, current},
             w # NoThread /\ current' = NoThread => Behind(w)'
      PROVE  Burst'
  <2>0. SUFFICES ASSUME w # NoThread, NEW m, m = streak.n * QuantumDebit(priority[w])
               PROVE  BurstOf(w, streak.n)'
    BY <1>4 DEF Burst
  <2>1. Lead(w, m) /\ Spent(w, m)
    BY <1>2, <2>0 DEF BurstOf
  <2>2. Lead(w, m)'
    BY <1>4, <2>1 DEF Lead
  <2>3. Spent(w, m)'
    BY <1>4, <2>1 DEF Spent
  <2> QED
    BY <1>2, <1>4, <2>0, <2>2, <2>3 DEF BurstOf
(* A thread that is put back has no larger key right behind it. *)
<1>5. ASSUME NEW t \in Threads, ready' = Inserted(ready, t, Keys(priority', counter')),
             Keys(priority', counter') \in [Threads -> Int]
      PROVE  Behind(t)' /\ Elems(ready') = Elems(ready) \cup {t}
  <2>1. NoLarger(ready', t, Keys(priority', counter'))
    BY <1>1, <1>5, InsertedNext
  <2>2. Elems(ready') = Elems(ready) \cup {t}
    BY <1>1, <1>5, InsertedLemma
  <2> QED
    BY <2>1, <2>2 DEF Behind, NoLarger, Keys
<1>6. CASE UNCHANGED vars \/ NoReadyThreads \/ (ScheduleThreads /\ UNCHANGED <<global, counter>>)
  <2>1. /\ UNCHANGED <<current, ready, waiting, unstarted, priority, counter, global, streak>>
        /\ Started' = Started
    BY <1>6 DEF vars, NoReadyThreads, ScheduleThreads, Started
  <2>2. Behind(w) => Behind(w)'
    BY <2>1 DEF Behind, NoLarger
  <2> QED
    BY <1>2, <1>4, <2>1, <2>2 DEF BurstOf
<1>7. CASE ScheduleThreads
  BY <1>6, <1>7, BurstAdjust DEF ScheduleThreads
<1>8. CASE Dispatch
  BY <1>8, BurstDispatch
<1>9. ASSUME NEW t \in Threads, EndQuantum(t) PROVE Burst'
  <2>1. Behind(t)' /\ Elems(ready') = Elems(ready) \cup {t}
    BY <1>0, <1>5, <1>9 DEF EndQuantum, Requeue
  <2>2. Started' = Started
    BY <1>3, <1>9, <2>1 DEF EndQuantum, Started
  <2> QED
    BY <1>3, <1>4, <1>9, <2>1, <2>2 DEF EndQuantum, Requeue
<1>10. ASSUME NEW t \in Threads, Block(t) \/ Terminate(t) PROVE Burst'
  <2>1. Elems(ready') = Elems(ready) \ {t} /\ ready' \in Seq(Threads)
    BY <1>1, <1>10, UnlinkedLemma DEF Block, Terminate
  <2>2. Started' \subseteq Started
    BY <1>3, <1>10, <2>1 DEF Block, Terminate, Started
  <2>3. Behind(t)'
    <3>1. \A i \in 1..(Len(ready') - 1) : ready'[i] \in Elems(ready')
      BY <2>1 DEF Elems
    <3> QED
      BY <2>1, <3>1 DEF Behind, NoLarger
  <2> QED
    BY <1>3, <1>4, <1>10, <2>2, <2>3 DEF Block, Terminate
<1>11. ASSUME NEW t \in Threads, NEW u \in Threads, Start(t, u) \/ Restart(t, u) PROVE Burst'
  <2>1. Elems(ready') = Elems(ready) \cup {u}
    BY <1>0, <1>5, <1>11 DEF Start, Restart
  <2>2. Started' \cup unstarted' \subseteq Started \cup unstarted
    BY <1>11, <2>1 DEF Start, Restart, Started
  <2> QED
    BY <1>1, <1>3, <1>4, <1>11, <2>2 DEF Start, Restart
<1>12. ASSUME NEW t \in Threads, NEW u \in Threads, NEW p \in Priorities, SetPriority(t, u, p)
       PROVE  Burst'
  <2>1. CASE w = u \/ w = NoThread
    BY <1>1, <1>12, <2>1 DEF SetPriority, NoStreak, Burst
  <2>2. CASE w # u /\ w # NoThread
    <3>1. streak' = streak /\ w = t /\ priority'[w] = priority[w]
      BY <1>3, <1>12, <2>2 DEF SetPriority, TypeOK
    <3>2. CASE UNCHANGED <<current, ready>>
      BY <1>1, <1>4, <1>12, <3>1, <3>2 DEF SetPriority, Started
    <3>3. CASE Requeue(t, Keys(priority', counter))
      <4>1. Behind(t)' /\ Elems(ready') = Elems(ready) \cup {t}
        BY <1>0, <1>5, <1>12, <3>3 DEF SetPriority, Requeue
      <4>2. Started' = Started
        BY <1>3, <1>12, <4>1 DEF SetPriority, Started
      <4> QED
        BY <1>4, <1>12, <3>1, <3>3, <4>1, <4>2 DEF SetPriority, Requeue
    <3> QED
      BY <1>12, <3>2, <3>3 DEF SetPriority
  <2> QED
    BY <2>1, <2>2
<1>13. ASSUME NEW u \in Threads, Wake(u) PROVE Burst'
  <2>1. /\ ready' = Inserted(ready, u, Keys(priority, counter))
        /\ u \notin Elems(ready) /\ current = NoThread
        /\ UNCHANGED <<current, unstarted, priority, counter, global, streak>>
    BY <1>13 DEF Wake, TypeOK
  <2>2. Behind(u)' /\ Elems(ready') = Elems(ready) \cup {u}
    BY <1>0, <1>5, <2>1
  <2>3. Started' = Started
    BY <1>13, <2>2 DEF Wake, Started
  <2>4. ASSUME w # NoThread, w # u PROVE Behind(w)'
    <3> DEFINE key == Keys(priority, counter)
    <3>1. w \in Threads \ {u} /\ NoLarger(ready, w, key)
      BY <1>2, <2>1, <2>4 DEF BurstOf, Behind
    <3>2. key \in [Threads -> Int] /\ ready' = Inserted(ready, u, key) /\ key' = key
      BY <1>0, <2>1 DEF Keys
    <3> HIDE DEF key
    <3>3. NoLarger(ready', w, key)
      BY <1>1, <2>1, <3>1, <3>2, InsertedNext
    <3>4. NoLarger(ready', w, key')
      BY <3>2, <3>3
    <3> QED
      BY <3>4 DEF Behind, NoLarger, key
  <2> QED
    BY <1>4, <2>1, <2>2, <2>3, <2>4
<1>14. ASSUME NEW t \in Threads, SleepZero(t) PROVE Burst'
  <2>1. /\ ready' = Inserted(ready, t, Keys(priority, counter'))
        /\ counter' = [counter EXCEPT ![t] = global - 1]
        /\ UNCHANGED <<waiting, unstarted, priority, global, streak>>
        /\ current = t /\ current' = NoThread
    BY <1>14 DEF SleepZero, Requeue
  <2>2. Behind(t)' /\ Elems(ready') = Elems(ready) \cup {t}
    BY <1>0, <1>5, <2>1
  <2>3. Started' = Started
    BY <1>3, <2>1, <2>2 DEF Started
  <2>0. SUFFICES ASSUME w # NoThread, NEW m, m = streak.n * QuantumDebit(priority[w])
               PROVE  Burst'
    BY <2>1 DEF Burst
  <2>4. w = t
    BY <1>3, <2>0, <2>1
  <2>5. BurstOf(t, streak.n) /\ Lead(t, m)
    BY <1>2, <2>0, <2>4 DEF BurstOf
  <2>6. counter'[t] = global - 1 /\ \A u \in Threads \ {t} : counter'[u] = counter[u]
    BY <1>1, <2>1
  <2>7. m \in Int /\ CatchUp \in Int
    <3>1. QuantumDebit(priority[t]) \in Int /\ CatchUp \in Int
      BY DebitLemma DEF TypeOK
    <3>2. streak.n \in Int
      BY <1>1
    <3> QED
      BY <2>0, <2>4, <3>1, <3>2
  <2>8. Lead(t, m)'
    <3> SUFFICES ASSUME NEW u \in (Started \cup unstarted) \ {t}
                 PROVE  counter[u] >= (global - 1) + m - (CatchUp + 1)
      BY <1>1, <2>1, <2>3, <2>6 DEF Lead
    <3>1. counter[u] \in Int /\ counter[u] >= counter[t] + m - (CatchUp + 1)
      BY <1>1, <2>5 DEF Lead
    <3>2. counter[t] \in Int /\ counter[t] >= global - 1
      BY <1>1, <1>3, <2>1 DEF Credit
    <3> QED
      BY <1>1, <2>7, <3>1, <3>2
  <2>9. Spent(t, m)'
    BY <1>1, <2>1, <2>6 DEF Spent
  <2>10. BurstOf(t, streak.n)'
    BY <2>0, <2>1, <2>2, <2>4, <2>5, <2>8, <2>9 DEF BurstOf
  <2> QED
    BY <2>1, <2>4, <2>10 DEF Burst
<1> QED
  BY <1>6, <1>7, <1>8, <1>9, <1>10, <1>11, <1>12, <1>13, <1>14 DEF Next

(* While another thread is ready, a thread gets no more quanta in a row    *)
(* than its catch-up pays for, whatever wakes, starts, yields and has its  *)
(* priority changed meanwhile.                                             *)
THEOREM BurstsBounded == Spec => []StreakLimited
<1>1. Init => Credit /\ Burst
  BY CreditInit DEF Init, NoStreak, Burst
<1>2. TypeOK /\ Credit /\ Burst /\ [Next]_vars => (Credit /\ Burst)'
  BY CreditStep, BurstStep
<1>3. Burst => StreakLimited
  BY DEF Burst, BurstOf, StreakLimited
<1> QED
  BY <1>1, <1>2, <1>3, TypeCorrect, PTL DEF Spec

=============================================================================
