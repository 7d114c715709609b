----------------------- MODULE HeapPersistence_proofs -----------------------
(***************************************************************************)
(* Theorems about the persistence of weak references: types, what the      *)
(* flags and the flash have to do with each other, when a restart takes    *)
(* another bank, that idle means saved, and that HeapPersistence           *)
(* implements WeakStore.                                                   *)
(***************************************************************************)
EXTENDS HeapPersistence, SequenceTheorems, FiniteSetTheorems, WellFoundedInduction, TLAPS

(* The least element of a set of numbers, and from it induction.           *)
LEMMA Least ==
  ASSUME NEW T, T \subseteq Nat, T # {}
  PROVE  \E m \in T : \A k \in T : m <= k
<1> DEFINE R == OpToRel(<, Nat)
<1>1. IsWellFoundedOn(R, Nat)
  BY NatLessThanWellFounded
<1>2. \A x, y \in Nat : <<x, y>> \in R <=> x < y
  BY DEF OpToRel
<1> HIDE DEF R
<1>3. PICK x \in T : \A y \in T : ~ (<<y, x>> \in R)
  BY <1>1, WFMin
<1>4. \A y \in T : ~(y < x)
  BY <1>2, <1>3
<1> QED
  BY <1>4

LEMMA NatSetInduction ==
  ASSUME NEW T, 0 \in T, \A n \in Nat : n \in T => n + 1 \in T
  PROVE  Nat \subseteq T
<1> SUFFICES ASSUME Nat \ T # {} PROVE FALSE
  OBVIOUS
<1>1. PICK m \in Nat \ T : \A k \in Nat \ T : m <= k
  BY Least
<1>2. m # 0 /\ m - 1 \in Nat /\ m - 1 \in T
  BY <1>1
<1> QED
  BY <1>1, <1>2

LEMMA MinIs ==
  ASSUME NEW T, T \subseteq Nat, T # {}
  PROVE  Min(T) \in T /\ \A k \in T : Min(T) <= k
BY Least DEF Min

-----------------------------------------------------------------------------
(***************************************************************************)
(* The list of weak references.                                            *)
(***************************************************************************)
LEMMA UnlinkedIs ==
  ASSUME NEW q \in Seq(Refs), NEW t \in Refs, IsInjective(q)
  PROVE  /\ Unlinked(q, t) \in Seq(Refs)
         /\ IsInjective(Unlinked(q, t))
         /\ ToSet(Unlinked(q, t)) = ToSet(q) \ {t}
<1>1. CASE t \notin ToSet(q)
  BY <1>1 DEF Unlinked
<1>2. CASE t \in ToSet(q)
  <2> DEFINE i == CHOOSE j \in DOMAIN q : q[j] = t
             a == SubSeq(q, 1, i - 1)
             b == SubSeq(q, i + 1, Len(q))
             r == a \o b
  <2>1. i \in DOMAIN q /\ q[i] = t
    BY <1>2 DEF ToSet
  <2>2. Unlinked(q, t) = r
    BY <1>2 DEF Unlinked, RemoveAt
  <2> HIDE DEF i
  <2>3. i \in 1..Len(q) /\ Len(q) \in Nat
    BY <2>1
  <2>4. /\ a \in Seq(Refs) /\ Len(a) = i - 1
        /\ \A k \in 1..(i - 1) : a[k] = q[k]
    BY <2>3, SubSeqProperties
  <2>5. /\ b \in Seq(Refs) /\ Len(b) = Len(q) - i
        /\ \A k \in 1..(Len(q) - i) : b[k] = q[i + k]
    BY <2>3, SubSeqProperties
  <2> HIDE DEF a, b
  <2>6. /\ r \in Seq(Refs)
        /\ Len(r) = Len(a) + Len(b)
        /\ \A j \in 1..(Len(a) + Len(b)) :
             r[j] = IF j <= Len(a) THEN a[j] ELSE b[j - Len(a)]
    BY <2>4, <2>5, ConcatProperties
  <2> HIDE DEF r
  <2>7. Len(r) = Len(q) - 1 /\ DOMAIN r = 1..(Len(q) - 1) /\ DOMAIN q = 1..Len(q)
    BY <2>3, <2>4, <2>5, <2>6
  (* r[k] is q[k] before the gap and q[k + 1] behind it. *)
  <2>8. ASSUME NEW k \in 1..(Len(q) - 1), k < i
        PROVE  r[k] = q[k]
    <3>1. k \in 1..(i - 1) /\ k <= Len(a) /\ k \in 1..(Len(a) + Len(b))
      BY <2>3, <2>4, <2>5, <2>8
    <3> QED
      BY <2>4, <2>6, <3>1
  <2>9. ASSUME NEW k \in 1..(Len(q) - 1), k >= i
        PROVE  r[k] = q[k + 1]
    <3>1. ~(k <= Len(a)) /\ k \in 1..(Len(a) + Len(b)) /\ k - Len(a) = k - i + 1
      BY <2>3, <2>4, <2>5, <2>9
    <3>2. k - i + 1 \in 1..(Len(q) - i) /\ i + (k - i + 1) = k + 1
      BY <2>3, <2>9
    <3>3. r[k] = b[k - i + 1]
      BY <2>6, <3>1
    <3>4. b[k - i + 1] = q[i + (k - i + 1)]
      BY <2>5, <3>2
    <3> QED
      BY <3>2, <3>3, <3>4
  <2>10. \A k \in 1..(Len(q) - 1) :
           r[k] = q[IF k < i THEN k ELSE k + 1]
    BY <2>3, <2>8, <2>9
  <2>11. IsInjective(r)
    <3> SUFFICES ASSUME NEW k \in 1..(Len(q) - 1), NEW m \in 1..(Len(q) - 1), r[k] = r[m]
                 PROVE  k = m
      BY <2>7 DEF IsInjective
    <3> DEFINE K == IF k < i THEN k ELSE k + 1
               M == IF m < i THEN m ELSE m + 1
    <3>1. K \in DOMAIN q /\ M \in DOMAIN q
      BY <2>3, <2>7
    <3>2. q[K] = q[M]
      BY <2>10
    <3>3. K = M
      BY <3>1, <3>2 DEF IsInjective
    <3> QED
      BY <2>3, <3>3
  <2>12. ASSUME NEW x \in ToSet(q), x # t PROVE x \in ToSet(r)
    <3>1. PICK k \in DOMAIN q : x = q[k]
      BY <2>12 DEF ToSet
    <3>2. k # i
      BY <2>1, <2>12, <3>1
    <3>3. CASE k < i
      <4>1. k \in 1..(Len(q) - 1)
        BY <2>3, <2>7, <3>1, <3>3
      <4> QED
        BY <2>7, <2>8, <3>1, <3>3, <4>1 DEF ToSet
    <3>4. CASE k > i
      <4>1. k - 1 \in 1..(Len(q) - 1) /\ k - 1 >= i /\ (k - 1) + 1 = k
        BY <2>3, <2>7, <3>1, <3>4
      <4>2. r[k - 1] = q[k]
        BY <2>9, <4>1
      <4> QED
        BY <2>7, <3>1, <4>1, <4>2 DEF ToSet
    <3> QED
      BY <2>3, <2>7, <3>1, <3>2, <3>3, <3>4
  <2>13. ASSUME NEW x \in ToSet(r) PROVE x \in ToSet(q) /\ x # t
    <3>1. PICK k \in 1..(Len(q) - 1) : x = r[k]
      BY <2>7, <2>13 DEF ToSet
    <3> DEFINE K == IF k < i THEN k ELSE k + 1
    <3>2. K \in DOMAIN q /\ K # i /\ x = q[K]
      BY <2>3, <2>7, <2>10, <3>1
    <3>3. q[K] # q[i]
      BY <2>1, <3>2 DEF IsInjective
    <3> QED
      BY <2>1, <3>2, <3>3 DEF ToSet
  <2> QED
    BY <2>2, <2>6, <2>11, <2>12, <2>13
<1> QED
  BY <1>1, <1>2

(* s is r with t put at place n + 1.                                       *)
Placed(s, r, n, t) ==
  \A j \in 1..(Len(r) + 1) :
    /\ j <= n => s[j] = r[j]
    /\ j = n + 1 => s[j] = t
    /\ j > n + 1 => s[j] = r[j - 1]

LEMMA InsertAtIs ==
  ASSUME NEW r \in Seq(Refs), NEW t \in Refs, NEW n \in 0..Len(r)
  PROVE  /\ InsertAt(r, n + 1, t) \in Seq(Refs)
         /\ Len(InsertAt(r, n + 1, t)) = Len(r) + 1
         /\ Placed(InsertAt(r, n + 1, t), r, n, t)
<1> DEFINE a == SubSeq(r, 1, n)
           b == SubSeq(r, n + 1, Len(r))
           at == a \o <<t>>
           s == at \o b
<1>2. Len(r) \in Nat /\ DOMAIN r = 1..Len(r) /\ \A k \in 1..Len(r) : r[k] \in Refs
  OBVIOUS
<1>3. n \in 0..Len(r)
  OBVIOUS
<1>5. InsertAt(r, n + 1, t) = s
  <2>1. (n + 1) - 1 = n
    OBVIOUS
  <2> QED
    BY <2>1 DEF InsertAt
<1>6. /\ a \in Seq(Refs) /\ Len(a) = n
      /\ \A k \in 1..n : a[k] = r[k]
  BY <1>2, <1>3, SubSeqProperties
<1>7. /\ b \in Seq(Refs) /\ Len(b) = Len(r) - n
      /\ \A k \in 1..(Len(r) - n) : b[k] = r[n + k]
  <2>1. /\ n + 1 \in 1..(Len(r) + 1)
        /\ Len(r) \in (n + 1) - 1..Len(r)
        /\ n \in Nat
    BY <1>2, <1>3
  <2>2. /\ b \in Seq(Refs)
        /\ Len(b) = IF n + 1 <= Len(r) THEN Len(r) - (n + 1) + 1 ELSE 0
        /\ \A k \in 1..(Len(r) - (n + 1) + 1) : b[k] = r[n + 1 + k - 1]
    BY <2>1, SubSeqProperties
  <2> HIDE DEF b
  <2>3. Len(r) - (n + 1) + 1 = Len(r) - n /\ \A k \in Nat : n + 1 + k - 1 = n + k
    BY <1>2, <2>1
  <2>4. Len(b) = Len(r) - n
    <3>1. n <= Len(r) /\ Len(r) \in Nat
      BY <1>2, <1>3
    <3>2. (IF n + 1 <= Len(r) THEN Len(r) - (n + 1) + 1 ELSE 0) = Len(r) - n
      BY <2>1, <3>1
    <3> QED
      BY <2>2, <3>2
  <2>5. ASSUME NEW k \in 1..(Len(r) - n) PROVE b[k] = r[n + k]
    <3>1. k \in Nat /\ k \in 1..(Len(r) - (n + 1) + 1)
      BY <2>3
    <3> QED
      BY <2>2, <2>3, <3>1
  <2> QED
    BY <2>2, <2>4, <2>5
<1> HIDE DEF a, b
<1>8. /\ at \in Seq(Refs) /\ Len(at) = n + 1
      /\ at[n + 1] = t
      /\ \A k \in 1..n : at[k] = r[k]
  <2>1. at = Append(a, t)
    BY <1>6
  <2> QED
    BY <1>2, <1>3, <1>6, <2>1, AppendProperties
<1> HIDE DEF at
<1>9. /\ s \in Seq(Refs)
      /\ Len(s) = Len(at) + Len(b)
      /\ \A j \in 1..(Len(at) + Len(b)) :
           s[j] = IF j <= Len(at) THEN at[j] ELSE b[j - Len(at)]
  BY <1>7, <1>8, ConcatProperties
<1> HIDE DEF s
<1>10. Len(s) = Len(r) + 1 /\ DOMAIN s = 1..(Len(r) + 1)
  BY <1>2, <1>3, <1>7, <1>8, <1>9
(* s[j] is r[j] up to n, then t, then r[j - 1]. *)
<1>11. ASSUME NEW j \in 1..(Len(r) + 1)
       PROVE  /\ j <= n => s[j] = r[j]
              /\ j = n + 1 => s[j] = t
              /\ j > n + 1 => s[j] = r[j - 1]
  <2>1. j \in 1..(Len(at) + Len(b)) /\ j \in Nat /\ n \in Nat
    BY <1>2, <1>3, <1>7, <1>8
  <2>2. ASSUME j <= n PROVE s[j] = r[j]
    <3>1. j <= Len(at) /\ j \in 1..n
      BY <1>8, <2>1, <2>2
    <3> QED
      BY <1>8, <1>9, <2>1, <3>1
  <2>3. ASSUME j = n + 1 PROVE s[j] = t
    BY <1>8, <1>9, <2>1, <2>3
  <2>4. ASSUME j > n + 1 PROVE s[j] = r[j - 1]
    <3>1. ~(j <= Len(at)) /\ j - Len(at) = j - n - 1
      BY <1>8, <2>1, <2>4
    <3>2. j - n - 1 \in 1..(Len(r) - n) /\ n + (j - n - 1) = j - 1
      BY <1>2, <1>3, <2>1, <2>4
    <3>3. s[j] = b[j - n - 1]
      BY <1>9, <2>1, <3>1
    <3>4. b[j - n - 1] = r[n + (j - n - 1)]
      BY <1>7, <3>2
    <3> QED
      BY <3>2, <3>3, <3>4
  <2> QED
    BY <2>2, <2>3, <2>4
<1> QED
  BY <1>5, <1>9, <1>10, <1>11 DEF Placed

(* A list with t put somewhere holds it once, and the others as before.     *)
LEMMA PlacedOnce ==
  ASSUME NEW r \in Seq(Refs), NEW s \in Seq(Refs), NEW t \in Refs, NEW n \in 0..Len(r),
         IsInjective(r), t \notin ToSet(r), Len(s) = Len(r) + 1, Placed(s, r, n, t)
  PROVE  IsInjective(s) /\ ToSet(s) = ToSet(r) \cup {t}
<1>1. IsInjective(r) /\ t \notin ToSet(r)
  OBVIOUS
<1>2. Len(r) \in Nat /\ DOMAIN r = 1..Len(r) /\ \A k \in 1..Len(r) : r[k] \in Refs
  OBVIOUS
<1>3. n \in 0..Len(r)
  OBVIOUS
<1>10. DOMAIN s = 1..(Len(r) + 1)
  OBVIOUS
<1>11. \A j \in 1..(Len(r) + 1) : /\ j <= n => s[j] = r[j]
                                  /\ j = n + 1 => s[j] = t
                                  /\ j > n + 1 => s[j] = r[j - 1]
  BY DEF Placed
<1>12. ASSUME NEW j \in 1..(Len(r) + 1), j # n + 1
       PROVE  /\ s[j] = r[IF j <= n THEN j ELSE j - 1]
              /\ (IF j <= n THEN j ELSE j - 1) \in 1..Len(r)
              /\ s[j] # t
  <2> DEFINE J == IF j <= n THEN j ELSE j - 1
  <2>1. J \in 1..Len(r) /\ (j <= n \/ j > n + 1)
    BY <1>2, <1>3, <1>12
  <2>2. s[j] = r[J]
    BY <1>11, <2>1
  <2>3. r[J] \in ToSet(r)
    BY <1>2, <2>1 DEF ToSet
  <2> QED
    BY <1>1, <2>1, <2>2, <2>3
<1>13. IsInjective(s)
  <2> SUFFICES ASSUME NEW j \in 1..(Len(r) + 1), NEW k \in 1..(Len(r) + 1), s[j] = s[k]
               PROVE  j = k
    BY <1>10 DEF IsInjective
  <2>1. CASE j = n + 1 \/ k = n + 1
    BY <1>11, <1>12, <2>1
  <2>2. CASE j # n + 1 /\ k # n + 1
    <3> DEFINE J == IF j <= n THEN j ELSE j - 1
               K == IF k <= n THEN k ELSE k - 1
    <3>1. J \in DOMAIN r /\ K \in DOMAIN r /\ r[J] = r[K]
      BY <1>2, <1>12, <2>2
    <3>2. J = K
      BY <1>1, <3>1 DEF IsInjective
    <3> QED
      BY <1>2, <1>3, <2>2, <3>2
  <2> QED
    BY <2>1, <2>2
<1>14. t \in ToSet(s)
  <2>1. n + 1 \in 1..(Len(r) + 1)
    BY <1>2, <1>3
  <2> QED
    BY <1>10, <1>11, <2>1 DEF ToSet
<1>15. ASSUME NEW x \in ToSet(r), x # t PROVE x \in ToSet(s)
  <2>1. PICK k \in 1..Len(r) : x = r[k]
    BY <1>1, <1>2, <1>15 DEF ToSet
  <2>2. CASE k <= n
    <3>1. k \in 1..(Len(r) + 1)
      BY <1>2, <2>1
    <3> QED
      BY <1>10, <1>11, <2>1, <2>2, <3>1 DEF ToSet
  <2>3. CASE k > n
    <3>1. k + 1 \in 1..(Len(r) + 1) /\ k + 1 > n + 1 /\ (k + 1) - 1 = k
      BY <1>2, <1>3, <2>1, <2>3
    <3>2. s[k + 1] = r[k]
      BY <1>11, <3>1
    <3> QED
      BY <1>10, <2>1, <3>1, <3>2 DEF ToSet
  <2> QED
    BY <1>2, <1>3, <2>1, <2>2, <2>3
<1>16. ASSUME NEW x \in ToSet(s), x # t PROVE x \in ToSet(r)
  <2>1. PICK j \in 1..(Len(r) + 1) : x = s[j]
    BY <1>10, <1>16 DEF ToSet
  <2>2. j # n + 1
    BY <1>11, <1>16, <2>1
  <2> DEFINE J == IF j <= n THEN j ELSE j - 1
  <2>3. J \in DOMAIN r /\ x = r[J]
    BY <1>2, <1>12, <2>1, <2>2
  <2> QED
    BY <1>1, <2>3 DEF ToSet
<1> QED
  BY <1>13, <1>14, <1>15, <1>16

LEMMA InsertedIs ==
  ASSUME NEW q \in Seq(Refs), NEW t \in Refs, IsInjective(q)
  PROVE  /\ Inserted(q, t) \in Seq(Refs)
         /\ IsInjective(Inserted(q, t))
         /\ ToSet(Inserted(q, t)) = ToSet(q) \cup {t}
<1> DEFINE r == Unlinked(q, t)
           S == {i \in DOMAIN r : Priority[r[i]] <= Priority[t]}
           p == IF S = {} THEN Len(r) + 1 ELSE Min(S)
<1>1. r \in Seq(Refs) /\ IsInjective(r) /\ ToSet(r) = ToSet(q) \ {t}
  BY UnlinkedIs
<1>2. Inserted(q, t) = InsertAt(r, p, t)
  BY DEF Inserted
<1> HIDE DEF r
<1>3. Len(r) \in Nat /\ DOMAIN r = 1..Len(r)
  BY <1>1
<1>4. S \subseteq 1..Len(r)
  BY <1>3
<1> HIDE DEF S
<1>5. S \subseteq Nat
  BY <1>3, <1>4
<1>6. S # {} => Min(S) \in S
  BY <1>5, MinIs
<1>7. p \in 1..(Len(r) + 1)
  <2>1. CASE S = {}
    BY <1>3, <2>1
  <2>2. CASE S # {}
    <3>1. p = Min(S) /\ Min(S) \in 1..Len(r)
      BY <1>4, <1>6, <2>2
    <3> HIDE DEF p
    <3> QED
      BY <1>3, <3>1
  <2> QED
    BY <2>1, <2>2
<1> HIDE DEF p
<1>8. PICK n \in 0..Len(r) : p = n + 1
  <2>1. p - 1 \in 0..Len(r) /\ p = (p - 1) + 1
    BY <1>3, <1>7
  <2> QED
    BY <2>1
<1> DEFINE s == InsertAt(r, n + 1, t)
<1>9. s \in Seq(Refs) /\ Len(s) = Len(r) + 1 /\ Placed(s, r, n, t)
  BY <1>1, InsertAtIs
<1>10. Inserted(q, t) = s
  BY <1>2, <1>8
<1> HIDE DEF s
<1>11. IsInjective(s) /\ ToSet(s) = ToSet(r) \cup {t}
  BY <1>1, <1>9, PlacedOnce
<1> QED
  BY <1>1, <1>9, <1>10, <1>11

-----------------------------------------------------------------------------
(***************************************************************************)
(* The objects of a bank.                                                  *)
(***************************************************************************)
Objects == [ref : Refs, ver : 1 .. MaxSets, st : {"partial", "good", "deleted"}]

LEMMA GoodObjectsIs ==
  ASSUME NEW b, flash[b].objs \in Seq(Objects)
  PROVE  /\ GoodObjects(b) \subseteq 1..Len(flash[b].objs)
         /\ \A i \in 1..Len(flash[b].objs) : i \in GoodObjects(b) <=> flash[b].objs[i].st = "good"
         /\ \A i \in 1..Len(flash[b].objs) :
              /\ flash[b].objs[i] \in Objects
              /\ flash[b].objs[i].ref \in Refs /\ flash[b].objs[i].ver \in 1..MaxSets
<1>1. DOMAIN flash[b].objs = 1..Len(flash[b].objs)
  OBVIOUS
<1>2. \A i \in 1..Len(flash[b].objs) : flash[b].objs[i] \in Objects
  OBVIOUS
<1>3. \A x \in Objects : x.ref \in Refs /\ x.ver \in 1..MaxSets
  BY DEF Objects
<1> QED
  BY <1>1, <1>2, <1>3 DEF GoodObjects

(* The recursive function of Restored, up to the object at place n.        *)
Found1(l, b, i) == IF i \in GoodObjects(b) THEN Inserted(l, flash[b].objs[i].ref) ELSE l

Grown(f, b, n) == f = [i \in 0..n |-> IF i = 0 THEN <<>> ELSE Found1(f[i - 1], b, i)]

LEMMA GrownStep ==
  ASSUME NEW b, NEW n \in Nat, NEW f, Grown(f, b, n)
  PROVE  \E g : Grown(g, b, n + 1)
<1> DEFINE g == [i \in 0..(n + 1) |-> IF i <= n THEN f[i] ELSE Found1(f[i - 1], b, i)]
<1>1. \A i \in 0..n : g[i] = f[i]
  OBVIOUS
<1>2. \A i \in 0..n : f[i] = IF i = 0 THEN <<>> ELSE Found1(f[i - 1], b, i)
  BY DEF Grown
<1>3. \A i \in 0..(n + 1) : g[i] = IF i = 0 THEN <<>> ELSE Found1(g[i - 1], b, i)
  <2> TAKE i \in 0..(n + 1)
  <2>1. CASE i = 0
    BY <2>1, <1>1, <1>2
  <2>2. CASE i # 0 /\ i <= n
    <3>1. g[i] = f[i] /\ g[i - 1] = f[i - 1]
      BY <2>2, <1>1
    <3> HIDE DEF g
    <3> QED
      BY <2>2, <1>2, <3>1
  <2>3. CASE i = n + 1
    <3>1. g[i] = Found1(f[i - 1], b, i)
      BY <2>3
    <3>2. g[i - 1] = f[i - 1]
      BY <2>3
    <3> HIDE DEF g
    <3> QED
      BY <2>3, <3>1, <3>2
  <2> QED
    BY <2>1, <2>2, <2>3
<1>4. g = [i \in 0..(n + 1) |-> g[i]]
  OBVIOUS
<1> HIDE DEF g
<1>5. Grown(g, b, n + 1)
  BY <1>3, <1>4 DEF Grown
<1> QED
  BY <1>5

LEMMA GrownExists ==
  ASSUME NEW b, NEW m \in Nat
  PROVE  \E f : Grown(f, b, m)
<1> DEFINE T == {n \in Nat : \E f : Grown(f, b, n)}
<1>1. 0 \in T
  <2> DEFINE f == [i \in 0..0 |-> <<>>]
  <2>1. Grown(f, b, 0)
    BY DEF Grown
  <2> HIDE DEF f
  <2> QED
    BY <2>1
<1>2. \A n \in Nat : n \in T => n + 1 \in T
  BY GrownStep
<1> HIDE DEF T
<1>3. Nat \subseteq T
  BY <1>1, <1>2, NatSetInduction
<1> QED
  BY <1>3 DEF T

LEMMA RestoredGrown ==
  ASSUME NEW b, NEW m \in Nat, m = Len(flash[b].objs)
  PROVE  \E f : Grown(f, b, m) /\ Restored(b) = f[m]
<1>1. PICK f : Grown(f, b, m)
  BY GrownExists
<1> DEFINE F == CHOOSE g : Grown(g, b, m)
<1>2. Grown(F, b, m)
  BY <1>1
<1>3. Restored(b) = F[m]
  BY DEF Restored, Grown, Found1
<1> HIDE DEF F
<1> QED
  BY <1>2, <1>3

(* Initialize links each reference with a good object once, and no other.  *)
LEMMA RestoredIs ==
  ASSUME NEW b, flash[b].objs \in Seq(Objects)
  PROVE  /\ Restored(b) \in Seq(Refs)
         /\ IsInjective(Restored(b))
         /\ ToSet(Restored(b)) = {flash[b].objs[i].ref : i \in GoodObjects(b)}
<1> DEFINE m == Len(flash[b].objs)
           Found(n) == {flash[b].objs[i].ref : i \in GoodObjects(b) \cap 1..n}
           Right(l, n) == l \in Seq(Refs) /\ IsInjective(l) /\ ToSet(l) = Found(n)
<1>1. m \in Nat
  OBVIOUS
<1>2. PICK f : Grown(f, b, m) /\ Restored(b) = f[m]
  BY <1>1, RestoredGrown
<1>3. \A i \in 0..m : f[i] = IF i = 0 THEN <<>> ELSE Found1(f[i - 1], b, i)
  BY <1>2 DEF Grown
<1> DEFINE T == {n \in Nat : n <= m => Right(f[n], n)}
<1>4. GoodObjects(b) \subseteq 1..m /\ \A i \in 1..m : flash[b].objs[i].ref \in Refs
  BY GoodObjectsIs
<1> HIDE DEF m
<1>5. 0 \in T
  <2>1. f[0] = <<>>
    BY <1>1, <1>3
  <2>2. Found(0) = {}
    OBVIOUS
  <2>3. <<>> \in Seq(Refs) /\ IsInjective(<<>>) /\ ToSet(<<>>) = {}
    BY DEF IsInjective, ToSet
  <2> QED
    BY <2>1, <2>2, <2>3
<1>6. ASSUME NEW n \in Nat, n \in T PROVE n + 1 \in T
  <2> SUFFICES ASSUME n + 1 <= m PROVE Right(f[n + 1], n + 1)
    OBVIOUS
  <2>1. Right(f[n], n)
    BY <1>1, <1>6
  <2>2. n + 1 \in 1..m /\ (n + 1) - 1 = n /\ n + 1 # 0
    BY <1>1
  <2>3. f[n + 1] = Found1(f[n], b, n + 1)
    BY <1>1, <1>3, <2>2
  <2>4. CASE n + 1 \in GoodObjects(b)
    <3> DEFINE x == flash[b].objs[n + 1].ref
    <3>1. x \in Refs
      BY <1>4, <2>2
    <3>2. f[n + 1] = Inserted(f[n], x)
      BY <2>3, <2>4 DEF Found1
    <3>3. GoodObjects(b) \cap 1..(n + 1) = (GoodObjects(b) \cap 1..n) \cup {n + 1}
      BY <1>1, <1>4, <2>2, <2>4
    <3>4. Found(n + 1) = Found(n) \cup {x}
      BY <3>3
    <3> HIDE DEF x, Found
    <3>5. /\ Inserted(f[n], x) \in Seq(Refs) /\ IsInjective(Inserted(f[n], x))
          /\ ToSet(Inserted(f[n], x)) = ToSet(f[n]) \cup {x}
      BY <2>1, <3>1, InsertedIs
    <3> QED
      BY <2>1, <3>2, <3>4, <3>5
  <2>5. CASE n + 1 \notin GoodObjects(b)
    <3>1. f[n + 1] = f[n]
      BY <2>3, <2>5 DEF Found1
    <3>2. GoodObjects(b) \cap 1..(n + 1) = GoodObjects(b) \cap 1..n
      BY <1>1, <1>4, <2>2, <2>5
    <3>3. Found(n + 1) = Found(n)
      BY <3>2
    <3> HIDE DEF Found
    <3> QED
      BY <2>1, <3>1, <3>3
  <2> QED
    BY <2>4, <2>5
<1> HIDE DEF T
<1>7. Nat \subseteq T
  BY <1>5, <1>6, NatSetInduction
<1>8. m \in T
  BY <1>1, <1>7
<1>9. Right(f[m], m)
  BY <1>1, <1>8 DEF T
<1>10. GoodObjects(b) \cap 1..m = GoodObjects(b)
  BY <1>4
<1> QED
  BY <1>2, <1>9, <1>10

(* No reference has two good objects in s.                                 *)
OneGood(s) ==
  \A i, j \in 1..Len(s) :
    s[i].st = "good" /\ s[j].st = "good" /\ s[i].ref = s[j].ref => i = j

(* The good objects of s are those of the references in P, with the        *)
(* versions T.                                                             *)
Stores(s, P, T) ==
  /\ \A i \in 1..Len(s) : s[i].st = "good" => s[i].ref \in P /\ s[i].ver = T[s[i].ref]
  /\ \A r \in P : \E i \in 1..Len(s) : s[i].st = "good" /\ s[i].ref = r

(* The last object of s is the one of r with version v, not completed.     *)
Begun(s, r, v) == Len(s) > 0 /\ s[Len(s)] = Object(r, v)

(* What Append1, Marked and Deleted do to the objects of their bank.       *)
Ended(s, x) == [s EXCEPT ![Len(s)].st = x]

Purged(s, r) ==
  [i \in DOMAIN s |->
     IF s[i].ref = r /\ s[i].st = "good" THEN [s[i] EXCEPT !.st = "deleted"] ELSE s[i]]

LEMMA AppendIs ==
  ASSUME NEW s \in Seq(Objects), NEW r \in Refs, NEW v \in 1..MaxSets
  PROVE  /\ Append(s, Object(r, v)) \in Seq(Objects)
         /\ Len(Append(s, Object(r, v))) = Len(s) + 1
         /\ \A i \in 1..Len(s) : Append(s, Object(r, v))[i] = s[i]
         /\ Append(s, Object(r, v))[Len(s) + 1] = Object(r, v)
         /\ Object(r, v).st = "partial"
         /\ Begun(Append(s, Object(r, v)), r, v)
<1> DEFINE o == Object(r, v)
<1>1. o \in Objects /\ o.st = "partial"
  BY DEF Object, Objects
<1> HIDE DEF o
<1>2. /\ Append(s, o) \in Seq(Objects)
      /\ Len(Append(s, o)) = Len(s) + 1
      /\ \A i \in 1..Len(s) : Append(s, o)[i] = s[i]
      /\ Append(s, o)[Len(s) + 1] = o
  BY <1>1, AppendProperties
<1>3. Len(s) + 1 > 0
  OBVIOUS
<1> QED
  BY <1>1, <1>2, <1>3 DEF Begun, o

LEMMA AppendStores ==
  ASSUME NEW s \in Seq(Objects), NEW r \in Refs, NEW v \in 1..MaxSets, NEW P, NEW T
  PROVE  /\ OneGood(s) => OneGood(Append(s, Object(r, v)))
         /\ Stores(s, P, T) => Stores(Append(s, Object(r, v)), P, T)
<1> DEFINE t == Append(s, Object(r, v))
<1>1. /\ Len(t) = Len(s) + 1
      /\ \A i \in 1..Len(s) : t[i] = s[i]
      /\ t[Len(s) + 1].st = "partial"
  BY AppendIs
<1> HIDE DEF t
<1>2. Len(s) \in Nat
  OBVIOUS
<1>3. \A i \in 1..Len(t) : t[i].st = "good" => i \in 1..Len(s) /\ t[i] = s[i]
  BY <1>1, <1>2
<1>4. \A i \in 1..Len(s) : i \in 1..Len(t)
  BY <1>1, <1>2
<1>5. OneGood(s) => OneGood(t)
  BY <1>3 DEF OneGood
<1>6. Stores(s, P, T) => Stores(t, P, T)
  BY <1>1, <1>3, <1>4 DEF Stores
<1> QED
  BY <1>5, <1>6 DEF t

LEMMA EndedIs ==
  ASSUME NEW s \in Seq(Objects), Len(s) > 0, NEW x \in {"partial", "good", "deleted"}
  PROVE  /\ Ended(s, x) \in Seq(Objects)
         /\ Len(Ended(s, x)) = Len(s)
         /\ \A i \in 1..Len(s) : i # Len(s) => Ended(s, x)[i] = s[i]
         /\ Ended(s, x)[Len(s)] = [s[Len(s)] EXCEPT !.st = x]
         /\ Ended(s, x)[Len(s)].st = x
         /\ Ended(s, x)[Len(s)].ref = s[Len(s)].ref
         /\ Ended(s, x)[Len(s)].ver = s[Len(s)].ver
<1> DEFINE n == Len(s)
           o == [s[n] EXCEPT !.st = x]
<1>1. n \in 1..n /\ n \in Nat /\ DOMAIN s = 1..n
  OBVIOUS
<1>2. s[n] \in Objects
  BY <1>1
<1>3. o \in Objects /\ o.st = x /\ o.ref = s[n].ref /\ o.ver = s[n].ver
  BY <1>2 DEF Objects
<1>4. Ended(s, x) = [s EXCEPT ![n] = o]
  BY DEF Ended
<1> HIDE DEF o
<1>5. /\ [s EXCEPT ![n] = o] \in Seq(Objects)
      /\ Len([s EXCEPT ![n] = o]) = Len(s)
      /\ \A i \in 1..n : i # n => [s EXCEPT ![n] = o][i] = s[i]
      /\ [s EXCEPT ![n] = o][n] = o
  <2>1. [s EXCEPT ![n] = o] = [i \in 1..n |-> IF i = n THEN o ELSE s[i]]
    BY <1>1
  <2> DEFINE e == [i \in 1..n |-> IF i = n THEN o ELSE s[i]]
  <2>2. e \in [1..n -> Objects]
    BY <1>1, <1>3
  <2>3. e[n] = o /\ \A i \in 1..n : i # n => e[i] = s[i]
    BY <1>1
  <2> HIDE DEF e, n
  <2>4. e \in Seq(Objects) /\ Len(e) = n
    BY <1>1, <2>2
  <2> QED
    BY <2>1, <2>3, <2>4 DEF e, n
<1> QED
  BY <1>3, <1>4, <1>5 DEF o

(* The last burst: the object counts from now on.                          *)
LEMMA CompletedStores ==
  ASSUME NEW s \in Seq(Objects), NEW P, NEW T, NEW r \in Refs, r \notin P,
         Begun(s, r, T[r]), OneGood(s), Stores(s, P, T)
  PROVE  OneGood(Ended(s, "good")) /\ Stores(Ended(s, "good"), P \cup {r}, T)
<1> DEFINE t == Ended(s, "good")
           n == Len(s)
<1>1. Len(s) > 0 /\ n \in Nat /\ n \in 1..n
  BY DEF Begun
<1>2. s[n].ref = r /\ s[n].ver = T[r] /\ s[n].st = "partial"
  BY DEF Begun, Object
<1>3. /\ Len(t) = n /\ \A i \in 1..n : i # n => t[i] = s[i]
      /\ t[n].st = "good" /\ t[n].ref = r /\ t[n].ver = T[r]
  BY <1>1, <1>2, EndedIs
<1> HIDE DEF t, n
<1>4. \A i \in 1..n : s[i].st = "good" => s[i].ref \in P /\ s[i].ver = T[s[i].ref] /\ i # n
  BY <1>2 DEF Stores, n
<1>5. \A i \in 1..n : t[i].st = "good" => i = n \/ (s[i].st = "good" /\ t[i] = s[i])
  BY <1>3
<1>6. OneGood(t)
  BY <1>3, <1>4, <1>5 DEF OneGood, n
<1>7. ASSUME NEW q \in P \cup {r} PROVE \E i \in 1..n : t[i].st = "good" /\ t[i].ref = q
  <2>1. CASE q = r
    BY <1>1, <1>3, <2>1
  <2>2. CASE q \in P
    <3>1. PICK i \in 1..n : s[i].st = "good" /\ s[i].ref = q
      BY <2>2 DEF Stores, n
    <3> QED
      BY <1>3, <1>4, <3>1
  <2> QED
    BY <2>1, <2>2
<1>8. Stores(t, P \cup {r}, T)
  BY <1>3, <1>4, <1>5, <1>7 DEF Stores
<1> QED
  BY <1>6, <1>8 DEF t

(* An object given up was not counted before.                              *)
LEMMA GivenUpStores ==
  ASSUME NEW s \in Seq(Objects), NEW P, NEW T, Len(s) > 0, s[Len(s)].st = "partial"
  PROVE  /\ OneGood(s) => OneGood(Ended(s, "deleted"))
         /\ Stores(s, P, T) => Stores(Ended(s, "deleted"), P, T)
<1> DEFINE t == Ended(s, "deleted")
           n == Len(s)
<1>1. n \in Nat /\ n \in 1..n
  OBVIOUS
<1>2. Len(t) = n /\ t[n].st = "deleted" /\ \A i \in 1..n : i # n => t[i] = s[i]
  BY EndedIs
<1> HIDE DEF t
<1>3. \A i \in 1..n : t[i].st = "good" => s[i].st = "good" /\ t[i] = s[i]
  BY <1>2
<1>4. \A i \in 1..n : s[i].st = "good" => i # n /\ t[i] = s[i]
  BY <1>2
<1>5. OneGood(s) => OneGood(t)
  BY <1>2, <1>3 DEF OneGood
<1>6. Stores(s, P, T) => Stores(t, P, T)
  BY <1>2, <1>3, <1>4 DEF Stores
<1> QED
  BY <1>5, <1>6 DEF t

LEMMA PurgedIs ==
  ASSUME NEW s \in Seq(Objects), NEW r
  PROVE  /\ Purged(s, r) \in Seq(Objects)
         /\ Len(Purged(s, r)) = Len(s)
         /\ \A i \in 1..Len(s) :
              /\ s[i].st # "good" => Purged(s, r)[i] = s[i]
              /\ s[i].ref # r => Purged(s, r)[i] = s[i]
              /\ Purged(s, r)[i].st = "good" => s[i].st = "good" /\ s[i].ref # r
<1> DEFINE t == Purged(s, r)
           e(i) == [s[i] EXCEPT !.st = "deleted"]
<1>1. DOMAIN s = 1..Len(s) /\ Len(s) \in Nat
  OBVIOUS
<1>2. ASSUME NEW i \in 1..Len(s) PROVE e(i) \in Objects /\ e(i).st = "deleted" /\ s[i] \in Objects
  <2>1. s[i] \in Objects
    OBVIOUS
  <2> QED
    BY <2>1 DEF Objects
<1>3. t = [i \in 1..Len(s) |-> IF s[i].ref = r /\ s[i].st = "good" THEN e(i) ELSE s[i]]
  BY <1>1 DEF Purged
<1> HIDE DEF t, e
<1>4. t \in [1..Len(s) -> Objects]
  BY <1>2, <1>3
<1>5. t \in Seq(Objects) /\ Len(t) = Len(s)
  BY <1>1, <1>4
<1>6. ASSUME NEW i \in 1..Len(s)
      PROVE  /\ s[i].st # "good" => t[i] = s[i]
             /\ s[i].ref # r => t[i] = s[i]
             /\ t[i].st = "good" => s[i].st = "good" /\ s[i].ref # r
  <2>1. t[i] = IF s[i].ref = r /\ s[i].st = "good" THEN e(i) ELSE s[i]
    BY <1>3
  <2> QED
    BY <1>2, <2>1
<1> QED
  BY <1>5, <1>6 DEF t

(* Deleting the object of r leaves the others; what T says of r does not   *)
(* matter any more.                                                        *)
LEMMA PurgedStores ==
  ASSUME NEW s \in Seq(Objects), NEW r, NEW P, NEW T, NEW U
  PROVE  /\ OneGood(s) => OneGood(Purged(s, r))
         /\ Stores(s, P, T) /\ (\A q \in P \ {r} : U[q] = T[q])
              => Stores(Purged(s, r), P \ {r}, U)
<1> DEFINE t == Purged(s, r)
<1>1. /\ Len(t) = Len(s)
      /\ \A i \in 1..Len(s) : s[i].ref # r => t[i] = s[i]
      /\ \A i \in 1..Len(s) : t[i].st = "good" => s[i].st = "good" /\ s[i].ref # r
  BY PurgedIs
<1> HIDE DEF t
<1>2. OneGood(s) => OneGood(t)
  BY <1>1 DEF OneGood
<1>3. ASSUME Stores(s, P, T), \A q \in P \ {r} : U[q] = T[q]
      PROVE  Stores(t, P \ {r}, U)
  <2>1. ASSUME NEW i \in 1..Len(t), t[i].st = "good"
        PROVE  t[i].ref \in P \ {r} /\ t[i].ver = U[t[i].ref]
    <3>1. i \in 1..Len(s) /\ t[i] = s[i] /\ s[i].st = "good" /\ s[i].ref # r
      BY <1>1, <2>1
    <3>2. s[i].ref \in P /\ s[i].ver = T[s[i].ref]
      BY <1>3, <3>1 DEF Stores
    <3> QED
      BY <1>3, <3>1, <3>2
  <2>2. ASSUME NEW q \in P \ {r} PROVE \E i \in 1..Len(t) : t[i].st = "good" /\ t[i].ref = q
    <3>1. PICK i \in 1..Len(s) : s[i].st = "good" /\ s[i].ref = q
      BY <1>3 DEF Stores
    <3> QED
      BY <1>1, <3>1
  <2> QED
    BY <2>1, <2>2 DEF Stores
<1> QED
  BY <1>2, <1>3 DEF t

(* A reference that is not stored may get any target.                      *)
LEMMA SameStores ==
  ASSUME NEW s, NEW P, NEW T, NEW U, Stores(s, P, T), \A q \in P : U[q] = T[q]
  PROVE  Stores(s, P, U)
BY DEF Stores

LEMMA NothingStored ==
  ASSUME NEW T
  PROVE  OneGood(<<>>) /\ Stores(<<>>, {}, T) /\ <<>> \in Seq(Objects) /\ Len(<<>>) = 0
BY DEF OneGood, Stores

(* The same on the banks.                                                  *)
Flash == [Banks -> [seq : NoHeader .. ErasedSeq, objs : Seq(Objects)]]

(* Bank b of f with the objects s.                                         *)
Put(f, b, s) == [f EXCEPT ![b].objs = s]

LEMMA BankIs ==
  ASSUME NEW f \in Flash, NEW b \in Banks, NEW s \in Seq(Objects)
  PROVE  /\ Put(f, b, s) \in Flash
         /\ Put(f, b, s)[b].objs = s
         /\ \A c \in Banks : Put(f, b, s)[c].seq = f[c].seq
         /\ \A c \in Banks : c # b => Put(f, b, s)[c] = f[c]
BY DEF Flash, Put

LEMMA ChangesAre ==
  ASSUME NEW f \in Flash, NEW b \in Banks, NEW r, NEW x
  PROVE  /\ Marked(f, b, x) = Put(f, b, Ended(f[b].objs, x))
         /\ Deleted(f, b, r) = Put(f, b, Purged(f[b].objs, r))
BY DEF Marked, Deleted, Ended, Purged, Flash, Put

-----------------------------------------------------------------------------
(***************************************************************************)
(* The inductive invariant.                                                *)
(***************************************************************************)
Statuses == {"Off", "Formatted", "FlushNextObject", "Idle", "Erase",
             "EraseSector", "CopyToOtherBank", "CopyBackToRam", "SwitchBank"}

FlashTyped ==
  /\ flash \in Flash
  /\ \A b \in Banks : Len(flash[b].objs) <= Capacity /\ OneGood(flash[b].objs)

RamTyped ==
  /\ live \in Banks /\ state \in Statuses
  /\ pending \in Refs \cup {NoRef} /\ left \in 0..Bursts
  /\ list \in Seq(Refs) /\ IsInjective(list)
  /\ target \in [Refs -> 0..MaxSets]
  /\ \A r \in Refs : target[r] # 0 => r \in ToSet(list)
  /\ persisted \subseteq Refs /\ copied \subseteq Refs
  /\ forced \in 0..4 /\ clock \in 0..MaxSets
  /\ restarts \in 0..MaxRestarts /\ faults \in 0..MaxFaults

(* The bank in use holds what WR_Persisted says.                           *)
LiveStores == Running => Stores(flash[live].objs, persisted, target)

Copying == state \in {"CopyToOtherBank", "CopyBackToRam", "SwitchBank"}

(* The copy holds what m_targetCopied says, and only what is persisted;    *)
(* when the banks are switched it holds all of that.                       *)
SpareStores ==
  /\ Copying => Stores(flash[Spare].objs, copied, target) /\ copied \subseteq persisted
  /\ state = "SwitchBank" => persisted \subseteq copied
  /\ state = "EraseSector" => copied = {}

(* The pending object is the last of its bank, with what is wanted now.    *)
PendingBegun ==
  /\ state \in {"Idle", "EraseSector", "CopyBackToRam", "SwitchBank"} => pending = NoRef
  /\ pending # NoRef /\ state = "FlushNextObject" =>
       /\ left > 0 /\ pending \notin persisted /\ target[pending] # 0
       /\ Begun(flash[live].objs, pending, target[pending])
  /\ pending # NoRef /\ state = "CopyToOtherBank" =>
       /\ left > 0 /\ pending \in persisted \ copied
       /\ Begun(flash[Spare].objs, pending, target[pending])

WhenOff ==
  /\ ~Running => /\ pending = NoRef /\ persisted = {} /\ copied = {} /\ forced = 0
                 /\ target = [r \in Refs |-> 0]
  /\ state = "Formatted" => live = 1 /\ flash[1] = Formatted /\ ~GoodBank(2)

Content == LiveStores /\ SpareStores /\ PendingBegun /\ WhenOff

Typed == FlashTyped /\ RamTyped

LEMMA BanksAre ==
  ASSUME live \in Banks
  PROVE  /\ Spare \in Banks /\ Spare # live
         /\ \A c \in Banks : c = live \/ c = Spare
         /\ live = Other(Spare)
BY DEF Banks, Spare, Other

LEMMA TypedMeans == Typed => TypeOK
<1> SUFFICES ASSUME Typed PROVE TypeOK
  OBVIOUS
<1>1. ASSUME NEW b \in Banks
      PROVE  /\ flash[b].seq \in NoHeader .. ErasedSeq
             /\ flash[b].objs \in Seq(Objects)
             /\ Len(flash[b].objs) <= Capacity
  BY DEF Typed, FlashTyped, Flash
<1>2. {r \in Refs : target[r] # 0} \subseteq ToSet(list)
  BY DEF Typed, RamTyped
<1> QED
  BY <1>1, <1>2 DEF Typed, RamTyped, TypeOK, Statuses, Objects

LEMMA InitTyped == Init => Typed /\ Content
<1> SUFFICES ASSUME Init PROVE Typed /\ Content
  OBVIOUS
<1>1. NoHeader \in NoHeader .. ErasedSeq
  BY PersistenceAssumption DEF NoHeader
<1>2. Erased.objs = <<>> /\ Erased.seq = NoHeader
  BY DEF Erased
<1>3. flash \in Flash
  BY <1>1, NothingStored DEF Init, Flash, Erased
<1>4. \A b \in Banks : flash[b].objs = <<>>
  BY <1>2 DEF Init
<1>5. FlashTyped
  BY <1>3, <1>4, NothingStored, PersistenceAssumption DEF FlashTyped
<1>6. <<>> \in Seq(Refs) /\ IsInjective(<<>>)
  BY DEF IsInjective
<1>7. RamTyped
  BY <1>6, PersistenceAssumption DEF Init, RamTyped, Statuses, Banks
<1>8. Content
  BY DEF Init, Content, LiveStores, SpareStores, PendingBegun, WhenOff, Running, Copying
<1> QED
  BY <1>5, <1>7, <1>8 DEF Typed

-----------------------------------------------------------------------------
(***************************************************************************)
(* The bursts.                                                             *)
(***************************************************************************)
(* f is well formed, bank b holds P in it, the other bank is as before.    *)
Sound(f, b, P) ==
  /\ f \in Flash
  /\ \A c \in Banks : Len(f[c].objs) <= Capacity /\ OneGood(f[c].objs)
  /\ \A c \in Banks : f[c].seq = flash[c].seq
  /\ \A c \in Banks : c # b => f[c] = flash[c]
  /\ Stores(f[b].objs, P, target)

Ready(f, b, P, r) == Sound(f, b, P) /\ Begun(f[b].objs, r, target[r])

LEMMA SoundWith ==
  ASSUME NEW f, NEW b \in Banks, NEW P, NEW Q, Sound(f, b, P), NEW s \in Seq(Objects),
         Len(s) <= Capacity, OneGood(s), Stores(s, Q, target)
  PROVE  Sound(Put(f, b, s), b, Q) /\ Put(f, b, s)[b].objs = s
<1> DEFINE g == Put(f, b, s)
<1>1. f \in Flash
  BY DEF Sound
<1>2. /\ g \in Flash /\ g[b].objs = s
      /\ \A c \in Banks : g[c].seq = f[c].seq
      /\ \A c \in Banks : c # b => g[c] = f[c]
  BY <1>1, BankIs
<1> HIDE DEF g
<1>3. Sound(g, b, Q)
  BY <1>2 DEF Sound
<1> QED
  BY <1>2, <1>3 DEF g

LEMMA FlashSound ==
  ASSUME FlashTyped, NEW b \in Banks, NEW P, Stores(flash[b].objs, P, target)
  PROVE  Sound(flash, b, P)
BY DEF FlashTyped, Sound

LEMMA BurstReady ==
  ASSUME FlashTyped, NEW b \in Banks, NEW P, Stores(flash[b].objs, P, target), Room(b),
         NEW r \in Refs, target[r] \in 1..MaxSets
  PROVE  Ready(Append1(b, r), b, P, r)
<1> DEFINE s == Append(flash[b].objs, Object(r, target[r]))
<1>1. Append1(b, r) = Put(flash, b, s)
  BY DEF Append1, FlashTyped, Flash, Put
<1>2. flash[b].objs \in Seq(Objects) /\ Len(flash[b].objs) \in Nat /\ OneGood(flash[b].objs)
  BY DEF FlashTyped, Flash
<1>3. s \in Seq(Objects) /\ Len(s) = Len(flash[b].objs) + 1 /\ Begun(s, r, target[r])
  BY <1>2, AppendIs
<1>4. OneGood(s) /\ Stores(s, P, target)
  BY <1>2, AppendStores
<1>5. Len(s) <= Capacity
  BY <1>2, <1>3, PersistenceAssumption DEF Room
<1> HIDE DEF s
<1>6. Sound(flash, b, P)
  BY FlashSound
<1>7. Sound(Put(flash, b, s), b, P) /\ Put(flash, b, s)[b].objs = s
  BY <1>3, <1>4, <1>5, <1>6, SoundWith
<1> QED
  BY <1>1, <1>3, <1>7 DEF Ready

LEMMA ReadyEnds ==
  ASSUME NEW f, NEW b \in Banks, NEW P, NEW r \in Refs, Ready(f, b, P, r)
  PROVE  /\ r \notin P => Sound(Marked(f, b, "good"), b, P \cup {r})
         /\ Sound(Marked(f, b, "deleted"), b, P)
<1> DEFINE s == f[b].objs
<1>1. /\ f \in Flash /\ Sound(f, b, P) /\ Begun(s, r, target[r])
      /\ Len(s) <= Capacity /\ OneGood(s) /\ Stores(s, P, target)
  BY DEF Ready, Sound
<1>2. s \in Seq(Objects)
  BY <1>1 DEF Flash
<1>3. Len(s) > 0 /\ s[Len(s)].st = "partial"
  BY <1>1 DEF Begun, Object
<1>4. /\ Marked(f, b, "good") = Put(f, b, Ended(s, "good"))
      /\ Marked(f, b, "deleted") = Put(f, b, Ended(s, "deleted"))
  BY <1>1, ChangesAre
<1> HIDE DEF s
<1>5. /\ Ended(s, "good") \in Seq(Objects) /\ Len(Ended(s, "good")) = Len(s)
      /\ Ended(s, "deleted") \in Seq(Objects) /\ Len(Ended(s, "deleted")) = Len(s)
  BY <1>2, <1>3, EndedIs
<1>6. ASSUME r \notin P PROVE Sound(Marked(f, b, "good"), b, P \cup {r})
  <2>1. OneGood(Ended(s, "good")) /\ Stores(Ended(s, "good"), P \cup {r}, target)
    BY <1>1, <1>2, <1>6, CompletedStores
  <2> QED
    BY <1>1, <1>4, <1>5, <2>1, SoundWith
<1>7. Sound(Marked(f, b, "deleted"), b, P)
  <2>1. OneGood(Ended(s, "deleted")) /\ Stores(Ended(s, "deleted"), P, target)
    BY <1>1, <1>2, <1>3, GivenUpStores
  <2> QED
    BY <1>1, <1>4, <1>5, <2>1, SoundWith
<1> QED
  BY <1>6, <1>7

(* What a burst leaves, whether it is the last, another or a failed one.   *)
LEMMA BurstLeaves ==
  ASSUME NEW f, NEW b \in Banks, NEW P, NEW r \in Refs, Ready(f, b, P, r), r \notin P,
         NEW n \in 1..Bursts
  PROVE  /\ BurstWritten(b, f, r, n) /\ n = 1 =>
              Sound(flash', b, P \cup {r}) /\ pending' = NoRef /\ left' = 0
         /\ BurstWritten(b, f, r, n) /\ n # 1 =>
              Ready(flash', b, P, r) /\ pending' = r /\ left' \in 1..Bursts
         /\ BurstFailed(b, f) =>
              Sound(flash', b, P) /\ pending' = NoRef /\ left' = 0
<1>1. n # 1 => n - 1 \in 1..Bursts
  BY PersistenceAssumption
<1>2. /\ Sound(Marked(f, b, "good"), b, P \cup {r})
      /\ Sound(Marked(f, b, "deleted"), b, P)
  BY ReadyEnds
<1>3. ASSUME BurstWritten(b, f, r, n), n = 1
      PROVE  Sound(flash', b, P \cup {r}) /\ pending' = NoRef /\ left' = 0
  BY <1>2, <1>3 DEF BurstWritten
<1>4. ASSUME BurstWritten(b, f, r, n), n # 1
      PROVE  Ready(flash', b, P, r) /\ pending' = r /\ left' \in 1..Bursts
  <2>1. flash' = f /\ pending' = r /\ left' = n - 1
    BY <1>4 DEF BurstWritten
  <2> QED
    BY <1>1, <1>4, <2>1
<1>5. ASSUME BurstFailed(b, f)
      PROVE  Sound(flash', b, P) /\ pending' = NoRef /\ left' = 0
  BY <1>2, <1>5 DEF BurstFailed
<1> QED
  BY <1>3, <1>4, <1>5

(* The object a burst of Flush, or of the copy, belongs to.                *)
LEMMA FlushObject ==
  ASSUME Typed, Content, FlushBurst
  PROVE  LET r == IF pending = NoRef THEN list[Min(Unsaved)] ELSE pending
             f == IF pending = NoRef THEN Append1(live, r) ELSE flash
             n == IF pending = NoRef THEN Bursts ELSE left
         IN  /\ r \in Refs /\ r \notin persisted /\ target[r] # 0
             /\ Ready(f, live, persisted, r)
             /\ n \in 1..Bursts
<1>0. /\ state = "FlushNextObject" /\ FlashTyped /\ live \in Banks /\ list \in Seq(Refs)
      /\ target \in [Refs -> 0..MaxSets] /\ MaxSets \in Nat /\ Bursts \in Nat \ {0}
      /\ left \in 0..Bursts /\ pending \in Refs \cup {NoRef}
  BY PersistenceAssumption DEF FlushBurst, Advances, Typed, RamTyped
<1>1. Stores(flash[live].objs, persisted, target)
  BY <1>0 DEF Content, LiveStores, Running
<1>2. CASE pending = NoRef
  <2>1. Unsaved # {} /\ Room(live)
    BY <1>2 DEF FlushBurst
  <2>2. Unsaved \subseteq Nat /\ \A i \in Unsaved : list[i] \in Refs /\ target[list[i]] # 0 /\ list[i] \notin persisted
    BY <1>0 DEF Unsaved
  <2>3. Min(Unsaved) \in Unsaved
    BY <2>1, <2>2, MinIs
  <2> DEFINE r == list[Min(Unsaved)]
  <2>4. r \in Refs /\ target[r] # 0 /\ r \notin persisted
    BY <2>2, <2>3
  <2> HIDE DEF r
  <2>5. target[r] \in 1..MaxSets
    BY <1>0, <2>4
  <2>6. Ready(Append1(live, r), live, persisted, r)
    BY <1>0, <1>1, <2>1, <2>4, <2>5, BurstReady
  <2>7. Bursts \in 1..Bursts
    BY <1>0
  <2> QED
    BY <1>2, <2>4, <2>6, <2>7 DEF r
<1>3. CASE pending # NoRef
  <2>1. /\ left > 0 /\ pending \notin persisted /\ target[pending] # 0
        /\ Begun(flash[live].objs, pending, target[pending])
    BY <1>0, <1>3 DEF Content, PendingBegun
  <2>2. Ready(flash, live, persisted, pending)
    BY <1>0, <1>1, <2>1, FlashSound DEF Ready
  <2>3. left \in 1..Bursts
    BY <1>0, <2>1
  <2> QED
    BY <1>0, <1>3, <2>1, <2>2, <2>3
<1> QED
  BY <1>2, <1>3

LEMMA CopyObject ==
  ASSUME Typed, Content, CopyBurst
  PROVE  LET r == IF pending = NoRef THEN list[Min(Uncopied)] ELSE pending
             f == IF pending = NoRef THEN Append1(Spare, r) ELSE flash
             n == IF pending = NoRef THEN Bursts ELSE left
         IN  /\ r \in Refs /\ r \in persisted /\ r \notin copied
             /\ Ready(f, Spare, copied, r)
             /\ n \in 1..Bursts
<1>0. /\ state = "CopyToOtherBank" /\ FlashTyped /\ live \in Banks /\ list \in Seq(Refs)
      /\ target \in [Refs -> 0..MaxSets] /\ MaxSets \in Nat /\ Bursts \in Nat \ {0}
      /\ left \in 0..Bursts /\ pending \in Refs \cup {NoRef} /\ Spare \in Banks
  BY PersistenceAssumption, BanksAre DEF CopyBurst, Advances, Typed, RamTyped
<1>1. Stores(flash[Spare].objs, copied, target) /\ Stores(flash[live].objs, persisted, target)
  BY <1>0 DEF Content, LiveStores, SpareStores, Running, Copying
<1>2. CASE pending = NoRef
  <2>1. Uncopied # {} /\ Room(Spare)
    BY <1>2 DEF CopyBurst, Copyable
  <2>2. Uncopied \subseteq Nat /\ \A i \in Uncopied : list[i] \in Refs /\ list[i] \in persisted /\ list[i] \notin copied
    BY <1>0 DEF Uncopied
  <2>3. Min(Uncopied) \in Uncopied
    BY <2>1, <2>2, MinIs
  <2> DEFINE r == list[Min(Uncopied)]
  <2>4. r \in Refs /\ r \in persisted /\ r \notin copied
    BY <2>2, <2>3
  <2> HIDE DEF r
  <2>5. target[r] \in 1..MaxSets
    <3>1. PICK i \in 1..Len(flash[live].objs) : flash[live].objs[i].st = "good" /\ flash[live].objs[i].ref = r
      BY <1>1, <2>4 DEF Stores
    <3>2. flash[live].objs \in Seq(Objects)
      BY <1>0 DEF FlashTyped, Flash
    <3>3. flash[live].objs[i] \in Objects
      BY <3>1, <3>2
    <3>4. flash[live].objs[i].ver \in 1..MaxSets
      BY <3>3 DEF Objects
    <3> QED
      BY <1>1, <3>1, <3>4 DEF Stores
  <2>6. Ready(Append1(Spare, r), Spare, copied, r)
    BY <1>0, <1>1, <2>1, <2>4, <2>5, BurstReady
  <2>7. Bursts \in 1..Bursts
    BY <1>0
  <2> QED
    BY <1>2, <2>4, <2>6, <2>7 DEF r
<1>3. CASE pending # NoRef
  <2>1. /\ left > 0 /\ pending \in persisted \ copied
        /\ Begun(flash[Spare].objs, pending, target[pending])
    BY <1>0, <1>3 DEF Content, PendingBegun
  <2>2. Ready(flash, Spare, copied, pending)
    BY <1>0, <1>1, <2>1, FlashSound DEF Ready
  <2>3. left \in 1..Bursts
    BY <1>0, <2>1
  <2> QED
    BY <1>0, <1>3, <2>1, <2>2, <2>3
<1> QED
  BY <1>2, <1>3

-----------------------------------------------------------------------------
(***************************************************************************)
(* InvalidateEntry.                                                        *)
(***************************************************************************)
Formed(f) ==
  /\ f \in Flash
  /\ \A c \in Banks : Len(f[c].objs) <= Capacity /\ OneGood(f[c].objs)

SeqsOf(f, g) == \A c \in Banks : g[c].seq = f[c].seq

LEMMA FormedWith ==
  ASSUME NEW f, Formed(f), NEW b \in Banks, NEW s \in Seq(Objects),
         Len(s) <= Capacity, OneGood(s)
  PROVE  /\ Formed(Put(f, b, s)) /\ SeqsOf(f, Put(f, b, s))
         /\ Put(f, b, s)[b].objs = s
         /\ \A c \in Banks : c # b => Put(f, b, s)[c] = f[c]
<1> DEFINE g == Put(f, b, s)
<1>1. f \in Flash
  BY DEF Formed
<1>2. /\ g \in Flash /\ g[b].objs = s
      /\ \A c \in Banks : g[c].seq = f[c].seq
      /\ \A c \in Banks : c # b => g[c] = f[c]
  BY <1>1, BankIs
<1> HIDE DEF g
<1>3. Formed(g) /\ SeqsOf(f, g)
  BY <1>2 DEF Formed, SeqsOf
<1> QED
  BY <1>2, <1>3 DEF g

LEMMA PurgedBegun ==
  ASSUME NEW s \in Seq(Objects), NEW r, NEW q, NEW v, Begun(s, q, v)
  PROVE  Begun(Purged(s, r), q, v)
<1>1. Len(s) > 0 /\ s[Len(s)] = Object(q, v) /\ s[Len(s)].st = "partial"
  BY DEF Begun, Object
<1>2. Len(s) \in 1..Len(s)
  BY <1>1
<1>3. Len(Purged(s, r)) = Len(s) /\ Purged(s, r)[Len(s)] = s[Len(s)]
  BY <1>1, <1>2, PurgedIs
<1> QED
  BY <1>1, <1>3 DEF Begun

(* Only an object that was not complete is abandoned.                      *)
LEMMA AbandonedIs ==
  ASSUME FlashTyped, live \in Banks, NEW r, NEW P, NEW T, Stores(flash[live].objs, P, T)
  PROVE  /\ Formed(Abandoned(r)) /\ SeqsOf(flash, Abandoned(r))
         /\ Stores(Abandoned(r)[live].objs, P, T)
         /\ pending # r => Abandoned(r) = flash
<1> DEFINE b == IF state = "FlushNextObject" THEN live ELSE Spare
           s == flash[b].objs
           A == Abandoned(r)
<1>1. b \in Banks
  BY BanksAre
<1>2. A = IF pending = r /\ s # <<>> /\ Last(s).st = "partial"
          THEN Marked(flash, b, "deleted") ELSE flash
  BY DEF Abandoned
<1>3. Formed(flash) /\ SeqsOf(flash, flash)
  BY DEF FlashTyped, Formed, SeqsOf
<1>4. s \in Seq(Objects) /\ Len(s) <= Capacity /\ OneGood(s)
  BY <1>1 DEF FlashTyped, Flash
<1> HIDE DEF A, b
<1>5. CASE A = flash
  BY <1>3, <1>5 DEF A
<1>6. CASE A # flash
  <2>1. A = Marked(flash, b, "deleted") /\ pending = r /\ s # <<>> /\ Last(s).st = "partial"
    BY <1>2, <1>6
  <2>2. A = Put(flash, b, Ended(s, "deleted"))
    BY <1>1, <1>3, <2>1, ChangesAre DEF Formed
  <2> HIDE DEF s
  <2>3. Len(s) > 0 /\ s[Len(s)].st = "partial"
    BY <1>4, <2>1 DEF Last
  <2>4. Ended(s, "deleted") \in Seq(Objects) /\ Len(Ended(s, "deleted")) = Len(s)
    BY <1>4, <2>3, EndedIs
  <2>5. /\ OneGood(Ended(s, "deleted"))
        /\ Stores(s, P, T) => Stores(Ended(s, "deleted"), P, T)
    BY <1>4, <2>3, GivenUpStores
  <2>6. /\ Formed(A) /\ SeqsOf(flash, A) /\ A[b].objs = Ended(s, "deleted")
        /\ \A c \in Banks : c # b => A[c] = flash[c]
    <3> DEFINE e == Ended(s, "deleted")
    <3>1. e \in Seq(Objects) /\ Len(e) <= Capacity /\ OneGood(e)
      BY <1>4, <2>4, <2>5
    <3> HIDE DEF e
    <3>2. /\ Formed(Put(flash, b, e)) /\ SeqsOf(flash, Put(flash, b, e))
          /\ Put(flash, b, e)[b].objs = e
          /\ \A c \in Banks : c # b => Put(flash, b, e)[c] = flash[c]
      BY <1>1, <1>3, <3>1, FormedWith
    <3> QED
      BY <2>2, <3>2 DEF e
  <2>7. Stores(A[live].objs, P, T)
    <3>1. CASE b = live
      BY <2>5, <2>6, <3>1 DEF s
    <3>2. CASE b # live
      BY <2>6, <3>2
    <3> QED
      BY <3>1, <3>2
  <2> QED
    BY <2>1, <2>6, <2>7 DEF A
<1> QED
  BY <1>5, <1>6

LEMMA InvalidateKeeps ==
  ASSUME Typed, Content, ProgramRuns, NEW r \in Refs, NEW v \in 0..MaxSets,
         InvalidateEntry(r), target' = [target EXCEPT ![r] = v], live' = live,
         copied' = copied \/ copied' = copied \ {r}, forced' = forced
  PROVE  /\ FlashTyped' /\ Content' /\ Running' /\ SeqsOf(flash, flash')
         /\ state' \in Statuses /\ pending' \in Refs \cup {NoRef}
         /\ left' \in 0..Bursts /\ persisted' \subseteq Refs
<1>0. /\ FlashTyped /\ live \in Banks /\ state \in Statuses /\ Running
      /\ pending \in Refs \cup {NoRef} /\ left \in 0..Bursts /\ persisted \subseteq Refs
      /\ target \in [Refs -> 0..MaxSets] /\ 0 \in 0..Bursts
  BY PersistenceAssumption DEF Typed, RamTyped, ProgramRuns, Running
<1> DEFINE A == Abandoned(r)
           s == A[live].objs
<1>1. Stores(flash[live].objs, persisted, target)
  BY <1>0 DEF Content, LiveStores
<1>2. /\ Formed(A) /\ SeqsOf(flash, A) /\ Stores(s, persisted, target)
      /\ pending # r => A = flash
  BY <1>0, <1>1, AbandonedIs
<1>3. /\ flash' = IF r \in persisted THEN Deleted(A, live, r) ELSE A
      /\ pending' = IF pending = r THEN NoRef ELSE pending
      /\ left' = IF pending = r THEN 0 ELSE left
      /\ persisted' = persisted \ {r}
      /\ state' = StateAfterChange
  BY DEF InvalidateEntry
<1> HIDE DEF A
<1>4. s \in Seq(Objects) /\ Len(s) <= Capacity /\ OneGood(s)
  BY <1>0, <1>2 DEF Formed, Flash
<1>5. \A q \in persisted \ {r} : target'[q] = target[q]
  BY <1>0
<1>6. /\ Formed(flash') /\ SeqsOf(flash, flash') /\ Stores(flash'[live].objs, persisted', target')
      /\ \A q \in Refs : Begun(s, q, target[q]) => Begun(flash'[live].objs, q, target[q])
  <2>1. CASE r \in persisted
    <3>1. flash' = Put(A, live, Purged(s, r))
      BY <1>0, <1>2, <1>3, <2>1, ChangesAre DEF Formed
    <3> HIDE DEF s
    <3>2. Purged(s, r) \in Seq(Objects) /\ Len(Purged(s, r)) = Len(s)
      BY <1>4, PurgedIs
    <3>3. OneGood(Purged(s, r)) /\ Stores(Purged(s, r), persisted \ {r}, target')
      BY <1>2, <1>4, <1>5, PurgedStores
    <3>4. Formed(flash') /\ SeqsOf(A, flash') /\ flash'[live].objs = Purged(s, r)
      BY <1>0, <1>2, <1>4, <3>1, <3>2, <3>3, FormedWith
    <3>5. SeqsOf(flash, flash')
      BY <1>2, <3>4 DEF SeqsOf
    <3> QED
      BY <1>3, <1>4, <3>3, <3>4, <3>5, PurgedBegun
  <2>2. CASE r \notin persisted
    <3>1. flash' = A /\ persisted' = persisted
      BY <1>3, <2>2
    <3>2. \A q \in persisted : target'[q] = target[q]
      BY <1>5, <2>2
    <3>3. Stores(s, persisted, target')
      BY <1>2, <3>2, SameStores
    <3> QED
      BY <1>2, <3>1, <3>3
  <2> QED
    BY <2>1, <2>2
<1>7. /\ state' \in Statuses /\ state' \notin {"Off", "Formatted", "CopyToOtherBank", "CopyBackToRam", "SwitchBank"}
      /\ state' = "FlushNextObject" => state \in {"FlushNextObject", "Idle"}
      /\ state' = "EraseSector" => state = "EraseSector"
      /\ state' # "Idle"
  BY <1>0, <1>3 DEF StateAfterChange, Statuses, Running
<1>8. FlashTyped'
  BY <1>6 DEF FlashTyped, Formed
<1>9. LiveStores'
  BY <1>6 DEF LiveStores
<1>10. SpareStores'
  BY <1>7 DEF SpareStores, Copying, Content
<1>11. PendingBegun'
  <2>1. state' = "EraseSector" => pending' = NoRef
    BY <1>3, <1>7 DEF Content, PendingBegun
  <2>2. ASSUME pending' # NoRef, state' = "FlushNextObject"
        PROVE  /\ left' > 0 /\ pending' \notin persisted' /\ target'[pending'] # 0
               /\ Begun(flash'[live'].objs, pending', target'[pending'])
    <3>1. pending # r /\ pending' = pending /\ left' = left /\ pending \in Refs
      BY <1>0, <1>3, <2>2
    <3>2. state = "FlushNextObject"
      BY <1>7, <2>2, <3>1 DEF Content, PendingBegun
    <3>3. /\ left > 0 /\ pending \notin persisted /\ target[pending] # 0
          /\ Begun(flash[live].objs, pending, target[pending])
      BY <2>2, <3>1, <3>2 DEF Content, PendingBegun
    <3>4. target'[pending] = target[pending]
      BY <1>0, <3>1
    <3>5. Begun(flash'[live].objs, pending, target[pending])
      BY <1>2, <1>6, <3>1, <3>3
    <3> QED
      BY <1>3, <3>1, <3>3, <3>4, <3>5
  <2> QED
    BY <1>7, <2>1, <2>2 DEF PendingBegun
<1>12. WhenOff' /\ Running'
  BY <1>7 DEF WhenOff, Running
<1>13. pending' \in Refs \cup {NoRef} /\ left' \in 0..Bursts /\ persisted' \subseteq Refs
  BY <1>0, <1>3
<1> QED
  BY <1>6, <1>7, <1>8, <1>9, <1>10, <1>11, <1>12, <1>13 DEF Content

-----------------------------------------------------------------------------
(***************************************************************************)
(* The invariant is kept, action by action.                                *)
(***************************************************************************)
LEMMA KeptBySet ==
  ASSUME Typed, Content, NEW r \in Refs, SetTarget(r)
  PROVE  Typed' /\ Content' /\ Running' /\ SeqsOf(flash, flash')
<1>0. /\ RamTyped /\ clock + 1 \in 1..MaxSets /\ clock + 1 \in 0..MaxSets /\ MaxSets \in Nat
      /\ target' = [target EXCEPT ![r] = clock + 1] /\ list' = Inserted(list, r)
      /\ list \in Seq(Refs) /\ IsInjective(list) /\ target \in [Refs -> 0..MaxSets]
      /\ clock' = clock + 1
  BY PersistenceAssumption DEF SetTarget, Typed, RamTyped
<1>1. /\ FlashTyped' /\ Content' /\ Running' /\ SeqsOf(flash, flash')
      /\ state' \in Statuses /\ pending' \in Refs \cup {NoRef}
      /\ left' \in 0..Bursts /\ persisted' \subseteq Refs
  BY <1>0, InvalidateKeeps DEF SetTarget
<1>2. list' \in Seq(Refs) /\ IsInjective(list') /\ ToSet(list') = ToSet(list) \cup {r}
  BY <1>0, InsertedIs
<1>3. target' \in [Refs -> 0..MaxSets] /\ \A q \in Refs : q # r => target'[q] = target[q]
  BY <1>0
<1>4. \A q \in Refs : target'[q] # 0 => q \in ToSet(list')
  BY <1>0, <1>2, <1>3 DEF RamTyped
<1>5. RamTyped'
  BY <1>0, <1>1, <1>2, <1>3, <1>4 DEF SetTarget, RamTyped
<1> QED
  BY <1>1, <1>5 DEF Typed

LEMMA KeptBySame ==
  ASSUME Typed, Content, NEW r \in Refs, SetSame(r)
  PROVE  Typed' /\ Content' /\ Running /\ Running'
<1>0. /\ RamTyped /\ FlashTyped /\ list' = Inserted(list, r)
      /\ list \in Seq(Refs) /\ IsInjective(list)
      /\ UNCHANGED <<flash, live, state, pending, left, target, persisted, copied,
                     forced, clock, restarts, faults>>
  BY DEF SetSame, Typed, RamTyped
<1>1. list' \in Seq(Refs) /\ IsInjective(list') /\ ToSet(list') = ToSet(list) \cup {r}
  BY <1>0, InsertedIs
<1>2. FlashTyped' /\ Spare' = Spare
  BY <1>0 DEF FlashTyped, Spare
<1>3. RamTyped'
  BY <1>0, <1>1 DEF RamTyped
<1>4. LiveStores' /\ SpareStores' /\ PendingBegun'
  BY <1>0, <1>2 DEF Content, LiveStores, SpareStores, PendingBegun, Running, Copying
<1>5. WhenOff' /\ Running /\ Running'
  BY <1>0 DEF Content, WhenOff, Running, GoodBank, SetSame, ProgramRuns
<1> QED
  BY <1>2, <1>3, <1>4, <1>5 DEF Typed, Content

LEMMA KeptByDrop ==
  ASSUME Typed, Content, NEW r \in Refs, DropTarget(r)
  PROVE  Typed' /\ Content' /\ Running' /\ SeqsOf(flash, flash')
<1>0. /\ RamTyped /\ 0 \in 0..MaxSets /\ MaxSets \in Nat
      /\ target' = [target EXCEPT ![r] = 0] /\ target \in [Refs -> 0..MaxSets]
      /\ list' = Unlinked(list, r) /\ list \in Seq(Refs) /\ IsInjective(list)
  BY PersistenceAssumption DEF DropTarget, Typed, RamTyped
<1>1. /\ FlashTyped' /\ Content' /\ Running' /\ SeqsOf(flash, flash')
      /\ state' \in Statuses /\ pending' \in Refs \cup {NoRef}
      /\ left' \in 0..Bursts /\ persisted' \subseteq Refs
  BY <1>0, InvalidateKeeps DEF DropTarget
<1>2. list' \in Seq(Refs) /\ IsInjective(list') /\ ToSet(list') = ToSet(list) \ {r}
  BY <1>0, UnlinkedIs
<1>3. target' \in [Refs -> 0..MaxSets] /\ \A q \in Refs : target'[q] # 0 => target[q] # 0 /\ q # r
  BY <1>0
<1>4. \A q \in Refs : target'[q] # 0 => q \in ToSet(list')
  BY <1>0, <1>2, <1>3 DEF RamTyped
<1>5. RamTyped'
  BY <1>0, <1>1, <1>2, <1>3, <1>4 DEF DropTarget, RamTyped
<1> QED
  BY <1>1, <1>5 DEF Typed

LEMMA KeptByCollect ==
  ASSUME Typed, Content, NEW r \in Refs, Collect(r)
  PROVE  Typed' /\ Content' /\ Running' /\ SeqsOf(flash, flash')
<1>0. /\ RamTyped /\ 0 \in 0..MaxSets /\ MaxSets \in Nat
      /\ target' = [target EXCEPT ![r] = 0] /\ target \in [Refs -> 0..MaxSets]
      /\ list' = Unlinked(list, r) /\ list \in Seq(Refs) /\ IsInjective(list)
      /\ copied' = copied \ {r}
  BY PersistenceAssumption DEF Collect, Typed, RamTyped
<1>1. /\ FlashTyped' /\ Content' /\ Running' /\ SeqsOf(flash, flash')
      /\ state' \in Statuses /\ pending' \in Refs \cup {NoRef}
      /\ left' \in 0..Bursts /\ persisted' \subseteq Refs
  BY <1>0, InvalidateKeeps DEF Collect
<1>2. list' \in Seq(Refs) /\ IsInjective(list') /\ ToSet(list') = ToSet(list) \ {r}
  BY <1>0, UnlinkedIs
<1>3. target' \in [Refs -> 0..MaxSets] /\ \A q \in Refs : target'[q] # 0 => target[q] # 0 /\ q # r
  BY <1>0
<1>4. \A q \in Refs : target'[q] # 0 => q \in ToSet(list')
  BY <1>0, <1>2, <1>3 DEF RamTyped
<1>5. RamTyped'
  BY <1>0, <1>1, <1>2, <1>3, <1>4 DEF Collect, RamTyped
<1> QED
  BY <1>1, <1>5 DEF Typed

LEMMA KeptByFlush ==
  ASSUME Typed, Content, FlushBurst
  PROVE  /\ Typed' /\ Content' /\ SeqsOf(flash, flash')
         /\ \/ persisted' = persisted
            \/ \E r \in Refs : r \notin persisted /\ target[r] # 0 /\ persisted' = persisted \cup {r}
<1> DEFINE r == IF pending = NoRef THEN list[Min(Unsaved)] ELSE pending
           f == IF pending = NoRef THEN Append1(live, r) ELSE flash
           n == IF pending = NoRef THEN Bursts ELSE left
<1>1. /\ r \in Refs /\ r \notin persisted /\ target[r] # 0
      /\ Ready(f, live, persisted, r)
      /\ n \in 1..Bursts
  BY FlushObject
<1>2. \/ /\ BurstWritten(live, f, r, n)
         /\ persisted' = IF n = 1 THEN persisted \cup {r} ELSE persisted
         /\ UNCHANGED faults
      \/ BurstFailed(live, f) /\ UNCHANGED persisted
  BY DEF FlushBurst
<1> HIDE DEF r, f, n
<1>3. /\ state = "FlushNextObject" /\ RamTyped /\ live \in Banks /\ faults \in 0..MaxFaults
      /\ MaxFaults \in Nat /\ 0 \in 0..Bursts /\ Bursts \in Nat \ {0}
      /\ UNCHANGED <<live, state, list, target, copied, clock, restarts, forced>>
  BY PersistenceAssumption DEF FlushBurst, Advances, Continues, Typed, RamTyped
<1>4. ASSUME BurstWritten(live, f, r, n), n # 1, UNCHANGED <<persisted, faults>>
      PROVE  Typed' /\ Content' /\ SeqsOf(flash, flash')
  <2>1. Ready(flash', live, persisted, r) /\ pending' = r /\ left' \in 1..Bursts
    BY <1>1, <1>3, <1>4, BurstLeaves
  <2>3. FlashTyped' /\ SeqsOf(flash, flash') /\ Stores(flash'[live].objs, persisted, target)
    BY <2>1 DEF Ready, Sound, FlashTyped, SeqsOf
  <2>4. RamTyped'
    BY <1>1, <1>3, <1>4, <2>1 DEF RamTyped
  <2>5. Content'
    BY <1>1, <1>3, <1>4, <2>1, <2>3
    DEF Content, LiveStores, SpareStores, PendingBegun, WhenOff, Ready, Running, Copying
  <2> QED
    BY <2>3, <2>4, <2>5 DEF Typed
<1>5. ASSUME NEW Q, Sound(flash', live, Q), pending' = NoRef, left' = 0, persisted' = Q,
             Q \subseteq Refs, faults' \in 0..MaxFaults
      PROVE  Typed' /\ Content' /\ SeqsOf(flash, flash')
  <2>3. FlashTyped' /\ SeqsOf(flash, flash') /\ Stores(flash'[live].objs, Q, target)
    BY <1>5 DEF Sound, FlashTyped, SeqsOf
  <2>4. RamTyped'
    BY <1>1, <1>3, <1>5 DEF RamTyped
  <2>5. Content'
    BY <1>1, <1>3, <1>5, <2>3
    DEF Content, LiveStores, SpareStores, PendingBegun, WhenOff, Running, Copying
  <2> QED
    BY <2>3, <2>4, <2>5 DEF Typed
<1>6. ASSUME BurstWritten(live, f, r, n), n = 1, persisted' = persisted \cup {r}, UNCHANGED faults
      PROVE  Typed' /\ Content' /\ SeqsOf(flash, flash')
  <2>1. Sound(flash', live, persisted \cup {r}) /\ pending' = NoRef /\ left' = 0
    BY <1>1, <1>3, <1>6, BurstLeaves
  <2> QED
    BY <1>1, <1>3, <1>5, <1>6, <2>1 DEF RamTyped
<1>7. ASSUME BurstFailed(live, f), UNCHANGED persisted
      PROVE  Typed' /\ Content' /\ SeqsOf(flash, flash')
  <2>1. Sound(flash', live, persisted) /\ pending' = NoRef /\ left' = 0
    BY <1>1, <1>3, <1>7, BurstLeaves
  <2>2. faults' \in 0..MaxFaults
    BY <1>3, <1>7 DEF BurstFailed
  <2> QED
    BY <1>3, <1>5, <1>7, <2>1, <2>2 DEF RamTyped
<1> QED
  BY <1>1, <1>2, <1>4, <1>6, <1>7

LEMMA KeptByCopy ==
  ASSUME Typed, Content, CopyBurst
  PROVE  Typed' /\ Content' /\ SeqsOf(flash, flash')
<1> DEFINE r == IF pending = NoRef THEN list[Min(Uncopied)] ELSE pending
           f == IF pending = NoRef THEN Append1(Spare, r) ELSE flash
           n == IF pending = NoRef THEN Bursts ELSE left
<1>1. /\ r \in Refs /\ r \in persisted /\ r \notin copied
      /\ Ready(f, Spare, copied, r)
      /\ n \in 1..Bursts
  BY CopyObject
<1>2. \/ /\ BurstWritten(Spare, f, r, n)
         /\ copied' = IF n = 1 THEN copied \cup {r} ELSE copied
         /\ UNCHANGED faults
      \/ BurstFailed(Spare, f) /\ UNCHANGED copied
  BY DEF CopyBurst
<1> HIDE DEF r, f, n
<1>3. /\ state = "CopyToOtherBank" /\ RamTyped /\ live \in Banks /\ faults \in 0..MaxFaults
      /\ MaxFaults \in Nat /\ 0 \in 0..Bursts /\ Bursts \in Nat \ {0}
      /\ UNCHANGED <<live, state, list, target, persisted, clock, restarts, forced>>
      /\ copied \subseteq persisted
  BY PersistenceAssumption
  DEF CopyBurst, Advances, Continues, Typed, RamTyped, Content, SpareStores, Copying
<1>b. Spare \in Banks /\ Spare # live /\ Spare' = Spare
  BY <1>3, BanksAre DEF Spare
<1>s. Stores(flash[live].objs, persisted, target)
  BY <1>3 DEF Content, LiveStores, Running
<1>4. ASSUME BurstWritten(Spare, f, r, n), n # 1, UNCHANGED <<copied, faults>>
      PROVE  Typed' /\ Content' /\ SeqsOf(flash, flash')
  <2>1. Ready(flash', Spare, copied, r) /\ pending' = r /\ left' \in 1..Bursts
    BY <1>1, <1>b, <1>4, BurstLeaves
  <2>3. /\ FlashTyped' /\ SeqsOf(flash, flash') /\ Stores(flash'[Spare].objs, copied, target)
        /\ flash'[live] = flash[live] /\ Begun(flash'[Spare].objs, r, target[r])
    BY <1>3, <1>b, <2>1 DEF Ready, Sound, FlashTyped, SeqsOf
  <2>4. RamTyped'
    BY <1>1, <1>3, <1>4, <2>1 DEF RamTyped
  <2>5. LiveStores' /\ SpareStores' /\ WhenOff'
    BY <1>3, <1>b, <1>s, <1>4, <2>3
    DEF Content, LiveStores, SpareStores, WhenOff, Running, Copying
  <2>6. PendingBegun'
    BY <1>1, <1>3, <1>b, <1>4, <2>1, <2>3 DEF PendingBegun
  <2> QED
    BY <2>3, <2>4, <2>5, <2>6 DEF Typed, Content
<1>5. ASSUME NEW Q, Sound(flash', Spare, Q), pending' = NoRef, left' = 0, copied' = Q,
             Q \subseteq persisted, faults' \in 0..MaxFaults
      PROVE  Typed' /\ Content' /\ SeqsOf(flash, flash')
  <2>3. /\ FlashTyped' /\ SeqsOf(flash, flash') /\ Stores(flash'[Spare].objs, Q, target)
        /\ flash'[live] = flash[live]
    BY <1>3, <1>b, <1>5 DEF Sound, FlashTyped, SeqsOf
  <2>4. RamTyped'
    BY <1>1, <1>3, <1>5 DEF RamTyped
  <2>5. LiveStores' /\ SpareStores' /\ WhenOff'
    BY <1>3, <1>b, <1>s, <1>5, <2>3
    DEF Content, LiveStores, SpareStores, WhenOff, Running, Copying
  <2>6. PendingBegun'
    BY <1>3, <1>5 DEF PendingBegun
  <2> QED
    BY <2>3, <2>4, <2>5, <2>6 DEF Typed, Content
<1>6. ASSUME BurstWritten(Spare, f, r, n), n = 1, copied' = copied \cup {r}, UNCHANGED faults
      PROVE  Typed' /\ Content' /\ SeqsOf(flash, flash')
  <2>1. Sound(flash', Spare, copied \cup {r}) /\ pending' = NoRef /\ left' = 0
    BY <1>1, <1>b, <1>6, BurstLeaves
  <2> QED
    BY <1>1, <1>3, <1>5, <1>6, <2>1
<1>7. ASSUME BurstFailed(Spare, f), UNCHANGED copied
      PROVE  Typed' /\ Content' /\ SeqsOf(flash, flash')
  <2>1. Sound(flash', Spare, copied) /\ pending' = NoRef /\ left' = 0
    BY <1>1, <1>b, <1>7, BurstLeaves
  <2>2. faults' \in 0..MaxFaults
    BY <1>3, <1>7 DEF BurstFailed
  <2> QED
    BY <1>3, <1>5, <1>7, <2>1, <2>2
<1> QED
  BY <1>2, <1>4, <1>6, <1>7

(* A persisted object has a target and is in the list.                     *)
LEMMA PersistedListed ==
  ASSUME Typed, Content, Running, NEW r \in persisted
  PROVE  target[r] \in 1..MaxSets /\ \E i \in DOMAIN list : list[i] = r
<1>0. /\ flash[live].objs \in Seq(Objects) /\ Stores(flash[live].objs, persisted, target)
      /\ r \in Refs
  BY DEF Typed, FlashTyped, RamTyped, Flash, Content, LiveStores
<1>1. PICK i \in 1..Len(flash[live].objs) : flash[live].objs[i].st = "good" /\ flash[live].objs[i].ref = r
  BY <1>0 DEF Stores
<1>2. flash[live].objs[i].ver \in 1..MaxSets
  <2>1. flash[live].objs[i] \in Objects
    BY <1>0, <1>1
  <2> QED
    BY <2>1 DEF Objects
<1>3. target[r] \in 1..MaxSets
  BY <1>0, <1>1, <1>2 DEF Stores
<1>4. r \in ToSet(list)
  BY <1>0, <1>3 DEF Typed, RamTyped
<1> QED
  BY <1>3, <1>4 DEF ToSet

LEMMA KeptByErase ==
  ASSUME Typed, Content, EraseSector
  PROVE  Typed' /\ Content'
<1>0. /\ RamTyped /\ FlashTyped /\ state = "EraseSector" /\ live \in Banks /\ pending = NoRef
      /\ copied = {} /\ flash' = [flash EXCEPT ![Spare] = Formatted] /\ state' = "CopyToOtherBank"
      /\ UNCHANGED <<live, pending, left, list, target, persisted, copied, clock, restarts, faults, forced>>
  BY DEF EraseSector, Advances, Continues, ram, Typed, RamTyped, Content, PendingBegun, SpareStores
<1>1. Spare \in Banks /\ Spare # live /\ Spare' = Spare /\ \A c \in Banks : c = live \/ c = Spare
  BY <1>0, BanksAre DEF Spare
<1>2. /\ Formatted \in [seq : NoHeader .. ErasedSeq, objs : Seq(Objects)] /\ Formatted.objs = <<>>
      /\ 0 <= Capacity
  BY PersistenceAssumption DEF Formatted, NoHeader
<1>3. flash' \in Flash /\ flash'[Spare] = Formatted /\ flash'[live] = flash[live]
  BY <1>0, <1>1, <1>2 DEF FlashTyped, Flash
<1>4. FlashTyped'
  BY <1>0, <1>1, <1>2, <1>3, NothingStored DEF FlashTyped
<1>5. RamTyped'
  BY <1>0 DEF RamTyped, Statuses
<1>6. Stores(flash'[Spare].objs, {}, target)
  BY <1>2, <1>3, NothingStored
<1>7. Stores(flash[live].objs, persisted, target)
  BY <1>0 DEF Content, LiveStores, Running
<1>8. Content'
  BY <1>0, <1>1, <1>3, <1>6, <1>7
  DEF Content, LiveStores, SpareStores, PendingBegun, WhenOff, Running, Copying
<1> QED
  BY <1>4, <1>5, <1>8 DEF Typed

LEMMA KeptByCopyBack ==
  ASSUME Typed, Content, CopyBackOne
  PROVE  /\ Typed' /\ Content' /\ SeqsOf(flash, flash')
         /\ \E r \in Refs : r \in persisted /\ persisted' = persisted \ {r}
<1>0. /\ RamTyped /\ FlashTyped /\ state = "CopyBackToRam" /\ live \in Banks
      /\ flash \in Flash /\ list \in Seq(Refs) /\ copied \subseteq persisted
      /\ pending' = NoRef /\ Uncopied # {}
      /\ UNCHANGED <<live, state, left, list, target, copied, clock, restarts, faults, forced>>
  BY DEF CopyBackOne, Advances, Continues, Typed, RamTyped, FlashTyped, Content, SpareStores, Copying
<1>1. Spare \in Banks /\ Spare # live /\ Spare' = Spare
  BY <1>0, BanksAre DEF Spare
<1> DEFINE r == list[Min(Uncopied)]
           s == flash[live].objs
<1>2. persisted' = persisted \ {r} /\ flash' = Deleted(flash, live, r)
  BY DEF CopyBackOne
<1>3. r \in Refs /\ r \in persisted /\ r \notin copied
  <2>1. Uncopied \subseteq Nat /\ \A i \in Uncopied : list[i] \in Refs /\ list[i] \in persisted /\ list[i] \notin copied
    BY <1>0 DEF Uncopied
  <2>2. Min(Uncopied) \in Uncopied
    BY <1>0, <2>1, MinIs
  <2> QED
    BY <2>1, <2>2
<1> HIDE DEF r
<1>4. /\ s \in Seq(Objects) /\ Len(s) <= Capacity /\ OneGood(s) /\ Stores(s, persisted, target)
      /\ Stores(flash[Spare].objs, copied, target)
  BY <1>0 DEF FlashTyped, Flash, Content, LiveStores, SpareStores, Running, Copying
<1>5. Formed(flash)
  BY <1>0 DEF FlashTyped, Formed
<1>6. flash' = Put(flash, live, Purged(s, r))
  BY <1>0, <1>2, ChangesAre
<1> HIDE DEF s
<1>7. Purged(s, r) \in Seq(Objects) /\ Len(Purged(s, r)) = Len(s)
  BY <1>4, PurgedIs
<1>8. OneGood(Purged(s, r)) /\ Stores(Purged(s, r), persisted \ {r}, target)
  BY <1>4, PurgedStores
<1>9. /\ Formed(flash') /\ SeqsOf(flash, flash') /\ flash'[live].objs = Purged(s, r)
      /\ flash'[Spare] = flash[Spare]
  BY <1>0, <1>1, <1>4, <1>5, <1>6, <1>7, <1>8, FormedWith
<1>10. FlashTyped'
  BY <1>9 DEF FlashTyped, Formed
<1>11. RamTyped'
  BY <1>0, <1>2 DEF RamTyped
<1>12. Content'
  BY <1>0, <1>1, <1>2, <1>3, <1>4, <1>8, <1>9
  DEF Content, LiveStores, SpareStores, PendingBegun, WhenOff, Running, Copying
<1> QED
  BY <1>2, <1>3, <1>9, <1>10, <1>11, <1>12 DEF Typed

LEMMA NextSequenceIs ==
  ASSUME Typed
  PROVE  /\ NextSequence \in 0..ErasedSeq
         /\ NextSequence = IF flash[live].seq = ErasedSeq THEN 0 ELSE flash[live].seq + 1
<1>1. flash[live].seq \in NoHeader .. ErasedSeq /\ ErasedSeq \in Nat \ {0}
  BY PersistenceAssumption DEF Typed, FlashTyped, RamTyped, Flash
<1>2. \A i \in 0..ErasedSeq : i % (ErasedSeq + 1) = i
  BY <1>1
<1>3. (ErasedSeq + 1) % (ErasedSeq + 1) = 0
  BY <1>1
<1>4. flash[live].seq = ErasedSeq \/ flash[live].seq + 1 \in 0..ErasedSeq
  BY <1>1 DEF NoHeader
<1> QED
  BY <1>1, <1>2, <1>3, <1>4 DEF NextSequence

LEMMA KeptBySwitch ==
  ASSUME Typed, Content, SwitchBank
  PROVE  Typed' /\ Content'
<1>0. /\ RamTyped /\ FlashTyped /\ state = "SwitchBank" /\ live \in Banks /\ pending = NoRef
      /\ flash' = [flash EXCEPT ![Spare].seq = NextSequence] /\ state' = "FlushNextObject"
      /\ live' = Spare /\ copied' = {}
      /\ Stores(flash[Spare].objs, copied, target) /\ copied = persisted
      /\ UNCHANGED <<pending, left, list, target, persisted, clock, restarts, faults, forced>>
  BY DEF SwitchBank, Advances, Continues, Typed, RamTyped, Content, PendingBegun, SpareStores, Copying
<1>1. Spare \in Banks
  BY <1>0, BanksAre
<1>2. NextSequence \in NoHeader .. ErasedSeq
  BY NextSequenceIs DEF NoHeader
<1>3. flash' \in Flash /\ \A c \in Banks : flash'[c].objs = flash[c].objs
  BY <1>0, <1>1, <1>2 DEF FlashTyped, Flash
<1>4. FlashTyped'
  BY <1>0, <1>3 DEF FlashTyped
<1>5. RamTyped'
  BY <1>0, <1>1 DEF RamTyped, Statuses
<1>6. Content'
  BY <1>0, <1>1, <1>3
  DEF Content, LiveStores, SpareStores, PendingBegun, WhenOff, Running, Copying
<1> QED
  BY <1>4, <1>5, <1>6 DEF Typed

LEMMA KeptByBootFormat ==
  ASSUME Typed, Content, BootFormat
  PROVE  Typed' /\ Content'
<1>0. /\ RamTyped /\ FlashTyped /\ state = "Off" /\ ~GoodBank(BootBank)
      /\ flash' = [flash EXCEPT ![1] = Formatted] /\ state' = "Formatted" /\ live' = 1
      /\ UNCHANGED <<pending, left, list, target, persisted, copied, clock, restarts, faults, forced>>
  BY DEF BootFormat, ram, Typed
<1>1. 1 \in Banks /\ 2 \in Banks
  BY DEF Banks
<1>2. /\ Formatted \in [seq : NoHeader .. ErasedSeq, objs : Seq(Objects)] /\ Formatted.objs = <<>>
      /\ 0 <= Capacity
  BY PersistenceAssumption DEF Formatted, NoHeader
<1>3. flash' \in Flash /\ flash'[1] = Formatted /\ \A c \in Banks : c # 1 => flash'[c] = flash[c]
  BY <1>0, <1>1, <1>2 DEF FlashTyped, Flash
<1>4. FlashTyped'
  BY <1>0, <1>2, <1>3, NothingStored DEF FlashTyped
<1>5. RamTyped'
  BY <1>0, <1>1 DEF RamTyped, Statuses
<1>6. ~GoodBank(2)
  BY <1>0 DEF BootBank
<1>7. ~GoodBank(2)'
  BY <1>1, <1>3, <1>6 DEF GoodBank
<1>8. WhenOff'
  BY <1>0, <1>3, <1>7 DEF Content, WhenOff, Running
<1>9. LiveStores' /\ SpareStores' /\ PendingBegun'
  BY <1>0 DEF Content, LiveStores, SpareStores, PendingBegun, WhenOff, Running, Copying
<1> QED
  BY <1>4, <1>5, <1>8, <1>9 DEF Typed, Content

LEMMA KeptByBootNumber ==
  ASSUME Typed, Content, BootNumber
  PROVE  /\ Typed' /\ Content' /\ Running' /\ live' = 1 /\ Spare' = 2
         /\ flash'[1].seq = 1 /\ flash'[2] = flash[2] /\ ~GoodBank(2)
<1>0. /\ RamTyped /\ FlashTyped /\ state = "Formatted" /\ live = 1 /\ flash[1] = Formatted
      /\ flash' = [flash EXCEPT ![1].seq = 1] /\ state' = "FlushNextObject"
      /\ UNCHANGED <<live, pending, left, list, target, persisted, copied, clock, restarts, faults, forced>>
      /\ pending = NoRef /\ persisted = {} /\ ~GoodBank(2) /\ Formatted.objs = <<>>
  BY DEF BootNumber, ram, Typed, Content, WhenOff, Running, Formatted
<1>1. 1 \in Banks /\ 2 \in Banks /\ 1 \in NoHeader .. ErasedSeq /\ Spare' = 2
  BY <1>0, PersistenceAssumption DEF Banks, NoHeader, Spare, Other
<1>2. /\ flash' \in Flash /\ flash'[1].seq = 1 /\ flash'[2] = flash[2]
      /\ \A c \in Banks : flash'[c].objs = flash[c].objs
  BY <1>0, <1>1 DEF FlashTyped, Flash, Banks
<1>3. FlashTyped'
  BY <1>0, <1>2 DEF FlashTyped
<1>4. RamTyped'
  BY <1>0 DEF RamTyped, Statuses
<1>5. Stores(flash'[1].objs, {}, target)
  BY <1>0, <1>1, <1>2, NothingStored
<1>6. Content'
  BY <1>0, <1>5 DEF Content, LiveStores, SpareStores, PendingBegun, WhenOff, Running, Copying
<1> QED
  BY <1>0, <1>1, <1>2, <1>3, <1>4, <1>6 DEF Typed, Running

LEMMA BootBankIs == BootBank \in Banks
BY DEF BootBank, Banks

LEMMA KeptByBoot ==
  ASSUME Typed, Content, Boot
  PROVE  /\ Typed' /\ Content' /\ Running' /\ live' = BootBank /\ GoodBank(BootBank)
         /\ flash' = flash /\ persisted' = {r \in Refs : target'[r] # 0}
<1> DEFINE b == BootBank
           o == flash[b].objs
<1>0. /\ RamTyped /\ FlashTyped /\ state = "Off" /\ GoodBank(b) /\ b \in Banks
      /\ live' = b /\ state' = "FlushNextObject" /\ list' = Restored(b)
      /\ target' = [r \in Refs |->
               IF GoodOf(b, r) = {} THEN 0 ELSE o[CHOOSE i \in GoodOf(b, r) : TRUE].ver]
      /\ persisted' = {o[i].ref : i \in GoodObjects(b)}
      /\ UNCHANGED <<flash, pending, left, copied, forced, clock, restarts, faults>>
  BY BootBankIs DEF Boot, Typed
<1>1. pending = NoRef /\ copied = {} /\ forced = 0
  BY <1>0 DEF Content, WhenOff, Running
<1> HIDE DEF b
<1>2. o \in Seq(Objects) /\ OneGood(o)
  BY <1>0 DEF FlashTyped, Flash
<1>3. /\ GoodObjects(b) \subseteq 1..Len(o)
      /\ \A i \in 1..Len(o) : i \in GoodObjects(b) <=> o[i].st = "good"
      /\ \A i \in 1..Len(o) : o[i].ref \in Refs /\ o[i].ver \in 1..MaxSets
  BY <1>2, GoodObjectsIs
<1>4. list' \in Seq(Refs) /\ IsInjective(list') /\ ToSet(list') = persisted'
  BY <1>0, <1>2, RestoredIs
<1>5. \A r \in Refs : GoodOf(b, r) = {i \in GoodObjects(b) : o[i].ref = r}
  BY DEF GoodOf
<1> HIDE DEF o
(* The object of a reference is unique, so that its target is its version. *)
<1>6. ASSUME NEW i \in GoodObjects(b) PROVE target'[o[i].ref] = o[i].ver
  <2> DEFINE r == o[i].ref
             j == CHOOSE k \in GoodOf(b, r) : TRUE
  <2>1. r \in Refs /\ i \in GoodOf(b, r)
    BY <1>3, <1>5
  <2>2. target'[r] = o[j].ver
    BY <1>0, <2>1
  <2>3. j \in GoodOf(b, r)
    BY <2>1
  <2> HIDE DEF j
  <2>4. j \in GoodObjects(b) /\ o[j].ref = r
    BY <1>5, <2>1, <2>3
  <2>5. j = i
    BY <1>2, <1>3, <2>4 DEF OneGood
  <2> QED
    BY <2>2, <2>5
<1>7. ASSUME NEW r \in Refs, r \notin persisted' PROVE target'[r] = 0
  <2>1. GoodOf(b, r) = {}
    BY <1>0, <1>5, <1>7
  <2> QED
    BY <1>0, <2>1
<1>8. ASSUME NEW r \in persisted' PROVE r \in Refs /\ target'[r] \in 1..MaxSets
  <2>1. PICK i \in GoodObjects(b) : r = o[i].ref
    BY <1>0, <1>8
  <2> QED
    BY <1>3, <1>6, <2>1
<1>9. target' \in [Refs -> 0..MaxSets]
  <2>1. MaxSets \in Nat
    BY PersistenceAssumption
  <2>2. \A r \in Refs : target'[r] \in 0..MaxSets
    BY <1>7, <1>8, <2>1
  <2>3. target' = [r \in Refs |-> target'[r]]
    BY <1>0
  <2> QED
    BY <2>2, <2>3
<1>10. persisted' = {r \in Refs : target'[r] # 0}
  BY <1>7, <1>8
<1>11. Stores(o, persisted', target')
  <2>1. \A i \in 1..Len(o) : o[i].st = "good" => o[i].ref \in persisted' /\ o[i].ver = target'[o[i].ref]
    BY <1>0, <1>3, <1>6
  <2>2. \A r \in persisted' : \E i \in 1..Len(o) : o[i].st = "good" /\ o[i].ref = r
    BY <1>0, <1>3
  <2> QED
    BY <2>1, <2>2 DEF Stores
<1>12. FlashTyped'
  BY <1>0 DEF FlashTyped
<1>13. RamTyped'
  BY <1>0, <1>4, <1>7, <1>8, <1>9 DEF RamTyped, Statuses
<1>14. Content'
  BY <1>0, <1>1, <1>11 DEF o, Content, LiveStores, SpareStores, PendingBegun, WhenOff, Running, Copying
<1> QED
  BY <1>0, <1>10, <1>12, <1>13, <1>14 DEF b, Typed, Running

LEMMA KeptByOff ==
  ASSUME Typed, Content, GoesOff
  PROVE  Typed' /\ Content' /\ ~Running' /\ UNCHANGED <<flash, live>> /\ state' = "Off"
<1>0. /\ RamTyped /\ FlashTyped
      /\ restarts < MaxRestarts /\ restarts' = restarts + 1
      /\ state' = "Off" /\ forced' = 0
      /\ pending' = NoRef /\ left' = 0
      /\ list' = <<>> /\ target' = [r \in Refs |-> 0]
      /\ persisted' = {} /\ copied' = {}
      /\ UNCHANGED <<flash, live, clock, faults>>
  BY DEF GoesOff, Typed
<1>1. <<>> \in Seq(Refs) /\ IsInjective(<<>>)
  BY DEF IsInjective
<1>2. RamTyped'
  BY <1>0, <1>1, PersistenceAssumption DEF RamTyped, Statuses
<1>3. FlashTyped'
  BY <1>0 DEF FlashTyped
<1>4. Content'
  BY <1>0 DEF Content, LiveStores, SpareStores, PendingBegun, WhenOff, Running, Copying
<1> QED
  BY <1>0, <1>2, <1>3, <1>4 DEF Typed, Running

(* The passes that write nothing to the flash and touch no reference.      *)
Quiet ==
  \/ FlushTriggers \/ FlushDone \/ Idle \/ Erase \/ CopyDone \/ CopyBackFails \/ CopyBackDone
  \/ Reboot \/ RebootFlush

LEMMA KeptByQuiet ==
  ASSUME Typed, Content, Quiet
  PROVE  /\ Typed' /\ Content' /\ Running /\ Running'
         /\ UNCHANGED <<flash, live, list, target, persisted>>
<1>0. /\ RamTyped /\ FlashTyped /\ 0 \in 0..Bursts /\ forced \in 0..4
  BY PersistenceAssumption DEF Typed, RamTyped
<1>1. /\ Running /\ Running' /\ state \in Statuses /\ state' \in Statuses
      /\ UNCHANGED <<flash, live, list, target, persisted, clock, restarts>>
      /\ forced' \in 0..4 /\ left' \in 0..Bursts
  <2>1. CASE FlushTriggers \/ FlushDone
    BY <1>0, <2>1 DEF FlushTriggers, FlushDone, Advances, Returns, Running, Statuses, RamTyped, ram
  <2>2. CASE Idle \/ Erase \/ CopyDone \/ CopyBackDone
    BY <1>0, <2>2
    DEF Idle, Erase, CopyDone, CopyBackDone, Advances, Returns, Continues, Running, Statuses, RamTyped, ram
  <2>3. CASE CopyBackFails
    BY <1>0, <2>3 DEF CopyBackFails, Advances, Returns, Running, Statuses, RamTyped, ram
  <2>4. CASE Reboot
    BY <1>0, <2>4 DEF Reboot, ProgramRuns, Running, RamTyped, ram
  <2>5. CASE RebootFlush
    BY <1>0, <2>5 DEF RebootFlush, Content, WhenOff, Running, Statuses, RamTyped, ram
  <2> QED
    BY <2>1, <2>2, <2>3, <2>4, <2>5 DEF Quiet
<1>2. pending' \in Refs \cup {NoRef} /\ faults' \in 0..MaxFaults
  <2>1. CASE CopyBackFails
    <3>1. Uncopied \subseteq Nat /\ Uncopied # {} /\ \A i \in Uncopied : list[i] \in Refs
      BY <1>0, <2>1 DEF Uncopied, CopyBackFails, RamTyped
    <3>2. list[Min(Uncopied)] \in Refs
      BY <3>1, MinIs
    <3> QED
      BY <1>0, <2>1, <3>2, PersistenceAssumption DEF CopyBackFails, RamTyped
  <2>2. CASE ~CopyBackFails
    BY <1>0, <2>2
    DEF Quiet, FlushTriggers, FlushDone, Idle, Erase, CopyDone, CopyBackDone, Reboot, RebootFlush, RamTyped
  <2> QED
    BY <2>1, <2>2
<1>3. copied' = copied \/ (copied' = {} /\ Erase)
  BY DEF Quiet, FlushTriggers, FlushDone, Idle, Erase, CopyDone, CopyBackFails, CopyBackDone, Reboot, RebootFlush, ram
<1>4. FlashTyped'
  BY <1>0, <1>1 DEF FlashTyped
<1>5. RamTyped'
  BY <1>0, <1>1, <1>2, <1>3 DEF RamTyped
<1>6. LiveStores' /\ WhenOff'
  BY <1>1 DEF Content, LiveStores, WhenOff, Running
<1>7. Spare' = Spare
  BY <1>1 DEF Spare
<1>8. SpareStores' /\ PendingBegun'
  <2>1. CASE FlushTriggers \/ FlushDone \/ Erase \/ CopyBackFails \/ RebootFlush
    BY <2>1
    DEF FlushTriggers, FlushDone, Erase, CopyBackFails, RebootFlush, SpareStores, PendingBegun, Copying
  <2>2. CASE Idle \/ Reboot
    <3>1. UNCHANGED <<state, pending, left, copied>>
      BY <2>2 DEF Idle, Reboot, ram
    <3> QED
      BY <1>1, <1>7, <3>1 DEF Content, SpareStores, PendingBegun, Copying
  <2>3. CASE CopyDone
    <3>1. /\ state = "CopyToOtherBank" /\ state' = "CopyBackToRam" /\ pending' = NoRef
          /\ UNCHANGED copied
      BY <2>3 DEF CopyDone, Advances, ram
    <3> QED
      BY <1>1, <1>7, <3>1 DEF Content, SpareStores, PendingBegun, Copying
  <2>4. CASE CopyBackDone
    <3>1. /\ state = "CopyBackToRam" /\ state' = "SwitchBank" /\ UNCHANGED <<copied, pending>>
          /\ Uncopied = {}
      BY <2>4 DEF CopyBackDone, Advances, ram
    <3>2. ASSUME NEW r \in persisted PROVE r \in copied
      <4>1. PICK i \in DOMAIN list : list[i] = r
        BY <1>1, PersistedListed
      <4> QED
        BY <3>1, <4>1 DEF Uncopied
    <3> QED
      BY <1>1, <1>7, <3>1, <3>2 DEF Content, SpareStores, PendingBegun, Copying
  <2> QED
    BY <2>1, <2>2, <2>3, <2>4 DEF Quiet
<1> QED
  BY <1>1, <1>4, <1>5, <1>6, <1>8 DEF Typed, Content

LEMMA KeptByStutter ==
  ASSUME Typed, Content, UNCHANGED vars
  PROVE  Typed' /\ Content'
<1>1. FlashTyped' /\ RamTyped'
  BY DEF vars, Typed, FlashTyped, RamTyped
<1>2. UNCHANGED <<flash, live, state, pending, left, target, persisted, copied, forced>> /\ Spare' = Spare
  BY DEF vars, Spare
<1>3. LiveStores' /\ SpareStores' /\ PendingBegun'
  BY <1>2 DEF Content, LiveStores, SpareStores, PendingBegun, Running, Copying
<1>4. WhenOff'
  BY <1>2 DEF Content, WhenOff, Running, GoodBank
<1> QED
  BY <1>1, <1>3, <1>4 DEF Typed, Content

(* The actions, as the lemmas group them.                                  *)
LEMMA Actions ==
  ASSUME Next
  PROVE  \/ Boot \/ BootFormat \/ BootNumber
         \/ \E r \in Refs : SetTarget(r) \/ SetSame(r) \/ DropTarget(r) \/ Collect(r)
         \/ FlushBurst \/ CopyBurst \/ EraseSector \/ CopyBackOne \/ SwitchBank
         \/ Quiet \/ GoesOff
BY DEF Next, AdvanceState, Quiet, RebootResets, PowerLoss

LEMMA KeptNext == Typed /\ Content /\ [Next]_vars => Typed' /\ Content'
<1> SUFFICES ASSUME Typed, Content, [Next]_vars PROVE Typed' /\ Content'
  OBVIOUS
<1>1. CASE UNCHANGED vars
  BY <1>1, KeptByStutter
<1>2. CASE Next
  BY <1>2, Actions, KeptByBoot, KeptByBootFormat, KeptByBootNumber, KeptBySet, KeptBySame,
     KeptByDrop, KeptByCollect, KeptByFlush, KeptByCopy, KeptByErase, KeptByCopyBack, KeptBySwitch,
     KeptByQuiet, KeptByOff
<1> QED
  BY <1>1, <1>2

-----------------------------------------------------------------------------
(***************************************************************************)
(* What a restart finds.                                                   *)
(***************************************************************************)
Found(s) == [r \in Refs |-> {s[i].ver : i \in {k \in 1..Len(s) : s[k].st = "good" /\ s[k].ref = r}}]

Kept(P, T) == [r \in Refs |-> IF r \in P THEN {T[r]} ELSE {}]

LEMMA FoundIs ==
  ASSUME NEW s \in Seq(Objects), NEW P, NEW T, Stores(s, P, T)
  PROVE  Found(s) = Kept(P, T)
<1> SUFFICES ASSUME NEW r \in Refs
             PROVE  {s[i].ver : i \in {k \in 1..Len(s) : s[k].st = "good" /\ s[k].ref = r}}
                      = IF r \in P THEN {T[r]} ELSE {}
  BY DEF Found, Kept
<1> DEFINE K == {k \in 1..Len(s) : s[k].st = "good" /\ s[k].ref = r}
<1>1. \A k \in K : r \in P /\ s[k].ver = T[r]
  BY DEF Stores
<1>2. r \in P => K # {}
  BY DEF Stores
<1> HIDE DEF K
<1>3. CASE r \in P
  BY <1>1, <1>2, <1>3 DEF K
<1>4. CASE r \notin P
  BY <1>1, <1>4 DEF K
<1> QED
  BY <1>3, <1>4

LEMMA FoundOne ==
  ASSUME NEW s \in Seq(Objects), OneGood(s)
  PROVE  Found(s) \in [Refs -> {{}} \cup {{v} : v \in 1..MaxSets}]
<1> SUFFICES ASSUME NEW r \in Refs
             PROVE  {s[i].ver : i \in {k \in 1..Len(s) : s[k].st = "good" /\ s[k].ref = r}}
                      \in {{}} \cup {{v} : v \in 1..MaxSets}
  BY DEF Found
<1> DEFINE K == {k \in 1..Len(s) : s[k].st = "good" /\ s[k].ref = r}
           V == {s[i].ver : i \in K}
<1>1. \A j, k \in K : j = k
  BY DEF OneGood
<1>2. \A k \in K : s[k].ver \in 1..MaxSets
  <2>1. \A k \in 1..Len(s) : s[k] \in Objects
    OBVIOUS
  <2> QED
    BY <2>1 DEF Objects
<1> HIDE DEF K
<1>3. CASE K = {}
  BY <1>3 DEF K
<1>4. CASE K # {}
  <2>1. PICK k \in K : TRUE
    BY <1>4
  <2>2. V = {s[k].ver}
    BY <1>1, <2>1
  <2> QED
    BY <1>2, <2>1, <2>2 DEF K
<1> QED
  BY <1>3, <1>4

LEMMA NothingFound == Found(<<>>) = Kept({}, [r \in Refs |-> 0])
BY NothingStored, FoundIs

LEMMA RecoverableIs ==
  ASSUME NEW b, flash[b].objs \in Seq(Objects)
  PROVE  Recoverable(b) = Found(flash[b].objs)
<1>1. DOMAIN flash[b].objs = 1..Len(flash[b].objs)
  OBVIOUS
<1>2. \A r \in Refs : GoodOf(b, r) = {k \in 1..Len(flash[b].objs) :
                         flash[b].objs[k].st = "good" /\ flash[b].objs[k].ref = r}
  BY <1>1 DEF GoodOf, GoodObjects
<1> QED
  BY <1>2 DEF Recoverable, Found

LEMMA FlagsAgreeIs == Typed /\ Content => FlagsAgree
<1> SUFFICES ASSUME Typed, Content, Running
             PROVE  \A r \in Refs : Recoverable(live)[r] = IF r \in persisted THEN {target[r]} ELSE {}
  BY DEF FlagsAgree
<1>1. flash[live].objs \in Seq(Objects) /\ Stores(flash[live].objs, persisted, target)
  BY DEF Typed, FlashTyped, RamTyped, Flash, Content, LiveStores
<1>2. Recoverable(live) = Kept(persisted, target)
  BY <1>1, RecoverableIs, FoundIs
<1> QED
  BY <1>2 DEF Kept

-----------------------------------------------------------------------------
(***************************************************************************)
(* A restart takes the bank in use.                                        *)
(***************************************************************************)
Compacting ==
  state \in {"CopyToOtherBank", "CopyBackToRam", "SwitchBank", "Erase", "EraseSector"}

LEMMA BanksLater ==
  ASSUME SeqsOf(flash, flash'), live' = live, live \in Banks
  PROVE  /\ BootBank' = BootBank /\ Spare' = Spare
         /\ \A c \in Banks : GoodBank(c)' = GoodBank(c)
<1>1. flash'[1].seq = flash[1].seq /\ flash'[2].seq = flash[2].seq
  BY DEF SeqsOf, Banks
<1>2. GoodBank(1)' = GoodBank(1) /\ GoodBank(2)' = GoodBank(2)
  BY <1>1 DEF GoodBank
<1>3. BootBank' = BootBank
  BY <1>1, <1>2 DEF BootBank
<1> QED
  BY <1>2, <1>3 DEF Banks, Spare

(* A step that writes no header leaves a restart what it was, as long as   *)
(* the compaction, or the second Flush of Reboot, goes on.                 *)
LEMMA BootsSame ==
  ASSUME LiveBankBoots, SeqsOf(flash, flash'), live' = live, live \in Banks,
         state # "Off",
         Compacting \/ forced \in {3, 4} => Compacting' \/ forced' \in {3, 4}
  PROVE  LiveBankBoots'
<1>1. BootBank' = BootBank /\ Spare' = Spare /\ GoodBank(live)' = GoodBank(live)
  <2>1. /\ BootBank' = BootBank /\ Spare' = Spare
        /\ \A c \in Banks : GoodBank(c)' = GoodBank(c)
    BY BanksLater
  <2>2. GoodBank(live)' = (flash'[live].seq \notin {NoHeader, 0})
    BY DEF GoodBank
  <2>3. flash'[live].seq = flash[live].seq
    BY DEF SeqsOf
  <2> QED
    BY <2>1, <2>2, <2>3 DEF GoodBank
<1>2. Spare \in Banks
  BY BanksAre
<1>3. flash'[live].seq = flash[live].seq /\ flash'[Spare].seq = flash[Spare].seq
  BY <1>2 DEF SeqsOf
<1>4. ASSUME Exposed' PROVE Exposed
  BY <1>1, <1>4 DEF Exposed
<1> QED
  BY <1>1, <1>3, <1>4 DEF LiveBankBoots, Compacting

(* No step of the program or of Flush takes the manager out of a           *)
(* compaction, and the second Flush of Reboot is not followed by a first.  *)
LEMMA ProgramCompacts ==
  ASSUME ProgramRuns, state' = StateAfterChange, forced' = forced
  PROVE  Compacting \/ forced \in {3, 4} => Compacting' \/ forced' \in {3, 4}
BY DEF ProgramRuns, StateAfterChange, Compacting

LEMMA QuietCompacts ==
  ASSUME Quiet
  PROVE  Compacting \/ forced \in {3, 4} => Compacting' \/ forced' \in {3, 4}
<1>1. CASE FlushTriggers \/ Erase \/ CopyBackFails
  BY <1>1 DEF FlushTriggers, Erase, CopyBackFails, Compacting
<1>2. CASE CopyDone \/ CopyBackDone
  BY <1>2 DEF CopyDone, CopyBackDone, Compacting
<1>3. CASE FlushDone \/ Idle
  BY <1>3 DEF FlushDone, Idle, Advances, Returns, Compacting
<1>4. CASE Reboot
  BY <1>4 DEF Reboot, ProgramRuns, Compacting
<1>5. CASE RebootFlush
  BY <1>5 DEF RebootFlush
<1> QED
  BY <1>1, <1>2, <1>3, <1>4, <1>5 DEF Quiet

(* The bank with the higher number is the one a restart takes.             *)
LEMMA HigherBoots ==
  ASSUME NEW b \in Banks, live' = b,
         flash'[b].seq \in Nat \ {0},
         flash'[Other(b)].seq \in {NoHeader, 0} \/ flash'[Other(b)].seq \in Int,
         flash'[Other(b)].seq \in {NoHeader, 0} \/ flash'[Other(b)].seq < flash'[b].seq
  PROVE  ~Exposed'
<1>1. CASE b = 1
  <2>1. Other(b) = 2
    BY <1>1 DEF Other
  <2> QED
    BY <1>1, <2>1 DEF Exposed, BootBank, GoodBank, NoHeader
<1>2. CASE b = 2
  <2>1. Other(b) = 1
    BY <1>2 DEF Other
  <2> QED
    BY <1>2, <2>1 DEF Exposed, BootBank, GoodBank, NoHeader
<1> QED
  BY <1>1, <1>2 DEF Banks

LEMMA BootsNext ==
  ASSUME Typed, Content, LiveBankBoots, [Next]_vars
  PROVE  LiveBankBoots'
<1>0. live \in Banks /\ flash \in Flash /\ state \in Statuses
  BY DEF Typed, RamTyped, FlashTyped
<1>1. CASE UNCHANGED vars \/ \E r \in Refs : SetSame(r)
  <2>1. UNCHANGED <<flash, live, state, forced>>
    BY <1>1 DEF vars, SetSame
  <2>2. SeqsOf(flash, flash')
    BY <2>1 DEF SeqsOf
  <2>3. CASE state = "Off"
    BY <2>1, <2>3 DEF LiveBankBoots, Exposed
  <2>4. CASE state # "Off"
    BY <1>0, <2>1, <2>2, <2>4, BootsSame DEF Compacting
  <2> QED
    BY <2>3, <2>4
<1>2. CASE Boot
  <2>1. live' = BootBank /\ GoodBank(BootBank) /\ flash' = flash
    BY <1>2, KeptByBoot
  <2>2. BootBank' = BootBank
    BY <2>1 DEF BootBank, GoodBank
  <2>3. GoodBank(live)'
    BY <2>1 DEF GoodBank
  <2> QED
    BY <2>1, <2>2, <2>3 DEF LiveBankBoots, Exposed
<1>3. CASE BootFormat
  <2>1. Typed' /\ Content' /\ live' = 1 /\ state' = "Formatted"
    BY <1>3, KeptByBootFormat DEF BootFormat
  <2>2. flash'[1] = Formatted /\ ~GoodBank(2)'
    BY <2>1 DEF Content, WhenOff
  <2>3. /\ 1 \in Banks /\ Other(1) = 2 /\ flash'[1].seq \in Nat \ {0}
        /\ flash'[2].seq \in {NoHeader, 0}
    BY <2>2, PersistenceAssumption DEF Banks, Other, Formatted, GoodBank
  <2>4. ~Exposed'
    BY <2>1, <2>3, HigherBoots
  <2> QED
    BY <2>4 DEF LiveBankBoots
<1>4. CASE BootNumber
  <2>1. live' = 1 /\ flash'[1].seq = 1 /\ flash'[2] = flash[2] /\ ~GoodBank(2)
    BY <1>4, KeptByBootNumber
  <2>2. 1 \in Banks /\ Other(1) = 2 /\ flash'[1].seq \in Nat \ {0} /\ flash'[2].seq \in {NoHeader, 0}
    BY <2>1 DEF Banks, Other, GoodBank
  <2>3. ~Exposed'
    BY <2>1, <2>2, HigherBoots
  <2> QED
    BY <2>3 DEF LiveBankBoots
<1>5. ASSUME NEW r \in Refs, SetTarget(r) \/ DropTarget(r) \/ Collect(r)
      PROVE  LiveBankBoots'
  <2>1. SeqsOf(flash, flash')
    BY <1>5, KeptBySet, KeptByDrop, KeptByCollect
  <2>2. ProgramRuns /\ live' = live /\ forced' = forced /\ state' = StateAfterChange
    BY <1>5 DEF SetTarget, DropTarget, Collect, InvalidateEntry
  <2>3. state # "Off"
    BY <2>2 DEF ProgramRuns
  <2>4. Compacting \/ forced \in {3, 4} => Compacting' \/ forced' \in {3, 4}
    BY <2>2, ProgramCompacts
  <2> QED
    BY <1>0, <2>1, <2>2, <2>3, <2>4, BootsSame
<1>6. CASE FlushBurst \/ CopyBurst \/ CopyBackOne
  <2>1. SeqsOf(flash, flash')
    BY <1>6, KeptByFlush, KeptByCopy, KeptByCopyBack
  <2>2. UNCHANGED <<live, state, forced>> /\ state # "Off"
    BY <1>6 DEF FlushBurst, CopyBurst, CopyBackOne, Advances, Continues
  <2>3. Compacting \/ forced \in {3, 4} => Compacting' \/ forced' \in {3, 4}
    BY <2>2 DEF Compacting
  <2> QED
    BY <1>0, <2>1, <2>2, <2>3, BootsSame
<1>7. CASE EraseSector
  <2>1. /\ state' = "CopyToOtherBank" /\ live' = live
        /\ flash' = [flash EXCEPT ![Spare] = Formatted]
    BY <1>7 DEF EraseSector
  <2>2. Spare \in Banks /\ Spare' = Spare
    BY <1>0, <2>1, BanksAre DEF Spare
  <2>3. flash'[Spare].seq = ErasedSeq
    BY <1>0, <2>1, <2>2 DEF Flash, Formatted
  <2> QED
    BY <2>1, <2>2, <2>3 DEF LiveBankBoots
<1>8. CASE SwitchBank
  <2>1. live' = Spare /\ flash' = [flash EXCEPT ![Spare].seq = NextSequence]
    BY <1>8 DEF SwitchBank
  <2>2. Spare \in Banks /\ Spare # live /\ live = Other(Spare)
    BY <1>0, BanksAre
  <2>3. flash'[Spare].seq = NextSequence /\ flash'[live] = flash[live]
    BY <1>0, <2>1, <2>2 DEF Flash
  <2>4. /\ NextSequence \in 0..ErasedSeq
        /\ NextSequence = IF flash[live].seq = ErasedSeq THEN 0 ELSE flash[live].seq + 1
    BY NextSequenceIs
  <2>5. flash[live].seq \in NoHeader .. ErasedSeq /\ ErasedSeq \in Nat
    BY <1>0, PersistenceAssumption DEF Flash
  <2>6. CASE NextSequence = 0
    BY <2>1, <2>3, <2>6 DEF LiveBankBoots
  <2>7. CASE NextSequence # 0
    <3>1. NextSequence \in Nat \ {0} /\ flash[live].seq \in Int /\ flash[live].seq < NextSequence
      BY <2>4, <2>5, <2>7 DEF NoHeader
    <3>2. ~Exposed'
      BY <2>1, <2>2, <2>3, <3>1, HigherBoots
    <3> QED
      BY <3>2 DEF LiveBankBoots
  <2> QED
    BY <2>6, <2>7
<1>9. CASE Quiet
  <2>1. Running /\ UNCHANGED <<flash, live>>
    BY <1>9, KeptByQuiet
  <2>2. SeqsOf(flash, flash') /\ state # "Off"
    BY <2>1 DEF SeqsOf, Running
  <2> QED
    BY <1>0, <1>9, <2>1, <2>2, QuietCompacts, BootsSame
<1>10. CASE GoesOff
  BY <1>10 DEF GoesOff, LiveBankBoots, Exposed
<1> QED
  BY <1>1, <1>2, <1>3, <1>4, <1>5, <1>6, <1>7, <1>8, <1>9, <1>10, Actions

-----------------------------------------------------------------------------
(***************************************************************************)
(* Idle means saved.                                                       *)
(***************************************************************************)
LEMMA UsedGrows ==
  ASSUME Typed, NEW i \in Nat, NEW j \in Nat, i <= j
  PROVE  /\ UsedUpTo(i) \in Nat /\ UsedUpTo(j) \in Nat
         /\ UsedUpTo(i) <= UsedUpTo(j)
<1> DEFINE S(n) == {k \in 1..n : target[list[k]] # 0}
<1>1. IsFiniteSet(1..j)
  BY FS_Interval
<1>2. S(j) \in SUBSET (1..j) /\ S(i) \in SUBSET S(j)
  OBVIOUS
<1>3. UsedUpTo(i) = Cardinality(S(i)) /\ UsedUpTo(j) = Cardinality(S(j))
  BY DEF UsedUpTo
<1> HIDE DEF S
<1>4. IsFiniteSet(S(j))
  BY <1>1, <1>2, FS_Subset
<1>5. IsFiniteSet(S(i)) /\ Cardinality(S(i)) <= Cardinality(S(j))
  BY <1>2, <1>4, FS_Subset
<1> QED
  BY <1>3, <1>4, <1>5, FS_CardinalityType

LEMMA DoneSaves ==
  ASSUME Typed, FlushDone
  PROVE  SafePartSaved'
<1>1. /\ UNCHANGED <<list, target, persisted>> /\ SafeCapacity \in Nat
      /\ Unsaved # {} => UsedUpTo(Min(Unsaved)) > SafeCapacity
      /\ DOMAIN list = 1..Len(list) /\ Len(list) \in Nat
  BY PersistenceAssumption DEF FlushDone, ram, Typed, RamTyped
<1>2. SUFFICES ASSUME NEW i \in DOMAIN list, target[list[i]] # 0, UsedUpTo(i) <= SafeCapacity,
                      list[i] \notin persisted
               PROVE  FALSE
  BY <1>1 DEF SafePartSaved, UsedUpTo
<1>3. i \in Unsaved /\ Unsaved \subseteq Nat
  BY <1>1, <1>2 DEF Unsaved
<1>4. Min(Unsaved) \in Nat /\ i \in Nat /\ Min(Unsaved) <= i
  BY <1>3, MinIs
<1>5. /\ UsedUpTo(Min(Unsaved)) \in Nat /\ UsedUpTo(i) \in Nat
      /\ UsedUpTo(Min(Unsaved)) <= UsedUpTo(i)
  BY <1>4, UsedGrows
<1> QED
  BY <1>1, <1>2, <1>3, <1>5

(* A step into the idle state, or one that stays there.                    *)
LEMMA IdleStep ==
  ASSUME Typed, [Next]_vars, state' = "Idle"
  PROVE  IF state = "Idle" THEN UNCHANGED <<flash, target, persisted>> ELSE SafePartSaved'
<1>1. CASE FlushDone
  BY <1>1, DoneSaves DEF FlushDone, Advances
<1>2. CASE Idle \/ Reboot \/ UNCHANGED vars \/ \E r \in Refs : SetSame(r)
  BY <1>2 DEF Idle, Reboot, SetSame, vars, ram
<1>3. ASSUME NEW r \in Refs, SetTarget(r) \/ DropTarget(r) \/ Collect(r) PROVE FALSE
  BY <1>3 DEF SetTarget, DropTarget, Collect, InvalidateEntry, StateAfterChange
<1>4. CASE Boot \/ BootFormat \/ BootNumber \/ RebootFlush \/ RebootResets \/ PowerLoss
  BY <1>4 DEF Boot, BootFormat, BootNumber, RebootFlush, RebootResets, PowerLoss, GoesOff
<1>5. CASE FlushBurst \/ CopyBurst \/ CopyBackOne
  BY <1>5 DEF FlushBurst, CopyBurst, CopyBackOne, Advances
<1>6. CASE FlushTriggers \/ Erase \/ EraseSector \/ CopyDone \/ CopyBackFails \/ CopyBackDone \/ SwitchBank
  BY <1>6
  DEF FlushTriggers, Erase, EraseSector, CopyDone, CopyBackFails, CopyBackDone, SwitchBank
<1> QED
  BY <1>1, <1>2, <1>3, <1>4, <1>5, <1>6 DEF Next, AdvanceState

-----------------------------------------------------------------------------
(***************************************************************************)
(* The manager is a store.                                                 *)
(***************************************************************************)
LEMMA StoredOn ==
  ASSUME Typed, state # "Off" PROVE Stored = Found(flash[live].objs)
<1>1. flash[live].objs \in Seq(Objects)
  BY DEF Typed, FlashTyped, RamTyped, Flash
<1> QED
  BY <1>1, RecoverableIs DEF Stored

LEMMA StoredOnLater ==
  ASSUME Typed', state' # "Off" PROVE Stored' = Found(flash'[live'].objs)
<1>1. flash'[live'].objs \in Seq(Objects)
  BY DEF Typed, FlashTyped, RamTyped, Flash
<1>2. Recoverable(live)' = [r \in Refs |-> {flash'[live'].objs[i].ver : i \in GoodOf(live, r)'}]
  BY DEF Recoverable
<1>3. DOMAIN flash'[live'].objs = 1..Len(flash'[live'].objs)
  BY <1>1
<1>4. \A r \in Refs : GoodOf(live, r)' = {k \in 1..Len(flash'[live'].objs) :
           flash'[live'].objs[k].st = "good" /\ flash'[live'].objs[k].ref = r}
  BY <1>3 DEF GoodOf, GoodObjects
<1>5. Recoverable(live)' = Found(flash'[live'].objs)
  BY <1>2, <1>4 DEF Found
<1> QED
  BY <1>5 DEF Stored

(* What a restart finds in the bank that it chooses.                       *)
AfterPowerUp ==
  IF GoodBank(BootBank) THEN Found(flash[BootBank].objs) ELSE [r \in Refs |-> {}]

LEMMA StoredOff ==
  ASSUME Typed, state = "Off" PROVE Stored = AfterPowerUp
<1>1. flash[BootBank].objs \in Seq(Objects)
  BY BootBankIs DEF Typed, FlashTyped, Flash
<1> QED
  BY <1>1, RecoverableIs DEF Stored, AfterPowerUp

LEMMA StoredOffLater ==
  ASSUME Typed, state' = "Off", flash' = flash PROVE Stored' = AfterPowerUp
<1>1. flash[BootBank].objs \in Seq(Objects)
  BY BootBankIs DEF Typed, FlashTyped, Flash
<1>2. BootBank' = BootBank /\ GoodBank(BootBank)' = GoodBank(BootBank)
  BY DEF BootBank, GoodBank
<1>3. Recoverable(BootBank)' = Recoverable(BootBank)
  BY <1>2 DEF Recoverable, GoodOf, GoodObjects
<1> QED
  BY <1>1, <1>2, <1>3, RecoverableIs DEF Stored, AfterPowerUp

(* While the program runs, what is stored is what the flags say.           *)
LEMMA StoredIs ==
  ASSUME Typed, Content, Running PROVE Stored = Kept(persisted, target)
<1>1. flash[live].objs \in Seq(Objects) /\ Stores(flash[live].objs, persisted, target)
  BY DEF Typed, FlashTyped, RamTyped, Flash, Content, LiveStores
<1> QED
  BY <1>1, StoredOn, FoundIs DEF Running

LEMMA StoredLater ==
  ASSUME Typed', Content', Running' PROVE Stored' = Kept(persisted', target')
<1>1. flash'[live'].objs \in Seq(Objects) /\ Stores(flash'[live'].objs, persisted', target')
  BY DEF Typed, FlashTyped, RamTyped, Flash, Content, LiveStores
<1> QED
  BY <1>1, StoredOnLater, FoundIs DEF Running

LEMMA InitStore == Init => Store!Init
<1> SUFFICES ASSUME Init PROVE Store!Init
  OBVIOUS
<1>1. ~GoodBank(BootBank) /\ state = "Off"
  BY DEF Init, GoodBank, BootBank, Erased, Banks
<1>2. Stored = [r \in Refs |-> {}] /\ Exposed = FALSE
  BY <1>1 DEF Stored, Exposed
<1>3. Running = FALSE /\ target = [r \in Refs |-> 0]
  BY <1>1 DEF Init, Running
<1> QED
  BY <1>2, <1>3 DEF Store!Init

LEMMA ProgramReplaces ==
  ASSUME Typed, Content, NEW r \in Refs, SetTarget(r) \/ DropTarget(r) \/ Collect(r)
  PROVE  Store!Replace(r)
<1>1. Running /\ persisted' = persisted \ {r} /\ target \in [Refs -> 0..MaxSets]
  BY DEF SetTarget, DropTarget, Collect, ProgramRuns, InvalidateEntry, Running, Typed, RamTyped
<1>2. Typed' /\ Content' /\ Running'
  BY KeptBySet, KeptByDrop, KeptByCollect
<1>3. PICK v \in (1..MaxSets) \cup {0} : target' = [target EXCEPT ![r] = v]
  <2>1. CASE SetTarget(r)
    <3>1. clock + 1 \in 1..MaxSets /\ target' = [target EXCEPT ![r] = clock + 1]
      BY <2>1, PersistenceAssumption DEF SetTarget, Typed, RamTyped
    <3> QED
      BY <3>1
  <2>2. CASE DropTarget(r) \/ Collect(r)
    BY <2>2 DEF DropTarget, Collect
  <2> QED
    BY <2>1, <2>2
<1>4. Stored = Kept(persisted, target) /\ Stored' = Kept(persisted', target')
  BY <1>1, <1>2, StoredIs, StoredLater
<1>5. \A q \in Refs : q # r => target'[q] = target[q]
  BY <1>1, <1>3
<1>6. Kept(persisted', target') = [Kept(persisted, target) EXCEPT ![r] = {}]
  BY <1>1, <1>5 DEF Kept
<1>7. Stored' = [Stored EXCEPT ![r] = {}] /\ Running' = Running
  BY <1>1, <1>2, <1>4, <1>6
<1> QED
  BY <1>1, <1>3, <1>7 DEF Store!Replace

LEMMA FlushSaves ==
  ASSUME Typed, Content, FlushBurst
  PROVE  \/ UNCHANGED <<Running, target, Stored>>
         \/ \E r \in Refs : Store!Save(r)
<1>1. Running /\ Running' /\ target' = target
  BY DEF FlushBurst, Advances, Running
<1>2. /\ Typed' /\ Content'
      /\ \/ persisted' = persisted
         \/ \E r \in Refs : r \notin persisted /\ target[r] # 0 /\ persisted' = persisted \cup {r}
  BY KeptByFlush
<1>3. Stored = Kept(persisted, target) /\ Stored' = Kept(persisted', target)
  BY <1>1, <1>2, StoredIs, StoredLater
<1>4. CASE persisted' = persisted
  BY <1>1, <1>3, <1>4
<1>5. ASSUME NEW r \in Refs, r \notin persisted, target[r] # 0, persisted' = persisted \cup {r}
      PROVE  Store!Save(r)
  <2>1. Kept(persisted', target) = [Kept(persisted, target) EXCEPT ![r] = {target[r]}]
    BY <1>5 DEF Kept
  <2>2. Stored[r] = {}
    BY <1>3, <1>5 DEF Kept
  <2>3. Stored' = [Stored EXCEPT ![r] = {target[r]}] /\ Running' = Running
    BY <1>1, <1>3, <2>1
  <2> QED
    BY <1>1, <1>5, <2>2, <2>3 DEF Store!Save
<1> QED
  BY <1>2, <1>4, <1>5

LEMMA CopyBackReverts ==
  ASSUME Typed, Content, CopyBackOne
  PROVE  \E r \in Refs : Store!Revert(r)
<1>1. Running /\ Running' /\ target' = target
  BY DEF CopyBackOne, Advances, Running
<1>2. Typed' /\ Content' /\ \E r \in Refs : r \in persisted /\ persisted' = persisted \ {r}
  BY KeptByCopyBack
<1>3. PICK r \in Refs : r \in persisted /\ persisted' = persisted \ {r}
  BY <1>2
<1>4. Stored = Kept(persisted, target) /\ Stored' = Kept(persisted', target)
  BY <1>1, <1>2, StoredIs, StoredLater
<1>5. Kept(persisted', target) = [Kept(persisted, target) EXCEPT ![r] = {}]
  BY <1>3 DEF Kept
<1>6. Stored[r] # {}
  BY <1>3, <1>4 DEF Kept
<1>7. Stored' = [Stored EXCEPT ![r] = {}] /\ Running' = Running
  BY <1>1, <1>4, <1>5
<1> QED
  BY <1>1, <1>6, <1>7 DEF Store!Revert

LEMMA SameKeepsStore ==
  ASSUME Typed, Content, NEW r \in Refs, SetSame(r)
  PROVE  UNCHANGED <<Running, target, Stored>>
<1>1. Typed' /\ Content' /\ Running /\ Running' /\ UNCHANGED <<target, persisted>>
  BY KeptBySame DEF SetSame
<1>2. Stored = Kept(persisted, target) /\ Stored' = Kept(persisted', target')
  BY <1>1, StoredIs, StoredLater
<1> QED
  BY <1>1, <1>2

(* The other passes leave what a restart finds as it is.                   *)
LEMMA OthersKeepStore ==
  ASSUME Typed, Content, CopyBurst \/ EraseSector \/ SwitchBank \/ Quiet
  PROVE  UNCHANGED <<Running, target, Stored>>
<1>1. Running /\ Running' /\ UNCHANGED <<target, persisted>>
  <2>1. CASE CopyBurst \/ EraseSector \/ SwitchBank
    BY <2>1 DEF CopyBurst, EraseSector, SwitchBank, Advances, Running, ram
  <2> QED
    BY <2>1, KeptByQuiet
<1>2. Typed' /\ Content'
  BY KeptByCopy, KeptByErase, KeptBySwitch, KeptByQuiet
<1>3. Stored = Kept(persisted, target) /\ Stored' = Kept(persisted, target)
  BY <1>1, <1>2, StoredIs, StoredLater
<1> QED
  BY <1>1, <1>3

LEMMA BootRestarts ==
  ASSUME Typed, Content, Boot
  PROVE  Store!Restart
<1>1. /\ Typed' /\ Content' /\ Running' /\ live' = BootBank /\ GoodBank(BootBank)
      /\ flash' = flash /\ persisted' = {r \in Refs : target'[r] # 0}
  BY KeptByBoot
<1>2. state = "Off" /\ ~Running
  BY DEF Boot, Running
<1>3. Stored = Found(flash[BootBank].objs)
  BY <1>1, <1>2, StoredOff DEF AfterPowerUp
<1>4. Stored' = Found(flash[BootBank].objs) /\ Stored' = Kept(persisted', target')
  BY <1>1, StoredOnLater, StoredLater DEF Running
<1>5. \A r \in Refs : Stored[r] = IF target'[r] = 0 THEN {} ELSE {target'[r]}
  BY <1>1, <1>3, <1>4 DEF Kept
<1> QED
  BY <1>1, <1>2, <1>3, <1>4, <1>5 DEF Store!Restart

(* A device without a good bank starts with nothing, before and after.     *)
LEMMA FormatKeepsStore ==
  ASSUME Typed, Content, BootFormat
  PROVE  UNCHANGED <<Running, target, Stored>>
<1>1. /\ state = "Off" /\ state' = "Formatted" /\ Running' = Running /\ target' = target
      /\ ~GoodBank(BootBank) /\ live' = 1
  BY DEF BootFormat, ram, Running
<1>2. Typed' /\ Content'
  BY KeptByBootFormat
<1>3. flash'[1].objs = <<>>
  BY <1>1, <1>2 DEF Content, WhenOff, Formatted
<1>4. Stored = [r \in Refs |-> {}]
  BY <1>1 DEF Stored
<1>5. Stored' = Found(<<>>)
  BY <1>1, <1>2, <1>3, StoredOnLater
<1>6. Found(<<>>) = [r \in Refs |-> {}]
  BY NothingFound DEF Kept
<1> QED
  BY <1>1, <1>4, <1>5, <1>6

LEMMA NumberRestarts ==
  ASSUME Typed, Content, BootNumber
  PROVE  Store!Restart
<1>1. /\ state = "Formatted" /\ ~Running /\ target' = target /\ persisted' = persisted
      /\ live = 1 /\ flash[1].objs = <<>> /\ persisted = {} /\ target = [r \in Refs |-> 0]
  BY DEF BootNumber, ram, Running, Content, WhenOff, Formatted
<1>2. Typed' /\ Content' /\ Running'
  BY KeptByBootNumber
<1>3. Stored = Kept({}, target)
  BY <1>1, StoredOn, NothingFound
<1>4. Stored' = Kept({}, target)
  BY <1>1, <1>2, StoredLater
<1>5. \A r \in Refs : Stored[r] = {} /\ target'[r] = 0
  BY <1>1, <1>3 DEF Kept
<1> QED
  BY <1>1, <1>2, <1>3, <1>4, <1>5 DEF Store!Restart

(* The power goes: what is found is what was stored, if the bank in use is *)
(* the one that a restart takes, or what one good object of each reference *)
(* in the other bank says.                                                 *)
LEMMA OffLosesPower ==
  ASSUME Typed, Content, RebootResets \/ PowerLoss
  PROVE  Store!PowerLoss
<1>1. GoesOff /\ state # "Off"
  BY DEF RebootResets, PowerLoss, Content, WhenOff, Running
<1>2. ~Running' /\ flash' = flash /\ live' = live /\ state' = "Off"
  BY <1>1, KeptByOff
<1>3. Stored = Found(flash[live].objs) /\ Stored' = AfterPowerUp
  BY <1>1, <1>2, StoredOn, StoredOffLater
<1>4. target' = [r \in Refs |-> 0] /\ Running' = FALSE
  BY <1>1, <1>2 DEF GoesOff
<1>5. CASE ~Exposed
  <2>1. BootBank = live /\ GoodBank(live)
    BY <1>1, <1>5 DEF Exposed
  <2>2. Stored' = Stored
    BY <1>3, <2>1 DEF AfterPowerUp
  <2> QED
    BY <1>4, <2>2 DEF Store!PowerLoss
<1>6. CASE Exposed
  <2>1. flash[BootBank].objs \in Seq(Objects) /\ OneGood(flash[BootBank].objs)
    BY BootBankIs DEF Typed, FlashTyped, Flash
  <2>2. Found(flash[BootBank].objs) \in [Refs -> {{}} \cup {{v} : v \in 1..MaxSets}]
    BY <2>1, FoundOne
  <2>3. [r \in Refs |-> {}] \in [Refs -> {{}} \cup {{v} : v \in 1..MaxSets}]
    OBVIOUS
  <2>4. Stored' \in [Refs -> {{}} \cup {{v} : v \in 1..MaxSets}]
    BY <1>3, <2>2, <2>3 DEF AfterPowerUp
  <2> QED
    BY <1>4, <1>6, <2>4 DEF Store!PowerLoss
<1> QED
  BY <1>5, <1>6

LEMMA StepIsStore ==
  ASSUME Typed, Content, [Next]_vars
  PROVE  [Store!Next]_(Store!vars)
<1>s. ASSUME UNCHANGED <<Running, target, Stored>> PROVE Store!Next
  BY <1>s DEF Store!Next
<1>1. CASE UNCHANGED vars
  <2>1. UNCHANGED <<flash, live, state, target>>
    BY <1>1 DEF vars
  <2>2. UNCHANGED <<Running, Stored>>
    BY <2>1 DEF Running, Stored, Recoverable, GoodOf, GoodObjects, GoodBank, BootBank
  <2> QED
    BY <1>s, <2>1, <2>2
<1>2. CASE Boot \/ BootNumber
  BY <1>2, BootRestarts, NumberRestarts DEF Store!Next
<1>3. CASE BootFormat
  BY <1>3, <1>s, FormatKeepsStore
<1>4. ASSUME NEW r \in Refs, SetTarget(r) \/ DropTarget(r) \/ Collect(r)
      PROVE  Store!Next
  BY <1>4, ProgramReplaces DEF Store!Next
<1>9. ASSUME NEW r \in Refs, SetSame(r)
      PROVE  Store!Next
  BY <1>9, <1>s, SameKeepsStore
<1>5. CASE FlushBurst
  BY <1>5, <1>s, FlushSaves DEF Store!Next
<1>6. CASE CopyBackOne
  BY <1>6, CopyBackReverts DEF Store!Next
<1>7. CASE CopyBurst \/ EraseSector \/ SwitchBank \/ Quiet
  BY <1>7, <1>s, OthersKeepStore
<1>8. CASE RebootResets \/ PowerLoss
  BY <1>8, OffLosesPower DEF Store!Next
<1> QED
  BY <1>1, <1>2, <1>3, <1>4, <1>5, <1>6, <1>7, <1>8, <1>9 DEF Next, AdvanceState, Quiet

-----------------------------------------------------------------------------
(***************************************************************************)
(* The theorems.                                                           *)
(***************************************************************************)
LEMMA HoldsAlways == Spec => [](Typed /\ Content)
<1> QED
  BY InitTyped, KeptNext, PTL DEF Spec

(* Whatever the program sets and drops, whichever writes fail and whenever *)
(* the power goes: the banks never overflow, InsertInPriorityOrder never   *)
(* lists a reference twice, and only listed references have targets.       *)
THEOREM TypeCorrect == Spec => []TypeOK
<1> QED
  BY HoldsAlways, TypedMeans, PTL

(* WR_Persisted says exactly what the bank in use holds, through failed    *)
(* writes, replacements, compactions and restarts.                         *)
THEOREM FlagsAlwaysAgree == Spec => []FlagsAgree
<1> QED
  BY HoldsAlways, FlagsAgreeIs, PTL

(* Initialize would take the bank in use, but for the windows that         *)
(* LiveBankBoots names: the other is formatted and not yet numbered, or    *)
(* the number has wrapped to 0.                                            *)
THEOREM LiveBankAlwaysBoots == Spec => []LiveBankBoots
<1>1. Init => LiveBankBoots
  BY DEF Init, LiveBankBoots, Exposed
<1>2. Typed /\ Content /\ LiveBankBoots /\ [Next]_vars => LiveBankBoots'
  BY BootsNext
<1> QED
  BY <1>1, <1>2, HoldsAlways, PTL DEF Spec

(* AdvanceState goes idle only when all that fits the safe part of a bank  *)
(* is saved, and a change of a target takes it out of that state; a        *)
(* reference that is only inserted anew does not.                          *)
THEOREM IdleAlwaysSaved == Spec => IdleMeansSaved
<1>1. Typed /\ [Next]_vars =>
        [state' = "Idle" =>
           IF state = "Idle" THEN UNCHANGED <<flash, target, persisted>>
           ELSE SafePartSaved']_vars
  BY IdleStep
<1> QED
  BY <1>1, HoldsAlways, PTL DEF Spec, IdleMeansSaved

(* The persistence manager, with its banks, bursts, compactions and        *)
(* restarts, is the store of module WeakStore.                             *)
THEOREM ManagerIsStore == Spec => ImplementsStore
<1>1. Typed /\ Content /\ [Next]_vars => [Store!Next]_(Store!vars)
  BY StepIsStore
<1> QED
  BY <1>1, InitStore, HoldsAlways, PTL DEF Spec, ImplementsStore, Store!Spec

=============================================================================
