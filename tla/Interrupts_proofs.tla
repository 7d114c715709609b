------------------------- MODULE Interrupts_proofs -------------------------
(***************************************************************************)
(* Theorems about the path of an interrupt through the two queues: types,  *)
(* the order of dispatch, what can become of a record, and what is left of *)
(* a released port.                                                        *)
(*                                                                         *)
(* The proofs have four layers: lemmas about filtered sequences and about  *)
(* positions in the ring; what each action does to the contents of the     *)
(* ring (Held) and what a spawn does to the application queue (Moves); the *)
(* invariants Typed, Order and Left; the theorems.                         *)
(***************************************************************************)
EXTENDS Interrupts, SequenceTheorems, WellFoundedInduction, TLAPS

(* The least element of a set of numbers, and from it induction.           *)
LEMMA Least ==
  ASSUME NEW T, T \subseteq Nat, T # {}
  PROVE  \E m \in T : \A k \in T : m <= k
<1> DEFINE R == OpToRel(<, Nat)
<1>1. IsWellFoundedOn(R, Nat)
  BY NatLessThanWellFounded
<1>2. \A x, y \in Nat : <<x, y>> \in R <=> x < y
  BY DEF OpToRel
<1> HIDE DEF R
<1>3. PICK x \in T : \A y \in T : ~ (<<y, x>> \in R)
  BY <1>1, WFMin
<1>4. \A y \in T : ~(y < x)
  BY <1>2, <1>3
<1> QED
  BY <1>4

LEMMA NatSetInduction ==
  ASSUME NEW T, 0 \in T, \A n \in Nat : n \in T => n + 1 \in T
  PROVE  Nat \subseteq T
<1> SUFFICES ASSUME Nat \ T # {} PROVE FALSE
  OBVIOUS
<1>1. PICK m \in Nat \ T : \A k \in Nat \ T : m <= k
  BY Least
<1>2. m # 0 /\ m - 1 \in Nat /\ m - 1 \in T
  BY <1>1
<1> QED
  BY <1>1, <1>2

LEMMA Remainders ==
  ASSUME NEW n \in Nat \ {0}
  PROVE  /\ \A i \in 0..(2*n - 1) : i % n = IF i < n THEN i ELSE i - n
         /\ \A i \in (-n)..(-1) : i % n = i + n
  OBVIOUS

(* w is q without the records of port p, whatever else it may be.          *)
Filtered(w, q, p) ==
  /\ w \in Seq(Records)
  /\ Len(w) <= Len(q)
  /\ \A k \in 1..Len(w) : w[k].port # p /\ \E j \in 1..Len(q) : w[k] = q[j]
  /\ \A j \in 1..Len(q) : q[j].port # p => \E k \in 1..Len(w) : w[k] = q[j]
  /\ (\A i, j \in 1..Len(q) : i < j => q[i].id < q[j].id)
       => \A i, j \in 1..Len(w) : i < j => w[i].id < w[j].id

(* Without builds its result up to each place of q in turn.                *)
Upto(q, n) == SubSeq(q, 1, n)

LEMMA UptoIs ==
  ASSUME NEW S, NEW q \in Seq(S), NEW n \in 0..Len(q)
  PROVE  /\ Upto(q, n) \in Seq(S) /\ Len(Upto(q, n)) = n
         /\ \A k \in 1..n : Upto(q, n)[k] = q[k]
BY SubSeqProperties DEF Upto

(* The recursive function of Without exists, so that it is what its        *)
(* equation says.                                                          *)
Kept(f, q, p, n) ==
  f = [i \in 0..n |-> IF i = 0 THEN <<>>
                      ELSE IF q[i].port = p THEN f[i - 1] ELSE Append(f[i - 1], q[i])]

LEMMA KeptStep ==
  ASSUME NEW q \in Seq(Records), NEW p, NEW n \in Nat, n + 1 <= Len(q),
         NEW f, Kept(f, q, p, n)
  PROVE  \E g : Kept(g, q, p, n + 1)
<1> DEFINE g == [i \in 0..(n + 1) |->
                   IF i <= n THEN f[i]
                   ELSE IF q[i].port = p THEN f[i - 1] ELSE Append(f[i - 1], q[i])]
<1>1. \A i \in 0..n : g[i] = f[i]
  OBVIOUS
<1>2. \A i \in 0..n : f[i] = IF i = 0 THEN <<>>
                      ELSE IF q[i].port = p THEN f[i - 1] ELSE Append(f[i - 1], q[i])
  BY DEF Kept
<1>3. \A i \in 0..(n + 1) : g[i] = IF i = 0 THEN <<>>
                      ELSE IF q[i].port = p THEN g[i - 1] ELSE Append(g[i - 1], q[i])
  <2> TAKE i \in 0..(n + 1)
  <2>1. CASE i = 0
    BY <2>1, <1>1, <1>2
  <2>2. CASE i # 0 /\ i <= n
    BY <2>2, <1>1, <1>2
  <2>3. CASE i = n + 1
    <3>1. g[i] = IF q[i].port = p THEN f[i - 1] ELSE Append(f[i - 1], q[i])
      BY <2>3
    <3>2. g[i - 1] = f[i - 1]
      BY <2>3
    <3> HIDE DEF g
    <3> QED
      BY <2>3, <3>1, <3>2
  <2> QED
    BY <2>1, <2>2, <2>3
<1>4. g = [i \in 0..(n + 1) |-> g[i]]
  OBVIOUS
<1> HIDE DEF g
<1>5. Kept(g, q, p, n + 1)
  BY <1>3, <1>4 DEF Kept
<1> QED
  BY <1>5

LEMMA KeptExists ==
  ASSUME NEW q \in Seq(Records), NEW p
  PROVE  \E f : Kept(f, q, p, Len(q))
<1> DEFINE T == {n \in Nat : n <= Len(q) => \E f : Kept(f, q, p, n)}
<1>1. 0 \in T
  <2> DEFINE f == [i \in 0..0 |-> <<>>]
  <2>1. Kept(f, q, p, 0)
    BY DEF Kept
  <2> HIDE DEF f
  <2> QED
    BY <2>1
<1>2. \A n \in Nat : n \in T => n + 1 \in T
  BY KeptStep
<1> HIDE DEF T
<1>3. Nat \subseteq T
  BY <1>1, <1>2, NatSetInduction
<1>4. Len(q) \in Nat
  OBVIOUS
<1> QED
  BY <1>3, <1>4 DEF T

LEMMA WithoutKept ==
  ASSUME NEW q \in Seq(Records), NEW p
  PROVE  \E f : Kept(f, q, p, Len(q)) /\ Without(q, p) = f[Len(q)]
<1>1. PICK f : Kept(f, q, p, Len(q))
  BY KeptExists
<1> DEFINE F == CHOOSE g : Kept(g, q, p, Len(q))
<1>2. Kept(F, q, p, Len(q))
  BY <1>1
<1>3. Without(q, p) = F[Len(q)]
  BY DEF Without, Kept
<1> HIDE DEF F
<1> QED
  BY <1>2, <1>3

LEMMA FilteredStep ==
  ASSUME NEW u \in Seq(Records), NEW v \in Seq(Records), NEW p, NEW w, NEW r \in Records,
         Len(v) = Len(u) + 1, \A k \in 1..Len(u) : v[k] = u[k], v[Len(u) + 1] = r,
         Filtered(w, u, p)
  PROVE  Filtered(IF r.port = p THEN w ELSE Append(w, r), v, p)
<1> DEFINE n == Len(u)
<1>1. n \in Nat
  OBVIOUS
<1>2. /\ w \in Seq(Records) /\ Len(w) <= n
      /\ \A k \in 1..Len(w) : w[k].port # p /\ \E j \in 1..n : w[k] = u[j]
      /\ \A j \in 1..n : u[j].port # p => \E k \in 1..Len(w) : w[k] = u[j]
      /\ (\A i, j \in 1..n : i < j => u[i].id < u[j].id)
           => \A i, j \in 1..Len(w) : i < j => w[i].id < w[j].id
  BY DEF Filtered
<1>3. /\ Len(v) = n + 1 /\ v[n + 1] = r
      /\ \A k \in 1..n : v[k] = u[k]
  OBVIOUS
<1>4. Len(w) \in Nat
  BY <1>2
<1> HIDE DEF n
<1>5. \A i, j \in 1..(n + 1) : i < j => i \in 1..n
  BY <1>1
<1>6. \A k \in 1..Len(w) : \E j \in 1..(n + 1) : w[k] = v[j]
  BY <1>1, <1>2, <1>3
<1>7. ASSUME \A i, j \in 1..(n + 1) : i < j => v[i].id < v[j].id
      PROVE  /\ \A i, j \in 1..Len(w) : i < j => w[i].id < w[j].id
             /\ \A i \in 1..Len(w) : w[i].id < r.id
  <2>1. \A i, j \in 1..n : i < j => u[i].id < u[j].id
    <3> TAKE i, j \in 1..n
    <3>1. i \in 1..(n + 1) /\ j \in 1..(n + 1)
      BY <1>1
    <3> QED
      BY <3>1, <1>7, <1>3
  <2>2. \A i \in 1..n : u[i].id < r.id
    <3> TAKE i \in 1..n
    <3>1. i \in 1..(n + 1) /\ n + 1 \in 1..(n + 1) /\ i < n + 1
      BY <1>1
    <3> QED
      BY <3>1, <1>7, <1>3
  <2> QED
    BY <2>1, <2>2, <1>2
<1>8. CASE r.port = p
  <2>1. \A j \in 1..(n + 1) : v[j].port # p => \E k \in 1..Len(w) : w[k] = v[j]
    <3> SUFFICES ASSUME NEW j \in 1..(n + 1), v[j].port # p
                 PROVE  \E k \in 1..Len(w) : w[k] = v[j]
      OBVIOUS
    <3>1. j # n + 1
      BY <1>3, <1>8
    <3>2. j \in 1..n
      BY <3>1, <1>1
    <3> QED
      BY <3>2, <1>2, <1>3
  <2>2. Len(w) <= Len(v)
    BY <1>1, <1>2, <1>3, <1>4
  <2>3. \A k \in 1..Len(w) : w[k].port # p /\ \E j \in 1..Len(v) : w[k] = v[j]
    BY <1>2, <1>3, <1>6
  <2>4. Filtered(w, v, p)
    BY <2>1, <2>2, <2>3, <1>2, <1>3, <1>7 DEF Filtered
  <2> QED
    BY <2>4, <1>8
<1>9. CASE r.port # p
  <2> DEFINE x == Append(w, r)
  <2>1. /\ x \in Seq(Records) /\ Len(x) = Len(w) + 1
        /\ \A k \in 1..Len(w) : x[k] = w[k]
        /\ x[Len(w) + 1] = r
    BY <1>2, AppendProperties
  <2> HIDE DEF x
  <2>2. \A k \in 1..Len(x) : k = Len(w) + 1 \/ k \in 1..Len(w)
    BY <2>1, <1>4
  <2>3. \A k \in 1..Len(x) : x[k].port # p /\ \E j \in 1..(n + 1) : x[k] = v[j]
    <3> TAKE k \in 1..Len(x)
    <3>1. CASE k = Len(w) + 1
      <4>1. x[k] = v[n + 1] /\ n + 1 \in 1..(n + 1)
        BY <3>1, <1>1, <1>3, <2>1
      <4>2. x[k].port # p
        BY <3>1, <2>1, <1>9
      <4> QED
        BY <4>1, <4>2
    <3>2. CASE k \in 1..Len(w)
      <4>1. x[k] = w[k]
        BY <3>2, <2>1
      <4>2. w[k].port # p
        BY <3>2, <1>2
      <4> QED
        BY <3>2, <4>1, <4>2, <1>6
    <3> QED
      BY <3>1, <3>2, <2>2
  <2>4. \A j \in 1..(n + 1) : v[j].port # p => \E k \in 1..Len(x) : x[k] = v[j]
    <3> SUFFICES ASSUME NEW j \in 1..(n + 1), v[j].port # p
                 PROVE  \E k \in 1..Len(x) : x[k] = v[j]
      OBVIOUS
    <3>1. CASE j = n + 1
      <4>1. Len(w) + 1 \in 1..Len(x)
        BY <2>1, <1>4
      <4> QED
        BY <4>1, <3>1, <1>3, <2>1
    <3>2. CASE j \in 1..n
      <4>1. PICK k \in 1..Len(w) : w[k] = v[j]
        BY <3>2, <1>2, <1>3
      <4>2. k \in 1..Len(x)
        BY <1>4, <2>1
      <4> QED
        BY <4>1, <4>2, <2>1
    <3> QED
      BY <3>1, <3>2, <1>1
  <2>5. ASSUME \A i, j \in 1..(n + 1) : i < j => v[i].id < v[j].id
        PROVE  \A i, j \in 1..Len(x) : i < j => x[i].id < x[j].id
    <3> SUFFICES ASSUME NEW i \in 1..Len(x), NEW j \in 1..Len(x), i < j
                 PROVE  x[i].id < x[j].id
      OBVIOUS
    <3>0. /\ \A a, b \in 1..Len(w) : a < b => w[a].id < w[b].id
          /\ \A a \in 1..Len(w) : w[a].id < r.id
      BY <2>5, <1>7
    <3>1. i \in 1..Len(w)
      BY <2>1, <1>4
    <3>2. CASE j = Len(w) + 1
      BY <3>0, <3>1, <3>2, <2>1
    <3>3. CASE j \in 1..Len(w)
      BY <3>0, <3>1, <3>3, <2>1
    <3> QED
      BY <3>2, <3>3, <2>2
  <2>6. Len(x) <= n + 1
    BY <2>1, <1>1, <1>2, <1>4
  <2>7. Filtered(x, v, p)
    BY <2>1, <2>3, <2>4, <2>5, <2>6, <1>3 DEF Filtered
  <2> QED
    BY <2>7, <1>9 DEF x
<1> QED
  BY <1>8, <1>9

LEMMA WithoutIs ==
  ASSUME NEW q \in Seq(Records), NEW p
  PROVE  Filtered(Without(q, p), q, p)
<1>1. PICK f : Kept(f, q, p, Len(q)) /\ Without(q, p) = f[Len(q)]
  BY WithoutKept
<1>2. \A i \in 0..Len(q) : f[i] = IF i = 0 THEN <<>>
                      ELSE IF q[i].port = p THEN f[i - 1] ELSE Append(f[i - 1], q[i])
  BY <1>1 DEF Kept
<1> DEFINE T == {n \in Nat : n <= Len(q) => Filtered(f[n], Upto(q, n), p)}
<1>3. 0 \in T
  <2>1. f[0] = <<>>
    BY <1>2
  <2>2. Len(Upto(q, 0)) = 0
    BY UptoIs
  <2>3. <<>> \in Seq(Records) /\ Len(<<>>) = 0
    OBVIOUS
  <2>4. Filtered(<<>>, Upto(q, 0), p)
    BY <2>2, <2>3 DEF Filtered
  <2> QED
    BY <2>1, <2>4
<1>4. ASSUME NEW n \in Nat, n \in T
      PROVE  n + 1 \in T
  <2> SUFFICES ASSUME n + 1 <= Len(q)
               PROVE  Filtered(f[n + 1], Upto(q, n + 1), p)
    OBVIOUS
  <2>1. Filtered(f[n], Upto(q, n), p)
    BY <1>4
  <2>2. f[n + 1] = IF q[n + 1].port = p THEN f[n] ELSE Append(f[n], q[n + 1])
    BY <1>2
  <2> QED
    <3> DEFINE u == Upto(q, n)
               v == Upto(q, n + 1)
    <3>1. /\ u \in Seq(Records) /\ Len(u) = n
          /\ \A k \in 1..n : u[k] = q[k]
      BY UptoIs
    <3>2. /\ v \in Seq(Records) /\ Len(v) = n + 1
          /\ \A k \in 1..(n + 1) : v[k] = q[k]
      BY UptoIs
    <3>3. q[n + 1] \in Records
      OBVIOUS
    <3>4. Filtered(f[n], u, p)
      BY <2>1
    <3> HIDE DEF u, v
    <3>5. (\A k \in 1..Len(u) : v[k] = u[k]) /\ v[Len(u) + 1] = q[n + 1] /\ Len(v) = Len(u) + 1
      BY <3>1, <3>2
    <3>6. Filtered(IF q[n + 1].port = p THEN f[n] ELSE Append(f[n], q[n + 1]), v, p)
      BY <3>1, <3>2, <3>3, <3>4, <3>5, FilteredStep
    <3> QED
      BY <3>6, <2>2 DEF v
<1> HIDE DEF T
<1>5. Nat \subseteq T
  BY <1>3, <1>4, NatSetInduction
<1>6. Len(q) \in T
  BY <1>5
<1>7. Filtered(f[Len(q)], Upto(q, Len(q)), p)
  BY <1>6 DEF T
<1>8. Upto(q, Len(q)) = q
  BY SubSeqFull DEF Upto
<1> QED
  BY <1>1, <1>7, <1>8

-----------------------------------------------------------------------------
(* The ring.                                                               *)
RingTyped ==
  /\ slots \in [0..(Size - 1) -> Records \cup {NoRecord}]
  /\ reader \in 0..(Size - 1) /\ writer \in 0..(Size - 1)
  /\ full \in BOOLEAN /\ (full => writer = reader)
  /\ \A k \in 1..Used : Held[k] # NoRecord

Cyc(i) == IF i < Size THEN i ELSE i - Size

LEMMA Sizes == Size \in Nat \ {0} /\ Size - 1 \in Nat
BY InterruptsAssumption

LEMMA CycIs == \A i \in 0..(2 * Size - 1) : i % Size = Cyc(i)
BY Sizes, Remainders DEF Cyc

LEMMA CycNegative == \A i \in (-Size)..(-1) : i % Size = i + Size
BY Sizes, Remainders

LEMMA StepIs == \A i \in 0..(Size - 1) : Step(i) = Cyc(i + 1) /\ Step(i) \in 0..(Size - 1)
<1> SUFFICES ASSUME NEW i \in 0..(Size - 1)
             PROVE  Step(i) = Cyc(i + 1) /\ Step(i) \in 0..(Size - 1)
  OBVIOUS
<1>1. i + 1 \in 0..(2 * Size - 1)
  BY Sizes
<1>2. Step(i) = Cyc(i + 1)
  BY <1>1, CycIs DEF Step
<1> QED
  BY <1>2, Sizes DEF Cyc

LEMMA UsedOf ==
  ASSUME NEW r \in 0..(Size - 1), NEW w \in 0..(Size - 1)
  PROVE  (w - r) % Size = IF r <= w THEN w - r ELSE w - r + Size
<1>1. CASE r <= w
  <2>1. w - r \in 0..(2 * Size - 1) /\ w - r < Size
    BY <1>1, Sizes
  <2>2. (w - r) % Size = Cyc(w - r)
    BY <2>1, CycIs
  <2> QED
    BY <1>1, <2>1, <2>2, Sizes DEF Cyc
<1>2. CASE r > w
  <2>1. w - r \in (-Size)..(-1)
    BY <1>2, Sizes
  <2>2. (w - r) % Size = (w - r) + Size
    BY <2>1, CycNegative
  <2> QED
    BY <1>2, <2>2, Sizes
<1> QED
  BY <1>1, <1>2

UsedBy(r, w, f) == IF f THEN Size ELSE IF r <= w THEN w - r ELSE w - r + Size

LEMMA UsedByIs ==
  ASSUME NEW r \in 0..(Size - 1), NEW w \in 0..(Size - 1), NEW f, f => w = r
  PROVE  /\ UsedBy(r, w, f) \in 0..Size
         /\ ~f => UsedBy(r, w, f) < Size
         /\ UsedBy(r, w, f) = 0 <=> ~f /\ w = r
BY Sizes DEF UsedBy

LEMMA UsedIs ==
  ASSUME reader \in 0..(Size - 1), writer \in 0..(Size - 1), full => writer = reader
  PROVE  /\ Used = UsedBy(reader, writer, full)
         /\ Used \in 0..Size /\ (~full => Used < Size)
         /\ Empty <=> Used = 0
<1>1. Used = UsedBy(reader, writer, full)
  BY UsedOf DEF Used, UsedBy
<1> QED
  BY <1>1, UsedByIs DEF Empty

LEMMA UsedNext ==
  ASSUME reader' \in 0..(Size - 1), writer' \in 0..(Size - 1), full' => writer' = reader'
  PROVE  /\ Used' = UsedBy(reader', writer', full')
         /\ Used' \in 0..Size /\ (~full' => Used' < Size)
         /\ Empty' <=> Used' = 0
<1>1. Used' = UsedBy(reader', writer', full')
  BY UsedOf DEF Used, UsedBy
<1> QED
  BY <1>1, UsedByIs DEF Empty

(* Where the record at place k is.                                         *)
Slot(r, k) == Cyc(r + k - 1)

LEMMA SlotIs ==
  ASSUME NEW r \in 0..(Size - 1), NEW k \in 1..Size
  PROVE  Slot(r, k) = (r + k - 1) % Size /\ Slot(r, k) \in 0..(Size - 1)
<1>1. r + k - 1 \in 0..(2 * Size - 1)
  BY Sizes
<1>2. Slot(r, k) = (r + k - 1) % Size
  BY <1>1, CycIs DEF Slot
<1> QED
  BY <1>1, <1>2, Sizes DEF Slot, Cyc

LEMMA HeldIs ==
  ASSUME RingTyped
  PROVE  /\ Held \in Seq(Records) /\ Len(Held) = Used /\ DOMAIN Held = 1..Used
         /\ \A k \in 1..Used : Held[k] = slots[Slot(reader, k)] /\ Held[k] \in Records
<1>1. Used \in 0..Size
  BY UsedIs DEF RingTyped
<1>2. ASSUME NEW k \in 1..Used
      PROVE  Held[k] = slots[Slot(reader, k)] /\ Held[k] \in Records
  <2>1. k \in 1..Size
    BY <1>1, Sizes
  <2>2. Slot(reader, k) = (reader + k - 1) % Size /\ Slot(reader, k) \in 0..(Size - 1)
    BY <2>1, SlotIs DEF RingTyped
  <2>3. Held[k] = slots[Slot(reader, k)]
    BY <2>2 DEF Held
  <2> QED
    BY <2>2, <2>3 DEF RingTyped
<1>3. DOMAIN Held = 1..Used /\ Held = [k \in 1..Used |-> Held[k]]
  BY DEF Held
<1>4. Held \in [1..Used -> Records]
  BY <1>2, <1>3
<1>5. Used \in Nat
  BY <1>1, Sizes
<1>6. Held \in Seq(Records) /\ Len(Held) = Used
  BY <1>3, <1>4, <1>5
<1> QED
  BY <1>2, <1>3, <1>6

LEMMA HeldNext ==
  ASSUME RingTyped'
  PROVE  /\ Held' \in Seq(Records) /\ Len(Held') = Used' /\ DOMAIN Held' = 1..Used'
         /\ \A k \in 1..Used' : Held'[k] = slots'[Slot(reader', k)] /\ Held'[k] \in Records
<1>1. Used' \in 0..Size
  BY UsedNext DEF RingTyped
<1>2. ASSUME NEW k \in 1..Used'
      PROVE  Held'[k] = slots'[Slot(reader', k)] /\ Held'[k] \in Records
  <2>1. k \in 1..Size
    BY <1>1, Sizes
  <2>2. Slot(reader', k) = (reader' + k - 1) % Size /\ Slot(reader', k) \in 0..(Size - 1)
    BY <2>1, SlotIs DEF RingTyped
  <2>3. Held'[k] = slots'[Slot(reader', k)]
    BY <2>2 DEF Held
  <2> QED
    BY <2>2, <2>3 DEF RingTyped
<1>3. DOMAIN Held' = 1..Used' /\ Held' = [k \in 1..Used' |-> Held'[k]]
  BY DEF Held
<1>4. Held' \in [1..Used' -> Records]
  BY <1>2, <1>3
<1>5. Used' \in Nat
  BY <1>1, Sizes
<1>6. Held' \in Seq(Records) /\ Len(Held') = Used'
  BY <1>3, <1>4, <1>5
<1> QED
  BY <1>2, <1>3, <1>6

Places == 0..(Size - 1)

LEMMA SaveArithmetic ==
  ASSUME NEW r \in Places, NEW w \in Places
  PROVE  /\ UsedBy(r, w, FALSE) \in 0..(Size - 1)
         /\ Slot(r, UsedBy(r, w, FALSE) + 1) = w
         /\ \A k \in 1..UsedBy(r, w, FALSE) : Slot(r, k) # w
         /\ UsedBy(r, Cyc(w + 1), Cyc(w + 1) = r) = UsedBy(r, w, FALSE) + 1
BY Sizes DEF Places, UsedBy, Slot, Cyc

LEMMA DropArithmetic ==
  ASSUME NEW r \in Places, NEW r2, r2 = Cyc(r + 1)
  PROVE  /\ \A k \in 1..(Size - 1) : Slot(r2, k) = Slot(r, k + 1) /\ Slot(r2, k) # r
         /\ Slot(r2, Size) = r
BY Sizes DEF Places, Slot, Cyc

LEMMA PopArithmetic ==
  ASSUME NEW r \in Places, NEW w \in Places, NEW f, f => w = r,
         UsedBy(r, w, f) # 0
  PROVE  /\ UsedBy(Cyc(r + 1), w, FALSE) = UsedBy(r, w, f) - 1
         /\ \A k \in 1..(UsedBy(r, w, f) - 1) : Slot(Cyc(r + 1), k) = Slot(r, k + 1)
BY Sizes DEF Places, UsedBy, Slot, Cyc

LEMMA TakeArithmetic ==
  ASSUME NEW r \in Places, NEW w \in Places, NEW f, f => w = r,
         NEW n, n = UsedBy(r, w, f)
  PROVE  Cyc(r + n) = w
BY Sizes DEF Places, UsedBy, Cyc

LEMMA PutArithmetic ==
  ASSUME NEW w \in Places, NEW n \in 0..Size
  PROVE  /\ UsedBy(w, Cyc(w + n), n = Size) = n
         /\ n = Size => Cyc(w + n) = w
BY Sizes DEF Places, UsedBy, Cyc

LEMMA PlaceArithmetic ==
  ASSUME NEW w \in Places, NEW k \in 1..Size
  PROVE  Slot(w, k) \in Places /\ ((Slot(w, k) - w) % Size) + 1 = k
<1>1. Slot(w, k) \in Places
  BY Sizes DEF Places, Slot, Cyc
<1>2. (Slot(w, k) - w) % Size = IF w <= Slot(w, k) THEN Slot(w, k) - w ELSE Slot(w, k) - w + Size
  BY <1>1, UsedOf DEF Places
<1>3. (IF w <= Slot(w, k) THEN Slot(w, k) - w ELSE Slot(w, k) - w + Size) = k - 1
  BY Sizes DEF Places, Slot, Cyc
<1> QED
  BY <1>1, <1>2, <1>3, Sizes

(* The record an interrupt of p saves.                                     *)
Saved(p) == [id |-> count + 1, port |-> p]

LEMMA SavedTyped ==
  ASSUME count \in 0..MaxEvents, NEW p \in Ports, count < MaxEvents
  PROVE  Saved(p) \in Records /\ Saved(p) # NoRecord /\ Saved(p).id = count + 1 /\ Saved(p).port = p
<1>1. MaxEvents \in Nat
  BY InterruptsAssumption
<1>2. Saved(p) \in Records
  BY <1>1 DEF Saved, Records
<1>3. Saved(p) \in [id : Nat, port : Ports]
  BY <1>1 DEF Saved
<1> QED
  BY <1>2, <1>3, InterruptsAssumption DEF Saved

LEMMA RecordReal == NoRecord \notin Records
<1>1. Records \subseteq [id : Nat, port : Ports]
  BY InterruptsAssumption DEF Records
<1> QED
  BY <1>1, InterruptsAssumption

(* What a ring is known to be when its slots are.                          *)
LEMMA RingFrom ==
  ASSUME slots' \in [Places -> Records \cup {NoRecord}],
         reader' \in Places, writer' \in Places, full' \in BOOLEAN,
         full' => writer' = reader',
         \A k \in 1..UsedBy(reader', writer', full') : slots'[Slot(reader', k)] \in Records
  PROVE  RingTyped'
<1>1. Used' = UsedBy(reader', writer', full') /\ Used' \in 0..Size
  BY UsedNext DEF Places
<1>2. ASSUME NEW k \in 1..Used'
      PROVE  Held'[k] # NoRecord
  <2>1. k \in 1..Size
    BY <1>1, Sizes
  <2>2. Slot(reader', k) = (reader' + k - 1) % Size
    BY <2>1, SlotIs DEF Places
  <2>3. Held'[k] = slots'[Slot(reader', k)]
    BY <2>2 DEF Held
  <2> QED
    BY <1>1, <2>3, RecordReal
<1> QED
  BY <1>2 DEF RingTyped, Places

LEMMA RingSaved ==
  ASSUME RingTyped, count \in 0..MaxEvents, NEW p \in Ports, Interrupt(p), ~full
  PROVE  /\ RingTyped' /\ Used' = Used + 1 /\ reader' = reader
         /\ \A k \in 1..Used : Held'[k] = Held[k]
         /\ Held'[Used + 1] = Saved(p)
<1>1. reader \in Places /\ writer \in Places
  BY DEF RingTyped, Places
<1>2. writer' = Cyc(writer + 1) /\ writer' \in Places /\ reader' = reader /\ full' = (writer' = reader)
  BY <1>1, StepIs DEF Interrupt, Places
<1>3. Used = UsedBy(reader, writer, FALSE)
  BY UsedIs DEF RingTyped, UsedBy
<1>4. Saved(p) \in Records
  BY SavedTyped DEF Interrupt
<1>5. slots' = [slots EXCEPT ![writer] = Saved(p)]
  BY DEF Interrupt, Saved
<1>6. /\ Used \in 0..(Size - 1)
      /\ Slot(reader, Used + 1) = writer
      /\ \A k \in 1..Used : Slot(reader, k) # writer
      /\ UsedBy(reader, Cyc(writer + 1), Cyc(writer + 1) = reader) = Used + 1
  <2>1. /\ UsedBy(reader, writer, FALSE) \in 0..(Size - 1)
        /\ Slot(reader, UsedBy(reader, writer, FALSE) + 1) = writer
        /\ \A k \in 1..UsedBy(reader, writer, FALSE) : Slot(reader, k) # writer
        /\ UsedBy(reader, Cyc(writer + 1), Cyc(writer + 1) = reader)
             = UsedBy(reader, writer, FALSE) + 1
    BY <1>1, SaveArithmetic
  <2> QED
    BY <2>1, <1>3
<1>7. UsedBy(reader', writer', full') = Used + 1
  BY <1>2, <1>6
<1>8. slots \in [Places -> Records \cup {NoRecord}] /\ slots' \in [Places -> Records \cup {NoRecord}]
  BY <1>1, <1>4, <1>5 DEF RingTyped, Places
<1>9. ASSUME NEW k \in 1..Used
      PROVE  slots'[Slot(reader, k)] = Held[k] /\ Held[k] \in Records
  <2>1. Held[k] = slots[Slot(reader, k)] /\ Held[k] \in Records
    BY HeldIs
  <2>2. k \in 1..Size
    BY <1>6, Sizes
  <2>3. Slot(reader, k) \in Places
    BY <2>2, <1>1, SlotIs DEF Places
  <2> QED
    BY <2>1, <2>3, <1>5, <1>6, <1>8
<1>10. slots'[Slot(reader, Used + 1)] = Saved(p)
  BY <1>1, <1>5, <1>6, <1>8
<1>11. \A k \in 1..(Used + 1) : k \in 1..Used \/ k = Used + 1
  BY <1>6, Sizes
<1>12. RingTyped'
  BY <1>1, <1>2, <1>4, <1>7, <1>8, <1>9, <1>10, <1>11, RingFrom
<1>13. Used' = Used + 1
  BY <1>7, <1>12, UsedNext DEF RingTyped
<1>14. \A k \in 1..(Used + 1) : Held'[k] = slots'[Slot(reader, k)]
  BY <1>2, <1>12, <1>13, HeldNext
<1>15. (1..Used) \subseteq 1..(Used + 1) /\ Used + 1 \in 1..(Used + 1)
  BY <1>6, Sizes
<1> QED
  BY <1>2, <1>9, <1>10, <1>12, <1>13, <1>14, <1>15

LEMMA RingDropped ==
  ASSUME RingTyped, count \in 0..MaxEvents, NEW p \in Ports, Interrupt(p), full
  PROVE  /\ RingTyped' /\ Used = Size /\ Used' = Size
         /\ \A k \in 1..(Size - 1) : Held'[k] = Held[k + 1]
         /\ Held'[Size] = Saved(p)
<1>1. reader \in Places /\ writer = reader
  BY DEF RingTyped, Places
<1>2. /\ writer' = Cyc(reader + 1) /\ reader' = Cyc(reader + 1) /\ full' = TRUE
      /\ reader' \in Places
  BY <1>1, StepIs DEF Interrupt, Places
<1>3. Used = Size
  BY DEF Used
<1>4. Saved(p) \in Records
  BY SavedTyped DEF Interrupt
<1>5. slots' = [slots EXCEPT ![reader] = Saved(p)]
  BY <1>1 DEF Interrupt, Saved
<1>6. /\ \A k \in 1..(Size - 1) : Slot(reader', k) = Slot(reader, k + 1) /\ Slot(reader', k) # reader
      /\ Slot(reader', Size) = reader
  BY <1>1, <1>2, DropArithmetic
<1>7. UsedBy(reader', writer', full') = Size
  BY <1>2 DEF UsedBy
<1>8. slots \in [Places -> Records \cup {NoRecord}] /\ slots' \in [Places -> Records \cup {NoRecord}]
  BY <1>1, <1>4, <1>5 DEF RingTyped, Places
<1>9. ASSUME NEW k \in 1..(Size - 1)
      PROVE  slots'[Slot(reader', k)] = Held[k + 1] /\ Held[k + 1] \in Records
  <2>1. k + 1 \in 1..Size /\ k \in 1..Size
    BY Sizes
  <2>2. Held[k + 1] = slots[Slot(reader, k + 1)] /\ Held[k + 1] \in Records
    BY <1>3, <2>1, HeldIs
  <2>3. Slot(reader', k) \in Places
    BY <2>1, <1>2, SlotIs DEF Places
  <2> QED
    BY <2>2, <2>3, <1>5, <1>6, <1>8
<1>10. slots'[Slot(reader', Size)] = Saved(p)
  BY <1>1, <1>5, <1>6, <1>8
<1>11. \A k \in 1..Size : k \in 1..(Size - 1) \/ k = Size
  BY Sizes
<1>12. RingTyped'
  BY <1>2, <1>4, <1>7, <1>8, <1>9, <1>10, <1>11, RingFrom
<1>13. Used' = Size
  BY <1>7, <1>12, UsedNext DEF RingTyped
<1>14. \A k \in 1..Size : Held'[k] = slots'[Slot(reader', k)]
  BY <1>12, <1>13, HeldNext
<1>15. (1..(Size - 1)) \subseteq 1..Size /\ Size \in 1..Size
  BY Sizes
<1> QED
  BY <1>3, <1>9, <1>10, <1>12, <1>13, <1>14, <1>15

LEMMA RingPopped ==
  ASSUME RingTyped, Used # 0, slots' = slots, writer' = writer,
         reader' = Step(reader), full' = FALSE
  PROVE  /\ RingTyped' /\ Used' = Used - 1
         /\ \A k \in 1..(Used - 1) : Held'[k] = Held[k + 1]
<1>1. reader \in Places /\ writer \in Places /\ Used \in 0..Size /\ Used = UsedBy(reader, writer, full)
  BY UsedIs DEF RingTyped, Places
<1>2. reader' = Cyc(reader + 1) /\ reader' \in Places
  BY <1>1, StepIs DEF Places
<1>3. /\ UsedBy(reader', writer, FALSE) = Used - 1
      /\ \A k \in 1..(Used - 1) : Slot(reader', k) = Slot(reader, k + 1)
  <2>1. UsedBy(reader, writer, full) # 0 /\ (full => writer = reader)
    BY <1>1 DEF RingTyped
  <2>2. /\ UsedBy(Cyc(reader + 1), writer, FALSE) = UsedBy(reader, writer, full) - 1
        /\ \A k \in 1..(UsedBy(reader, writer, full) - 1) :
             Slot(Cyc(reader + 1), k) = Slot(reader, k + 1)
    BY <1>1, <2>1, PopArithmetic
  <2> QED
    BY <2>2, <1>1, <1>2
<1>4. ASSUME NEW k \in 1..(Used - 1)
      PROVE  slots'[Slot(reader', k)] = Held[k + 1] /\ Held[k + 1] \in Records
  <2>1. k + 1 \in 1..Used
    BY <1>1, Sizes
  <2> QED
    BY <2>1, <1>3, HeldIs
<1>5. UsedBy(reader', writer', full') = Used - 1
  BY <1>3
<1>6. RingTyped'
  BY <1>1, <1>2, <1>4, <1>5, RingFrom DEF RingTyped, Places
<1>7. Used' = Used - 1
  BY <1>5, <1>6, UsedNext DEF RingTyped
<1> QED
  BY <1>4, <1>6, <1>7, HeldNext

LEMMA RingCleared ==
  ASSUME RingTyped, slots' = slots, writer' = writer, reader' = writer, full' = FALSE
  PROVE  RingTyped' /\ Used' = 0
<1>1. writer \in Places /\ UsedBy(reader', writer', full') = 0
  BY Sizes DEF RingTyped, Places, UsedBy
<1>2. \A k \in 1..UsedBy(reader', writer', full') : slots'[Slot(reader', k)] \in Records
  BY <1>1
<1>3. slots' \in [Places -> Records \cup {NoRecord}]
  BY DEF RingTyped, Places
<1>4. RingTyped'
  BY <1>1, <1>2, <1>3, RingFrom
<1> QED
  BY <1>1, <1>4, UsedNext DEF RingTyped

LEMMA RingSame ==
  ASSUME RingTyped, UNCHANGED ring
  PROVE  RingTyped' /\ Used' = Used /\ Held' = Held
BY DEF RingTyped, ring, Used, Held

LEMMA RingRemoved ==
  ASSUME RingTyped, NEW p \in Ports, RemoveFromHALQueue(p)
  PROVE  RingTyped' /\ Held' = Without(Held, p) /\ Used' = Len(Without(Held, p))
<1> DEFINE kept == Without(Held, p)
           n == Len(kept)
<1>1. /\ reader \in Places /\ writer \in Places /\ Used \in 0..Size
      /\ Used = UsedBy(reader, writer, full) /\ (full => writer = reader)
  BY UsedIs DEF RingTyped, Places
<1>2. /\ Held \in Seq(Records) /\ Len(Held) = Used
  BY HeldIs
<1>3. kept \in Seq(Records) /\ n <= Used
  BY <1>2, WithoutIs DEF Filtered
<1>4. n \in 0..Size
  BY <1>1, <1>3, Sizes
<1>5. Cyc(reader + Used) = writer
  BY <1>1, TakeArithmetic
<1>6. reader + Used \in 0..(2 * Size - 1) /\ writer + n \in 0..(2 * Size - 1)
  BY <1>1, <1>4, Sizes DEF Places
<1>7. /\ reader' = (reader + Used) % Size /\ writer' = (writer + n) % Size /\ full' = (n = Size)
      /\ slots' = [i \in DOMAIN slots |->
                     IF ((i - writer) % Size) + 1 <= n THEN kept[((i - writer) % Size) + 1] ELSE slots[i]]
  BY DEF RemoveFromHALQueue
<1> HIDE DEF n, kept
<1>8. reader' = writer /\ writer' = Cyc(writer + n)
  BY <1>5, <1>6, <1>7, CycIs
<1>9. writer' \in Places
  BY <1>1, <1>4, <1>8, Sizes DEF Cyc, Places
<1>10. UsedBy(writer, Cyc(writer + n), n = Size) = n /\ (n = Size => Cyc(writer + n) = writer)
  BY <1>1, <1>4, PutArithmetic
<1>11. UsedBy(reader', writer', full') = n
  BY <1>7, <1>8, <1>10
<1>12. \A k \in 1..n : kept[k] \in Records
  BY <1>3 DEF n
<1>13. slots' \in [Places -> Records \cup {NoRecord}]
  <2>1. slots \in [Places -> Records \cup {NoRecord}]
    BY DEF RingTyped, Places
  <2>2. ASSUME NEW i \in Places
        PROVE  ((i - writer) % Size) + 1 \in Nat \ {0}
    <3>1. (i - writer) % Size = IF writer <= i THEN i - writer ELSE i - writer + Size
      BY <1>1, UsedOf DEF Places
    <3>2. (IF writer <= i THEN i - writer ELSE i - writer + Size) \in Nat
      BY <1>1, Sizes DEF Places
    <3> QED
      BY <3>1, <3>2
  <2>3. ASSUME NEW i \in Places
        PROVE  slots'[i] \in Records \cup {NoRecord}
    <3> DEFINE k == ((i - writer) % Size) + 1
    <3>1. slots'[i] = IF k <= n THEN kept[k] ELSE slots[i]
      BY <1>7, <2>1
    <3>2. k \in Nat \ {0}
      BY <2>2
    <3> HIDE DEF k
    <3>3. k <= n => k \in 1..n
      BY <3>2, <1>4, Sizes
    <3> QED
      BY <3>1, <3>3, <1>12, <2>1
  <2> QED
    BY <2>1, <2>3, <1>7
<1>14. ASSUME NEW k \in 1..n
       PROVE  slots'[Slot(writer, k)] = kept[k]
  <2>1. k \in 1..Size /\ k <= n
    BY <1>4, Sizes
  <2>2. Slot(writer, k) \in Places /\ ((Slot(writer, k) - writer) % Size) + 1 = k
    BY <2>1, <1>1, PlaceArithmetic
  <2>3. Slot(writer, k) \in DOMAIN slots
    BY <2>2 DEF RingTyped, Places
  <2> QED
    BY <2>1, <2>2, <2>3, <1>7
<1>15. RingTyped'
  <2>1. \A k \in 1..UsedBy(reader', writer', full') : slots'[Slot(reader', k)] \in Records
    BY <1>8, <1>11, <1>12, <1>14
  <2>2. reader' \in Places /\ full' \in BOOLEAN /\ (full' => writer' = reader')
    BY <1>1, <1>7, <1>8, <1>10
  <2> QED
    BY <2>1, <2>2, <1>9, <1>13, RingFrom
<1>16. Used' = n
  BY <1>11, <1>15, UsedNext DEF RingTyped
<1>17. Held' \in Seq(Records) /\ Len(Held') = n /\ \A k \in 1..n : Held'[k] = kept[k]
  BY <1>8, <1>14, <1>15, <1>16, HeldNext
<1>18. Held' = kept
  BY <1>3, <1>17, SeqEqual DEF n
<1> QED
  BY <1>15, <1>16, <1>18 DEF n, kept

-----------------------------------------------------------------------------
(* Ascending order, and beyond n.                                          *)
Asc(q) == \A i, j \in 1..Len(q) : i < j => q[i].id < q[j].id
Above(q, n) == \A k \in 1..Len(q) : n < q[k].id

LEMMA FirstIs ==
  ASSUME NEW q \in Seq(Records), NEW S, S \subseteq DOMAIN q, S # {},
         NEW f, f = CHOOSE k \in S : \A j \in S : k <= j
  PROVE  f \in S /\ \A j \in S : f <= j
<1>1. S \subseteq Nat
  OBVIOUS
<1>2. \E k \in S : \A j \in S : k <= j
  BY <1>1, Least
<1> QED
  BY <1>2

LEMMA RestIs ==
  ASSUME NEW q \in Seq(Records), NEW n \in 0..Len(q)
  PROVE  /\ Rest(q, n) \in Seq(Records) /\ Len(Rest(q, n)) = Len(q) - n
         /\ \A k \in 1..(Len(q) - n) : Rest(q, n)[k] = q[n + k]
<1>1. Len(q) \in Nat /\ n + 1 \in Int /\ Len(q) \in Int
  OBVIOUS
<1>2. \A i \in (n + 1)..Len(q) : q[i] \in Records
  OBVIOUS
<1>3. /\ Rest(q, n) \in Seq(Records)
      /\ Len(Rest(q, n)) = IF n + 1 <= Len(q) THEN Len(q) - (n + 1) + 1 ELSE 0
      /\ \A i \in 1..(Len(q) - (n + 1) + 1) : Rest(q, n)[i] = q[(n + 1) + i - 1]
  BY <1>1, <1>2, SubSeqProperties DEF Rest
<1>4. Len(Rest(q, n)) = Len(q) - n
  BY <1>1, <1>3
<1>5. ASSUME NEW k \in 1..(Len(q) - n)
      PROVE  Rest(q, n)[k] = q[n + k]
  <2>1. k \in 1..(Len(q) - (n + 1) + 1) /\ (n + 1) + k - 1 = n + k
    BY <1>1
  <2> QED
    BY <1>3, <2>1
<1> QED
  BY <1>3, <1>4, <1>5

Statuses == {"none", "unstarted", "ready"}

(* The types of everything but the ring.                                   *)
RestTyped ==
  /\ event \in BOOLEAN /\ overrun \in BOOLEAN
  /\ pc \in {"run", "peek", "allocate", "context", "pop", "close"}
  /\ peeked \in Places
  /\ copied \in 0..MaxEvents
  /\ queue \in Seq(Records)
  /\ thread \in Statuses
  /\ handling \in Records \cup {NoRecord}
  /\ (thread # "ready" => handling = NoRecord)
  /\ port \in [Ports -> {"open", "closing", "closed", "released"}]
  /\ count \in 0..MaxEvents /\ last \in 0..MaxEvents
  /\ late \subseteq 1..MaxEvents

(* What a spawn from q can come to: at most the last record it takes is    *)
(* dispatched, the others have no live dispatcher.                         *)
Outcome(o, q, th, dead) ==
  /\ o.taken \in 0..Len(q)
  /\ o.thread \in Statuses
  /\ o.handling \in Records \cup {NoRecord}
  /\ o.thread # "ready" => o.handling = NoRecord
  /\ o.taken > 0 /\ o.handling # NoRecord => o.handling = q[o.taken]
  /\ \A k \in 1..o.taken :
       \/ q[k].port \in dead
       \/ k = o.taken /\ o.handling = q[k]
       \/ o.thread = "ready" /\ o.handling = NoRecord
  /\ th = "ready" => o.taken = 0

LEMMA SpawnedIs ==
  ASSUME RestTyped, NEW q \in Seq(Records), NEW th \in Statuses, NEW dead,
         NEW o \in Spawned(q, th, dead)
  PROVE  Outcome(o, q, th, dead)
<1> DEFINE live  == {k \in DOMAIN q : q[k].port \notin dead}
           first == CHOOSE k \in live : \A j \in live : k <= j
           idle  == [taken |-> 0, thread |-> th,
                     handling |-> IF th = "ready" THEN handling ELSE NoRecord]
<1>0. Len(q) \in Nat /\ DOMAIN q = 1..Len(q)
  OBVIOUS
<1>1. \/ o = idle
      \/ /\ q # <<>> /\ th # "ready" /\ live = {}
         /\ o = [taken |-> Len(q), thread |-> "unstarted", handling |-> NoRecord]
      \/ /\ q # <<>> /\ th # "ready" /\ live # {}
         /\ \/ o = [taken |-> first, thread |-> "ready", handling |-> q[first]]
            \/ o = [taken |-> first, thread |-> "ready", handling |-> NoRecord]
  BY DEF Spawned
<1>2. CASE o = idle
  BY <1>0, <1>2 DEF Outcome, RestTyped
<1>3. CASE /\ q # <<>> /\ th # "ready" /\ live = {}
           /\ o = [taken |-> Len(q), thread |-> "unstarted", handling |-> NoRecord]
  <2>1. \A k \in 1..Len(q) : q[k].port \in dead
    BY <1>0, <1>3
  <2>2. o.taken = Len(q) /\ o.thread = "unstarted" /\ o.handling = NoRecord /\ th # "ready"
    BY <1>3
  <2> HIDE DEF live, first, idle
  <2>3. o.taken \in 0..Len(q)
    BY <2>2, <1>0
  <2>4. o.thread \in Statuses /\ o.handling \in Records \cup {NoRecord}
    BY <2>2 DEF Statuses
  <2>5. \A k \in 1..o.taken : q[k].port \in dead
    BY <2>1, <2>2
  <2> QED
    BY <2>2, <2>3, <2>4, <2>5 DEF Outcome
<1>4. CASE /\ q # <<>> /\ th # "ready" /\ live # {}
           /\ \/ o = [taken |-> first, thread |-> "ready", handling |-> q[first]]
              \/ o = [taken |-> first, thread |-> "ready", handling |-> NoRecord]
  <2>1. live \subseteq DOMAIN q
    OBVIOUS
  <2>2. first \in live /\ \A j \in live : first <= j
    BY <1>4, <2>1, FirstIs
  <2>3. \A k \in 1..Len(q) : k < first => q[k].port \in dead
    BY <2>2, <1>0
  <2>4. first \in 1..Len(q)
    BY <2>2, <1>0
  <2> HIDE DEF first, live
  <2>5. \A k \in 1..first : k = first \/ q[k].port \in dead
    BY <2>3, <2>4, <1>0
  <2>6. first \in 0..Len(q) /\ q[first] \in Records
    BY <2>4, <1>0
  <2> QED
    BY <1>4, <2>5, <2>6 DEF Outcome, Statuses
<1> QED
  BY <1>1, <1>2, <1>3, <1>4

(* How dispatches change the application queue and the latest interrupt:   *)
(* nothing new, nothing out of order, nothing gone but those of gone.      *)
Moves(q, q2, gone) ==
  /\ q2 \in Seq(Records)
  /\ \A k \in 1..Len(q2) : \E j \in 1..Len(q) : q2[k] = q[j]
  /\ Asc(q) => Asc(q2)
  /\ Above(q, last) /\ Asc(q) => Above(q2, last')
  /\ last' = last \/ \E j \in 1..Len(q) : last' = q[j].id
  /\ \A j \in 1..Len(q) :
       \/ \E k \in 1..Len(q2) : q2[k] = q[j]
       \/ q[j].port \in gone
       \/ last' = q[j].id
       \/ Wedged'

LEMMA TakesMoves ==
  ASSUME NEW q \in Seq(Records), NEW th, NEW dead, NEW o, Outcome(o, q, th, dead), Takes(o)
  PROVE  Moves(q, Rest(q, o.taken), dead)
<1> DEFINE n == o.taken
           r == Rest(q, n)
<1>1. n \in 0..Len(q) /\ Len(q) \in Nat
  BY DEF Outcome
<1>2. /\ r \in Seq(Records) /\ Len(r) = Len(q) - n
      /\ \A k \in 1..(Len(q) - n) : r[k] = q[n + k]
  BY <1>1, RestIs
<1>3. \A k \in 1..(Len(q) - n) : n + k \in 1..Len(q) /\ n < n + k
  BY <1>1
<1>4. \/ last' = last
      \/ n > 0 /\ o.handling # NoRecord /\ last' = q[n].id /\ o.handling = q[n]
  BY DEF Outcome, Takes
<1>5. n > 0 => n \in 1..Len(q)
  BY <1>1
<1>a. \A k \in 1..n :
       \/ q[k].port \in dead
       \/ k = n /\ o.handling = q[k]
       \/ Wedged'
  BY DEF Outcome, Takes, Wedged
<1>b. last' = last => (n = 0 \/ o.handling = NoRecord \/ last' = q[n].id)
  BY <1>1 DEF Takes, Outcome
<1>c. o.handling = q[n] /\ n > 0 => last' = q[n].id
  <2>1. q[n] \in Records \/ n = 0
    BY <1>1, <1>5
  <2> QED
    BY <2>1, <1>1, RecordReal DEF Takes
<1> HIDE DEF n, r
<1>6. \A k \in 1..Len(r) : \E j \in 1..Len(q) : r[k] = q[j]
  BY <1>2, <1>3
<1>7. ASSUME Asc(q) PROVE Asc(r)
  <2>1. ASSUME NEW i \in 1..(Len(q) - n), NEW j \in 1..(Len(q) - n), i < j
        PROVE  r[i].id < r[j].id
    <3>1. n + i < n + j
      BY <1>1, <2>1
    <3> QED
      BY <3>1, <1>2, <1>3, <1>7 DEF Asc
  <2> QED
    BY <2>1, <1>2 DEF Asc
<1>8. ASSUME Asc(q), Above(q, last) PROVE Above(r, last')
  <2>1. ASSUME NEW k \in 1..(Len(q) - n)
        PROVE  last' < r[k].id
    <3>1. CASE last' = last
      BY <3>1, <1>2, <1>3, <1>8 DEF Above
    <3>2. CASE n > 0 /\ last' = q[n].id
      BY <3>2, <1>2, <1>3, <1>5, <1>8 DEF Asc
    <3> QED
      BY <3>1, <3>2, <1>4
  <2> QED
    BY <2>1, <1>2 DEF Above
<1>9. ASSUME NEW j \in 1..Len(q)
      PROVE  \/ \E k \in 1..Len(r) : r[k] = q[j]
             \/ q[j].port \in dead
             \/ last' = q[j].id
             \/ Wedged'
  <2>1. CASE j <= n
    <3>1. j \in 1..n /\ n > 0
      BY <2>1, <1>1
    <3> QED
      BY <3>1, <1>a, <1>c
  <2>2. CASE j > n
    <3>1. j - n \in 1..(Len(q) - n) /\ n + (j - n) = j
      BY <2>2, <1>1
    <3>2. r[j - n] = q[j]
      BY <3>1, <1>2
    <3> QED
      BY <3>1, <3>2, <1>2
  <2> QED
    BY <2>1, <2>2, <1>1
<1>10. last' = last \/ \E j \in 1..Len(q) : last' = q[j].id
  BY <1>4, <1>5
<1>11. Moves(q, r, dead)
  BY <1>2, <1>6, <1>7, <1>8, <1>9, <1>10 DEF Moves
<1> QED
  BY <1>11 DEF r, n

LEMMA SchedTyped ==
  ASSUME RestTyped, NEW q \in Seq(Records), NEW th, NEW dead, NEW o,
         Outcome(o, q, th, dead), Takes(o)
  PROVE  /\ thread' \in Statuses
         /\ handling' \in Records \cup {NoRecord}
         /\ (thread' # "ready" => handling' = NoRecord)
         /\ last' \in 0..MaxEvents
<1>1. last' = last \/ (last' = o.handling.id /\ o.handling \in Records)
  BY DEF Takes, Outcome
<1>2. MaxEvents \in Nat
  BY InterruptsAssumption
<1>3. last' \in 0..MaxEvents
  BY <1>1, <1>2 DEF RestTyped, Records
<1> QED
  BY <1>3 DEF Takes, Outcome

(* A step that may dispatch.                                               *)
Dispatched(gone) ==
  /\ Moves(queue, queue', gone)
  /\ thread' \in Statuses
  /\ handling' \in Records \cup {NoRecord}
  /\ (thread' # "ready" => handling' = NoRecord)
  /\ last' \in 0..MaxEvents

LEMMA SpawnDispatched ==
  ASSUME RestTyped, NEW th \in Statuses, SpawnDispatcher(th)
  PROVE  Dispatched(Released)
<1>1. PICK o \in Spawned(queue, th, Released) : Takes(o) /\ queue' = Rest(queue, o.taken)
  BY DEF SpawnDispatcher
<1>2. queue \in Seq(Records)
  BY DEF RestTyped
<1>3. Outcome(o, queue, th, Released)
  BY <1>2, SpawnedIs
<1>4. Moves(queue, queue', Released)
  BY <1>1, <1>2, <1>3, TakesMoves
<1> QED
  BY <1>1, <1>2, <1>3, <1>4, SchedTyped DEF Dispatched

(* q2 is q without some records, all of them in gone.                      *)
Thinned(q, q2, gone) ==
  /\ q2 \in Seq(Records)
  /\ \A k \in 1..Len(q2) : \E j \in 1..Len(q) : q2[k] = q[j]
  /\ Asc(q) => Asc(q2)
  /\ \A j \in 1..Len(q) : (\E k \in 1..Len(q2) : q2[k] = q[j]) \/ q[j].port \in gone

LEMMA ThinnedMoves ==
  ASSUME NEW q, NEW q1, NEW q2, NEW gone, Thinned(q, q1, gone), Moves(q1, q2, gone)
  PROVE  Moves(q, q2, gone)
<1>1. ASSUME NEW j \in 1..Len(q)
      PROVE  \/ \E k \in 1..Len(q2) : q2[k] = q[j]
             \/ q[j].port \in gone
             \/ last' = q[j].id
             \/ Wedged'
  <2>1. CASE q[j].port \in gone
    BY <2>1
  <2>2. CASE \E k \in 1..Len(q1) : q1[k] = q[j]
    <3>1. PICK k \in 1..Len(q1) : q1[k] = q[j]
      BY <2>2
    <3> QED
      BY <3>1 DEF Moves
  <2> QED
    BY <2>1, <2>2 DEF Thinned
<1>2. \A k \in 1..Len(q2) : \E j \in 1..Len(q) : q2[k] = q[j]
  <2> TAKE k \in 1..Len(q2)
  <2>1. PICK i \in 1..Len(q1) : q2[k] = q1[i]
    BY DEF Moves
  <2> QED
    BY <2>1 DEF Thinned
<1>3. Asc(q) => Asc(q2)
  BY DEF Thinned, Moves
<1>4. ASSUME Above(q, last), Asc(q) PROVE Above(q2, last')
  <2>1. Above(q1, last)
    BY <1>4 DEF Above, Thinned
  <2> QED
    BY <2>1, <1>4 DEF Thinned, Moves
<1>5. last' = last \/ \E j \in 1..Len(q) : last' = q[j].id
  BY DEF Moves, Thinned
<1> QED
  BY <1>1, <1>2, <1>3, <1>4, <1>5 DEF Moves

LEMMA MovesThinned ==
  ASSUME NEW q, NEW q1, NEW q2, NEW gone, Moves(q, q1, gone), Thinned(q1, q2, gone)
  PROVE  Moves(q, q2, gone)
<1>1. ASSUME NEW j \in 1..Len(q)
      PROVE  \/ \E k \in 1..Len(q2) : q2[k] = q[j]
             \/ q[j].port \in gone
             \/ last' = q[j].id
             \/ Wedged'
  <2>1. CASE \E k \in 1..Len(q1) : q1[k] = q[j]
    <3>1. PICK k \in 1..Len(q1) : q1[k] = q[j]
      BY <2>1
    <3> QED
      BY <3>1 DEF Thinned
  <2> QED
    BY <2>1 DEF Moves
<1>2. \A k \in 1..Len(q2) : \E j \in 1..Len(q) : q2[k] = q[j]
  <2> TAKE k \in 1..Len(q2)
  <2>1. PICK i \in 1..Len(q1) : q2[k] = q1[i]
    BY DEF Thinned
  <2> QED
    BY <2>1 DEF Moves
<1>3. Asc(q) => Asc(q2)
  BY DEF Thinned, Moves
<1>4. ASSUME Above(q, last), Asc(q) PROVE Above(q2, last')
  <2>1. Above(q1, last')
    BY <1>4 DEF Moves
  <2> QED
    BY <2>1 DEF Above, Thinned
<1>5. last' = last \/ \E j \in 1..Len(q) : last' = q[j].id
  BY DEF Moves
<1>6. q2 \in Seq(Records)
  BY DEF Thinned
<1> QED
  BY <1>1, <1>2, <1>3, <1>4, <1>5, <1>6 DEF Moves

LEMMA WithoutThinned ==
  ASSUME NEW q \in Seq(Records), NEW p, NEW gone, p \in gone
  PROVE  Thinned(q, Without(q, p), gone)
<1> DEFINE w == Without(q, p)
<1>1. Filtered(w, q, p)
  BY WithoutIs
<1> HIDE DEF w
<1>2. w \in Seq(Records) /\ \A k \in 1..Len(w) : \E j \in 1..Len(q) : w[k] = q[j]
  BY <1>1 DEF Filtered
<1>3. Asc(q) => Asc(w)
  BY <1>1 DEF Filtered, Asc
<1>4. \A j \in 1..Len(q) : q[j].port # p => \E k \in 1..Len(w) : w[k] = q[j]
  BY <1>1 DEF Filtered
<1>5. Thinned(q, w, gone)
  BY <1>2, <1>3, <1>4 DEF Thinned
<1> QED
  BY <1>5 DEF w

LEMMA WithoutFirstThinned ==
  ASSUME NEW q \in Seq(Records), NEW f \in 1..Len(q), NEW gone, q[f].port \in gone
  PROVE  Thinned(q, [k \in 1..(Len(q) - 1) |-> q[IF k < f THEN k ELSE k + 1]], gone)
<1> DEFINE n == Len(q) - 1
           r == [k \in 1..n |-> q[IF k < f THEN k ELSE k + 1]]
           At(k) == IF k < f THEN k ELSE k + 1
<1>1. n \in Nat /\ Len(q) = n + 1
  OBVIOUS
<1>2. \A k \in 1..n : At(k) \in 1..Len(q)
  BY <1>1
<1>3. \A i, j \in 1..n : i < j => At(i) < At(j)
  BY <1>1
<1>4. \A j \in 1..Len(q) : j # f => \E k \in 1..n : At(k) = j
  <2> SUFFICES ASSUME NEW j \in 1..Len(q), j # f
               PROVE  \E k \in 1..n : At(k) = j
    OBVIOUS
  <2>1. CASE j < f
    <3>1. j \in 1..n /\ At(j) = j
      BY <1>1, <2>1
    <3> QED
      BY <3>1
  <2>2. CASE j > f
    <3>1. j - 1 \in 1..n /\ At(j - 1) = j
      BY <1>1, <2>2
    <3> QED
      BY <3>1
  <2> QED
    BY <2>1, <2>2
<1>5. \A k \in 1..n : r[k] = q[At(k)]
  OBVIOUS
<1>6. DOMAIN r = 1..n /\ r = [k \in 1..n |-> r[k]]
  OBVIOUS
<1> HIDE DEF n, r, At
<1>7. \A k \in 1..n : r[k] \in Records
  BY <1>2, <1>5
<1>8. r \in Seq(Records) /\ Len(r) = n
  BY <1>1, <1>6, <1>7
<1>9. Asc(q) => Asc(r)
  BY <1>2, <1>3, <1>5, <1>8 DEF Asc
<1>10. \A j \in 1..Len(q) : (\E k \in 1..Len(r) : r[k] = q[j]) \/ q[j].port \in gone
  BY <1>4, <1>5, <1>8
<1>11. Thinned(q, r, gone)
  BY <1>2, <1>5, <1>8, <1>9, <1>10 DEF Thinned
<1> QED
  BY <1>11 DEF r, n

LEMMA SameMoves ==
  ASSUME RestTyped, UNCHANGED <<queue, sched>>, NEW gone
  PROVE  Dispatched(gone)
<1>1. Moves(queue, queue', gone)
  BY DEF RestTyped, Moves, sched
<1> QED
  BY <1>1 DEF Dispatched, RestTyped, sched

(* The collection takes nothing out of the application queue but records   *)
(* of released ports, and at least those of p if the thread is busy.       *)
LEMMA CollectDispatched ==
  ASSUME RestTyped, NEW p \in Ports, Collect(p)
  PROVE  /\ Dispatched(Released \cup {p})
         /\ thread = "ready" => \A k \in DOMAIN queue' : queue'[k].port # p
<1> DEFINE gone  == Released \cup {p}
           mine  == {k \in DOMAIN queue : queue[k].port = p}
           first == CHOOSE k \in mine : \A j \in mine : k <= j
           rest  == [k \in 1..(Len(queue) - 1) |-> queue[IF k < first THEN k ELSE k + 1]]
<1>0. queue \in Seq(Records) /\ thread \in Statuses
  BY DEF RestTyped
<1>1. CASE mine = {}
  <2>1. UNCHANGED <<queue, sched>>
    BY <1>1 DEF Collect
  <2>2. \A k \in DOMAIN queue' : queue'[k].port # p
    BY <1>1, <2>1
  <2> QED
    BY <2>1, <2>2, SameMoves
<1>2. CASE mine # {}
  <2>1. PICK o \in Spawned(rest, thread, gone) :
          /\ Takes(o)
          /\ queue' = IF o.taken >= first THEN Rest(rest, o.taken)
                      ELSE Without(Rest(rest, o.taken), p)
    BY <1>2 DEF Collect
  <2>2. mine \subseteq DOMAIN queue
    OBVIOUS
  <2>3. first \in mine
    BY <1>0, <1>2, <2>2, FirstIs
  <2>4. first \in 1..Len(queue) /\ queue[first].port = p
    BY <1>0, <2>3
  <2>5. Thinned(queue, rest, gone)
    BY <1>0, <2>4, WithoutFirstThinned
  <2> HIDE DEF rest, first, mine
  <2>6. rest \in Seq(Records)
    BY <2>5 DEF Thinned
  <2>7. Outcome(o, rest, thread, gone)
    BY <1>0, <2>1, <2>6, SpawnedIs
  <2>8. Moves(rest, Rest(rest, o.taken), gone)
    BY <2>1, <2>6, <2>7, TakesMoves
  <2>9. Rest(rest, o.taken) \in Seq(Records)
    BY <2>8 DEF Moves
  <2>10. Thinned(Rest(rest, o.taken), Without(Rest(rest, o.taken), p), gone)
    BY <2>9, WithoutThinned
  <2>11. Moves(rest, queue', gone)
    BY <2>1, <2>8, <2>10, MovesThinned
  <2>12. Moves(queue, queue', gone)
    BY <2>5, <2>11, ThinnedMoves
  <2>13. Dispatched(gone)
    BY <2>1, <2>6, <2>7, <2>12, SchedTyped DEF Dispatched
  <2>14. ASSUME thread = "ready"
         PROVE  \A k \in DOMAIN queue' : queue'[k].port # p
    <3>1. o.taken = 0
      BY <2>7, <2>14 DEF Outcome
    <3>2. ~(o.taken >= first)
      BY <2>4, <3>1
    <3>3. queue' = Without(Rest(rest, o.taken), p)
      BY <2>1, <3>2
    <3>4. Filtered(queue', Rest(rest, o.taken), p)
      BY <2>9, <3>3, WithoutIs
    <3> QED
      BY <3>4 DEF Filtered
  <2> QED
    BY <2>13, <2>14
<1> QED
  BY <1>1, <1>2

-----------------------------------------------------------------------------
(* A record is being transferred.                                          *)
Busy == pc \in {"allocate", "context", "pop"}

TransferTyped ==
  /\ pc \in {"allocate", "context"} => slots[peeked] \in Records
  /\ pc = "context" => copied > 0
  /\ Busy => Used # 0

Typed == RingTyped /\ RestTyped /\ TransferTyped

LEMMA TypedMeans == Typed => TypeOK
<1> SUFFICES ASSUME Typed PROVE TypeOK
  OBVIOUS
<1>1. Empty <=> Used = 0
  BY UsedIs DEF Typed, RingTyped
<1>2. pc \in {"allocate", "context"} => slots[peeked] # NoRecord
  BY RecordReal DEF Typed, TransferTyped
<1>3. pc = "pop" => ~Empty
  BY <1>1 DEF Typed, TransferTyped, Busy
<1> QED
  BY <1>2, <1>3 DEF Typed, TransferTyped, RingTyped, RestTyped, TypeOK, Places, Statuses

LEMMA TypedInit == Init => Typed
<1> SUFFICES ASSUME Init PROVE Typed
  OBVIOUS
<1>1. 0 \in Places /\ 0 \in 0..MaxEvents
  BY Sizes, InterruptsAssumption DEF Places
<1>2. Used = 0
  <2>1. (0 - 0) % Size = 0
    BY <1>1, UsedOf DEF Places
  <2> QED
    BY <2>1 DEF Init, Used
<1>3. RingTyped
  <2>1. \A k \in 1..Used : Held[k] # NoRecord
    BY <1>2
  <2>2. slots \in [0..(Size - 1) -> Records \cup {NoRecord}]
    BY DEF Init
  <2> QED
    BY <1>1, <2>1, <2>2 DEF Init, RingTyped, Places
<1>4. RestTyped
  <2>1. queue \in Seq(Records)
    BY DEF Init
  <2>2. port \in [Ports -> {"open", "closing", "closed", "released"}]
    BY DEF Init
  <2> QED
    BY <1>1, <2>1, <2>2 DEF Init, RestTyped, Statuses
<1>5. TransferTyped
  BY DEF Init, TransferTyped, Busy
<1> QED
  BY <1>3, <1>4, <1>5 DEF Typed

LEMMA TypedInterrupt ==
  ASSUME Typed, NEW p \in Ports, Interrupt(p)
  PROVE  Typed'
<1>1. /\ RingTyped /\ RestTyped /\ TransferTyped /\ count \in 0..MaxEvents
      /\ slots \in [Places -> Records \cup {NoRecord}] /\ writer \in Places
      /\ MaxEvents \in Nat
  BY InterruptsAssumption DEF Typed, RestTyped, RingTyped, Places
<1>2. RingTyped' /\ Used' # 0
  <2>1. CASE ~full
    <3>1. RingTyped' /\ Used' = Used + 1
      BY <1>1, <2>1, RingSaved
    <3>2. Used \in 0..Size
      BY <1>1, UsedIs DEF RingTyped
    <3> QED
      BY <3>1, <3>2, Sizes
  <2>2. CASE full
    BY <1>1, <2>2, RingDropped, Sizes
  <2> QED
    BY <2>1, <2>2
<1>3. RestTyped'
  <2>1. count' \in 0..MaxEvents /\ count' \in 1..MaxEvents
    BY <1>1 DEF Interrupt
  <2> QED
    BY <1>1, <2>1 DEF RestTyped, Interrupt, sched
<1>4. slots' = [slots EXCEPT ![writer] = Saved(p)] /\ Saved(p) \in Records
  BY <1>1, SavedTyped DEF Interrupt, Saved
<1>5. pc' \in {"allocate", "context"} => slots'[peeked'] \in Records
  BY <1>1, <1>4 DEF Interrupt, TransferTyped, RestTyped
<1>6. TransferTyped'
  BY <1>1, <1>2, <1>5 DEF TransferTyped, Interrupt
<1> QED
  BY <1>2, <1>3, <1>6 DEF Typed

LEMMA TypedDispatched ==
  ASSUME RestTyped, NEW gone, Dispatched(gone),
         UNCHANGED <<event, peeked, copied, hist>>,
         pc' \in {"run", "peek", "allocate", "context", "pop", "close"},
         port' \in [Ports -> {"open", "closing", "closed", "released"}]
  PROVE  RestTyped'
BY DEF RestTyped, Dispatched, Moves, hist

LEMMA TypedNext == Typed /\ [Next]_vars => Typed'
<1> SUFFICES ASSUME Typed, [Next]_vars PROVE Typed'
  OBVIOUS
<1>0. RingTyped /\ RestTyped /\ TransferTyped /\ (Empty <=> Used = 0)
  BY UsedIs DEF Typed, RingTyped
<1>a. UNCHANGED ring => RingTyped' /\ Used' = Used /\ slots' = slots
  BY <1>0, RingSame DEF ring
<1>1. ASSUME NEW p \in Ports, Interrupt(p) PROVE Typed'
  BY <1>1, TypedInterrupt
<1>2. ASSUME NEW p \in Ports, Dispose(p) PROVE Typed'
  <2>1. RingTyped'
    BY <1>0, <1>2, RingRemoved DEF Dispose
  <2>2. RestTyped'
    BY <1>0, <1>2 DEF Dispose, RestTyped, sched, hist
  <2> QED
    BY <1>2, <2>1, <2>2 DEF Typed, TransferTyped, Busy, Dispose
<1>3. ASSUME NEW p \in Ports, ClosePin(p) PROVE Typed'
  <2>1. RestTyped'
    BY <1>0, <1>3 DEF ClosePin, RestTyped, sched, hist
  <2> QED
    BY <1>3, <1>a, <2>1 DEF Typed, TransferTyped, Busy, ClosePin
<1>4. ASSUME NEW p \in Ports, Collect(p) PROVE Typed'
  <2>1. Dispatched(Released \cup {p})
    BY <1>0, <1>4, CollectDispatched
  <2>2. port' \in [Ports -> {"open", "closing", "closed", "released"}]
    BY <1>0, <1>4 DEF Collect, RestTyped
  <2>3. UNCHANGED <<ring, event, pc, peeked, copied, hist>>
    BY <1>4 DEF Collect
  <2>4. pc' \in {"run", "peek", "allocate", "context", "pop", "close"}
    BY <1>0, <2>3 DEF RestTyped
  <2>5. RestTyped'
    BY <1>0, <2>1, <2>2, <2>3, <2>4, TypedDispatched
  <2> QED
    BY <1>0, <1>a, <2>3, <2>5 DEF Typed, TransferTyped, Busy
<1>5. CASE ProcessActivity
  <2>1. RestTyped'
    BY <1>0, <1>5 DEF ProcessActivity, RestTyped, sched, hist
  <2> QED
    BY <1>5, <1>a, <2>1 DEF Typed, TransferTyped, Busy, ProcessActivity
<1>6. CASE PeekRecord
  <2>1. RestTyped'
    BY <1>0, <1>6 DEF PeekRecord, RestTyped, RingTyped, Places, sched, hist
  <2>2. Used # 0 /\ Used \in Nat /\ peeked' = reader
    BY <1>0, <1>6, UsedIs, Sizes DEF PeekRecord, RingTyped
  <2>3. slots[reader] \in Records
    <3>1. 1 \in 1..Used
      BY <2>2
    <3>2. Slot(reader, 1) = reader
      BY <1>0, Sizes DEF Slot, Cyc, RingTyped
    <3> QED
      BY <1>0, <3>1, <3>2, HeldIs
  <2> QED
    BY <1>6, <1>a, <2>1, <2>2, <2>3 DEF Typed, TransferTyped, Busy, PeekRecord
<1>7. CASE PeekNothing
  <2>1. thread \in Statuses /\ SpawnDispatcher(thread)
    BY <1>0, <1>7 DEF RestTyped, PeekNothing
  <2>2. Dispatched(Released)
    BY <1>0, <2>1, SpawnDispatched
  <2>3. RestTyped'
    BY <1>0, <1>7, <2>2, TypedDispatched DEF PeekNothing, RestTyped
  <2> QED
    BY <1>7, <1>a, <2>3 DEF Typed, TransferTyped, Busy, PeekNothing
<1>8. CASE CopyData
  <2>1. slots[peeked] \in Records /\ MaxEvents \in Nat
    BY <1>0, <1>8, InterruptsAssumption DEF TransferTyped, CopyData
  <2>2. copied' \in 0..MaxEvents /\ copied' > 0
    BY <1>8, <2>1 DEF CopyData, Records
  <2>3. RestTyped'
    BY <1>0, <1>8, <2>2 DEF CopyData, RestTyped, sched, hist
  <2> QED
    BY <1>0, <1>8, <1>a, <2>1, <2>2, <2>3 DEF Typed, TransferTyped, Busy, CopyData
<1>9. CASE DiscardAll
  <2>1. RingTyped'
    BY <1>0, <1>9, RingCleared DEF DiscardAll
  <2>2. RestTyped'
    BY <1>0, <1>9 DEF DiscardAll, RestTyped, sched, hist
  <2> QED
    BY <1>9, <2>1, <2>2 DEF Typed, TransferTyped, Busy, DiscardAll
<1>10. CASE LinkRecord
  <2>1. slots[peeked] \in Records /\ copied \in 1..MaxEvents /\ queue \in Seq(Records)
    BY <1>0, <1>10, InterruptsAssumption DEF TransferTyped, LinkRecord, RestTyped
  <2>2. [id |-> copied, port |-> slots[peeked].port] \in Records
    BY <2>1 DEF Records
  <2>3. queue' \in Seq(Records)
    BY <1>10, <2>1, <2>2, AppendProperties DEF LinkRecord
  <2>4. RestTyped'
    BY <1>0, <1>10, <2>3 DEF LinkRecord, RestTyped, sched, hist
  <2> QED
    BY <1>0, <1>10, <1>a, <2>4 DEF Typed, TransferTyped, Busy, LinkRecord
<1>11. CASE PopRecord
  <2>1. Used # 0
    BY <1>0, <1>11 DEF TransferTyped, Busy, PopRecord
  <2>2. RingTyped'
    BY <1>0, <1>11, <2>1, RingPopped DEF PopRecord
  <2>3. RestTyped'
    BY <1>0, <1>11 DEF PopRecord, RestTyped, sched, hist
  <2> QED
    BY <1>11, <2>2, <2>3 DEF Typed, TransferTyped, Busy, PopRecord
<1>12. CASE ThreadEnds
  <2>1. SpawnDispatcher("unstarted")
    BY <1>12 DEF ThreadEnds, SpawnDispatcher
  <2>2. Dispatched(Released)
    BY <1>0, <2>1, SpawnDispatched DEF Statuses
  <2>3. RestTyped'
    BY <1>0, <1>12, <2>2, TypedDispatched DEF ThreadEnds, RestTyped
  <2> QED
    BY <1>12, <1>a, <2>3 DEF Typed, TransferTyped, Busy, ThreadEnds
<1>13. CASE UNCHANGED vars
  <2>1. RestTyped'
    BY <1>0, <1>13 DEF RestTyped, vars, sched, hist
  <2> QED
    BY <1>0, <1>13, <1>a, <2>1 DEF Typed, TransferTyped, Busy, vars
<1> QED
  BY <1>1, <1>2, <1>3, <1>4, <1>5, <1>6, <1>7, <1>8, <1>9, <1>10, <1>11, <1>12, <1>13
  DEF Next, Transfer

(* Each variable keeps its type; in particular the slot a transfer reads   *)
(* holds a record, and the ring it pops from is not empty, whatever the    *)
(* interrupts in between have overwritten.                                 *)
THEOREM TypeCorrect == Spec => []TypeOK
<1>1. Init => Typed
  BY TypedInit
<1>2. Typed /\ [Next]_vars => Typed'
  BY TypedNext
<1>3. Typed => TypeOK
  BY TypedMeans
<1> QED
  BY <1>1, <1>2, <1>3, PTL DEF Spec

-----------------------------------------------------------------------------
(* The record at place k of the ring is not in the application queue yet.  *)
Coming(k) == pc = "pop" => k > 1

QueueOrder ==
  /\ Asc(queue) /\ Above(queue, last)
  /\ \A j \in 1..Len(queue) : queue[j].id <= count
  /\ last <= count

HeldOrder ==
  /\ \A i, j \in 1..Used : i < j => Held[i].id < Held[j].id
  /\ \A k \in 1..Used : Held[k].id <= count

(* The application queue comes before the ring.                            *)
Across ==
  /\ \A j \in 1..Len(queue), k \in 1..Used : Coming(k) => queue[j].id < Held[k].id
  /\ \A k \in 1..Used : Coming(k) => last < Held[k].id

(* The record in transfer is the oldest of the ring.                       *)
Transferring ==
  /\ Busy => peeked = reader
  /\ pc = "context" => copied = Held[1].id

(* All this holds until the ring overflows during a transfer.              *)
Order == ~overrun => QueueOrder /\ HeldOrder /\ Across /\ Transferring

LEMMA Numbers ==
  ASSUME Typed
  PROVE  /\ MaxEvents \in Nat /\ count \in 0..MaxEvents /\ last \in 0..MaxEvents
         /\ Len(queue) \in Nat /\ Used \in Nat /\ queue \in Seq(Records)
         /\ \A j \in 1..Len(queue) : queue[j] \in Records /\ queue[j].id \in 1..MaxEvents
         /\ \A k \in 1..Used : Held[k] \in Records /\ Held[k].id \in 1..MaxEvents
<1>1. MaxEvents \in Nat /\ Used \in 0..Size
  BY InterruptsAssumption, UsedIs DEF Typed, RingTyped
<1>2. queue \in Seq(Records) /\ \A k \in 1..Used : Held[k] \in Records
  BY HeldIs DEF Typed, RestTyped
<1>3. \A j \in 1..Len(queue) : queue[j] \in Records
  BY <1>2
<1>4. \A r \in Records : r.id \in 1..MaxEvents
  BY DEF Records
<1> QED
  BY <1>1, <1>2, <1>3, <1>4, Sizes DEF Typed, RestTyped

LEMMA OrderInterrupt ==
  ASSUME Typed, Order, NEW p \in Ports, Interrupt(p), ~overrun'
  PROVE  QueueOrder' /\ HeldOrder' /\ Across' /\ Transferring'
<1>0. /\ MaxEvents \in Nat /\ count \in 0..MaxEvents /\ last \in 0..MaxEvents
      /\ Len(queue) \in Nat /\ Used \in Nat
      /\ \A j \in 1..Len(queue) : queue[j].id \in 1..MaxEvents
      /\ \A k \in 1..Used : Held[k].id \in 1..MaxEvents
      /\ RingTyped /\ RestTyped /\ TransferTyped
  BY Numbers DEF Typed
<1>1. /\ QueueOrder /\ HeldOrder /\ Across /\ Transferring
      /\ ~full \/ pc \notin {"allocate", "context", "pop"}
      /\ count' = count + 1
      /\ UNCHANGED <<pc, peeked, copied, queue, last>>
  BY DEF Order, Interrupt, sched
<1>2. Saved(p).id = count + 1
  BY DEF Saved
<1>3. QueueOrder'
  <2>1. Asc(queue)' /\ Above(queue, last)'
    BY <1>1 DEF QueueOrder, Asc, Above
  <2>2. \A j \in 1..Len(queue) : queue[j].id <= count + 1
    BY <1>0, <1>1 DEF QueueOrder
  <2>3. last <= count + 1
    BY <1>0, <1>1 DEF QueueOrder
  <2> QED
    BY <1>1, <2>1, <2>2, <2>3 DEF QueueOrder
<1>4. CASE ~full
  <2>1. /\ Used' = Used + 1 /\ reader' = reader
        /\ \A k \in 1..Used : Held'[k] = Held[k]
        /\ Held'[Used + 1] = Saved(p)
    BY <1>0, <1>4, RingSaved
  <2>2. \A k \in 1..Used' : k \in 1..Used \/ k = Used + 1
    BY <1>0, <2>1
  <2>3. \A k \in 1..Used' : Held'[k].id <= count'
    <3> TAKE k \in 1..Used'
    <3>1. CASE k \in 1..Used
      BY <1>0, <1>1, <2>1, <3>1 DEF HeldOrder
    <3>2. CASE k = Used + 1
      BY <1>0, <1>1, <1>2, <2>1, <3>2
    <3> QED
      BY <2>2, <3>1, <3>2
  <2>4. \A i, j \in 1..Used' : i < j => Held'[i].id < Held'[j].id
    <3> SUFFICES ASSUME NEW i \in 1..Used', NEW j \in 1..Used', i < j
                 PROVE  Held'[i].id < Held'[j].id
      OBVIOUS
    <3>1. i \in 1..Used
      BY <1>0, <2>1
    <3>2. CASE j \in 1..Used
      BY <1>1, <2>1, <3>1, <3>2 DEF HeldOrder
    <3>3. CASE j = Used + 1
      BY <1>0, <1>1, <1>2, <2>1, <3>1, <3>3 DEF HeldOrder
    <3> QED
      BY <2>2, <3>2, <3>3
  <2>5. \A j \in 1..Len(queue') : \A k \in 1..Used' : Coming(k)' => queue'[j].id < Held'[k].id
    <3> SUFFICES ASSUME NEW j \in 1..Len(queue), NEW k \in 1..Used', Coming(k)
                 PROVE  queue[j].id < Held'[k].id
      BY <1>1 DEF Coming
    <3>1. CASE k \in 1..Used
      BY <1>1, <2>1, <3>1 DEF Across
    <3>2. CASE k = Used + 1
      BY <1>0, <1>1, <1>2, <2>1, <3>2 DEF QueueOrder
    <3> QED
      BY <2>2, <3>1, <3>2
  <2>6. \A k \in 1..Used' : Coming(k)' => last' < Held'[k].id
    <3> SUFFICES ASSUME NEW k \in 1..Used', Coming(k)
                 PROVE  last < Held'[k].id
      BY <1>1 DEF Coming
    <3>1. CASE k \in 1..Used
      BY <1>1, <2>1, <3>1 DEF Across
    <3>2. CASE k = Used + 1
      BY <1>0, <1>1, <1>2, <2>1, <3>2 DEF QueueOrder
    <3> QED
      BY <2>2, <3>1, <3>2
  <2>7. Transferring'
    <3>1. Busy => 1 \in 1..Used
      BY <1>0 DEF TransferTyped
    <3>2. pc = "context" => Held'[1] = Held[1]
      BY <2>1, <3>1 DEF Busy
    <3> QED
      BY <1>1, <2>1, <3>2 DEF Transferring, Busy
  <2> QED
    BY <1>3, <2>3, <2>4, <2>5, <2>6, <2>7 DEF HeldOrder, Across
<1>5. CASE full
  <2>0. Size \in Nat \ {0} /\ pc \notin {"allocate", "context", "pop"}
    BY <1>1, <1>5, Sizes
  <2>1. /\ Used = Size /\ Used' = Size
        /\ \A k \in 1..(Size - 1) : Held'[k] = Held[k + 1]
        /\ Held'[Size] = Saved(p)
    BY <1>0, <1>5, RingDropped
  <2>2. \A k \in 1..Used' : k \in 1..(Size - 1) \/ k = Size
    BY <2>0, <2>1
  <2>a. \A k \in 1..(Size - 1) : k + 1 \in 1..Used
    BY <2>0, <2>1
  <2>3. \A k \in 1..Used' : Held'[k].id <= count'
    <3> TAKE k \in 1..Used'
    <3>1. CASE k \in 1..(Size - 1)
      BY <1>0, <1>1, <2>1, <2>a, <3>1 DEF HeldOrder
    <3>2. CASE k = Size
      BY <1>0, <1>1, <1>2, <2>1, <3>2
    <3> QED
      BY <2>2, <3>1, <3>2
  <2>4. \A i, j \in 1..Used' : i < j => Held'[i].id < Held'[j].id
    <3> SUFFICES ASSUME NEW i \in 1..Used', NEW j \in 1..Used', i < j
                 PROVE  Held'[i].id < Held'[j].id
      OBVIOUS
    <3>1. i \in 1..(Size - 1) /\ i + 1 \in 1..Used /\ i + 1 < j + 1
      BY <2>0, <2>1
    <3>2. CASE j \in 1..(Size - 1)
      <4>1. Held'[i] = Held[i + 1] /\ Held'[j] = Held[j + 1] /\ j + 1 \in 1..Used
        BY <2>1, <2>a, <3>1, <3>2
      <4> QED
        BY <1>1, <3>1, <4>1 DEF HeldOrder
    <3>3. CASE j = Size
      <4>1. Held'[i] = Held[i + 1] /\ Held'[j].id = count + 1
        BY <1>2, <2>1, <3>1, <3>3
      <4>2. Held[i + 1].id <= count /\ Held[i + 1].id \in 1..MaxEvents
        BY <1>0, <1>1, <3>1 DEF HeldOrder
      <4> QED
        BY <1>0, <4>1, <4>2
    <3> QED
      BY <2>2, <3>2, <3>3
  <2>5. \A j \in 1..Len(queue') : \A k \in 1..Used' : Coming(k)' => queue'[j].id < Held'[k].id
    <3> SUFFICES ASSUME NEW j \in 1..Len(queue), NEW k \in 1..Used'
                 PROVE  queue[j].id < Held'[k].id
      BY <1>1
    <3>1. CASE k \in 1..(Size - 1)
      BY <1>1, <2>0, <2>1, <2>a, <3>1 DEF Across, Coming
    <3>2. CASE k = Size
      BY <1>0, <1>1, <1>2, <2>1, <3>2 DEF QueueOrder
    <3> QED
      BY <2>2, <3>1, <3>2
  <2>6. \A k \in 1..Used' : Coming(k)' => last' < Held'[k].id
    <3> SUFFICES ASSUME NEW k \in 1..Used'
                 PROVE  last < Held'[k].id
      BY <1>1
    <3>1. CASE k \in 1..(Size - 1)
      BY <1>1, <2>0, <2>1, <2>a, <3>1 DEF Across, Coming
    <3>2. CASE k = Size
      BY <1>0, <1>1, <1>2, <2>1, <3>2 DEF QueueOrder
    <3> QED
      BY <2>2, <3>1, <3>2
  <2>7. Transferring'
    BY <1>1, <2>0 DEF Transferring, Busy
  <2> QED
    BY <1>3, <2>3, <2>4, <2>5, <2>6, <2>7 DEF HeldOrder, Across
<1> QED
  BY <1>4, <1>5

(* A dispatch keeps the order.                                             *)
LEMMA OrderDispatched ==
  ASSUME Typed, QueueOrder, HeldOrder, Across, Transferring, NEW gone, Dispatched(gone),
         UNCHANGED <<ring, peeked, copied, count>>, pc # "pop", pc' # "pop",
         Busy' => Busy, pc' = "context" => pc = "context"
  PROVE  QueueOrder' /\ HeldOrder' /\ Across' /\ Transferring'
<1>0. /\ MaxEvents \in Nat /\ count \in 0..MaxEvents /\ last \in 0..MaxEvents
      /\ \A j \in 1..Len(queue) : queue[j].id \in 1..MaxEvents
      /\ \A k \in 1..Used : Held[k].id \in 1..MaxEvents
  BY Numbers
<1>1. Used' = Used /\ Held' = Held /\ reader' = reader
  BY RingSame DEF Typed, ring
<1>2. /\ \A k \in 1..Len(queue') : \E j \in 1..Len(queue) : queue'[k] = queue[j]
      /\ Asc(queue') /\ Above(queue', last')
      /\ last' = last \/ \E j \in 1..Len(queue) : last' = queue[j].id
  BY DEF Dispatched, Moves, QueueOrder
<1>3. QueueOrder'
  <2>1. last' <= count
    BY <1>2 DEF QueueOrder
  <2>2. \A k \in 1..Len(queue') : queue'[k].id <= count
    BY <1>2 DEF QueueOrder
  <2> QED
    BY <1>2, <2>1, <2>2 DEF QueueOrder, Asc, Above
<1>4. HeldOrder'
  BY <1>1 DEF HeldOrder
<1>5. Across'
  <2>1. \A j \in 1..Len(queue) : \A k \in 1..Used : queue[j].id < Held[k].id
    BY DEF Across, Coming
  <2>2. \A k \in 1..Used : last < Held[k].id
    BY DEF Across, Coming
  <2>3. \A j \in 1..Len(queue') : \A k \in 1..Used : queue'[j].id < Held[k].id
    BY <1>2, <2>1
  <2>4. \A k \in 1..Used : last' < Held[k].id
    BY <1>2, <2>1, <2>2
  <2> QED
    BY <1>1, <2>3, <2>4 DEF Across
<1>6. Transferring'
  BY <1>1 DEF Transferring
<1> QED
  BY <1>3, <1>4, <1>5, <1>6

(* So does a part of the ring, while no record is in transfer.             *)
LEMMA OrderHeld ==
  ASSUME QueueOrder, Across, pc # "pop", ~Busy',
         UNCHANGED <<queue, last, count>>,
         \A k \in 1..Used' : \E j \in 1..Used : Held'[k] = Held[j],
         \A k \in 1..Used : Held[k].id <= count,
         \A i, j \in 1..Used' : i < j => Held'[i].id < Held'[j].id
  PROVE  QueueOrder' /\ HeldOrder' /\ Across' /\ Transferring'
<1>1. QueueOrder'
  BY DEF QueueOrder, Asc, Above
<1>2. HeldOrder'
  BY DEF HeldOrder
<1>3. \A j \in 1..Len(queue) : \A k \in 1..Used : queue[j].id < Held[k].id
  BY DEF Across, Coming
<1>4. \A k \in 1..Used : last < Held[k].id
  BY DEF Across, Coming
<1>5. Across'
  BY <1>3, <1>4 DEF Across
<1>6. Transferring'
  BY DEF Transferring, Busy
<1> QED
  BY <1>1, <1>2, <1>5, <1>6

LEMMA OrderInit == Init => Order
<1> SUFFICES ASSUME Init PROVE Order
  OBVIOUS
<1>1. Used = 0
  BY TypedInit, UsedIs DEF Typed, RingTyped, Init, Empty
<1>2. queue = <<>> /\ Len(queue) = 0
  BY DEF Init
<1>3. QueueOrder
  BY <1>2 DEF Init, QueueOrder, Asc, Above
<1>4. HeldOrder /\ Across
  BY <1>1, <1>2 DEF HeldOrder, Across
<1>5. Transferring
  BY DEF Init, Transferring, Busy
<1> QED
  BY <1>3, <1>4, <1>5 DEF Order

(* What is linked is the oldest record of the ring.                        *)
LEMMA LinkIs ==
  ASSUME Typed, Transferring, LinkRecord
  PROVE  /\ Held[1] \in Records /\ 1 \in 1..Used
         /\ queue' \in Seq(Records) /\ Len(queue') = Len(queue) + 1
         /\ \A k \in 1..Len(queue) : queue'[k] = queue[k]
         /\ queue'[Len(queue) + 1] = Held[1]
<1>1. /\ RingTyped /\ Used \in Nat /\ queue \in Seq(Records)
      /\ \A k \in 1..Used : Held[k] \in Records
  BY Numbers DEF Typed
<1>2. peeked = reader /\ copied = Held[1].id /\ Used # 0
  BY DEF Typed, Transferring, TransferTyped, Busy, LinkRecord
<1>3. 1 \in 1..Used
  BY <1>1, <1>2
<1>4. Slot(reader, 1) = reader
  BY <1>1, Sizes DEF Slot, Cyc, RingTyped
<1>5. Held[1] = slots[reader]
  BY <1>1, <1>3, <1>4, HeldIs
<1>6. [id |-> copied, port |-> slots[peeked].port] = Held[1]
  BY <1>1, <1>2, <1>3, <1>5 DEF Records
<1>7. queue' = Append(queue, Held[1])
  BY <1>6 DEF LinkRecord
<1> QED
  BY <1>1, <1>3, <1>7, AppendProperties

LEMMA OrderNext == Typed /\ Order /\ [Next]_vars => Order'
<1> SUFFICES ASSUME Typed, Order, [Next]_vars, ~overrun'
             PROVE  QueueOrder' /\ HeldOrder' /\ Across' /\ Transferring'
  BY DEF Order
<1> DEFINE Goal == QueueOrder' /\ HeldOrder' /\ Across' /\ Transferring'
<1> SUFFICES Goal
  OBVIOUS
<1>0. /\ RingTyped /\ RestTyped /\ TransferTyped
      /\ Len(queue) \in Nat /\ Used \in Nat /\ queue \in Seq(Records)
      /\ \A j \in 1..Len(queue) : queue[j] \in Records /\ queue[j].id \in 1..MaxEvents
      /\ \A k \in 1..Used : Held[k] \in Records /\ Held[k].id \in 1..MaxEvents
      /\ MaxEvents \in Nat /\ last \in 0..MaxEvents
  BY Numbers DEF Typed
<1>a. UNCHANGED ring => Used' = Used /\ Held' = Held /\ reader' = reader
  BY <1>0, RingSame DEF ring
<1>b. overrun' = overrun => QueueOrder /\ HeldOrder /\ Across /\ Transferring
  BY DEF Order
<1>c. Held \in Seq(Records) /\ Len(Held) = Used
  BY <1>0, HeldIs
<1>d. Used # 0 => 1 \in 1..Used
  BY <1>0
<1>1. ASSUME NEW p \in Ports, Interrupt(p) PROVE Goal
  BY <1>1, OrderInterrupt
<1>2. ASSUME NEW p \in Ports, Dispose(p) PROVE Goal
  <2>1. Held' = Without(Held, p) /\ Used' = Len(Held')
    BY <1>0, <1>2, RingRemoved DEF Dispose
  <2>2. Filtered(Held', Held, p)
    BY <1>c, <2>1, WithoutIs
  <2>3. QueueOrder /\ HeldOrder /\ Across
    BY <1>2, <1>b DEF Dispose, hist
  <2>4. \A k \in 1..Used' : \E j \in 1..Used : Held'[k] = Held[j]
    BY <1>c, <2>1, <2>2 DEF Filtered
  <2>5. \A i, j \in 1..Used' : i < j => Held'[i].id < Held'[j].id
    BY <1>c, <2>1, <2>2, <2>3 DEF Filtered, HeldOrder
  <2>6. pc # "pop" /\ ~Busy' /\ UNCHANGED <<queue, last, count>>
    BY <1>2 DEF Dispose, Busy, sched, hist
  <2> QED
    BY <2>3, <2>4, <2>5, <2>6, OrderHeld DEF HeldOrder
<1>3. ASSUME NEW p \in Ports, ClosePin(p) PROVE Goal
  <2>1. QueueOrder /\ HeldOrder /\ Across
    BY <1>3, <1>b DEF ClosePin, hist
  <2>2. pc # "pop" /\ ~Busy' /\ UNCHANGED <<queue, last, count>> /\ Used' = Used /\ Held' = Held
    BY <1>3, <1>a DEF ClosePin, Busy, sched, hist
  <2> QED
    BY <2>1, <2>2, OrderHeld DEF HeldOrder
<1>4. ASSUME NEW p \in Ports, Collect(p) PROVE Goal
  <2>1. Dispatched(Released \cup {p})
    BY <1>0, <1>4, CollectDispatched
  <2>2. /\ QueueOrder /\ HeldOrder /\ Across /\ Transferring
        /\ UNCHANGED <<ring, pc, peeked, copied, count>> /\ pc # "pop"
    BY <1>4, <1>b DEF Collect, hist
  <2> QED
    BY <2>1, <2>2, OrderDispatched DEF Busy
<1>5. CASE ProcessActivity
  <2>1. QueueOrder /\ HeldOrder /\ Across
    BY <1>5, <1>b DEF ProcessActivity, hist
  <2>2. pc # "pop" /\ ~Busy' /\ UNCHANGED <<queue, last, count>> /\ Used' = Used /\ Held' = Held
    BY <1>5, <1>a DEF ProcessActivity, Busy, sched, hist
  <2> QED
    BY <2>1, <2>2, OrderHeld DEF HeldOrder
<1>6. CASE PeekRecord
  <2>1. QueueOrder /\ HeldOrder /\ Across
    BY <1>6, <1>b DEF PeekRecord, hist
  <2>2. /\ pc # "pop" /\ pc' = "allocate" /\ peeked' = reader' /\ UNCHANGED <<queue, last, count>>
        /\ Used' = Used /\ Held' = Held
    BY <1>6, <1>a DEF PeekRecord, sched, hist
  <2>3. QueueOrder' /\ HeldOrder'
    BY <2>1, <2>2 DEF QueueOrder, HeldOrder, Asc, Above
  <2>4. Across'
    BY <2>1, <2>2 DEF Across, Coming
  <2>5. Transferring'
    BY <2>2 DEF Transferring
  <2> QED
    BY <2>3, <2>4, <2>5
<1>7. CASE PeekNothing
  <2>1. thread \in Statuses /\ SpawnDispatcher(thread)
    BY <1>0, <1>7 DEF RestTyped, PeekNothing
  <2>2. Dispatched(Released)
    BY <1>0, <2>1, SpawnDispatched
  <2>3. /\ QueueOrder /\ HeldOrder /\ Across /\ Transferring
        /\ UNCHANGED <<ring, peeked, copied, count>> /\ pc = "peek" /\ pc' = "run"
    BY <1>7, <1>b DEF PeekNothing, hist
  <2> QED
    BY <2>2, <2>3, OrderDispatched DEF Busy
<1>8. CASE CopyData
  <2>1. QueueOrder /\ HeldOrder /\ Across /\ Transferring
    BY <1>8, <1>b DEF CopyData, hist
  <2>2. /\ pc = "allocate" /\ pc' = "context" /\ peeked' = peeked /\ reader' = reader
        /\ UNCHANGED <<queue, last, count>> /\ copied' = slots[peeked].id
        /\ Used' = Used /\ Held' = Held
    BY <1>8, <1>a DEF CopyData, sched, hist
  <2>3. QueueOrder' /\ HeldOrder'
    BY <2>1, <2>2 DEF QueueOrder, HeldOrder, Asc, Above
  <2>4. Across'
    BY <2>1, <2>2 DEF Across, Coming
  <2>5. peeked = reader /\ Used # 0
    BY <1>0, <2>1, <2>2 DEF Transferring, Busy, TransferTyped
  <2>6. Held[1] = slots[reader]
    <3>1. Slot(reader, 1) = reader
      BY <1>0, Sizes DEF Slot, Cyc, RingTyped
    <3> QED
      BY <1>0, <1>d, <2>5, <3>1, HeldIs
  <2>7. Transferring'
    BY <2>2, <2>5, <2>6 DEF Transferring
  <2> QED
    BY <2>3, <2>4, <2>7
<1>9. CASE DiscardAll
  <2>1. Used' = 0
    BY <1>0, <1>9, RingCleared DEF DiscardAll
  <2>2. QueueOrder /\ HeldOrder /\ Across
    BY <1>9, <1>b DEF DiscardAll, hist
  <2>3. pc # "pop" /\ ~Busy' /\ UNCHANGED <<queue, last, count>>
    BY <1>9 DEF DiscardAll, Busy, sched, hist
  <2> QED
    BY <2>1, <2>2, <2>3, OrderHeld DEF HeldOrder
<1>10. CASE LinkRecord
  <2>1. QueueOrder /\ HeldOrder /\ Across /\ Transferring
    BY <1>10, <1>b DEF LinkRecord, hist
  <2>2. /\ pc = "context" /\ pc' = "pop" /\ peeked' = peeked /\ reader' = reader
        /\ UNCHANGED <<last, count>> /\ Used' = Used /\ Held' = Held
    BY <1>10, <1>a DEF LinkRecord, sched, hist
  <2>3. peeked = reader
    BY <2>1, <2>2 DEF Transferring, Busy
  <2> DEFINE n == Len(queue)
  <2>5. Held[1] \in Records /\ 1 \in 1..Used
    BY <1>10, <2>1, LinkIs
  <2>7. /\ queue' \in Seq(Records) /\ Len(queue') = n + 1
        /\ \A k \in 1..n : queue'[k] = queue[k]
        /\ queue'[n + 1] = Held[1]
    BY <1>10, <2>1, LinkIs
  <2>n. n \in Nat
    BY <1>0
  <2> HIDE DEF n
  <2>8. \A k \in 1..Len(queue') : k \in 1..n \/ k = n + 1
    BY <2>n, <2>7
  <2>9. \A j \in 1..n : \A k \in 1..Used : queue[j].id < Held[k].id
    BY <2>1, <2>2 DEF Across, Coming, n
  <2>10. Asc(queue')
    <3> SUFFICES ASSUME NEW i \in 1..Len(queue'), NEW j \in 1..Len(queue'), i < j
                 PROVE  queue'[i].id < queue'[j].id
      BY DEF Asc
    <3>1. i \in 1..n
      BY <2>n, <2>7
    <3>2. CASE j \in 1..n
      BY <2>1, <2>7, <3>1, <3>2 DEF QueueOrder, Asc, n
    <3>3. CASE j = n + 1
      BY <2>5, <2>7, <2>9, <3>1, <3>3
    <3> QED
      BY <2>8, <3>2, <3>3
  <2>11. \A k \in 1..Len(queue') : last < queue'[k].id /\ queue'[k].id <= count
    <3> TAKE k \in 1..Len(queue')
    <3>1. CASE k \in 1..n
      BY <2>1, <2>7, <3>1 DEF QueueOrder, Above, n
    <3>2. CASE k = n + 1
      BY <2>1, <2>2, <2>5, <2>7, <3>2 DEF Across, Coming, HeldOrder
    <3> QED
      BY <2>8, <3>1, <3>2
  <2>12. QueueOrder'
    BY <2>1, <2>2, <2>10, <2>11 DEF QueueOrder, Asc, Above
  <2>13. HeldOrder'
    BY <2>1, <2>2 DEF HeldOrder
  <2>14. \A j \in 1..Len(queue') : \A k \in 1..Used : k > 1 => queue'[j].id < Held[k].id
    <3> TAKE j \in 1..Len(queue')
    <3>1. CASE j \in 1..n
      BY <2>7, <2>9, <3>1
    <3>2. CASE j = n + 1
      BY <2>1, <2>5, <2>7, <3>2 DEF HeldOrder
    <3> QED
      BY <2>8, <3>1, <3>2
  <2>15. Across'
    <3>1. \A k \in 1..Used : last < Held[k].id
      BY <2>1, <2>2 DEF Across, Coming
    <3> QED
      BY <2>2, <2>14, <3>1 DEF Across, Coming
  <2>16. Transferring'
    BY <2>2, <2>3 DEF Transferring
  <2> QED
    BY <2>12, <2>13, <2>15, <2>16
<1>11. CASE PopRecord
  <2>1. QueueOrder /\ HeldOrder /\ Across
    BY <1>11, <1>b DEF PopRecord, hist
  <2>2. pc = "pop" /\ pc' = "peek" /\ UNCHANGED <<queue, last, count>>
    BY <1>11 DEF PopRecord, sched, hist
  <2>3. Used # 0
    BY <1>0, <2>2 DEF TransferTyped, Busy
  <2>4. /\ Used' = Used - 1
        /\ \A k \in 1..(Used - 1) : Held'[k] = Held[k + 1]
    BY <1>0, <1>11, <2>3, RingPopped DEF PopRecord
  <2>5. \A k \in 1..Used' : k + 1 \in 1..Used /\ k + 1 > 1 /\ Held'[k] = Held[k + 1]
    BY <1>0, <2>4
  <2>6. \A i, j \in 1..Used' : i < j => i + 1 < j + 1
    BY <1>0, <2>4
  <2>7. HeldOrder'
    BY <2>1, <2>2, <2>5, <2>6 DEF HeldOrder
  <2>8. Across'
    BY <2>1, <2>2, <2>5 DEF Across, Coming
  <2>9. QueueOrder'
    BY <2>1, <2>2 DEF QueueOrder, Asc, Above
  <2>10. Transferring'
    BY <2>2 DEF Transferring, Busy
  <2> QED
    BY <2>7, <2>8, <2>9, <2>10
<1>12. CASE ThreadEnds
  <2>1. SpawnDispatcher("unstarted")
    BY <1>12 DEF ThreadEnds, SpawnDispatcher
  <2>2. Dispatched(Released)
    BY <1>0, <2>1, SpawnDispatched DEF Statuses
  <2>3. /\ QueueOrder /\ HeldOrder /\ Across /\ Transferring
        /\ UNCHANGED <<ring, pc, peeked, copied, count>> /\ pc = "run"
    BY <1>12, <1>b DEF ThreadEnds, hist
  <2> QED
    BY <2>2, <2>3, OrderDispatched DEF Busy
<1>13. CASE UNCHANGED vars
  <2>1. QueueOrder /\ HeldOrder /\ Across /\ Transferring
    BY <1>13, <1>b DEF vars, hist
  <2>2. Used' = Used /\ Held' = Held /\ UNCHANGED <<reader, queue, last, count, pc, peeked, copied>>
    BY <1>13, <1>a DEF vars, sched, hist
  <2>3. QueueOrder' /\ HeldOrder' /\ Across' /\ Transferring'
    BY <2>1, <2>2 DEF QueueOrder, HeldOrder, Across, Transferring, Asc, Above, Coming, Busy
  <2> QED
    BY <2>3
<1> QED
  BY <1>1, <1>2, <1>3, <1>4, <1>5, <1>6, <1>7, <1>8, <1>9, <1>10, <1>11, <1>12, <1>13
  DEF Next, Transfer

-----------------------------------------------------------------------------
(* The interrupts on their way, place by place.                            *)
OnTheWay(q, h, x) == q \o (IF x = "pop" THEN Tail(h) ELSE h)

Skip(x) == IF x = "pop" THEN 1 ELSE 0

LEMMA OnTheWayIs ==
  ASSUME NEW q \in Seq(Records), NEW h \in Seq(Records), NEW x,
         x = "pop" => Len(h) # 0
  PROVE  /\ DOMAIN OnTheWay(q, h, x) = 1..(Len(q) + Len(h) - Skip(x))
         /\ \A k \in 1..(Len(q) + Len(h) - Skip(x)) :
              OnTheWay(q, h, x)[k] = IF k <= Len(q) THEN q[k] ELSE h[k - Len(q) + Skip(x)]
<1> DEFINE d == Skip(x)
<1> DEFINE w == IF x = "pop" THEN Tail(h) ELSE h
<1>0. Len(q) \in Nat /\ Len(h) \in Nat /\ d \in {0, 1}
  BY DEF Skip
<1>1. /\ w \in Seq(Records) /\ Len(w) = Len(h) - d
      /\ \A k \in 1..(Len(h) - d) : w[k] = h[k + d]
  <2>1. CASE x = "pop"
    <3>1. h # <<>>
      BY <2>1
    <3>2. /\ Tail(h) \in Seq(Records) /\ Len(Tail(h)) = Len(h) - 1
          /\ \A k \in 1..Len(Tail(h)) : Tail(h)[k] = h[k + 1]
      BY <3>1, HeadTailProperties
    <3> QED
      BY <2>1, <3>2 DEF Skip
  <2>2. CASE x # "pop"
    BY <2>2 DEF Skip
  <2> QED
    BY <2>1, <2>2
<1> HIDE DEF w, d
<1> DEFINE c == q \o w
<1>2. /\ c \in Seq(Records) /\ Len(c) = Len(q) + Len(w)
      /\ \A k \in 1..(Len(q) + Len(w)) : c[k] = IF k <= Len(q) THEN q[k] ELSE w[k - Len(q)]
  BY <1>1, ConcatProperties
<1>3. OnTheWay(q, h, x) = c
  BY DEF OnTheWay, w
<1> HIDE DEF c
<1>4. Len(c) = Len(q) + Len(h) - d
  BY <1>0, <1>1, <1>2
<1>5. DOMAIN c = 1..(Len(q) + Len(h) - d)
  BY <1>2, <1>4
<1>6. ASSUME NEW k \in 1..(Len(q) + Len(h) - d)
      PROVE  c[k] = IF k <= Len(q) THEN q[k] ELSE h[k - Len(q) + d]
  <2>1. c[k] = IF k <= Len(q) THEN q[k] ELSE w[k - Len(q)]
    BY <1>0, <1>1, <1>2
  <2>2. k > Len(q) => k - Len(q) \in 1..(Len(h) - d)
    BY <1>0
  <2>3. k > Len(q) => w[k - Len(q)] = h[k - Len(q) + d]
    BY <1>1, <2>2
  <2> QED
    BY <1>0, <2>1, <2>3
<1> QED
  BY <1>3, <1>5, <1>6 DEF d

LEMMA OrderMeans == Typed /\ Order => InOrder
<1> SUFFICES ASSUME Typed, Order, ~overrun
             PROVE  /\ \A k \in DOMAIN Pending : Pending[k].id > last
                    /\ \A j, k \in DOMAIN Pending : j < k => Pending[j].id < Pending[k].id
  BY DEF InOrder
<1> DEFINE d == Skip(pc)
           n == Len(queue)
<1>0. /\ n \in Nat /\ Used \in Nat /\ queue \in Seq(Records) /\ last \in 0..MaxEvents
      /\ \A j \in 1..n : queue[j].id \in 1..MaxEvents
      /\ \A k \in 1..Used : Held[k].id \in 1..MaxEvents
      /\ MaxEvents \in Nat /\ RingTyped /\ TransferTyped
  BY Numbers DEF Typed
<1>1. Held \in Seq(Records) /\ Len(Held) = Used /\ (pc = "pop" => Used # 0)
  BY <1>0, HeldIs DEF TransferTyped, Busy
<1>2. Pending = OnTheWay(queue, Held, pc)
  BY DEF Pending, OnTheWay
<1>3. d \in {0, 1}
  BY DEF Skip
<1>4. /\ DOMAIN Pending = 1..(n + Used - d)
      /\ \A k \in 1..(n + Used - d) :
           Pending[k] = IF k <= n THEN queue[k] ELSE Held[k - n + d]
  BY <1>0, <1>1, <1>2, OnTheWayIs
<1>5. QueueOrder /\ HeldOrder /\ Across
  BY DEF Order
<1>6. \A k \in 1..(n + Used - d) : k <= n => k \in 1..n
  BY <1>0
<1>7. \A k \in 1..(n + Used - d) : k > n => k - n + d \in 1..Used /\ Coming(k - n + d)
  BY <1>0 DEF Coming, Skip
<1> HIDE DEF d, n
<1>8. ASSUME NEW k \in 1..(n + Used - d)
      PROVE  last < Pending[k].id
  <2>1. CASE k <= n
    BY <1>4, <1>5, <1>6, <2>1 DEF QueueOrder, Above, n
  <2>2. CASE k > n
    <3>1. Pending[k] = Held[k - n + d]
      BY <1>0, <1>4, <2>2
    <3> QED
      BY <1>5, <1>7, <2>2, <3>1 DEF Across
  <2> QED
    BY <1>0, <2>1, <2>2
<1>9. ASSUME NEW j \in 1..(n + Used - d), NEW k \in 1..(n + Used - d), j < k
      PROVE  Pending[j].id < Pending[k].id
  <2>1. CASE k <= n
    <3>1. j <= n
      BY <1>0, <1>3, <1>9, <2>1
    <3> QED
      BY <1>4, <1>5, <1>6, <1>9, <2>1, <3>1 DEF QueueOrder, Asc, n
  <2>2. CASE j <= n /\ k > n
    <3>1. Pending[j] = queue[j] /\ Pending[k] = Held[k - n + d]
      BY <1>0, <1>4, <2>2
    <3> QED
      BY <1>5, <1>6, <1>7, <2>2, <3>1 DEF Across, n
  <2>3. CASE j > n
    <3>1. k > n /\ j - n + d < k - n + d
      BY <1>0, <1>3, <1>9, <2>3
    <3>2. Pending[j] = Held[j - n + d] /\ Pending[k] = Held[k - n + d]
      BY <1>0, <1>4, <2>3, <3>1
    <3> QED
      BY <1>5, <1>7, <2>3, <3>1, <3>2 DEF HeldOrder
  <2> QED
    BY <1>0, <1>3, <2>1, <2>2, <2>3
<1>10. \A k \in DOMAIN Pending : Pending[k].id > last
  <2> TAKE k \in DOMAIN Pending
  <2>1. k \in 1..(n + Used - d)
    BY <1>4
  <2> QED
    BY <2>1, <1>8
<1> QED
  BY <1>4, <1>9, <1>10

(* What is on its way is in one of the queues, and the other way round.    *)
LEMMA PendingFrom ==
  ASSUME Typed, NEW k \in DOMAIN Pending
  PROVE  \/ \E j \in 1..Len(queue) : Pending[k] = queue[j]
         \/ \E j \in 1..Used : Coming(j) /\ Pending[k] = Held[j]
<1> DEFINE d == Skip(pc)
           n == Len(queue)
<1>0. n \in Nat /\ Used \in Nat /\ queue \in Seq(Records)
  BY Numbers
<1>1. Held \in Seq(Records) /\ Len(Held) = Used /\ (pc = "pop" => Used # 0)
  BY HeldIs DEF Typed, TransferTyped, Busy
<1>2. Pending = OnTheWay(queue, Held, pc)
  BY DEF Pending, OnTheWay
<1>4. /\ DOMAIN Pending = 1..(n + Used - d)
      /\ \A i \in 1..(n + Used - d) :
           Pending[i] = IF i <= n THEN queue[i] ELSE Held[i - n + d]
  BY <1>0, <1>1, <1>2, OnTheWayIs
<1>5. k \in 1..(n + Used - d)
  BY <1>4
<1>6. CASE k <= n
  <2>1. k \in 1..n
    BY <1>0, <1>5, <1>6
  <2> QED
    BY <1>4, <1>5, <1>6, <2>1
<1>7. CASE k > n
  <2>1. k - n + d \in 1..Used /\ Coming(k - n + d)
    BY <1>0, <1>5, <1>7 DEF Coming, Skip
  <2>2. Pending[k] = Held[k - n + d]
    BY <1>0, <1>4, <1>5, <1>7
  <2> QED
    BY <2>1, <2>2
<1> QED
  BY <1>0, <1>5, <1>6, <1>7

LEMMA PendingNext ==
  ASSUME Typed'
  PROVE  /\ \A j \in 1..Len(queue') : queue'[j].id \in Ids(Pending')
         /\ \A j \in 1..Used' : (pc' = "pop" => j > 1) => Held'[j].id \in Ids(Pending')
<1> DEFINE d == Skip(pc')
           n == Len(queue')
<1>0. queue' \in Seq(Records) /\ n \in Nat
  BY DEF Typed, RestTyped
<1>1. /\ Held' \in Seq(Records) /\ Len(Held') = Used' /\ (pc' = "pop" => Used' # 0)
      /\ Used' \in 0..Size
  BY HeldNext, UsedNext DEF Typed, TransferTyped, Busy, RingTyped
<1>2. Pending' = OnTheWay(queue', Held', pc')
  BY DEF Pending, OnTheWay
<1>3. Used' \in Nat /\ d \in {0, 1}
  BY <1>1, Sizes DEF Skip
<1>4. /\ DOMAIN Pending' = 1..(n + Used' - d)
      /\ \A i \in 1..(n + Used' - d) :
           Pending'[i] = IF i <= n THEN queue'[i] ELSE Held'[i - n + d]
  BY <1>0, <1>1, <1>2, OnTheWayIs
<1>5. \A i \in 1..(n + Used' - d) : Pending'[i].id \in Ids(Pending')
  BY <1>4 DEF Ids
<1>6. ASSUME NEW j \in 1..n
      PROVE  queue'[j].id \in Ids(Pending')
  <2>1. j \in 1..(n + Used' - d) /\ j <= n
    BY <1>0, <1>1, <1>3 DEF Skip
  <2> QED
    BY <1>4, <1>5, <2>1
<1>7. ASSUME NEW j \in 1..Used', pc' = "pop" => j > 1
      PROVE  Held'[j].id \in Ids(Pending')
  <2> DEFINE i == n + j - d
  <2>1. i \in 1..(n + Used' - d) /\ i > n /\ i - n + d = j
    BY <1>0, <1>3, <1>7 DEF Skip
  <2> HIDE DEF i
  <2>2. Pending'[i] = Held'[j]
    BY <1>0, <1>4, <2>1
  <2> QED
    BY <1>5, <2>1, <2>2
<1> QED
  BY <1>6, <1>7

(* The reasons a record may go for.                                        *)
Explained(r) ==
  \/ overrun'
  \/ r.id \in Ids(Pending')
  \/ last' = r.id
  \/ count' > count /\ full /\ r = Held[1]
  \/ pc = "allocate" /\ pc' = "run"
  \/ port'[r.port] \in {"closing", "released"}
  \/ Wedged'

(* Enough: each record of a queue is in that queue afterwards, or has one  *)
(* of the other reasons.                                                   *)
LEMMA ExplainedBySame ==
  ASSUME Typed', UNCHANGED queue,
         \A j \in 1..Used : Coming(j) =>
           \/ \E k \in 1..Used' : (pc' = "pop" => k > 1) /\ Held'[k] = Held[j]
           \/ count' > count /\ full /\ Held[j] = Held[1]
           \/ port'[Held[j].port] \in {"closing", "released"}
  PROVE  /\ \A j \in 1..Len(queue) : Explained(queue[j])
         /\ \A j \in 1..Used : Coming(j) => Explained(Held[j])
BY PendingNext DEF Explained

LEMMA ExplainedByDispatch ==
  ASSUME Typed', UNCHANGED ring, Typed, pc' # "pop", NEW gone, Dispatched(gone),
         \A p \in gone : port'[p] \in {"closing", "released"}
  PROVE  /\ \A j \in 1..Len(queue) : Explained(queue[j])
         /\ \A j \in 1..Used : Coming(j) => Explained(Held[j])
<1>1. Used' = Used /\ Held' = Held
  BY RingSame DEF Typed
<1>2. \A j \in 1..Used : Explained(Held[j])
  BY <1>1, PendingNext DEF Explained
<1>3. ASSUME NEW j \in 1..Len(queue)
      PROVE  Explained(queue[j])
  <2>1. CASE \E k \in 1..Len(queue') : queue'[k] = queue[j]
    BY <2>1, PendingNext DEF Explained
  <2>2. CASE queue[j].port \in gone
    BY <2>2 DEF Explained
  <2>3. CASE last' = queue[j].id \/ Wedged'
    BY <2>3 DEF Explained
  <2> QED
    BY <2>1, <2>2, <2>3 DEF Dispatched, Moves
<1> QED
  BY <1>2, <1>3

LEMMA ExplainedStep ==
  ASSUME Typed, Order, [Next]_vars, ~overrun'
  PROVE  /\ \A j \in 1..Len(queue) : Explained(queue[j])
         /\ \A j \in 1..Used : Coming(j) => Explained(Held[j])
<1> DEFINE Goal == /\ \A j \in 1..Len(queue) : Explained(queue[j])
                   /\ \A j \in 1..Used : Coming(j) => Explained(Held[j])
<1> SUFFICES Goal
  OBVIOUS
<1>0. /\ RingTyped /\ RestTyped /\ TransferTyped
      /\ Len(queue) \in Nat /\ Used \in Nat /\ queue \in Seq(Records)
      /\ \A k \in 1..Used : Held[k] \in Records
  BY Numbers DEF Typed
<1>t. Typed'
  BY TypedNext
<1>a. UNCHANGED ring => Used' = Used /\ Held' = Held
  BY <1>0, RingSame
<1>s. ASSUME UNCHANGED queue, Used' = Used, Held' = Held, pc' # "pop" \/ pc' = pc
      PROVE  Goal
  <2>1. \A j \in 1..Used : Coming(j) =>
          \E k \in 1..Used' : (pc' = "pop" => k > 1) /\ Held'[k] = Held[j]
    BY <1>s DEF Coming
  <2> QED
    BY <1>t, <1>s, <2>1, ExplainedBySame
<1>1. ASSUME NEW p \in Ports, Interrupt(p) PROVE Goal
  <2>0. /\ count \in 0..MaxEvents /\ count' = count + 1 /\ queue' = queue /\ pc' = pc
        /\ MaxEvents \in Nat
    BY <1>0, <1>1, InterruptsAssumption DEF RestTyped, Interrupt
  <2>1. CASE ~full
    <3>1. /\ Used' = Used + 1
          /\ \A k \in 1..Used : Held'[k] = Held[k]
      BY <1>0, <1>1, <2>0, <2>1, RingSaved
    <3>2. \A k \in 1..Used : k \in 1..Used'
      BY <1>0, <3>1
    <3>3. \A j \in 1..Used : Coming(j) =>
            \E k \in 1..Used' : (pc' = "pop" => k > 1) /\ Held'[k] = Held[j]
      BY <2>0, <3>1, <3>2 DEF Coming
    <3> QED
      BY <1>t, <2>0, <3>3, ExplainedBySame
  <2>2. CASE full
    <3>a. ~full \/ pc \notin {"allocate", "context", "pop"}
      BY <1>1 DEF Interrupt
    <3>b. count' > count
      BY <2>0
    <3>1. pc # "pop" /\ count' > count
      BY <2>2, <3>a, <3>b
    <3>2. /\ Used = Size /\ Used' = Size
          /\ \A k \in 1..(Size - 1) : Held'[k] = Held[k + 1]
      BY <1>0, <1>1, <2>0, <2>2, RingDropped
    <3>3. ASSUME NEW j \in 1..Used
          PROVE  \/ \E k \in 1..Used' : Held'[k] = Held[j]
                 \/ Held[j] = Held[1]
      <4>1. CASE j = 1
        BY <4>1
      <4>2. CASE j # 1
        <5>1. j - 1 \in 1..(Size - 1) /\ j - 1 \in 1..Used' /\ (j - 1) + 1 = j
          BY <3>2, <4>2, Sizes
        <5>2. Held'[j - 1] = Held[j]
          BY <3>2, <5>1
        <5> QED
          BY <5>1, <5>2
      <4> QED
        BY <4>1, <4>2
    <3> QED
      BY <1>t, <2>0, <2>2, <3>1, <3>3, ExplainedBySame
  <2> QED
    BY <2>1, <2>2
<1>2. ASSUME NEW p \in Ports, Dispose(p) PROVE Goal
  <2>1. Held' = Without(Held, p) /\ Used' = Len(Held') /\ queue' = queue /\ pc' = "close"
    BY <1>0, <1>2, RingRemoved DEF Dispose
  <2>2. Held \in Seq(Records) /\ Len(Held) = Used
    BY <1>0, HeldIs
  <2>3. Filtered(Held', Held, p)
    BY <2>1, <2>2, WithoutIs
  <2>4. port'[p] = "closing"
    BY <1>0, <1>2 DEF Dispose, RestTyped
  <2>5. \A j \in 1..Used : \/ \E k \in 1..Used' : Held'[k] = Held[j]
                           \/ port'[Held[j].port] = "closing"
    BY <2>1, <2>2, <2>3, <2>4 DEF Filtered
  <2> QED
    BY <1>t, <2>1, <2>5, ExplainedBySame
<1>3. ASSUME NEW p \in Ports, ClosePin(p) PROVE Goal
  BY <1>3, <1>a, <1>s DEF ClosePin
<1>4. ASSUME NEW p \in Ports, Collect(p) PROVE Goal
  <2>1. Dispatched(Released \cup {p})
    BY <1>0, <1>4, CollectDispatched
  <2>2. \A q \in Released \cup {p} : port'[q] \in {"closing", "released"}
    BY <1>0, <1>4 DEF Collect, Released, RestTyped
  <2>3. UNCHANGED ring /\ pc' # "pop"
    BY <1>4 DEF Collect
  <2> QED
    BY <1>t, <2>1, <2>2, <2>3, ExplainedByDispatch
<1>5. CASE ProcessActivity
  BY <1>5, <1>a, <1>s DEF ProcessActivity
<1>6. CASE PeekRecord
  BY <1>6, <1>a, <1>s DEF PeekRecord
<1>7. CASE PeekNothing
  <2>1. thread \in Statuses /\ SpawnDispatcher(thread)
    BY <1>0, <1>7 DEF RestTyped, PeekNothing
  <2>2. Dispatched(Released)
    BY <1>0, <2>1, SpawnDispatched
  <2>3. \A q \in Released : port'[q] \in {"closing", "released"}
    BY <1>7 DEF PeekNothing, Released
  <2>4. UNCHANGED ring /\ pc' # "pop"
    BY <1>7 DEF PeekNothing
  <2> QED
    BY <1>t, <2>2, <2>3, <2>4, ExplainedByDispatch
<1>8. CASE CopyData
  BY <1>8, <1>a, <1>s DEF CopyData
<1>9. CASE DiscardAll
  BY <1>9 DEF DiscardAll, Explained
<1>10. CASE LinkRecord
  <2>1. Transferring /\ pc = "context" /\ pc' = "pop" /\ UNCHANGED ring
    BY <1>10 DEF LinkRecord, Order, hist
  <2>2. /\ Len(queue') = Len(queue) + 1
        /\ \A k \in 1..Len(queue) : queue'[k] = queue[k]
        /\ queue'[Len(queue) + 1] = Held[1]
    BY <1>10, <2>1, LinkIs
  <2>3. Len(queue) + 1 \in 1..Len(queue') /\ \A k \in 1..Len(queue) : k \in 1..Len(queue')
    BY <1>0, <2>2
  <2>4. \A j \in 1..Len(queue) : Explained(queue[j])
    BY <1>t, <2>2, <2>3, PendingNext DEF Explained
  <2>5. ASSUME NEW j \in 1..Used PROVE Explained(Held[j])
    <3>1. CASE j = 1
      BY <1>t, <2>2, <2>3, <3>1, PendingNext DEF Explained
    <3>2. CASE j # 1
      <4>1. j > 1
        BY <1>0, <3>2
      <4> QED
        BY <1>t, <1>a, <2>1, <4>1, PendingNext DEF Explained
    <3> QED
      BY <3>1, <3>2
  <2> QED
    BY <2>4, <2>5
<1>11. CASE PopRecord
  <2>1. pc = "pop" /\ pc' = "peek" /\ queue' = queue
    BY <1>11 DEF PopRecord
  <2>2. Used # 0
    BY <1>0, <2>1 DEF TransferTyped, Busy
  <2>3. Used' = Used - 1 /\ \A k \in 1..(Used - 1) : Held'[k] = Held[k + 1]
    BY <1>0, <1>11, <2>2, RingPopped DEF PopRecord
  <2>4. ASSUME NEW j \in 1..Used, Coming(j)
        PROVE  \E k \in 1..Used' : Held'[k] = Held[j]
    <3>1. j - 1 \in 1..(Used - 1) /\ (j - 1) + 1 = j
      BY <1>0, <2>1, <2>4 DEF Coming
    <3>2. Held'[j - 1] = Held[j]
      BY <2>3, <3>1
    <3> QED
      BY <2>3, <3>1, <3>2
  <2> QED
    BY <1>t, <2>1, <2>4, ExplainedBySame
<1>12. CASE ThreadEnds
  <2>1. SpawnDispatcher("unstarted")
    BY <1>12 DEF ThreadEnds, SpawnDispatcher
  <2>2. Dispatched(Released)
    BY <1>0, <2>1, SpawnDispatched DEF Statuses
  <2>3. \A q \in Released : port'[q] \in {"closing", "released"}
    BY <1>12 DEF ThreadEnds, Released
  <2>4. UNCHANGED ring /\ pc' # "pop"
    BY <1>12 DEF ThreadEnds
  <2> QED
    BY <1>t, <2>2, <2>3, <2>4, ExplainedByDispatch
<1>13. CASE UNCHANGED vars
  BY <1>13, <1>a, <1>s DEF vars
<1> QED
  BY <1>1, <1>2, <1>3, <1>4, <1>5, <1>6, <1>7, <1>8, <1>9, <1>10, <1>11, <1>12, <1>13
  DEF Next, Transfer

LEMMA PendingExplained ==
  ASSUME Typed, Order, [Next]_vars, NEW k \in DOMAIN Pending
  PROVE  Explained(Pending[k])
<1>1. CASE overrun'
  BY <1>1 DEF Explained
<1>2. CASE ~overrun'
  <2>1. CASE \E j \in 1..Len(queue) : Pending[k] = queue[j]
    BY <1>2, <2>1, ExplainedStep
  <2>2. CASE \E j \in 1..Used : Coming(j) /\ Pending[k] = Held[j]
    BY <1>2, <2>2, ExplainedStep
  <2> QED
    BY <2>1, <2>2, PendingFrom
<1> QED
  BY <1>1, <1>2

-----------------------------------------------------------------------------
(* Of a port that is closed only the interrupts that came too late are in  *)
(* the ring.                                                               *)
Left ==
  \A p \in Ports : port[p] # "open" =>
    \A k \in 1..Used : Held[k].port = p => Held[k].id \in late

LEMMA LeftKept ==
  ASSUME Left, late' = late,
         \A k \in 1..Used' : \E j \in 1..Used : Held'[k] = Held[j],
         \A p \in Ports : port'[p] # "open" => port[p] # "open"
  PROVE  Left'
<1> SUFFICES ASSUME NEW p \in Ports, port'[p] # "open", NEW k \in 1..Used', Held'[k].port = p
             PROVE  Held'[k].id \in late
  BY DEF Left
<1>1. PICK j \in 1..Used : Held'[k] = Held[j]
  OBVIOUS
<1> QED
  BY <1>1 DEF Left

LEMMA LeftInit == Init => Left
BY DEF Init, Left

LEMMA LeftNext == Typed /\ Left /\ [Next]_vars => Left'
<1> SUFFICES ASSUME Typed, Left, [Next]_vars PROVE Left'
  OBVIOUS
<1>0. /\ RingTyped /\ RestTyped /\ TransferTyped /\ Used \in Nat
      /\ \A k \in 1..Used : Held[k] \in Records
  BY Numbers DEF Typed
<1>a. UNCHANGED ring => Used' = Used /\ Held' = Held
  BY <1>0, RingSame
<1>s. ASSUME UNCHANGED <<ring, late>>,
             \A p \in Ports : port'[p] # "open" => port[p] # "open"
      PROVE  Left'
  BY <1>a, <1>s, LeftKept
<1>1. ASSUME NEW p \in Ports, Interrupt(p) PROVE Left'
  <2>0. /\ count \in 0..MaxEvents /\ port' = port /\ late \subseteq late'
        /\ port[p] = "open" \/ Saved(p).id \in late'
        /\ Saved(p).port = p
    BY <1>0, <1>1 DEF RestTyped, Interrupt, Saved
  <2>1. ASSUME NEW k \in 1..Used'
        PROVE  Held'[k] = Saved(p) \/ \E j \in 1..Used : Held'[k] = Held[j]
    <3>1. CASE ~full
      <4>1. /\ Used' = Used + 1 /\ Held'[Used + 1] = Saved(p)
            /\ \A i \in 1..Used : Held'[i] = Held[i]
        BY <1>0, <1>1, <2>0, <3>1, RingSaved
      <4>2. k \in 1..Used \/ k = Used + 1
        BY <1>0, <4>1
      <4> QED
        BY <4>1, <4>2
    <3>2. CASE full
      <4>1. /\ Used = Size /\ Used' = Size /\ Held'[Size] = Saved(p)
            /\ \A i \in 1..(Size - 1) : Held'[i] = Held[i + 1]
        BY <1>0, <1>1, <2>0, <3>2, RingDropped
      <4>2. k = Size \/ (k \in 1..(Size - 1) /\ k + 1 \in 1..Used)
        BY <1>0, <4>1
      <4> QED
        BY <4>1, <4>2
    <3> QED
      BY <3>1, <3>2
  <2>2. ASSUME NEW q \in Ports, port'[q] # "open", NEW k \in 1..Used', Held'[k].port = q
        PROVE  Held'[k].id \in late'
    <3>1. CASE Held'[k] = Saved(p)
      BY <2>0, <2>2, <3>1
    <3>2. CASE \E j \in 1..Used : Held'[k] = Held[j]
      <4>1. PICK j \in 1..Used : Held'[k] = Held[j]
        BY <3>2
      <4>2. Held[j].id \in late
        BY <2>0, <2>2, <4>1 DEF Left
      <4> QED
        BY <2>0, <4>1, <4>2
    <3> QED
      BY <2>1, <3>1, <3>2
  <2> QED
    BY <2>2 DEF Left
<1>2. ASSUME NEW p \in Ports, Dispose(p) PROVE Left'
  <2>1. Held' = Without(Held, p) /\ Used' = Len(Held')
    BY <1>0, <1>2, RingRemoved DEF Dispose
  <2>2. Held \in Seq(Records) /\ Len(Held) = Used
    BY <1>0, HeldIs
  <2>3. Filtered(Held', Held, p)
    BY <2>1, <2>2, WithoutIs
  <2>4. late' = late /\ \A q \in Ports : q # p => port'[q] = port[q]
    BY <1>0, <1>2 DEF Dispose, RestTyped, hist
  <2>5. ASSUME NEW q \in Ports, port'[q] # "open", NEW k \in 1..Used', Held'[k].port = q
        PROVE  Held'[k].id \in late'
    <3>1. q # p
      BY <2>1, <2>3, <2>5 DEF Filtered
    <3>2. PICK j \in 1..Used : Held'[k] = Held[j]
      BY <2>1, <2>2, <2>3 DEF Filtered
    <3> QED
      BY <2>4, <2>5, <3>1, <3>2 DEF Left
  <2> QED
    BY <2>5 DEF Left
<1>3. ASSUME NEW p \in Ports, ClosePin(p) PROVE Left'
  <2>1. \A q \in Ports : port'[q] # "open" => port[q] # "open"
    BY <1>0, <1>3 DEF ClosePin, RestTyped
  <2> QED
    BY <1>3, <1>s, <2>1 DEF ClosePin, hist
<1>4. ASSUME NEW p \in Ports, Collect(p) PROVE Left'
  <2>1. \A q \in Ports : port'[q] # "open" => port[q] # "open"
    BY <1>0, <1>4 DEF Collect, RestTyped
  <2> QED
    BY <1>4, <1>s, <2>1 DEF Collect, hist
<1>5. CASE ProcessActivity
  BY <1>5, <1>s DEF ProcessActivity, hist
<1>6. CASE PeekRecord
  BY <1>6, <1>s DEF PeekRecord, hist
<1>7. CASE PeekNothing
  BY <1>7, <1>s DEF PeekNothing, hist
<1>8. CASE CopyData
  BY <1>8, <1>s DEF CopyData, hist
<1>9. CASE DiscardAll
  <2>1. Used' = 0 /\ UNCHANGED <<late, port>>
    BY <1>0, <1>9, RingCleared DEF DiscardAll, hist
  <2> QED
    BY <2>1, LeftKept
<1>10. CASE LinkRecord
  BY <1>10, <1>s DEF LinkRecord, hist
<1>11. CASE PopRecord
  <2>1. Used # 0 /\ UNCHANGED <<late, port>>
    BY <1>0, <1>11 DEF TransferTyped, Busy, PopRecord, hist
  <2>2. Used' = Used - 1 /\ \A k \in 1..(Used - 1) : Held'[k] = Held[k + 1]
    BY <1>0, <1>11, <2>1, RingPopped DEF PopRecord
  <2>3. \A k \in 1..Used' : k + 1 \in 1..Used /\ Held'[k] = Held[k + 1]
    BY <1>0, <2>2
  <2> QED
    BY <2>1, <2>3, LeftKept
<1>12. CASE ThreadEnds
  BY <1>12, <1>s DEF ThreadEnds, hist
<1>13. CASE UNCHANGED vars
  BY <1>13, <1>s DEF vars, hist
<1> QED
  BY <1>1, <1>2, <1>3, <1>4, <1>5, <1>6, <1>7, <1>8, <1>9, <1>10, <1>11, <1>12, <1>13
  DEF Next, Transfer

LEMMA CleanStep ==
  ASSUME Typed, Left, [Next]_vars, NEW p \in Ports, port[p] # "released", port'[p] = "released"
  PROVE  /\ \A k \in DOMAIN Held : Held[k].port = p => Held[k].id \in late
         /\ thread = "ready" => \A k \in DOMAIN queue' : queue'[k].port # p
<1>0. RestTyped /\ DOMAIN Held = 1..Used /\ port \in [Ports -> {"open", "closing", "closed", "released"}]
  BY HeldIs DEF Typed, RestTyped
<1>1. Collect(p)
  <2>1. ASSUME NEW q \in Ports, Collect(q) PROVE q = p
    BY <1>0, <2>1 DEF Collect
  <2>2. ASSUME NEW q \in Ports, Interrupt(q) \/ Dispose(q) \/ ClosePin(q) PROVE FALSE
    BY <1>0, <2>2 DEF Interrupt, Dispose, ClosePin
  <2>3. port' # port
    OBVIOUS
  <2>4. ~(ProcessActivity \/ Transfer \/ ThreadEnds \/ UNCHANGED vars)
    BY <2>3 DEF ProcessActivity, Transfer, PeekRecord, PeekNothing, CopyData, DiscardAll,
                LinkRecord, PopRecord, ThreadEnds, vars
  <2> QED
    BY <2>1, <2>2, <2>4 DEF Next
<1>2. port[p] = "closed"
  BY <1>1 DEF Collect
<1>3. \A k \in DOMAIN Held : Held[k].port = p => Held[k].id \in late
  BY <1>0, <1>2 DEF Left
<1> QED
  BY <1>0, <1>1, <1>3, CollectDispatched

-----------------------------------------------------------------------------
(* Interrupts are dispatched in the order in which they happened and none  *)
(* twice (InOrder), for any size of the ring, number of ports and failures *)
(* of allocation.                                                          *)
THEOREM OrderKept == Spec => []InOrder
<1>1. Init => Typed /\ Order
  BY TypedInit, OrderInit
<1>2. Typed /\ Order /\ [Next]_vars => Typed' /\ Order'
  BY TypedNext, OrderNext
<1> QED
  BY <1>1, <1>2, OrderMeans, PTL DEF Spec

(* A record leaves the two queues for one of the reasons of NothingLost    *)
(* only: the transfer, SaveToHALQueue and RemoveFromHALQueue agree on the  *)
(* ring at every interleaving.                                             *)
THEOREM NothingIsLost == Spec => NothingLost
<1>1. Init => Typed /\ Order
  BY TypedInit, OrderInit
<1>2. Typed /\ Order /\ [Next]_vars => Typed' /\ Order'
  BY TypedNext, OrderNext
<1>3. Typed /\ Order /\ [Next]_vars
        => [\A k \in DOMAIN Pending :
              LET r == Pending[k]
              IN  \/ overrun'
                  \/ r.id \in Ids(Pending')
                  \/ last' = r.id
                  \/ count' > count /\ full /\ r = Held[1]
                  \/ pc = "allocate" /\ pc' = "run"
                  \/ port'[r.port] \in {"closing", "released"}
                  \/ Wedged']_vars
  BY PendingExplained DEF Explained
<1> QED
  BY <1>1, <1>2, <1>3, PTL DEF Spec, NothingLost

(* When a dispatcher is released nothing points to it any more, but what   *)
(* ReleaseCleans excepts.                                                  *)
THEOREM ReleaseIsClean == Spec => ReleaseCleans
<1>1. Init => Typed /\ Left
  BY TypedInit, LeftInit
<1>2. Typed /\ Left /\ [Next]_vars => Typed' /\ Left'
  BY TypedNext, LeftNext
<1>3. Typed /\ Left /\ [Next]_vars
        => [\A p \in Ports :
              port[p] # "released" /\ port'[p] = "released" =>
                /\ \A k \in DOMAIN Held : Held[k].port = p => Held[k].id \in late
                /\ thread = "ready" => \A k \in DOMAIN queue' : queue'[k].port # p]_vars
  BY CleanStep
<1> QED
  BY <1>1, <1>2, <1>3, PTL DEF Spec, ReleaseCleans
=============================================================================
