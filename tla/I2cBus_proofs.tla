---------------------------- MODULE I2cBus_proofs ----------------------------
(***************************************************************************)
(* Proofs about I2cBus, for any threads and devices.  Whatever is aborted, *)
(* disposed or shared: its type invariant, that freed transactions are not *)
(* reached, and that the bus serves the head of the list.  For calls that  *)
(* keep apart: that transfers are whole.                                   *)
(***************************************************************************)
EXTENDS I2cBus, SequenceTheorems, TLAPS

(* A transaction is in a queue at most once.                               *)
Distinct(q) == \A i, j \in DOMAIN q : q[i] = q[j] => i = j

-----------------------------------------------------------------------------
(* Lemmas about sequences.                                                 *)

(* Unlinking t leaves the other transactions, each once, and the head if   *)
(* that is not t.                                                          *)
LEMMA UnlinkedLemma ==
  ASSUME NEW q \in Seq(Blocks), NEW t, Distinct(q)
  PROVE  /\ Unlinked(q, t) \in Seq(Blocks)
         /\ Distinct(Unlinked(q, t))
         /\ Elems(Unlinked(q, t)) = Elems(q) \ {t}
         /\ q # <<>> /\ Head(q) # t =>
              Unlinked(q, t) # <<>> /\ Head(Unlinked(q, t)) = Head(q)
<1>1. CASE t \notin Elems(q)
  BY <1>1 DEF Unlinked
<1>2. CASE t \in Elems(q)
  <2> DEFINE i == CHOOSE j \in DOMAIN q : q[j] = t
             a == SubSeq(q, 1, i - 1)
             b == SubSeq(q, i + 1, Len(q))
             r == a \o b
  <2>1. i \in DOMAIN q /\ q[i] = t
    BY <1>2 DEF Elems
  <2>2. Unlinked(q, t) = r
    BY <1>2 DEF Unlinked
  <2> HIDE DEF i
  <2>3. i \in 1..Len(q) /\ Len(q) \in Nat
    BY <2>1
  <2>4. /\ a \in Seq(Blocks) /\ Len(a) = i - 1
        /\ \A k \in 1..(i - 1) : a[k] = q[k]
    BY <2>3, SubSeqProperties
  <2>5. /\ b \in Seq(Blocks) /\ Len(b) = Len(q) - i
        /\ \A k \in 1..(Len(q) - i) : b[k] = q[i + k]
    BY <2>3, SubSeqProperties
  <2> HIDE DEF a, b
  <2>6. /\ r \in Seq(Blocks)
        /\ Len(r) = Len(a) + Len(b)
        /\ \A j \in 1..(Len(a) + Len(b)) :
             r[j] = IF j <= Len(a) THEN a[j] ELSE b[j - Len(a)]
    BY <2>4, <2>5, ConcatProperties
  <2> HIDE DEF r
  <2>7. Len(r) = Len(q) - 1 /\ DOMAIN r = 1..(Len(q) - 1) /\ DOMAIN q = 1..Len(q)
    BY <2>3, <2>4, <2>5, <2>6
  (* r[k] is q[k] before the gap and q[k + 1] behind it. *)
  <2>8. ASSUME NEW k \in 1..(Len(q) - 1), k < i
        PROVE  r[k] = q[k]
    <3>1. k \in 1..(i - 1) /\ k <= Len(a) /\ k \in 1..(Len(a) + Len(b))
      BY <2>3, <2>4, <2>5, <2>8
    <3> QED
      BY <2>4, <2>6, <3>1
  <2>9. ASSUME NEW k \in 1..(Len(q) - 1), k >= i
        PROVE  r[k] = q[k + 1]
    <3>1. ~(k <= Len(a)) /\ k \in 1..(Len(a) + Len(b)) /\ k - Len(a) = k - i + 1
      BY <2>3, <2>4, <2>5, <2>9
    <3>2. k - i + 1 \in 1..(Len(q) - i) /\ i + (k - i + 1) = k + 1
      BY <2>3, <2>9
    <3>3. r[k] = b[k - i + 1]
      BY <2>6, <3>1
    <3>4. b[k - i + 1] = q[i + (k - i + 1)]
      BY <2>5, <3>2
    <3> QED
      BY <3>2, <3>3, <3>4
  <2>10. \A k \in 1..(Len(q) - 1) :
           r[k] = q[IF k < i THEN k ELSE k + 1]
    BY <2>3, <2>8, <2>9
  <2>11. Distinct(r)
    <3> SUFFICES ASSUME NEW k \in 1..(Len(q) - 1), NEW m \in 1..(Len(q) - 1), r[k] = r[m]
                 PROVE  k = m
      BY <2>7 DEF Distinct
    <3> DEFINE K == IF k < i THEN k ELSE k + 1
               M == IF m < i THEN m ELSE m + 1
    <3>1. K \in DOMAIN q /\ M \in DOMAIN q
      BY <2>3, <2>7
    <3>2. q[K] = q[M]
      BY <2>10
    <3>3. K = M
      BY <3>1, <3>2 DEF Distinct
    <3> QED
      BY <2>3, <3>3
  <2>12. ASSUME NEW x \in Elems(q), x # t PROVE x \in Elems(r)
    <3>1. PICK k \in DOMAIN q : x = q[k]
      BY <2>12 DEF Elems
    <3>2. k # i
      BY <2>1, <2>12, <3>1
    <3>3. CASE k < i
      <4>1. k \in 1..(Len(q) - 1)
        BY <2>3, <2>7, <3>1, <3>3
      <4> QED
        BY <2>7, <2>8, <3>1, <3>3, <4>1 DEF Elems
    <3>4. CASE k > i
      <4>1. k - 1 \in 1..(Len(q) - 1) /\ k - 1 >= i /\ (k - 1) + 1 = k
        BY <2>3, <2>7, <3>1, <3>4
      <4>2. r[k - 1] = q[k]
        BY <2>9, <4>1
      <4> QED
        BY <2>7, <3>1, <4>1, <4>2 DEF Elems
    <3> QED
      BY <2>3, <2>7, <3>1, <3>2, <3>3, <3>4
  <2>13. ASSUME NEW x \in Elems(r) PROVE x \in Elems(q) /\ x # t
    <3>1. PICK k \in 1..(Len(q) - 1) : x = r[k]
      BY <2>7, <2>13 DEF Elems
    <3> DEFINE K == IF k < i THEN k ELSE k + 1
    <3>2. K \in DOMAIN q /\ K # i /\ x = q[K]
      BY <2>3, <2>7, <2>10, <3>1
    <3>3. q[K] # q[i]
      BY <2>1, <3>2 DEF Distinct
    <3> QED
      BY <2>1, <3>2, <3>3 DEF Elems
  <2>14. ASSUME q # <<>>, Head(q) # t PROVE r # <<>> /\ Head(r) = Head(q)
    <3>1. Head(q) = q[1] /\ 1 # i /\ 1 \in 1..(Len(q) - 1) /\ 1 < i
      BY <2>1, <2>3, <2>14
    <3>2. r[1] = q[1] /\ Len(r) # 0
      BY <2>3, <2>7, <2>8, <3>1
    <3> QED
      BY <2>6, <3>1, <3>2
  <2> QED
    BY <2>2, <2>6, <2>11, <2>12, <2>13, <2>14
<1> QED
  BY <1>1, <1>2

(* A new element at the back.                                              *)
LEMMA AppendLemma ==
  ASSUME NEW q \in Seq(Blocks), NEW x \in Blocks, Distinct(q), x \notin Elems(q)
  PROVE  /\ Append(q, x) \in Seq(Blocks)
         /\ Append(q, x) # <<>>
         /\ Distinct(Append(q, x))
         /\ Elems(Append(q, x)) = Elems(q) \cup {x}
         /\ Head(Append(q, x)) = IF q = <<>> THEN x ELSE Head(q)
<1> DEFINE r == Append(q, x)
<1>1. /\ r \in Seq(Blocks) /\ Len(r) = Len(q) + 1 /\ Len(q) \in Nat
      /\ \A i \in 1..Len(q) : r[i] = q[i]
      /\ r[Len(q) + 1] = x
  OBVIOUS
<1>2. DOMAIN r = 1..(Len(q) + 1) /\ DOMAIN q = 1..Len(q)
  BY <1>1
<1> HIDE DEF r
<1>3. \A i \in 1..Len(q) : q[i] # x
  BY <1>2 DEF Elems
<1>4. \A i \in 1..(Len(q) + 1) : i \in 1..Len(q) \/ i = Len(q) + 1
  BY <1>1
<1>5. Distinct(r)
  BY <1>1, <1>2, <1>3, <1>4 DEF Distinct
<1>6. Elems(r) = Elems(q) \cup {x}
  <2>1. ASSUME NEW y \in Elems(r) PROVE y \in Elems(q) \cup {x}
    BY <1>1, <1>2, <1>4, <2>1 DEF Elems
  <2>2. ASSUME NEW y \in Elems(q) PROVE y \in Elems(r)
    <3>1. PICK i \in 1..Len(q) : y = q[i]
      BY <1>2 DEF Elems
    <3>2. i \in 1..(Len(q) + 1)
      BY <1>1
    <3> QED
      BY <1>1, <1>2, <3>1, <3>2 DEF Elems
  <2>3. x \in Elems(r)
    <3>1. Len(q) + 1 \in 1..(Len(q) + 1)
      BY <1>1
    <3> QED
      BY <1>1, <1>2, <3>1 DEF Elems
  <2> QED
    BY <2>1, <2>2, <2>3
<1>7. r # <<>> /\ Head(r) = IF q = <<>> THEN x ELSE Head(q)
  <2>1. r # <<>> /\ Head(r) = r[1]
    BY <1>1
  <2>2. CASE q = <<>>
    <3>1. Len(q) = 0
      BY <2>2
    <3> QED
      BY <1>1, <2>1, <2>2, <3>1
  <2>3. CASE q # <<>>
    <3>1. Head(q) = q[1] /\ 1 \in 1..Len(q)
      BY <1>1, <2>3
    <3> QED
      BY <1>1, <2>1, <2>3, <3>1
  <2> QED
    BY <2>2, <2>3
<1> QED
  BY <1>1, <1>5, <1>6, <1>7 DEF r

(* The front element is gone.                                              *)
LEMMA TailLemma ==
  ASSUME NEW q \in Seq(Blocks), Distinct(q), q # <<>>
  PROVE  /\ Tail(q) \in Seq(Blocks)
         /\ Distinct(Tail(q))
         /\ Elems(Tail(q)) = Elems(q) \ {Head(q)}
         /\ Head(q) \in Blocks /\ Head(q) \in Elems(q)
<1> DEFINE r == Tail(q)
<1>1. /\ r \in Seq(Blocks) /\ Len(r) = Len(q) - 1 /\ Len(q) \in Nat \ {0}
      /\ \A i \in 1..(Len(q) - 1) : r[i] = q[i + 1]
      /\ Head(q) = q[1] /\ q[1] \in Blocks
  OBVIOUS
<1>2. DOMAIN r = 1..(Len(q) - 1) /\ DOMAIN q = 1..Len(q)
  BY <1>1
<1> HIDE DEF r
<1>3. 1 \in 1..Len(q) /\ \A i \in 1..(Len(q) - 1) : i + 1 \in 1..Len(q) /\ i + 1 # 1
  BY <1>1
<1>4. Distinct(r)
  <2> SUFFICES ASSUME NEW i \in 1..(Len(q) - 1), NEW j \in 1..(Len(q) - 1), r[i] = r[j]
               PROVE  i = j
    BY <1>2 DEF Distinct
  <2>1. q[i + 1] = q[j + 1]
    BY <1>1
  <2>2. i + 1 \in DOMAIN q /\ j + 1 \in DOMAIN q
    BY <1>2, <1>3
  <2>3. i + 1 = j + 1
    BY <2>1, <2>2 DEF Distinct
  <2>4. i \in Int /\ j \in Int
    BY <1>1
  <2> QED
    BY <2>3, <2>4
<1>5. ASSUME NEW y \in Elems(r) PROVE y \in Elems(q) /\ y # Head(q)
  <2>1. PICK i \in 1..(Len(q) - 1) : y = r[i]
    BY <1>2 DEF Elems
  <2>2. y = q[i + 1] /\ i + 1 \in DOMAIN q /\ i + 1 # 1 /\ 1 \in DOMAIN q
    BY <1>1, <1>2, <1>3, <2>1
  <2> QED
    BY <1>1, <2>2 DEF Elems, Distinct
<1>6. ASSUME NEW y \in Elems(q), y # Head(q) PROVE y \in Elems(r)
  <2>1. PICK i \in 1..Len(q) : y = q[i]
    BY <1>2 DEF Elems
  <2>2. i - 1 \in 1..(Len(q) - 1) /\ (i - 1) + 1 = i
    BY <1>1, <1>6, <2>1
  <2>3. r[i - 1] = q[i]
    BY <1>1, <2>2
  <2> QED
    BY <1>2, <2>1, <2>2, <2>3 DEF Elems
<1>7. Head(q) \in Elems(q)
  BY <1>1, <1>2, <1>3 DEF Elems
<1> QED
  BY <1>1, <1>4, <1>5, <1>6, <1>7 DEF r

(* The members of a queue.                                                 *)
LEMMA ElemsLemma ==
  ASSUME NEW q \in Seq(Blocks)
  PROVE  /\ Elems(q) \subseteq Blocks
         /\ Elems(<<>>) = {}
         /\ q # <<>> => Head(q) \in Elems(q)
         /\ \A x : x \in Elems(q) => q # <<>>
<1>1. DOMAIN q = 1..Len(q) /\ Len(q) \in Nat /\ \A i \in 1..Len(q) : q[i] \in Blocks
  OBVIOUS
<1>2. Elems(q) \subseteq Blocks
  BY <1>1 DEF Elems
<1>3. ASSUME q # <<>> PROVE Head(q) \in Elems(q)
  <2>1. 1 \in 1..Len(q) /\ Head(q) = q[1]
    BY <1>1, <1>3
  <2> QED
    BY <1>1, <2>1 DEF Elems
<1>4. Elems(<<>>) = {}
  BY DEF Elems
<1> QED
  BY <1>2, <1>3, <1>4

-----------------------------------------------------------------------------
(* The inductive invariant.                                                *)

Statuses == {"fresh", "idle", "scheduled", "processing", "completed",
             "aborted", "cancelled", "freed"}

(* The variables of the driver and its callback; done and units only       *)
(* count.                                                                  *)
DriverTypes ==
  /\ list \in Seq(Blocks) /\ conts \in Seq(Blocks)
  /\ bus \in Blocks \cup {None}
  /\ status \in [Blocks -> Statuses]
  /\ units \in [Blocks -> 0..MaxUnits]
  /\ current \in [Blocks -> Nat] /\ done \in [Blocks -> Nat]
  /\ handler \in {"none", "test", "set", "start"}
  /\ arg \in Blocks \cup {None} /\ (arg = None <=> handler = "none")
  /\ overtaken \subseteq {"set", "start"}

(* Whatever happens, a transaction is in a queue at most once, and what is *)
(* in a queue or in the callback has been allocated.                       *)
Linked ==
  /\ Distinct(list) /\ Distinct(conts)
  /\ \A x \in Elems(list) \cup Elems(conts) : status[x] # "fresh"
  /\ arg # None => status[arg] # "fresh"

(* Cancel finds all that must be undone in the status of a transaction,    *)
(* unless one was ended between SetState and XActionStart.                 *)
Reached ==
  "start" \notin overtaken =>
    /\ \A x \in Elems(list) : Pending(x)
    /\ \A x \in Elems(conts) : Pending(x) \/ Terminated(x)
    /\ bus # None => status[bus] = "processing"
    /\ handler = "set" => Pending(arg) \/ Terminated(arg)
    /\ handler = "start" => status[arg] = "processing"

(* A continuation belongs to a transaction that has terminated, and the    *)
(* callback starts the head of the list, unless it was overtaken.          *)
Queues ==
  overtaken = {} =>
    /\ \A x \in Elems(conts) : Terminated(x)
    /\ handler \in {"set", "start"} => list # <<>> /\ arg = Head(list)

(* Units started and ended.  Only the transaction on the bus can have been *)
(* started once too often.                                                 *)
Counts ==
  \A x \in Blocks :
    /\ current[x] <= units[x] \/ (bus = x /\ current[x] = units[x] + 1)
    /\ done[x] <= current[x]
    /\ bus = x => done[x] < current[x]
    /\ status[x] = "fresh" => current[x] = 0

Driver == DriverTypes /\ Linked /\ Reached /\ Queues /\ BusServesHead /\ Counts

(* A transaction belongs to one device and is neither fresh nor freed.     *)
Owned ==
  \A d \in Devices : hal[d] # None =>
    /\ status[hal[d]] \notin {"fresh", "freed"}
    /\ \A e \in Devices : hal[e] = hal[d] => e = d

(* The rest of the type invariant: devices and callers.                    *)
Callers ==
  /\ device \in [Devices -> {"new", "open", "disposed"}]
  /\ \A d, e \in Devices : device[d] = "open" /\ device[e] = "open" => d = e
  /\ hal \in [Devices -> Blocks \cup {None}]
  /\ event \in BOOLEAN /\ raised \in BOOLEAN
  /\ running \in Threads \cup {Callback, None}
  /\ handler # "none" <=> running = Callback
  /\ pc \in [Threads -> {"idle", "poll", "await", "waiting", "ready",
                         "expire", "release"}]
  /\ \A t \in Threads : pc[t] \in {"poll", "await", "expire", "release"}
                          <=> running = t
  /\ using \in [Threads -> Devices \cup {None}]
  /\ \A t \in Threads : using[t] = None <=> Idle(t)
  /\ expired \in [Threads -> BOOLEAN]
  /\ disturbed \in BOOLEAN

Memory ==
  /\ allocated \in 0..MaxCalls
  /\ \A x \in Blocks : x > allocated <=> status[x] = "fresh"

Inv == Driver /\ Owned /\ Callers /\ Memory

LEMMA BlocksLemma ==
  /\ \A x \in Blocks : x \in Nat /\ x # None
  /\ MaxUnits \in Nat /\ MaxCalls \in Nat
BY I2cBusAssumption DEF Blocks

(* What the types say of single transactions.                              *)
LEMMA TypesLemma ==
  ASSUME DriverTypes
  PROVE  /\ Elems(list) \subseteq Blocks /\ Elems(conts) \subseteq Blocks
         /\ \A x \in Blocks : /\ status[x] \in Statuses
                              /\ units[x] \in Nat /\ units[x] \in 0..MaxUnits
                              /\ current[x] \in Nat /\ done[x] \in Nat
BY ElemsLemma, BlocksLemma DEF DriverTypes

-----------------------------------------------------------------------------
(* What the driver's operations do to its part of the invariant.           *)

(* What StartNext(q, st, b) may start from outside of the callback: a list *)
(* q, continuations c, statuses st and a bus b that agree.                 *)
Prepared(q, c, st, b) ==
  /\ q \in Seq(Blocks) /\ Distinct(q)
  /\ c \in Seq(Blocks) /\ Distinct(c)
  /\ st \in [Blocks -> Statuses] /\ b \in Blocks \cup {None}
  /\ \A x \in Elems(q) \cup Elems(c) : st[x] # "fresh"
  /\ "start" \notin overtaken =>
       /\ \A x \in Elems(q) : st[x] \in {"scheduled", "processing"}
       /\ \A x \in Elems(c) : st[x] \in {"scheduled", "processing", "completed", "aborted"}
       /\ b # None => st[b] = "processing"
  /\ overtaken = {} =>
       /\ \A x \in Elems(c) : st[x] \in {"completed", "aborted"}
       /\ \A x \in Blocks : st[x] = "processing" <=> b = x
       /\ b # None => q # <<>> /\ b = Head(q)

(* And counts u of units that suit the statuses.                           *)
Counted(u, st, b) ==
  /\ u \in [Blocks -> 0..MaxUnits]
  /\ current \in [Blocks -> Nat] /\ done \in [Blocks -> Nat]
  /\ \A x \in Blocks : /\ current[x] <= u[x]
                       /\ done[x] <= current[x]
                       /\ b = x => done[x] < current[x]
                       /\ st[x] = "fresh" => current[x] = 0

LEMMA StartNextLemma ==
  ASSUME NEW q, NEW c, NEW st, NEW b, NEW u,
         Prepared(q, c, st, b), Counted(u, st, b),
         StartNext(q, st, b),
         list' = q, conts' = c, units' = u, done' = done,
         handler = "none", arg = None, overtaken \subseteq {"set", "start"},
         UNCHANGED callback
  PROVE  /\ Driver'
         /\ \A x \in Blocks : \/ status'[x] = st[x]
                              \/ x \in Elems(q) /\ status'[x] = "processing"
<1> USE DEF Prepared, Counted, callback
<1>1. CASE q = <<>>
  <2>1. status' = st /\ bus' = b /\ current' = current
    BY <1>1 DEF StartNext
  <2>2. Elems(q) = {}
    BY <1>1, ElemsLemma
  <2>3. DriverTypes'
    BY <2>1 DEF DriverTypes
  <2>4. Linked' /\ Reached' /\ Queues'
    BY <2>1, <2>2 DEF Linked, Reached, Queues, Pending, Terminated
  <2>5. BusServesHead'
    BY <1>1, <2>1 DEF BusServesHead
  <2>6. Counts'
    BY <2>1 DEF Counts
  <2> QED
    BY <2>1, <2>3, <2>4, <2>5, <2>6 DEF Driver
<1>2. CASE q # <<>>
  <2> DEFINE h == Head(q)
  <2>1. h \in Blocks /\ h \in Elems(q) /\ Elems(q) \subseteq Blocks /\ Elems(c) \subseteq Blocks
    BY <1>2, ElemsLemma
  <2>2. /\ status' = [st EXCEPT ![h] = "processing"] /\ bus' = h
        /\ current' = [current EXCEPT ![h] = @ + 1]
    BY <1>2 DEF StartNext
  <2> HIDE DEF h
  <2>3. status' \in [Blocks -> Statuses] /\ current' \in [Blocks -> Nat]
    <3>1. "processing" \in Statuses
      BY DEF Statuses
    <3>2. current[h] + 1 \in Nat
      BY <2>1
    <3> QED
      BY <2>2, <3>1, <3>2
  <2>4. /\ status'[h] = "processing" /\ current'[h] = current[h] + 1
        /\ \A x \in Blocks : x # h => status'[x] = st[x] /\ current'[x] = current[x]
    BY <2>1, <2>2
  <2>5. DriverTypes'
    BY <2>1, <2>2, <2>3 DEF DriverTypes
  <2>6. Linked'
    BY <2>1, <2>4 DEF Linked
  <2>7. Reached'
    BY <2>1, <2>2, <2>4 DEF Reached, Pending, Terminated
  <2>8. Queues'
    <3>1. overtaken = {} => h \notin Elems(c)
      BY <2>1
    <3> QED
      BY <2>1, <2>4, <3>1 DEF Queues, Terminated
  <2>9. BusServesHead'
    <3> SUFFICES ASSUME overtaken = {} PROVE BusServesHead'
      BY DEF BusServesHead
    <3>1. \A x \in Blocks : x # h => st[x] # "processing"
      BY <1>2, <2>1, BlocksLemma DEF h
    <3>2. \A x \in Blocks : status'[x] = "processing" <=> bus' = x
      BY <2>1, <2>2, <2>4, <3>1
    <3> QED
      BY <1>2, <2>1, <2>2, <3>2, BlocksLemma DEF BusServesHead, h
  <2>10. Counts'
    <3> SUFFICES ASSUME NEW x \in Blocks
                 PROVE  /\ current'[x] <= units'[x] \/ (bus' = x /\ current'[x] = units'[x] + 1)
                        /\ done[x] <= current'[x]
                        /\ bus' = x => done[x] < current'[x]
                        /\ status'[x] = "fresh" => current'[x] = 0
      BY DEF Counts
    <3>1. current[x] \in Nat /\ done[x] \in Nat /\ units'[x] \in Int
      BY BlocksLemma
    <3>2. CASE x = h
      BY <2>2, <2>4, <3>1, <3>2
    <3>3. CASE x # h
      BY <2>2, <2>4, <3>1, <3>3
    <3> QED
      BY <3>2, <3>3
  <2> QED
    BY <2>1, <2>4, <2>5, <2>6, <2>7, <2>8, <2>9, <2>10 DEF Driver
<1> QED
  BY <1>1, <1>2

(* Between wild states nothing was started once too often.                 *)
LEMMA TameLemma ==
  ASSUME Driver, ~Wild
  PROVE  \A x \in Blocks : current[x] <= units[x]
<1> SUFFICES ASSUME NEW x \in Blocks PROVE current[x] <= units[x]
  OBVIOUS
<1>1. current[x] \in Int /\ units[x] \in Int
  BY BlocksLemma DEF Driver, DriverTypes
<1>2. current[x] <= units[x] \/ (bus = x /\ current[x] = units[x] + 1)
  BY DEF Driver, Counts
<1>3. CASE bus = x /\ current[x] = units[x] + 1
  <2>1. x # None
    BY BlocksLemma
  <2> QED
    BY <1>1, <1>3, <2>1 DEF Wild
<1> QED
  BY <1>2, <1>3

(* Enqueue of a fresh transaction with n units.                            *)
LEMMA EnqueueLemma ==
  ASSUME Driver, ~Wild, handler = "none", NEW x \in Blocks, status[x] = "fresh",
         NEW n \in 0..MaxUnits, units' = [units EXCEPT ![x] = n], done' = done,
         UNCHANGED callback, Enqueue(x)
  PROVE  /\ Driver'
         /\ status'[x] \in {"scheduled", "processing"}
         /\ \A y \in Blocks : y # x =>
              \/ status'[y] = status[y]
              \/ status[y] # "fresh" /\ status'[y] = "processing"
<1> DEFINE q  == Append(list, x)
           st == [status EXCEPT ![x] = "scheduled"]
<1>1. /\ list \in Seq(Blocks) /\ conts \in Seq(Blocks) /\ Distinct(list) /\ Distinct(conts)
      /\ status \in [Blocks -> Statuses] /\ bus \in Blocks \cup {None}
      /\ current \in [Blocks -> Nat] /\ done \in [Blocks -> Nat]
      /\ arg = None /\ overtaken \subseteq {"set", "start"}
  BY DEF Driver, DriverTypes, Linked
<1>2. x \notin Elems(list) /\ x \notin Elems(conts)
  BY DEF Driver, Linked
<1>3. Unlinked(list, x) = list /\ Unlinked(conts, x) = conts
  BY <1>2 DEF Unlinked
<1>4. list' = q /\ conts' = conts /\ StartNext(q, st, bus)
  BY <1>3 DEF Enqueue
<1>5. /\ q \in Seq(Blocks) /\ Distinct(q) /\ Elems(q) = Elems(list) \cup {x}
      /\ q # <<>> /\ Head(q) = IF list = <<>> THEN x ELSE Head(list)
  BY <1>1, <1>2, AppendLemma
<1>6. /\ st \in [Blocks -> Statuses] /\ st[x] = "scheduled"
      /\ \A y \in Blocks : y # x => st[y] = status[y]
  <2>1. "scheduled" \in Statuses
    BY DEF Statuses
  <2> QED
    BY <1>1, <2>1
<1> HIDE DEF q, st
<1>7. Elems(list) \subseteq Blocks /\ Elems(conts) \subseteq Blocks
  BY <1>1, ElemsLemma
<1>8. bus # x
  <2>1. current[x] = 0 /\ done[x] \in Nat /\ (bus = x => done[x] < current[x])
    BY <1>1 DEF Driver, Counts
  <2> QED
    BY <2>1
<1>9. \A y \in Elems(q) \cup Elems(conts) : st[y] # "fresh"
  BY <1>2, <1>5, <1>6, <1>7 DEF Driver, Linked
<1>10. "start" \notin overtaken =>
         /\ \A y \in Elems(q) : st[y] \in {"scheduled", "processing"}
         /\ \A y \in Elems(conts) : st[y] \in {"scheduled", "processing", "completed", "aborted"}
         /\ bus # None => st[bus] = "processing"
  BY <1>1, <1>2, <1>5, <1>6, <1>7, <1>8 DEF Driver, Reached, Pending, Terminated
<1>11. overtaken = {} =>
         /\ \A y \in Elems(conts) : st[y] \in {"completed", "aborted"}
         /\ \A y \in Blocks : st[y] = "processing" <=> bus = y
         /\ bus # None => q # <<>> /\ bus = Head(q)
  <2> SUFFICES ASSUME overtaken = {}
               PROVE  /\ \A y \in Elems(conts) : st[y] \in {"completed", "aborted"}
                      /\ \A y \in Blocks : st[y] = "processing" <=> bus = y
                      /\ bus # None => q # <<>> /\ bus = Head(q)
    OBVIOUS
  <2>1. \A y \in Elems(conts) : st[y] \in {"completed", "aborted"}
    BY <1>2, <1>6, <1>7 DEF Driver, Queues, Terminated
  <2>2. /\ \A y \in Blocks : status[y] = "processing" <=> bus = y
        /\ bus # None => list # <<>> /\ bus = Head(list)
    BY DEF Driver, BusServesHead
  <2> QED
    BY <1>5, <1>6, <1>8, <2>1, <2>2
<1>12. units' \in [Blocks -> 0..MaxUnits]
  BY DEF Driver, DriverTypes
<1>13. ASSUME NEW y \in Blocks
       PROVE  /\ current[y] <= units'[y] /\ done[y] <= current[y]
              /\ bus = y => done[y] < current[y]
              /\ st[y] = "fresh" => current[y] = 0
  <2>1. done[y] <= current[y] /\ current[y] <= units[y]
        /\ (bus = y => done[y] < current[y])
        /\ (status[y] = "fresh" => current[y] = 0)
    BY TameLemma DEF Driver, Counts
  <2>2. CASE y = x
    <3>1. units'[y] = n
      BY <2>2 DEF Driver, DriverTypes
    <3> QED
      BY <1>6, <2>1, <2>2, <3>1
  <2>3. CASE y # x
    <3>1. units'[y] = units[y]
      BY <2>3 DEF Driver, DriverTypes
    <3> QED
      BY <1>6, <2>1, <2>3, <3>1
  <2> QED
    BY <2>2, <2>3
<1>14. Prepared(q, conts, st, bus) /\ Counted(units', st, bus)
  BY <1>1, <1>5, <1>6, <1>9, <1>10, <1>11, <1>12, <1>13 DEF Prepared, Counted
<1>15. /\ Driver'
       /\ \A y \in Blocks : \/ status'[y] = st[y]
                            \/ y \in Elems(q) /\ status'[y] = "processing"
  BY <1>1, <1>4, <1>14, StartNextLemma
<1>16. \A y \in Elems(q) : y = x \/ status[y] # "fresh"
  BY <1>5 DEF Driver, Linked
<1> QED
  BY <1>6, <1>15, <1>16

(* Cancel of a transaction that becomes cancelled or freed.                *)
LEMMA CancelLemma ==
  ASSUME Driver, ~Wild, handler = "none", NEW x \in Blocks, status[x] # "fresh",
         NEW after \in {"cancelled", "freed"},
         units' = units, done' = done, UNCHANGED callback, Cancel(x, after)
  PROVE  /\ Driver'
         /\ status'[x] = after
         /\ \A y \in Blocks : y # x =>
              \/ status'[y] = status[y]
              \/ status[y] # "fresh" /\ status'[y] = "processing"
<1> DEFINE q  == Unlinked(list, x)
           c  == Unlinked(conts, x)
           st == [status EXCEPT ![x] = after]
           b  == IF status[x] = "processing" THEN None ELSE bus
<1>1. /\ list \in Seq(Blocks) /\ conts \in Seq(Blocks) /\ Distinct(list) /\ Distinct(conts)
      /\ status \in [Blocks -> Statuses] /\ bus \in Blocks \cup {None}
      /\ current \in [Blocks -> Nat] /\ done \in [Blocks -> Nat]
      /\ units \in [Blocks -> 0..MaxUnits]
      /\ arg = None /\ overtaken \subseteq {"set", "start"}
  BY DEF Driver, DriverTypes, Linked
<1>2. /\ st \in [Blocks -> Statuses] /\ st[x] = after
      /\ \A y \in Blocks : y # x => st[y] = status[y]
  <2>1. after \in Statuses
    BY DEF Statuses
  <2> QED
    BY <1>1, <2>1
<1>3. overtaken = {} =>
        /\ \A y \in Blocks : status[y] = "processing" <=> bus = y
        /\ bus # None => list # <<>> /\ bus = Head(list)
  BY DEF Driver, BusServesHead
<1>4. ASSUME NEW y \in Blocks
      PROVE  /\ current[y] <= units[y] /\ done[y] <= current[y]
             /\ bus = y => done[y] < current[y]
             /\ st[y] = "fresh" => current[y] = 0
  <2>1. done[y] <= current[y] /\ current[y] <= units[y]
        /\ (bus = y => done[y] < current[y])
        /\ (status[y] = "fresh" => current[y] = 0)
    BY TameLemma DEF Driver, Counts
  <2> QED
    BY <1>2, <2>1
<1>5. Elems(list) \subseteq Blocks /\ Elems(conts) \subseteq Blocks
  BY <1>1, ElemsLemma
<1>6. CASE Pending(x) \/ Terminated(x)
  <2>1. list' = q /\ conts' = c /\ StartNext(q, st, b)
    BY <1>6 DEF Cancel
  <2>2. /\ q \in Seq(Blocks) /\ Distinct(q) /\ Elems(q) = Elems(list) \ {x}
        /\ list # <<>> /\ Head(list) # x => q # <<>> /\ Head(q) = Head(list)
    BY <1>1, UnlinkedLemma
  <2>3. c \in Seq(Blocks) /\ Distinct(c) /\ Elems(c) = Elems(conts) \ {x}
    BY <1>1, UnlinkedLemma
  <2>4. b \in Blocks \cup {None} /\ (b # None => b = bus /\ status[x] # "processing")
    BY <1>1
  <2>5. \A y \in Elems(q) \cup Elems(c) : st[y] # "fresh"
    BY <1>2, <1>5, <2>2, <2>3 DEF Driver, Linked
  <2>6. ASSUME overtaken = {}
        PROVE  /\ \A y \in Blocks : st[y] = "processing" <=> b = y
               /\ b # None => q # <<>> /\ b = Head(q)
    <3>1. \A y \in Blocks : st[y] = "processing" <=> b = y
      BY <1>2, <1>3, <2>6, BlocksLemma
    <3>2. b # None => q # <<>> /\ b = Head(q)
      BY <1>3, <2>2, <2>6
    <3> QED
      BY <3>1, <3>2
  <2> HIDE DEF q, c, st, b
  <2>7. ASSUME "start" \notin overtaken
        PROVE  /\ \A y \in Elems(q) : st[y] \in {"scheduled", "processing"}
               /\ \A y \in Elems(c) : st[y] \in {"scheduled", "processing", "completed", "aborted"}
               /\ b # None => st[b] = "processing"
    <3>1. /\ \A y \in Elems(list) : Pending(y)
          /\ \A y \in Elems(conts) : Pending(y) \/ Terminated(y)
          /\ bus # None => status[bus] = "processing"
      BY <2>7 DEF Driver, Reached
    <3>2. b # None => b \in Blocks /\ b # x /\ status[b] = "processing"
      BY <2>4, <3>1
    <3> QED
      BY <1>2, <1>5, <2>2, <2>3, <3>1, <3>2 DEF Pending, Terminated
  <2>8. overtaken = {} => \A y \in Elems(c) : st[y] \in {"completed", "aborted"}
    BY <1>2, <1>5, <2>3 DEF Driver, Queues, Terminated
  <2>9. Prepared(q, c, st, b)
    BY <1>2, <2>2, <2>3, <2>4, <2>5, <2>6, <2>7, <2>8 DEF Prepared
  <2>10. Counted(units, st, b)
    <3>1. \A y \in Blocks : b = y => bus = y
      BY <2>4, BlocksLemma
    <3> QED
      BY <1>1, <1>4, <3>1 DEF Counted
  <2>11. /\ Driver'
         /\ \A y \in Blocks : \/ status'[y] = st[y]
                              \/ y \in Elems(q) /\ status'[y] = "processing"
    BY <1>1, <2>1, <2>9, <2>10, StartNextLemma
  <2>12. \A y \in Elems(q) : y # x /\ status[y] # "fresh"
    BY <2>2 DEF Driver, Linked
  <2> QED
    BY <1>2, <2>11, <2>12
<1>7. CASE ~(Pending(x) \/ Terminated(x))
  <2>1. status' = st /\ UNCHANGED <<list, conts, bus, current>>
    BY <1>7 DEF Cancel
  <2> HIDE DEF q, c, st, b
  <2> USE DEF callback
  <2>2. "start" \notin overtaken => x \notin Elems(list) /\ x \notin Elems(conts) /\ bus # x
    BY <1>7, BlocksLemma DEF Driver, Reached, Pending
  <2>3. DriverTypes'
    BY <1>1, <1>2, <2>1 DEF Driver, DriverTypes
  <2>4. Linked'
    BY <1>1, <1>2, <1>5, <2>1 DEF Driver, Linked
  <2>5. Reached'
    BY <1>1, <1>2, <1>5, <2>1, <2>2 DEF Driver, Reached, Pending, Terminated
  <2>6. Queues'
    BY <1>2, <1>5, <2>1, <2>2 DEF Driver, Queues, Terminated
  <2>7. BusServesHead'
    <3> SUFFICES ASSUME overtaken = {} PROVE BusServesHead'
      BY DEF BusServesHead
    <3>1. \A y \in Blocks : status'[y] = "processing" <=> bus' = y
      BY <1>2, <1>3, <2>1, <2>2
    <3>2. ASSUME list # <<>>, bus = None
          PROVE  \E y \in Elems(conts) : FreesBus(y)'
      <4>1. PICK y \in Elems(conts) : FreesBus(y)
        BY <3>2 DEF Driver, BusServesHead, HandsOn
      <4>2. y \in Blocks /\ y # x
        BY <1>5, <2>2, <4>1
      <4> QED
        BY <1>2, <2>1, <4>1, <4>2 DEF FreesBus
    <3> QED
      BY <1>3, <2>1, <3>1, <3>2 DEF BusServesHead, HandsOn
  <2>8. Counts'
    BY <1>2, <2>1 DEF Driver, Counts
  <2> QED
    BY <1>2, <2>1, <2>3, <2>4, <2>5, <2>6, <2>7, <2>8 DEF Driver
<1> QED
  BY <1>6, <1>7

(* A step that makes no transaction of S fresh or freed.                   *)
Keeps(S) ==
  \A y \in S : /\ status'[y] = "fresh" <=> status[y] = "fresh"
               /\ status'[y] = "freed" => status[y] = "freed"

(* Signal of the transaction on the bus, when it completed or was aborted. *)
LEMMA SignalLemma ==
  ASSUME Driver, ~Wild, bus # None, NEW state \in {"completed", "aborted"},
         state = "completed" => current[bus] = units[bus],
         Signal(bus, state), units' = units, current' = current,
         handler' = handler, arg' = arg,
         done' = done \/ done' = [done EXCEPT ![bus] = @ + 1]
  PROVE  Driver' /\ Keeps(Blocks)
<1>1. /\ list \in Seq(Blocks) /\ conts \in Seq(Blocks) /\ Distinct(list) /\ Distinct(conts)
      /\ status \in [Blocks -> Statuses] /\ bus \in Blocks
      /\ current \in [Blocks -> Nat] /\ done \in [Blocks -> Nat]
      /\ units \in [Blocks -> 0..MaxUnits]
      /\ arg \in Blocks \cup {None} /\ overtaken \subseteq {"set", "start"}
      /\ handler \in {"none", "test", "set", "start"} /\ (arg = None <=> handler = "none")
  BY DEF Driver, DriverTypes, Linked
<1>2. status[bus] # "fresh"
  <2>1. current[bus] \in Nat /\ done[bus] \in Nat /\ done[bus] < current[bus]
        /\ (status[bus] = "fresh" => current[bus] = 0)
    BY <1>1 DEF Driver, Counts
  <2> QED
    BY <2>1
<1> DEFINE c == Unlinked(conts, bus)
<1>3. list' = Unlinked(list, bus) /\ conts' = Append(c, bus)
      /\ status' = [status EXCEPT ![bus] = state] /\ bus' = None
      /\ overtaken' = IF bus = arg /\ handler # "test"
                      THEN overtaken \cup {handler} ELSE overtaken
  BY DEF Signal
<1>4. list' \in Seq(Blocks) /\ Distinct(list') /\ Elems(list') = Elems(list) \ {bus}
  BY <1>1, <1>3, UnlinkedLemma
<1>5. conts' \in Seq(Blocks) /\ Distinct(conts') /\ Elems(conts') = Elems(conts) \cup {bus}
  <2>1. c \in Seq(Blocks) /\ Distinct(c) /\ Elems(c) = Elems(conts) \ {bus}
    BY <1>1, UnlinkedLemma
  <2> HIDE DEF c
  <2> QED
    BY <1>1, <1>3, <2>1, AppendLemma
<1>6. /\ status' \in [Blocks -> Statuses] /\ status'[bus] = state
      /\ \A y \in Blocks : y # bus => status'[y] = status[y]
  <2>1. state \in Statuses
    BY DEF Statuses
  <2> QED
    BY <1>1, <1>3, <2>1
<1>7. /\ done' \in [Blocks -> Nat]
      /\ \A y \in Blocks : done'[y] <= current[y]
  <2>1. \A y \in Blocks : done[y] <= current[y] /\ (bus = y => done[y] < current[y])
    BY DEF Driver, Counts
  <2>2. CASE done' = done
    BY <1>1, <2>1, <2>2
  <2>3. CASE done' = [done EXCEPT ![bus] = @ + 1]
    <3>1. done[bus] + 1 \in Nat /\ done[bus] + 1 <= current[bus]
      BY <1>1, <2>1
    <3> QED
      BY <1>1, <2>1, <2>3, <3>1
  <2> QED
    BY <2>2, <2>3
<1>8. Elems(list) \subseteq Blocks /\ Elems(conts) \subseteq Blocks
  BY <1>1, ElemsLemma
<1> HIDE DEF c
<1>9. DriverTypes'
  <2>1. overtaken' \subseteq {"set", "start"}
    BY <1>1, <1>3
  <2> QED
    BY <1>1, <1>3, <1>4, <1>5, <1>6, <1>7, <2>1 DEF DriverTypes
<1>10. Linked'
  BY <1>1, <1>2, <1>4, <1>5, <1>6, <1>8 DEF Driver, Linked
<1>11. Reached'
  <2> SUFFICES ASSUME "start" \notin overtaken'
               PROVE  /\ \A x \in Elems(list') : status'[x] \in {"scheduled", "processing"}
                      /\ \A x \in Elems(conts') :
                           status'[x] \in {"scheduled", "processing", "completed", "aborted"}
                      /\ handler = "set" =>
                           status'[arg] \in {"scheduled", "processing", "completed", "aborted"}
                      /\ handler = "start" => status'[arg] = "processing"
    BY <1>3 DEF Reached, Pending, Terminated
  <2>1. "start" \notin overtaken /\ (handler = "start" => bus # arg)
    BY <1>3
  <2>2. /\ \A x \in Elems(list) : status[x] \in {"scheduled", "processing"}
        /\ \A x \in Elems(conts) :
             status[x] \in {"scheduled", "processing", "completed", "aborted"}
        /\ handler = "set" =>
             status[arg] \in {"scheduled", "processing", "completed", "aborted"}
        /\ handler = "start" => status[arg] = "processing"
    BY <2>1 DEF Driver, Reached, Pending, Terminated
  <2>3. handler # "none" => arg \in Blocks
    BY <1>1
  <2> QED
    BY <1>4, <1>5, <1>6, <1>8, <2>1, <2>2, <2>3
<1>12. ASSUME overtaken' = {} PROVE overtaken = {} /\ handler \notin {"set", "start"}
  <2>1. overtaken = {} /\ (handler \in {"set", "start"} => bus # arg)
    BY <1>3, <1>12
  <2>2. /\ handler \in {"set", "start"} => list # <<>> /\ arg = Head(list)
        /\ list # <<>> /\ bus = Head(list)
    BY <2>1 DEF Driver, Queues, BusServesHead
  <2> QED
    BY <2>1, <2>2
<1>13. Queues'
  BY <1>5, <1>6, <1>8, <1>12 DEF Driver, Queues, Terminated
<1>14. BusServesHead'
  <2> SUFFICES ASSUME overtaken' = {} PROVE BusServesHead'
    BY DEF BusServesHead
  <2>1. \A y \in Blocks : status[y] = "processing" <=> bus = y
    BY <1>12 DEF Driver, BusServesHead
  <2>2. \A y \in Blocks : status'[y] = "processing" <=> bus' = y
    BY <1>3, <1>6, <2>1, BlocksLemma
  <2>3. HandsOn'
    <3>1. \E x \in Elems(conts') : current'[x] = units'[x] \/ status'[x] \in {"aborted", "cancelled"}
      BY <1>5, <1>6
    <3> QED
      BY <3>1 DEF HandsOn, FreesBus
  <2> QED
    BY <1>3, <1>12, <2>2, <2>3 DEF BusServesHead
<1>15. Counts'
  <2> SUFFICES ASSUME NEW y \in Blocks
               PROVE  current[y] <= units[y] /\ done'[y] <= current[y]
                      /\ (status'[y] = "fresh" => current[y] = 0)
    BY <1>3, BlocksLemma DEF Counts
  <2> QED
    BY <1>6, <1>7, TameLemma DEF Driver, Counts
<1>16. Keeps(Blocks)
  BY <1>1, <1>2, <1>6 DEF Keeps
<1> QED
  BY <1>9, <1>10, <1>11, <1>13, <1>14, <1>15, <1>16 DEF Driver

(* The next unit of the transaction on the bus.                            *)
LEMMA NextUnitLemma ==
  ASSUME Driver, ~Wild, bus # None, current[bus] # units[bus],
         current' = [current EXCEPT ![bus] = @ + 1],
         done' = [done EXCEPT ![bus] = @ + 1],
         UNCHANGED <<list, conts, bus, status, units, handler, arg, overtaken>>
  PROVE  Driver' /\ Keeps(Blocks)
<1>1. /\ bus \in Blocks /\ status \in [Blocks -> Statuses]
      /\ current \in [Blocks -> Nat] /\ done \in [Blocks -> Nat]
      /\ units \in [Blocks -> 0..MaxUnits]
  BY DEF Driver, DriverTypes
<1>2. current[bus] + 1 \in Nat /\ done[bus] + 1 \in Nat
  BY <1>1
<1>3. current' \in [Blocks -> Nat] /\ done' \in [Blocks -> Nat]
  BY <1>1, <1>2
<1>4. DriverTypes'
  BY <1>3 DEF Driver, DriverTypes
<1>5. Linked' /\ Reached' /\ Queues' /\ Keeps(Blocks)
  BY DEF Driver, Linked, Reached, Queues, Pending, Terminated, Keeps
<1>6. BusServesHead'
  BY DEF Driver, BusServesHead
<1>7. Counts'
  <2> SUFFICES ASSUME NEW y \in Blocks
               PROVE  /\ current'[y] <= units[y] \/ (bus = y /\ current'[y] = units[y] + 1)
                      /\ done'[y] <= current'[y]
                      /\ bus = y => done'[y] < current'[y]
                      /\ status[y] = "fresh" => current'[y] = 0
    BY DEF Counts
  <2>1. /\ current[y] <= units[y] /\ done[y] <= current[y]
        /\ bus = y => done[y] < current[y]
        /\ status[y] = "fresh" => current[y] = 0
    BY TameLemma DEF Driver, Counts
  <2>2. units[y] \in Int /\ current[y] \in Nat /\ done[y] \in Nat
    BY <1>1, BlocksLemma
  <2>3. CASE y = bus
    <3>1. current'[y] = current[y] + 1 /\ done'[y] = done[y] + 1
      BY <1>1, <2>3
    <3> QED
      BY <2>1, <2>2, <2>3, <3>1
  <2>4. CASE y # bus
    <3>1. current'[y] = current[y] /\ done'[y] = done[y]
      BY <1>1, <2>4
    <3> QED
      BY <2>1, <2>4, <3>1
  <2> QED
    BY <2>3, <2>4
<1> QED
  BY <1>4, <1>5, <1>6, <1>7 DEF Driver

(* The first continuation is called.                                       *)
LEMMA ContinuationLemma ==
  ASSUME Driver, handler = "none", RunContinuation
  PROVE  Driver' /\ Keeps(Blocks)
<1> DEFINE x == Head(conts)
<1>1. /\ list \in Seq(Blocks) /\ conts \in Seq(Blocks) /\ Distinct(list) /\ Distinct(conts)
      /\ conts # <<>> /\ conts' = Tail(conts) /\ handler' = "test" /\ arg' = x
      /\ UNCHANGED <<list, bus, status, units, current, done, overtaken>>
      /\ arg = None
  BY DEF Driver, DriverTypes, Linked, RunContinuation, heap
<1>2. /\ conts' \in Seq(Blocks) /\ Distinct(conts') /\ Elems(conts') = Elems(conts) \ {x}
      /\ x \in Elems(conts) /\ x \in Blocks
  BY <1>1, TailLemma
<1> HIDE DEF x
<1>3. DriverTypes' /\ Counts' /\ Keeps(Blocks)
  BY <1>1, <1>2, BlocksLemma DEF Driver, DriverTypes, Counts, Keeps
<1>4. Linked' /\ Reached' /\ Queues'
  BY <1>1, <1>2 DEF Driver, Linked, Reached, Queues, Pending, Terminated
<1>5. HandsOn => HandsOn'
  <2> SUFFICES ASSUME HandsOn PROVE HandsOn'
    OBVIOUS
  <2>1. PICK y \in Elems(conts) : current[y] = units[y] \/ status[y] \in {"aborted", "cancelled"}
    BY DEF HandsOn, FreesBus
  <2>2. CASE y = x
    BY <1>1, <2>1, <2>2 DEF HandsOn, FreesBus
  <2>3. CASE y # x
    <3>1. y \in Elems(conts')
      BY <1>2, <2>3
    <3> QED
      BY <1>1, <2>1, <3>1 DEF HandsOn, FreesBus
  <2> QED
    BY <2>2, <2>3
<1>6. BusServesHead'
  BY <1>1, <1>5 DEF Driver, BusServesHead
<1> QED
  BY <1>3, <1>4, <1>6 DEF Driver

(* Whether the bus is free, and for whom.                                  *)
LEMMA CallbackLemma ==
  ASSUME Driver, CompletedCallback
  PROVE  Driver' /\ Keeps(Blocks)
<1>1. /\ list \in Seq(Blocks) /\ handler = "test" /\ arg \in Blocks
      /\ UNCHANGED <<list, conts, bus, status, current, units, done, overtaken>>
  BY DEF Driver, DriverTypes, CompletedCallback, heap, queues
<1>2. CASE FreesBus(arg) /\ list # <<>>
  <2> DEFINE h == Head(list)
  <2>1. handler' = "set" /\ arg' = h /\ h \in Elems(list) /\ h \in Blocks
    BY <1>1, <1>2, ElemsLemma DEF CompletedCallback, FirstValidNode
  <2>2. Linked' /\ Reached'
    BY <1>1, <2>1 DEF Driver, Linked, Reached, Pending, Terminated
  <2>3. DriverTypes' /\ Counts' /\ Keeps(Blocks)
    BY <1>1, <2>1, BlocksLemma DEF Driver, DriverTypes, Counts, Keeps
  <2>4. Queues'
    BY <1>1, <1>2, <2>1 DEF Driver, Queues, Terminated
  <2>5. BusServesHead'
    BY <1>1, <2>1 DEF Driver, BusServesHead, HandsOn
  <2> QED
    BY <2>2, <2>3, <2>4, <2>5 DEF Driver
<1>3. CASE ~(FreesBus(arg) /\ list # <<>>)
  <2>1. handler' = "none" /\ arg' = None
    BY <1>3 DEF CompletedCallback, FirstValidNode, CallbackEnds
  <2>2. Linked' /\ Reached' /\ Queues'
    BY <1>1, <2>1 DEF Driver, Linked, Reached, Queues, Pending, Terminated
  <2>3. DriverTypes' /\ Counts' /\ Keeps(Blocks)
    BY <1>1, <2>1 DEF Driver, DriverTypes, Counts, Keeps
  <2>4. BusServesHead'
    <3> SUFFICES ASSUME overtaken = {} PROVE BusServesHead'
      BY <1>1 DEF BusServesHead
    <3>1. ASSUME list # <<>>, bus = None PROVE HandsOn'
      <4>1. PICK y \in Elems(conts) :
              current[y] = units[y] \/ status[y] \in {"aborted", "cancelled"}
        BY <1>1, <1>3, <3>1 DEF Driver, BusServesHead, HandsOn, FreesBus
      <4> QED
        BY <1>1, <4>1 DEF HandsOn, FreesBus
    <3> QED
      BY <1>1, <2>1, <3>1 DEF Driver, BusServesHead
  <2> QED
    BY <2>2, <2>3, <2>4 DEF Driver
<1> QED
  BY <1>2, <1>3

(* StartNext of the callback marks the transaction it has read.            *)
LEMMA MarkLemma ==
  ASSUME Driver, SetProcessing
  PROVE  Driver' /\ Keeps(Blocks)
<1>1. /\ list \in Seq(Blocks) /\ handler = "set" /\ handler' = "start" /\ arg \in Blocks
      /\ status \in [Blocks -> Statuses] /\ status' = [status EXCEPT ![arg] = "processing"]
      /\ UNCHANGED <<list, conts, bus, current, units, done, arg, overtaken>>
  BY DEF Driver, DriverTypes, SetProcessing, heap
<1>2. /\ status' \in [Blocks -> Statuses] /\ status'[arg] = "processing"
      /\ \A y \in Blocks : y # arg => status'[y] = status[y]
  <2>1. "processing" \in Statuses
    BY DEF Statuses
  <2> QED
    BY <1>1, <2>1
<1>3. Elems(list) \subseteq Blocks /\ Elems(conts) \subseteq Blocks /\ arg # None
      /\ (list # <<>> => Head(list) \in Elems(list))
  BY <1>1, ElemsLemma, BlocksLemma DEF Driver, DriverTypes
<1>4. DriverTypes'
  BY <1>1, <1>2 DEF Driver, DriverTypes
<1>5. Linked'
  BY <1>1, <1>2, <1>3 DEF Driver, Linked
<1>6. Reached'
  <2> SUFFICES ASSUME "start" \notin overtaken PROVE Reached'
    BY <1>1 DEF Reached
  <2>1. bus # None => bus \in Blocks /\ status[bus] = "processing"
    BY DEF Driver, DriverTypes, Reached
  <2> QED
    BY <1>1, <1>2, <1>3, <2>1 DEF Driver, Reached, Pending, Terminated
<1>7. Queues'
  <2> SUFFICES ASSUME overtaken = {} PROVE Queues'
    BY <1>1 DEF Queues
  <2>1. list # <<>> /\ arg = Head(list) /\ status[arg] \in {"scheduled", "processing"}
    BY <1>1, <1>3 DEF Driver, Queues, Reached, Pending
  <2>2. arg \notin Elems(conts)
    BY <2>1 DEF Driver, Queues, Terminated
  <2> QED
    BY <1>1, <1>2, <1>3, <2>1, <2>2 DEF Driver, Queues, Terminated
<1>8. BusServesHead'
  <2> SUFFICES ASSUME overtaken = {} PROVE BusServesHead'
    BY <1>1 DEF BusServesHead
  <2>1. \A x \in Blocks : status'[x] = "processing" <=> bus = x \/ arg = x
    BY <1>1, <1>2 DEF Driver, BusServesHead
  <2> QED
    BY <1>1, <2>1 DEF Driver, BusServesHead, HandsOn
<1>9. Counts'
  BY <1>1, <1>2 DEF Driver, Counts
<1>10. Keeps(Blocks)
  BY <1>1, <1>2, <1>3 DEF Driver, Linked, Keeps
<1> QED
  BY <1>4, <1>5, <1>6, <1>7, <1>8, <1>9, <1>10 DEF Driver

(* And starts it.                                                          *)
LEMMA StartLemma ==
  ASSUME Driver, ~Wild, ActionStart
  PROVE  Driver' /\ Keeps(Blocks)
<1>1. /\ list \in Seq(Blocks) /\ handler = "start" /\ handler' = "none"
      /\ arg \in Blocks /\ arg' = None /\ bus' = arg
      /\ current \in [Blocks -> Nat] /\ current' = [current EXCEPT ![arg] = @ + 1]
      /\ UNCHANGED <<list, conts, status, units, done, overtaken>>
  BY DEF Driver, DriverTypes, ActionStart, CallbackEnds, heap
<1>2. arg # None /\ status[arg] # "fresh"
  BY <1>1, BlocksLemma DEF Driver, Linked
<1>3. /\ current' \in [Blocks -> Nat] /\ current'[arg] = current[arg] + 1
      /\ \A y \in Blocks : y # arg => current'[y] = current[y]
  <2>1. current[arg] + 1 \in Nat
    BY <1>1
  <2> QED
    BY <1>1, <2>1
<1>4. DriverTypes' /\ Keeps(Blocks)
  BY <1>1, <1>3 DEF Driver, DriverTypes, Keeps
<1>5. Linked' /\ Reached' /\ Queues'
  BY <1>1 DEF Driver, Linked, Reached, Queues, Pending, Terminated
<1>6. BusServesHead'
  <2> SUFFICES ASSUME overtaken = {} PROVE BusServesHead'
    BY <1>1 DEF BusServesHead
  <2>1. list # <<>> /\ arg = Head(list)
    BY <1>1 DEF Driver, Queues
  <2>2. /\ \A x \in Blocks : status[x] = "processing" <=> bus = x \/ arg = x
        /\ bus # None => bus = Head(list)
    BY <1>1 DEF Driver, BusServesHead
  <2>3. \A x \in Blocks : status[x] = "processing" <=> arg = x
    BY <2>1, <2>2, BlocksLemma
  <2> QED
    BY <1>1, <1>2, <2>1, <2>3 DEF BusServesHead
<1>7. Counts'
  <2> SUFFICES ASSUME NEW y \in Blocks
               PROVE  /\ current'[y] <= units[y] \/ (arg = y /\ current'[y] = units[y] + 1)
                      /\ done[y] <= current'[y]
                      /\ arg = y => done[y] < current'[y]
                      /\ status[y] = "fresh" => current'[y] = 0
    BY <1>1 DEF Counts
  <2>1. /\ current[y] <= units[y] /\ done[y] <= current[y]
        /\ status[y] = "fresh" => current[y] = 0
    BY TameLemma DEF Driver, Counts
  <2>2. units[y] \in Int /\ current[y] \in Nat /\ done[y] \in Nat
    BY TypesLemma DEF Driver
  <2>3. CASE y = arg
    BY <1>2, <1>3, <2>1, <2>2, <2>3
  <2>4. CASE y # arg
    BY <1>3, <2>1, <2>2, <2>4
  <2> QED
    BY <2>3, <2>4
<1> QED
  BY <1>4, <1>5, <1>6, <1>7 DEF Driver

-----------------------------------------------------------------------------
(* What the steps do to the owners of transactions and to the memory.      *)

(* Transactions change hands only where they are allocated and released.   *)
LEMMA KeepLemma ==
  ASSUME Owned, Memory, hal \in [Devices -> Blocks \cup {None}],
         Keeps(Blocks), hal' = hal, allocated' = allocated
  PROVE  Owned' /\ Memory'
<1>1. Owned'
  BY DEF Owned, Keeps
<1>2. Memory'
  BY DEF Memory, Keeps
<1> QED
  BY <1>1, <1>2

LEMMA AllocateLemma ==
  ASSUME Inv, NEW d \in Devices, NEW n \in 0..MaxUnits, AllocateXAction(d, n),
         status'[allocated'] \notin {"fresh", "freed"},
         Keeps(Blocks \ {allocated'})
  PROVE  /\ Owned' /\ Memory'
         /\ hal' \in [Devices -> Blocks \cup {None}]
<1> DEFINE x == allocated'
<1>1. /\ x = allocated + 1 /\ x \in Blocks /\ x # None /\ x \in 0..MaxCalls
      /\ allocated \in Nat
  BY BlocksLemma DEF AllocateXAction, Inv, Memory, Blocks
<1>2. /\ hal \in [Devices -> Blocks \cup {None}]
      /\ hal' = [hal EXCEPT ![d] = x]
  BY DEF AllocateXAction, Inv, Callers
<1>3. hal' \in [Devices -> Blocks \cup {None}]
  BY <1>1, <1>2
<1> HIDE DEF x
<1>4. /\ hal'[d] = x
      /\ \A e \in Devices : e # d => hal'[e] = hal[e]
  BY <1>2
<1>5. \A e \in Devices : hal[e] # x
  BY <1>1, <1>2 DEF Inv, Owned, Memory
<1>6. \A y \in Blocks : y > x <=> y > allocated /\ y # x
  BY <1>1, BlocksLemma
<1>7. Memory'
  BY <1>1, <1>6 DEF Inv, Memory, Keeps, x
<1>8. Owned'
  <2> SUFFICES ASSUME NEW e \in Devices, hal'[e] # None
               PROVE  /\ status'[hal'[e]] \notin {"fresh", "freed"}
                      /\ \A f \in Devices : hal'[f] = hal'[e] => f = e
    BY DEF Owned
  <2>1. CASE e = d
    BY <1>4, <1>5, <2>1 DEF x
  <2>2. CASE e # d
    <3>1. /\ hal'[e] = hal[e] /\ hal[e] \in Blocks \ {x}
          /\ status[hal[e]] \notin {"fresh", "freed"}
          /\ \A f \in Devices : hal[f] = hal[e] => f = e
      BY <1>2, <1>4, <1>5, <2>2 DEF Inv, Owned
    <3> QED
      BY <1>4, <3>1 DEF Keeps, x
  <2> QED
    BY <2>1, <2>2
<1> QED
  BY <1>3, <1>7, <1>8

(* Steps that leave the driver alone.                                      *)
LEMMA DriverQuiet ==
  ASSUME Driver, UNCHANGED <<units, queues, callback, done>>
  PROVE  Driver'
BY DEF Driver, DriverTypes, Linked, Reached, Queues, BusServesHead, HandsOn, FreesBus,
       Counts, Pending, Terminated, queues, callback

(* ReleaseBuffers frees the transaction of d and no other.                 *)
LEMMA ReleaseLemma ==
  ASSUME Inv, ~Wild, handler = "none", NEW d \in Devices, ReleaseBuffers(d),
         done' = done, UNCHANGED callback
  PROVE  /\ Driver' /\ Owned' /\ Memory'
         /\ hal' \in [Devices -> Blocks \cup {None}]
<1>1. /\ hal \in [Devices -> Blocks \cup {None}]
      /\ hal' = [hal EXCEPT ![d] = None]
      /\ UNCHANGED <<units, allocated>>
  BY DEF Inv, Callers, ReleaseBuffers
<1>2. hal' \in [Devices -> Blocks \cup {None}]
  BY <1>1
<1>3. CASE hal[d] = None
  <2>1. UNCHANGED queues /\ hal' = hal
    BY <1>1, <1>3 DEF ReleaseBuffers
  <2>2. Driver'
    BY <1>1, <2>1, DriverQuiet DEF Inv, queues
  <2>3. Keeps(Blocks)
    BY <2>1 DEF Keeps, queues
  <2> QED
    BY <1>1, <1>2, <2>1, <2>2, <2>3, KeepLemma DEF Inv
<1>4. CASE hal[d] # None
  <2> DEFINE x == hal[d]
  <2>1. /\ x \in Blocks /\ status[x] # "fresh"
        /\ \A e \in Devices : hal[e] = x => e = d
    BY <1>1, <1>4 DEF Inv, Owned
  <2>2. Cancel(x, "freed")
    BY <1>4 DEF ReleaseBuffers
  <2>3. /\ hal'[d] = None
        /\ \A e \in Devices : e # d => hal'[e] = hal[e]
    BY <1>1
  <2> HIDE DEF x
  <2>4. /\ Driver'
        /\ status'[x] = "freed"
        /\ \A y \in Blocks : y # x =>
             \/ status'[y] = status[y]
             \/ status[y] # "fresh" /\ status'[y] = "processing"
    BY <1>1, <2>1, <2>2, CancelLemma DEF Inv
  <2>5. Keeps(Blocks \ {x})
    BY <2>4 DEF Keeps
  <2>6. Memory'
    BY <1>1, <2>1, <2>4, <2>5 DEF Inv, Memory, Keeps
  <2>7. Owned'
    <3> SUFFICES ASSUME NEW e \in Devices, hal'[e] # None
                 PROVE  /\ status'[hal'[e]] \notin {"fresh", "freed"}
                        /\ \A f \in Devices : hal'[f] = hal'[e] => f = e
      BY DEF Owned
    <3>1. e # d /\ hal'[e] = hal[e] /\ hal[e] \in Blocks \ {x}
      BY <1>1, <2>1, <2>3
    <3>2. status[hal[e]] \notin {"fresh", "freed"}
          /\ \A f \in Devices : hal[f] = hal[e] => f = e
      BY <3>1 DEF Inv, Owned
    <3> QED
      BY <2>3, <2>5, <3>1, <3>2 DEF Keeps
  <2> QED
    BY <1>2, <2>4, <2>6, <2>7
<1> QED
  BY <1>3, <1>4

-----------------------------------------------------------------------------
(* Callers.                                                                *)

LEMMA ReturnsLemma ==
  ASSUME Callers, NEW t \in Threads, running \in {t, None},
         running = t \/ pc[t] \in {"waiting", "ready"}, Returns(t),
         hal' \in [Devices -> Blocks \cup {None}], event' = event, raised' = raised,
         device' = device, handler' = handler, disturbed' \in BOOLEAN
  PROVE  Callers'
<1>1. t # None /\ t # Callback /\ None # Callback
  BY I2cBusAssumption
<1>2. /\ running' = None
      /\ pc'[t] = "idle" /\ using'[t] = None /\ expired'[t] = FALSE
      /\ \A u \in Threads : u # t =>
           pc'[u] = pc[u] /\ using'[u] = using[u] /\ expired'[u] = expired[u]
  BY DEF Returns, Callers
<1>3. /\ pc' \in [Threads -> {"idle", "poll", "await", "waiting", "ready",
                              "expire", "release"}]
      /\ using' \in [Threads -> Devices \cup {None}]
      /\ expired' \in [Threads -> BOOLEAN]
  BY DEF Returns, Callers
<1>4. \A u \in Threads : pc'[u] \in {"poll", "await", "expire", "release"}
                           <=> running' = u
  BY <1>1, <1>2, I2cBusAssumption DEF Callers
<1>5. \A u \in Threads : using'[u] = None <=> pc'[u] = "idle"
  BY <1>2 DEF Callers, Idle
<1>6. handler' # "none" <=> running' = Callback
  BY <1>1, <1>2 DEF Callers
<1> QED
  BY <1>2, <1>3, <1>4, <1>5, <1>6 DEF Callers, Idle

LEMMA EntersLemma ==
  ASSUME Callers, NEW t \in Threads, NEW d \in Devices,
         NEW where \in {"poll", "release"}, Enters(t, d, where),
         hal' \in [Devices -> Blocks \cup {None}]
  PROVE  Callers'
<1>1. t # None /\ d # None /\ t # Callback /\ None # Callback
  BY I2cBusAssumption
<1>2. /\ running' = t /\ running = None
      /\ pc'[t] = where /\ using'[t] = d
      /\ \A u \in Threads : u # t => pc'[u] = pc[u] /\ using'[u] = using[u]
  BY DEF Enters, Callers
<1>3. /\ pc' \in [Threads -> {"idle", "poll", "await", "waiting", "ready",
                              "expire", "release"}]
      /\ using' \in [Threads -> Devices \cup {None}]
  BY DEF Enters, Callers
<1>4. \A u \in Threads : pc'[u] \in {"poll", "await", "expire", "release"}
                           <=> running' = u
  BY <1>2, I2cBusAssumption DEF Callers
<1>5. \A u \in Threads : using'[u] = None <=> pc'[u] = "idle"
  BY <1>1, <1>2 DEF Callers, Idle
<1>6. disturbed' \in BOOLEAN /\ UNCHANGED <<device, event, raised, expired, handler>>
  BY DEF Enters, Callers, signals, callback
<1>7. handler' # "none" <=> running' = Callback
  BY <1>1, <1>2, <1>6 DEF Callers
<1> QED
  BY <1>2, <1>3, <1>4, <1>5, <1>6, <1>7 DEF Callers, Idle

(* Inside a call t goes on to where, in the processor or out of it.        *)
LEMMA MovesLemma ==
  ASSUME Callers, NEW t \in Threads, ~Idle(t), running \in {t, None},
         NEW where \in {"poll", "await", "waiting", "expire", "release"},
         pc' = [pc EXCEPT ![t] = where],
         running' = IF where = "waiting" THEN None ELSE t,
         raised' \in BOOLEAN,
         UNCHANGED <<device, hal, event, using, expired, handler, disturbed>>
  PROVE  Callers'
<1>1. /\ pc'[t] = where
      /\ \A u \in Threads : u # t => pc'[u] = pc[u]
  BY DEF Callers
<1>2. pc' \in [Threads -> {"idle", "poll", "await", "waiting", "ready",
                           "expire", "release"}]
  BY DEF Callers
<1>3. \A u \in Threads : pc'[u] \in {"poll", "await", "expire", "release"}
                           <=> running' = u
  BY <1>1, I2cBusAssumption DEF Callers
<1>4. \A u \in Threads : using'[u] = None <=> pc'[u] = "idle"
  BY <1>1 DEF Callers, Idle
<1>5. running' \in Threads \cup {None}
  OBVIOUS
<1>6. handler' # "none" <=> running' = Callback
  BY <1>5, I2cBusAssumption DEF Callers
<1> QED
  BY <1>2, <1>3, <1>4, <1>5, <1>6 DEF Callers, Idle

-----------------------------------------------------------------------------
(* The invariant is inductive.                                             *)

LEMMA InitInv == Init => Inv
<1> SUFFICES ASSUME Init PROVE Inv
  OBVIOUS
<1> USE BlocksLemma DEF Init
<1>1. /\ list \in Seq(Blocks) /\ conts \in Seq(Blocks)
      /\ Elems(<<>>) = {} /\ Distinct(<<>>)
  BY DEF Elems, Distinct
<1>2. \A x \in Blocks : status[x] = "fresh" /\ units[x] = 0 /\ current[x] = 0 /\ done[x] = 0
  OBVIOUS
<1>3. DriverTypes
  <2>1. "fresh" \in Statuses /\ 0 \in Nat /\ 0 \in 0..MaxUnits
    BY DEF Statuses
  <2> QED
    BY <1>1, <2>1 DEF DriverTypes
<1>4. Linked /\ Reached /\ Queues
  BY <1>1 DEF Linked, Reached, Queues
<1>5. BusServesHead
  BY <1>2 DEF BusServesHead
<1>6. Counts
  BY <1>2 DEF Counts
<1>7. Owned
  BY DEF Owned
<1>8. Callers
  BY I2cBusAssumption DEF Callers, Idle
<1>9. Memory
  BY <1>2 DEF Memory, Blocks
<1> QED
  BY <1>3, <1>4, <1>5, <1>6, <1>7, <1>8, <1>9 DEF Inv, Driver

(* Steps that leave the driver and the heap alone.                         *)
LEMMA QuietLemma ==
  ASSUME Inv, UNCHANGED <<heap, queues, callback, done>>
  PROVE  Driver' /\ Owned' /\ Memory'
<1> USE DEF Inv, heap, queues
<1>1. Driver'
  BY DriverQuiet
<1>2. Owned'
  BY DEF Owned
<1>3. Memory'
  BY DEF Memory
<1> QED
  BY <1>1, <1>2, <1>3

(* Steps of the driver, the bus and the callback, which leave the callers  *)
(* alone; only the callback takes and returns the processor.               *)
LEMMA DriverStepLemma ==
  ASSUME Inv, Driver', Keeps(Blocks),
         UNCHANGED <<device, heap, raised, pc, using, expired, disturbed>>,
         event' \in BOOLEAN,
         \/ running' = running /\ handler' = handler
         \/ /\ running \in {Callback, None} /\ running' \in {Callback, None}
            /\ handler' # "none" <=> running' = Callback
  PROVE  Inv'
<1>1. Owned' /\ Memory'
  BY KeepLemma DEF Inv, Callers, heap
<1>2. \A t \in Threads : t # None /\ t # Callback
  BY I2cBusAssumption
<1>3. /\ running' \in Threads \cup {Callback, None}
      /\ handler' # "none" <=> running' = Callback
      /\ \A t \in Threads : running' = t <=> running = t
  BY <1>2 DEF Inv, Callers
<1>4. Callers'
  BY <1>3 DEF Inv, Callers, Idle, heap
<1> QED
  BY <1>1, <1>4 DEF Inv

LEMMA NextInv == Inv /\ [Next]_vars => Inv'
<1> SUFFICES ASSUME Inv, [Next]_vars PROVE Inv'
  OBVIOUS
<1> USE DEF Inv
<1>1. CASE UNCHANGED vars
  <2>1. Driver' /\ Owned' /\ Memory'
    BY <1>1, QuietLemma DEF vars
  <2>2. Callers'
    BY <1>1 DEF vars, heap, signals, calls, callback, Callers, Idle
  <2> QED
    BY <2>1, <2>2
<1>2. CASE ~Wild /\ UnitEnds
  <2>1. /\ UNCHANGED <<device, heap, event, raised, running, pc, using, expired,
                       handler, arg, disturbed, units>>
        /\ bus # None /\ done' = [done EXCEPT ![bus] = @ + 1]
    BY <1>2 DEF UnitEnds, signals, heap, calls
  <2>2. Driver' /\ Keeps(Blocks)
    <3>1. CASE current[bus] = units[bus]
      <4>1. Signal(bus, "completed") /\ current' = current
        BY <1>2, <3>1 DEF UnitEnds
      <4> QED
        BY <1>2, <2>1, <3>1, <4>1, SignalLemma
    <3>2. CASE current[bus] # units[bus]
      <4>1. /\ current' = [current EXCEPT ![bus] = @ + 1]
            /\ UNCHANGED <<list, conts, bus, status, overtaken>>
        BY <1>2, <3>2 DEF UnitEnds
      <4> QED
        BY <1>2, <2>1, <3>2, <4>1, NextUnitLemma
    <3> QED
      BY <3>1, <3>2
  <2> QED
    BY <2>1, <2>2, DriverStepLemma DEF Callers
<1>3. CASE ~Wild /\ UnitFails
  <2>1. /\ UNCHANGED <<device, heap, event, raised, running, pc, using, expired,
                       handler, arg, disturbed, units>>
        /\ bus # None /\ Signal(bus, "aborted") /\ current' = current /\ done' = done
    BY <1>3 DEF UnitFails, signals, heap, calls
  <2>2. Driver' /\ Keeps(Blocks)
    BY <1>3, <2>1, SignalLemma
  <2> QED
    BY <2>1, <2>2, DriverStepLemma DEF Callers
<1>4. CASE ~Wild /\ (RunContinuation \/ InCallback)
  <2>1. UNCHANGED <<device, heap, raised, pc, using, expired, disturbed>> /\ event' \in BOOLEAN
    BY <1>4 DEF RunContinuation, InCallback, CompletedCallback, SetProcessing, ActionStart,
                signals, calls, Callers
  <2>2. Driver' /\ Keeps(Blocks)
    <3>1. RunContinuation => handler = "none"
      BY I2cBusAssumption DEF RunContinuation, Callers
    <3> QED
      BY <1>4, <3>1, ContinuationLemma, CallbackLemma, MarkLemma, StartLemma DEF InCallback
  <2>3. /\ running \in {Callback, None} /\ running' \in {Callback, None}
        /\ handler' # "none" <=> running' = Callback
    BY <1>4, I2cBusAssumption
       DEF RunContinuation, InCallback, CompletedCallback, SetProcessing, ActionStart,
           FirstValidNode, CallbackEnds, calls, Callers
  <2> QED
    BY <2>1, <2>2, <2>3, DriverStepLemma
<1>5. CASE SignalEvents
  <2>1. Driver' /\ Owned' /\ Memory'
    BY <1>5, QuietLemma DEF SignalEvents
  <2>2. Callers'
    <3>1. \A t \in Threads :
            /\ pc'[t] = IF pc[t] = "waiting" THEN "ready" ELSE pc[t]
            /\ pc[t] \in {"idle", "poll", "await", "waiting", "ready", "expire", "release"}
      BY <1>5 DEF SignalEvents, Callers
    <3>2. pc' \in [Threads -> {"idle", "poll", "await", "waiting", "ready",
                               "expire", "release"}]
      BY <1>5, <3>1 DEF SignalEvents
    <3>3. UNCHANGED <<device, hal, running, using, expired, handler, disturbed>>
          /\ event' \in BOOLEAN /\ raised' \in BOOLEAN
      BY <1>5 DEF SignalEvents, heap, callback
    <3>4. \A t \in Threads : /\ pc'[t] \in {"poll", "await", "expire", "release"}
                                  <=> running' = t
                             /\ using'[t] = None <=> pc'[t] = "idle"
      BY <3>1, <3>3 DEF Callers, Idle
    <3> QED
      BY <3>2, <3>3, <3>4 DEF Callers, Idle
  <2> QED
    BY <2>1, <2>2
<1>6. ASSUME NEW t \in Threads, Expire(t) PROVE Inv'
  <2>1. Driver' /\ Owned' /\ Memory'
    BY <1>6, QuietLemma DEF Expire
  <2>2. Callers'
    <3>1. /\ pc'[t] = IF pc[t] = "waiting" THEN "ready" ELSE pc[t]
          /\ \A u \in Threads : u # t => pc'[u] = pc[u]
          /\ pc[t] \in {"idle", "poll", "await", "waiting", "ready", "expire", "release"}
      BY <1>6 DEF Expire, Callers
    <3>2. pc' \in [Threads -> {"idle", "poll", "await", "waiting", "ready",
                               "expire", "release"}]
      BY <1>6, <3>1 DEF Expire, Callers
    <3>3. UNCHANGED <<device, hal, event, raised, running, using, handler, disturbed>>
          /\ expired' \in [Threads -> BOOLEAN]
      BY <1>6 DEF Expire, heap, signals, callback, Callers
    <3>4. \A u \in Threads : /\ pc'[u] \in {"poll", "await", "expire", "release"}
                                  <=> running' = u
                             /\ using'[u] = None <=> pc'[u] = "idle"
      BY <3>1, <3>3 DEF Callers, Idle
    <3> QED
      BY <3>2, <3>3, <3>4 DEF Callers, Idle
  <2> QED
    BY <2>1, <2>2
<1>7. ASSUME NEW t \in Threads, NEW d \in Devices, ~Wild, Execute(t, d) PROVE Inv'
  <2>1. PICK n \in 1..MaxUnits : AllocateXAction(d, n)
    BY <1>7 DEF Execute
  <2> DEFINE x == allocated'
  <2>2. x = allocated + 1 /\ x \in Blocks /\ n \in 0..MaxUnits /\ x > allocated
    BY <2>1, BlocksLemma DEF AllocateXAction, Memory, Blocks
  <2>3. status[x] = "fresh" /\ units' = [units EXCEPT ![x] = n] /\ done' = done
        /\ Enters(t, d, "poll") /\ Enqueue(x)
        /\ UNCHANGED callback /\ handler = "none"
    BY <1>7, <2>1, <2>2, I2cBusAssumption DEF AllocateXAction, Memory, Execute, Enters, Callers
  <2>4. /\ Driver'
        /\ status'[x] \in {"scheduled", "processing"}
        /\ \A y \in Blocks : y # x =>
             \/ status'[y] = status[y]
             \/ status[y] # "fresh" /\ status'[y] = "processing"
    <3> HIDE DEF x
    <3> QED
      BY <1>7, <2>2, <2>3, EnqueueLemma
  <2>5. status'[x] \notin {"fresh", "freed"} /\ Keeps(Blocks \ {x})
    BY <2>4 DEF Keeps
  <2>6. Owned' /\ Memory' /\ hal' \in [Devices -> Blocks \cup {None}]
    BY <2>1, <2>2, <2>5, AllocateLemma
  <2>7. Callers'
    BY <2>3, <2>6, EntersLemma
  <2> QED
    BY <2>4, <2>6, <2>7
<1>8. ASSUME NEW t \in Threads, NEW d \in Devices, ~Wild, ExecuteInvalid(t, d) PROVE Inv'
  <2> DEFINE x == allocated'
  <2>1. /\ AllocateXAction(d, 1) /\ Enters(t, d, "release") /\ done' = done
        /\ status' = [status EXCEPT ![x] = "idle"]
        /\ UNCHANGED <<list, conts, bus, current, callback>> /\ handler = "none"
    BY <1>8, I2cBusAssumption DEF ExecuteInvalid, Enters, Callers
  <2>2. /\ x = allocated + 1 /\ x \in Blocks /\ 1 \in 0..MaxUnits /\ x > allocated
        /\ units' = [units EXCEPT ![x] = 1]
    BY <2>1, BlocksLemma, I2cBusAssumption DEF AllocateXAction, Memory, Blocks
  <2>3. status[x] = "fresh"
    BY <2>2 DEF Memory
  <2> HIDE DEF x
  <2>4. /\ status \in [Blocks -> Statuses] /\ units \in [Blocks -> 0..MaxUnits]
        /\ Elems(list) \subseteq Blocks /\ Elems(conts) \subseteq Blocks
        /\ "idle" \in Statuses
    BY ElemsLemma DEF Driver, DriverTypes, Statuses
  <2>5. /\ status' \in [Blocks -> Statuses] /\ status'[x] = "idle"
        /\ \A y \in Blocks : y # x => status'[y] = status[y]
    BY <2>1, <2>2, <2>4
  <2>6. /\ units' \in [Blocks -> 0..MaxUnits] /\ units'[x] = 1
        /\ \A y \in Blocks : y # x => units'[y] = units[y]
    BY <2>2, <2>4
  <2>7. x \notin Elems(list) /\ x \notin Elems(conts) /\ bus # x
    <3>1. current[x] = 0 /\ done[x] \in Nat /\ (bus = x => done[x] < current[x])
      BY <2>2, <2>3 DEF Driver, DriverTypes, Counts
    <3> QED
      BY <2>2, <2>3, <3>1 DEF Driver, Linked
  <2>8. DriverTypes'
    BY <2>1, <2>5, <2>6 DEF Driver, DriverTypes, callback
  <2>9. Linked' /\ Reached' /\ Queues'
    <3>1. arg = None /\ bus \in Blocks \cup {None}
      BY <2>1 DEF Driver, DriverTypes
    <3> QED
      BY <2>1, <2>4, <2>5, <2>7, <3>1
         DEF Driver, Linked, Reached, Queues, Pending, Terminated, callback
  <2>10. BusServesHead'
    <3> SUFFICES ASSUME overtaken = {} PROVE BusServesHead'
      BY <2>1 DEF BusServesHead, callback
    <3>1. \A y \in Blocks : status'[y] = "processing" <=> bus' = y
      BY <2>1, <2>5, <2>7 DEF Driver, BusServesHead
    <3>2. ASSUME list # <<>>, bus = None
          PROVE  \E y \in Elems(conts) : FreesBus(y)'
      <4>1. PICK y \in Elems(conts) : FreesBus(y)
        BY <2>1, <3>2 DEF Driver, BusServesHead, HandsOn
      <4>2. y \in Blocks /\ y # x
        BY <2>4, <2>7, <4>1
      <4> QED
        BY <2>1, <2>5, <2>6, <4>1, <4>2 DEF FreesBus
    <3> QED
      BY <2>1, <3>1, <3>2 DEF Driver, BusServesHead, HandsOn, callback
  <2>11. Counts'
    <3> SUFFICES ASSUME NEW y \in Blocks
                 PROVE  /\ current[y] <= units'[y] \/ (bus = y /\ current[y] = units'[y] + 1)
                        /\ done[y] <= current[y]
                        /\ bus = y => done[y] < current[y]
                        /\ status'[y] = "fresh" => current[y] = 0
      BY <2>1 DEF Counts
    <3>1. /\ current[y] <= units[y] \/ (bus = y /\ current[y] = units[y] + 1)
          /\ done[y] <= current[y]
          /\ bus = y => done[y] < current[y]
          /\ status[y] = "fresh" => current[y] = 0
      BY DEF Driver, Counts
    <3>2. CASE y = x
      BY <2>3, <2>5, <2>6, <2>7, <3>1, <3>2
    <3>3. CASE y # x
      BY <2>5, <2>6, <3>1, <3>3
    <3> QED
      BY <3>2, <3>3
  <2>12. status'[x] \notin {"fresh", "freed"} /\ Keeps(Blocks \ {x})
    BY <2>5 DEF Keeps
  <2>13. Owned' /\ Memory' /\ hal' \in [Devices -> Blocks \cup {None}]
    BY <2>1, <2>2, <2>12, AllocateLemma DEF x
  <2>14. Callers'
    BY <2>1, <2>13, EntersLemma
  <2> QED
    BY <2>8, <2>9, <2>10, <2>11, <2>13, <2>14 DEF Driver
<1>9. ASSUME NEW t \in Threads, NEW d \in Devices, ExecuteRefused(t, d) PROVE Inv'
  <2>1. UNCHANGED <<heap, queues, callback, done, hal>> /\ Enters(t, d, "release")
    BY <1>9 DEF ExecuteRefused, Enters, heap
  <2>2. Driver' /\ Owned' /\ Memory'
    BY <2>1, QuietLemma
  <2>3. Callers'
    BY <2>1, EntersLemma DEF Callers
  <2> QED
    BY <2>2, <2>3
<1>10. ASSUME NEW t \in Threads, Poll(t) PROVE Inv'
  <2>1. /\ UNCHANGED <<heap, queues, callback, handler, done, hal, device, event, raised,
                       using, expired, disturbed>>
        /\ running' = t /\ running = t /\ ~Idle(t)
    BY <1>10 DEF Poll, heap, signals, callback, Callers, Idle
  <2>2. PICK where \in {"release", "await"} : pc' = [pc EXCEPT ![t] = where]
    BY <1>10 DEF Poll
  <2>3. Driver' /\ Owned' /\ Memory'
    BY <2>1, QuietLemma
  <2>4. Callers'
    BY <2>1, <2>2, MovesLemma DEF Callers
  <2> QED
    BY <2>3, <2>4
<1>11. ASSUME NEW t \in Threads, WaitEvents(t) PROVE Inv'
  <2>1. /\ UNCHANGED <<heap, queues, callback, handler, done, hal, device, event, using,
                       expired, disturbed>>
        /\ running = t /\ ~Idle(t) /\ raised' \in BOOLEAN
    BY <1>11 DEF WaitEvents, heap, callback, Callers, Idle
  <2>2. PICK where \in {"poll", "expire", "waiting"} :
          /\ pc' = [pc EXCEPT ![t] = where]
          /\ running' = IF where = "waiting" THEN None ELSE t
    BY <1>11 DEF WaitEvents
  <2>3. Driver' /\ Owned' /\ Memory'
    BY <2>1, QuietLemma
  <2>4. Callers'
    BY <2>1, <2>2, MovesLemma
  <2> QED
    BY <2>3, <2>4
<1>12. ASSUME NEW t \in Threads, Resume(t) PROVE Inv'
  <2>1. /\ UNCHANGED <<heap, queues, callback, handler, done, hal, device, event, raised,
                       disturbed>>
        /\ running = None /\ pc[t] = "ready" /\ ~Idle(t)
    BY <1>12 DEF Resume, heap, signals, callback, Idle
  <2>2. Driver' /\ Owned' /\ Memory'
    BY <2>1, QuietLemma
  <2>3. CASE Returns(t)
    <3>1. Callers'
      BY <2>1, <2>3, ReturnsLemma DEF Callers
    <3> QED
      BY <2>2, <3>1
  <2>4. CASE /\ running' = t
             /\ pc' = [pc EXCEPT ![t] = "poll"]
             /\ UNCHANGED <<using, expired>>
    <3>1. Callers'
      BY <2>1, <2>4, MovesLemma DEF Callers
    <3> QED
      BY <2>2, <3>1
  <2> QED
    BY <1>12, <2>3, <2>4 DEF Resume
<1>13. ASSUME NEW t \in Threads, ~Wild, TimedOut(t) PROVE Inv'
  <2>1. /\ UNCHANGED <<heap, units, allocated, done, hal, device, event, raised, using,
                       expired, callback, handler, disturbed>>
        /\ running' = t /\ running = t /\ ~Idle(t) /\ handler = "none"
        /\ pc' = [pc EXCEPT ![t] = "release"] /\ using[t] \in Devices
    BY <1>13, I2cBusAssumption DEF TimedOut, heap, signals, callback, Callers, Idle
  <2>2. Callers'
    BY <2>1, MovesLemma DEF Callers
  <2> DEFINE x == hal[using[t]]
  <2>3. CASE x = None
    <3>1. UNCHANGED <<heap, queues, callback, done>>
      BY <1>13, <2>1, <2>3 DEF TimedOut
    <3> QED
      BY <2>2, <3>1, QuietLemma
  <2>4. CASE x # None
    <3>1. x \in Blocks /\ status[x] \notin {"fresh", "freed"} /\ Cancel(x, "cancelled")
      BY <1>13, <2>1, <2>4 DEF TimedOut, Owned, Callers
    <3> HIDE DEF x
    <3>2. /\ Driver'
          /\ status'[x] = "cancelled"
          /\ \A y \in Blocks : y # x =>
               \/ status'[y] = status[y]
               \/ status[y] # "fresh" /\ status'[y] = "processing"
      BY <1>13, <2>1, <3>1, CancelLemma
    <3>3. Keeps(Blocks)
      BY <3>1, <3>2 DEF Keeps
    <3>4. Owned' /\ Memory'
      BY <2>1, <3>3, KeepLemma DEF Callers
    <3> QED
      BY <2>2, <3>2, <3>4
  <2> QED
    BY <2>3, <2>4
<1>14. ASSUME NEW t \in Threads, ~Wild, Release(t) PROVE Inv'
  <2>1. /\ UNCHANGED <<device, event, raised, callback, handler, disturbed>> /\ done' = done
        /\ running = t /\ using[t] \in Devices /\ handler = "none"
        /\ ReleaseBuffers(using[t]) /\ Returns(t)
    BY <1>14, I2cBusAssumption DEF Release, signals, callback, Callers, Idle
  <2>2. Driver' /\ Owned' /\ Memory' /\ hal' \in [Devices -> Blocks \cup {None}]
    BY <1>14, <2>1, ReleaseLemma
  <2>3. Callers'
    BY <2>1, <2>2, ReturnsLemma DEF Callers
  <2> QED
    BY <2>2, <2>3
<1>15. ASSUME NEW t \in Threads, Abort(t) PROVE Inv'
  <2>1. /\ UNCHANGED <<heap, queues, callback, handler, done, hal, device, event, raised>>
        /\ disturbed' = TRUE
        /\ running = None /\ pc[t] \in {"waiting", "ready"} /\ Returns(t)
    BY <1>15 DEF Abort, heap, signals, callback
  <2>2. Driver' /\ Owned' /\ Memory'
    BY <2>1, QuietLemma
  <2>3. Callers'
    BY <2>1, ReturnsLemma DEF Callers
  <2> QED
    BY <2>2, <2>3
<1>16. ASSUME NEW d \in Devices, Open(d) \/ Dispose(d) PROVE Inv'
  <2>1. /\ UNCHANGED <<heap, queues, callback, handler, done, hal, event, raised, running,
                       pc, using, expired>>
        /\ disturbed' \in BOOLEAN
    BY <1>16 DEF Open, Dispose, heap, signals, calls, callback, Callers
  <2>2. Driver' /\ Owned' /\ Memory'
    BY <2>1, QuietLemma
  <2>3. /\ device' \in [Devices -> {"new", "open", "disposed"}]
        /\ \A e, f \in Devices : device'[e] = "open" /\ device'[f] = "open" => e = f
    BY <1>16 DEF Open, Dispose, Callers
  <2>4. Callers'
    BY <2>1, <2>3 DEF Callers, Idle
  <2> QED
    BY <2>2, <2>4
<1>17. ASSUME NEW d \in Devices, ~Wild, Collect(d) PROVE Inv'
  <2>1. UNCHANGED <<device, event, raised, running, pc, using, expired, done, callback,
                    handler, disturbed>>
        /\ ReleaseBuffers(d) /\ handler = "none"
    BY <1>17, I2cBusAssumption DEF Collect, signals, calls, callback, Callers
  <2>2. Driver' /\ Owned' /\ Memory' /\ hal' \in [Devices -> Blocks \cup {None}]
    BY <1>17, <2>1, ReleaseLemma
  <2>3. Callers'
    BY <2>1, <2>2 DEF Callers, Idle
  <2> QED
    BY <2>2, <2>3
<1> QED
  BY <1>1, <1>2, <1>3, <1>4, <1>5, <1>6, <1>7, <1>8, <1>9, <1>10, <1>11, <1>12,
     <1>13, <1>14, <1>15, <1>16, <1>17 DEF Next, InCall

LEMMA InvProperties == Inv => TypeOK /\ NoDangling /\ BusServesHead
<1> SUFFICES ASSUME Inv PROVE TypeOK /\ NoDangling
  BY DEF Inv, Driver
<1> USE DEF Inv, Driver
<1>1. /\ current \in [Blocks -> 0..(MaxUnits + 1)]
      /\ done \in [Blocks -> 0..MaxUnits]
  <2>1. ASSUME NEW x \in Blocks
        PROVE  current[x] \in 0..(MaxUnits + 1) /\ done[x] \in 0..MaxUnits
    <3>1. /\ current[x] \in Nat /\ done[x] \in Nat /\ units[x] \in 0..MaxUnits
          /\ MaxUnits \in Nat
      BY BlocksLemma DEF DriverTypes
    <3>2. /\ current[x] <= units[x] \/ (bus = x /\ current[x] = units[x] + 1)
          /\ done[x] <= current[x]
          /\ bus = x => done[x] < current[x]
      BY DEF Counts
    <3> QED
      BY <3>1, <3>2
  <2> QED
    BY <2>1 DEF DriverTypes
<1>2. TypeOK
  BY <1>1 DEF DriverTypes, Statuses, Callers, Memory, TypeOK
<1>3. NoDangling
  <2> SUFFICES ASSUME NEW x \in Blocks, status[x] = "freed"
               PROVE  /\ \A d \in Devices : hal[d] # x
                      /\ "start" \notin overtaken =>
                           x \notin Elems(list) /\ x \notin Elems(conts) /\ bus # x
    BY DEF NoDangling
  <2>1. "start" \notin overtaken => x \notin Elems(list) /\ x \notin Elems(conts)
    BY DEF Reached, Pending, Terminated
  <2>2. "start" \notin overtaken => bus # x
    BY BlocksLemma DEF Reached
  <2>3. \A d \in Devices : hal[d] # x
    BY BlocksLemma DEF Owned
  <2> QED
    BY <2>1, <2>2, <2>3
<1> QED
  BY <1>2, <1>3

LEMMA Invariance == Spec => []Inv
BY InitInv, NextInv, PTL DEF Spec

(* The types, whatever threads share a device, are aborted or time out: in *)
(* particular StartNext and the handler start at most one unit beyond the  *)
(* last of a transaction (where the model ends), and no more end than the  *)
(* transaction has.                                                        *)
THEOREM TypeCorrect == Spec => []TypeOK
BY Invariance, InvProperties, PTL

(* Freed transactions are out of reach of the driver's list, the           *)
(* continuations, the bus and every device, for any number of threads,     *)
(* devices and calls (ReleaseBuffers, AllocateXAction and Cancel), until   *)
(* the interrupt comes between SetState and XActionStart of a callback.    *)
THEOREM FreedOutOfReach == Spec => []NoDangling
BY Invariance, InvProperties, PTL

(* The bus serves the head of the list, and is idle with work queued only  *)
(* while a continuation is due that will start it (StartNext, Signal and   *)
(* CompletedCallback), until the interrupt ends the very transaction that  *)
(* a callback has read from the list; by TransfersAreWhole this takes      *)
(* calls that overlap or are cut short.                                    *)
THEOREM BusNeverForgets == Spec => []BusServesHead
BY Invariance, InvProperties, PTL

-----------------------------------------------------------------------------
(* Calls that keep apart.                                                  *)

Live(x) == status[x] \notin {"fresh", "freed"}

(* While nothing is disturbed one thread at most is in a call, its device  *)
(* is open, the only transaction is the one of that device, and it is      *)
(* started at once and transferred unit by unit.                           *)
Units ==
  \A x \in Blocks : /\ status[x] # "scheduled"
                    /\ status[x] = "processing" => current[x] = done[x] + 1
                    /\ status[x] = "completed" => done[x] = units[x]

(* A callback finds nothing to start.                                      *)
Handed ==
  /\ overtaken = {}
  /\ handler = "none" \/ (handler = "test" /\ Terminated(arg))

Apart ==
  ~disturbed =>
    /\ \A t, u \in Threads : ~Idle(t) /\ ~Idle(u) => t = u
    /\ \A t \in Threads : ~Idle(t) => device[using[t]] = "open"
    /\ \A x \in Blocks : Live(x) => \E t \in Threads : ~Idle(t) /\ hal[using[t]] = x
    /\ Units
    /\ Handed

LEMMA SoleLemma ==
  ASSUME Inv, Apart, ~disturbed
  PROVE  /\ \A x, y \in Blocks : Live(x) /\ Live(y) => x = y
         /\ \A x \in Blocks : x \in Elems(list) => Pending(x) /\ Live(x)
         /\ \A x \in Blocks : x \in Elems(conts) => Terminated(x) /\ Live(x)
         /\ Elems(list) \subseteq Blocks /\ Elems(conts) \subseteq Blocks
         /\ (\A x \in Elems(list) : FALSE) => list = <<>>
<1>1. list \in Seq(Blocks) /\ conts \in Seq(Blocks)
  BY DEF Inv, Driver, DriverTypes
<1>2. \A x, y \in Blocks : Live(x) /\ Live(y) => x = y
  BY DEF Apart
<1>3. /\ \A x \in Blocks : x \in Elems(list) => Pending(x) /\ Live(x)
      /\ \A x \in Blocks : x \in Elems(conts) => Terminated(x) /\ Live(x)
  BY DEF Inv, Driver, Queues, Reached, Apart, Handed, Pending, Terminated, Live
<1>4. Elems(list) \subseteq Blocks /\ Elems(conts) \subseteq Blocks
      /\ (list # <<>> => Head(list) \in Elems(list))
  BY <1>1, ElemsLemma
<1> QED
  BY <1>2, <1>3, <1>4

(* Steps that leave transactions, devices and the set of calls alone.      *)
LEMMA ApartKeepLemma ==
  ASSUME Apart, disturbed' = disturbed,
         UNCHANGED <<device, hal, using>>,
         \A t \in Threads : pc'[t] = "idle" <=> Idle(t),
         \A x \in Blocks : status'[x] \notin {"fresh", "freed"} => Live(x),
         ~disturbed => Units' /\ Handed'
  PROVE  Apart'
BY DEF Apart, Live, Idle

LEMMA InitApart == Init => Apart
BY DEF Init, Apart, Live, Idle, Units, Handed

(* Nor does it if only threads run.                                        *)
LEMMA HandedLemma ==
  ASSUME Callers, Apart, ~disturbed, UNCHANGED callback,
         running # Callback \/ (arg \in Blocks \cup {None} /\ status' = status)
  PROVE  Handed'
BY DEF Apart, Handed, Terminated, callback, Callers

(* Cancel of the only transaction starts no other.                         *)
LEMMA CancelSoleLemma ==
  ASSUME Inv, Apart, ~disturbed, NEW x \in Blocks, Live(x),
         NEW after \in {"cancelled", "freed"}, Cancel(x, after)
  PROVE  /\ current' = current /\ status'[x] = after
         /\ \A y \in Blocks : y # x => status'[y] = status[y]
<1>1. list \in Seq(Blocks) /\ Distinct(list) /\ status \in [Blocks -> Statuses]
  BY DEF Inv, Driver, DriverTypes, Linked
<1>2. Elems(Unlinked(list, x)) = Elems(list) \ {x} /\ Unlinked(list, x) \in Seq(Blocks)
  BY <1>1, UnlinkedLemma
<1>3. Elems(list) \subseteq {x}
  BY SoleLemma
<1>4. Unlinked(list, x) = <<>>
  BY <1>2, <1>3, ElemsLemma
<1>5. current' = current /\ status' = [status EXCEPT ![x] = after]
  BY <1>4 DEF Cancel, StartNext
<1> QED
  BY <1>1, <1>5

(* The interrupt ends another transaction than that of the callback.       *)
LEMMA EndKeepsHanded ==
  ASSUME Apart, ~disturbed, bus \in Blocks, status[bus] = "processing",
         arg \in Blocks \cup {None}, arg = None <=> handler = "none",
         handler' = handler, arg' = arg,
         overtaken' = overtaken \/ (\E state : Signal(bus, state)),
         \A y \in Blocks : y # bus => status'[y] = status[y]
  PROVE  Handed'
<1>1. Handed
  BY DEF Apart
<1>2. arg # bus
  BY <1>1, BlocksLemma DEF Handed, Terminated
<1>3. overtaken' = {}
  BY <1>1, <1>2 DEF Handed, Signal
<1> QED
  BY <1>1, <1>2, <1>3 DEF Handed, Terminated

LEMMA NextApart == Inv /\ Inv' /\ Apart /\ [Next]_vars => Apart'
<1> SUFFICES ASSUME Inv, Inv', Apart, [Next]_vars, ~disturbed' PROVE Apart'
  BY DEF Apart
<1> USE DEF Inv
<1>0. /\ \A x \in Blocks : /\ done[x] <= current[x]
                           /\ ~disturbed /\ bus = x => status[x] = "processing"
                           /\ status[x] = "fresh" => current[x] = 0
      /\ status \in [Blocks -> Statuses]
      /\ current \in [Blocks -> Nat] /\ done \in [Blocks -> Nat]
      /\ bus \in Blocks \cup {None} /\ list \in Seq(Blocks) /\ conts \in Seq(Blocks)
      /\ arg \in Blocks \cup {None} /\ (arg = None <=> handler = "none")
  BY BlocksLemma DEF Driver, DriverTypes, Counts, Reached, Apart, Handed
(* The steps of threads leave the callback alone.                          *)
<1> DEFINE Calls(t) == \/ \E d \in Devices : \/ Execute(t, d) \/ ExecuteInvalid(t, d)
                                              \/ ExecuteRefused(t, d)
                       \/ InCall(t) \/ Expire(t) \/ Abort(t)
           Others == \E d \in Devices : Open(d) \/ Dispose(d) \/ Collect(d)
<1> HIDE DEF Calls, Others
<1>0a. ASSUME SignalEvents \/ (\E t \in Threads : Calls(t)) \/ Others
       PROVE  Handed'
  <2>1. ~disturbed /\ UNCHANGED callback
    <3>1. CASE SignalEvents
      BY <3>1 DEF SignalEvents
    <3>2. ASSUME NEW t \in Threads, Calls(t) PROVE ~disturbed /\ UNCHANGED callback
      <4>1. CASE \E d \in Devices : \/ Execute(t, d) \/ ExecuteInvalid(t, d)
                                    \/ ExecuteRefused(t, d)
        BY <4>1 DEF Execute, ExecuteInvalid, ExecuteRefused, Enters
      <4>2. CASE InCall(t)
        BY <4>2 DEF InCall, Poll, WaitEvents, Resume, TimedOut, Release
      <4>3. CASE Expire(t) \/ Abort(t)
        BY <4>3 DEF Expire, Abort
      <4> QED
        BY <3>2, <4>1, <4>2, <4>3 DEF Calls
    <3>3. CASE Others
      <4>1. PICK d \in Devices : Open(d) \/ Dispose(d) \/ Collect(d)
        BY <3>3 DEF Others
      <4>2. CASE Open(d) \/ Collect(d)
        BY <4>2 DEF Open, Collect
      <4>3. CASE Dispose(d)
        BY <4>3 DEF Dispose
      <4> QED
        BY <4>1, <4>2, <4>3
    <3> QED
      BY <1>0a, <3>1, <3>2, <3>3
  <2>2. running # Callback
    <3>1. running = None \/ \E t \in Threads : running = t
      BY <1>0a DEF Calls, Others, SignalEvents, Execute, ExecuteInvalid, ExecuteRefused,
                   Enters, InCall, Poll, WaitEvents, Resume, TimedOut, Release, Expire,
                   Abort, Open, Dispose, Collect, Callers
    <3> QED
      BY <3>1, I2cBusAssumption
  <2> QED
    BY <2>1, <2>2, HandedLemma
<1>1. CASE UNCHANGED vars
  <2>1. ~disturbed => Handed'
    BY <1>0, <1>1, HandedLemma DEF vars, queues
  <2> QED
    BY <1>1, <2>1, ApartKeepLemma
       DEF vars, calls, queues, heap, Idle, Live, Apart, Units
<1>2. CASE ~Wild /\ UnitEnds
  <2>1. /\ UNCHANGED <<device, hal, using, pc, disturbed, units>> /\ bus \in Blocks
        /\ done' = [done EXCEPT ![bus] = @ + 1]
    BY <1>0, <1>2 DEF UnitEnds, heap, calls
  <2>2. ~disturbed /\ Live(bus) /\ Units
    BY <1>0, <2>1 DEF Apart, Live
  <2>3. \A y \in Blocks : Live(y) => y = bus
    BY <2>1, <2>2, SoleLemma
  <2>4. done'[bus] = done[bus] + 1 /\ current[bus] = done[bus] + 1
    BY <1>0, <2>1, <2>2 DEF Units
  <2>5. /\ \A y \in Blocks : y # bus => status'[y] = status[y]
        /\ \/ status'[bus] = "completed" /\ done'[bus] = units[bus]
           \/ status'[bus] = "processing" /\ current'[bus] = current[bus] + 1
    <3>1. CASE current[bus] = units[bus]
      <4>1. status' = [status EXCEPT ![bus] = "completed"]
        BY <1>2, <3>1 DEF UnitEnds, Signal
      <4> QED
        BY <1>0, <2>1, <2>4, <3>1, <4>1
    <3>2. CASE current[bus] # units[bus]
      <4>1. status' = status /\ current' = [current EXCEPT ![bus] = @ + 1]
        BY <1>2, <3>2 DEF UnitEnds
      <4> QED
        BY <1>0, <2>1, <4>1
    <3> QED
      BY <3>1, <3>2
  <2>6. Units'
    BY <2>1, <2>3, <2>4, <2>5 DEF Units, Live
  <2>7. Handed'
    <3>1. handler' = handler /\ arg' = arg
          /\ (overtaken' = overtaken \/ (Signal(bus, "completed")))
      BY <1>2 DEF UnitEnds
    <3> QED
      BY <1>0, <2>1, <2>2, <2>5, <3>1, EndKeepsHanded
  <2> QED
    BY <2>1, <2>2, <2>5, <2>6, <2>7, ApartKeepLemma DEF Live, Idle
<1>3. CASE ~Wild /\ UnitFails
  <2>1. /\ UNCHANGED <<device, hal, using, pc, disturbed, units, done, current>>
        /\ bus \in Blocks /\ status' = [status EXCEPT ![bus] = "aborted"]
    BY <1>0, <1>3 DEF UnitFails, Signal, heap, calls
  <2>2. ~disturbed /\ Live(bus) /\ Units
    BY <1>0, <2>1 DEF Apart, Live
  <2>3. status'[bus] = "aborted" /\ \A y \in Blocks : y # bus => status'[y] = status[y]
    BY <1>0, <2>1
  <2>4. Units'
    BY <2>1, <2>2, <2>3 DEF Units
  <2>5. Handed'
    <3>1. handler' = handler /\ arg' = arg /\ Signal(bus, "aborted")
      BY <1>3 DEF UnitFails
    <3> QED
      BY <1>0, <2>1, <2>2, <2>3, <3>1, EndKeepsHanded
  <2> QED
    BY <2>1, <2>2, <2>3, <2>4, <2>5, ApartKeepLemma DEF Live, Idle
<1>4. CASE ~Wild /\ RunContinuation
  <2>1. /\ UNCHANGED <<device, hal, using, pc, disturbed, units, done, status, current, overtaken>>
        /\ conts # <<>> /\ handler' = "test" /\ arg' = Head(conts)
    BY <1>4 DEF RunContinuation, heap
  <2>2. ~disturbed /\ Units /\ overtaken = {}
    BY <2>1 DEF Apart, Handed
  <2>3. Terminated(Head(conts))
    <3>1. Head(conts) \in Elems(conts)
      BY <1>0, <2>1, ElemsLemma
    <3> QED
      BY <2>2, <3>1, SoleLemma
  <2>4. Handed'
    BY <2>1, <2>2, <2>3 DEF Handed, Terminated
  <2> QED
    BY <2>1, <2>2, <2>4, ApartKeepLemma DEF Live, Idle, Units
<1>19. CASE InCallback
  <2>1. ~disturbed /\ Units /\ Handed
    BY <1>19 DEF InCallback, CompletedCallback, SetProcessing, ActionStart, Apart
  <2>2. CompletedCallback /\ arg \in Blocks /\ Terminated(arg)
    BY <1>0, <1>19, <2>1 DEF InCallback, CompletedCallback, SetProcessing, ActionStart, Handed
  <2>3. list = <<>>
    <3>1. Live(arg)
      BY <2>2 DEF Live, Terminated
    <3>2. \A x \in Elems(list) : x = arg /\ Pending(x)
      BY <2>1, <2>2, <3>1, SoleLemma
    <3>3. \A x \in Elems(list) : FALSE
      BY <2>2, <3>2 DEF Pending, Terminated
    <3> QED
      BY <2>1, <3>3, SoleLemma
  <2>4. /\ UNCHANGED <<device, hal, using, pc, disturbed, units, done, status, current, overtaken>>
        /\ handler' = "none"
    BY <2>2, <2>3 DEF CompletedCallback, FirstValidNode, CallbackEnds, heap, queues
  <2>5. Handed'
    BY <2>1, <2>4 DEF Handed
  <2> QED
    BY <2>1, <2>4, <2>5, ApartKeepLemma DEF Live, Idle, Units
<1>5. CASE SignalEvents
  <2>1. /\ UNCHANGED <<device, hal, using, disturbed, units, done, status, current>>
        /\ pc' = [t \in Threads |-> IF pc[t] = "waiting" THEN "ready" ELSE pc[t]]
    BY <1>5 DEF SignalEvents, heap, queues
  <2>2. \A t \in Threads : pc'[t] = "idle" <=> Idle(t)
    BY <2>1 DEF Idle
  <2>20. Handed'
    BY <1>0a, <1>5
  <2> QED
    BY <2>20, <2>1, <2>2, ApartKeepLemma DEF Live, Units, Apart
<1>6. ASSUME NEW t \in Threads, Expire(t) PROVE Apart'
  <2>1. /\ UNCHANGED <<device, hal, using, disturbed, units, done, status, current>>
        /\ pc' = [pc EXCEPT ![t] = IF @ = "waiting" THEN "ready" ELSE @]
    BY <1>6 DEF Expire, heap, queues
  <2>2. \A u \in Threads : pc'[u] = "idle" <=> Idle(u)
    BY <2>1 DEF Idle, Callers
  <2>20. Handed'
    BY <1>0a, <1>6 DEF Calls
  <2> QED
    BY <2>20, <2>1, <2>2, ApartKeepLemma DEF Live, Units, Apart
<1>7. ASSUME NEW t \in Threads, NEW d \in Devices, NEW where \in {"poll", "release"},
             Enters(t, d, where)
      PROVE  /\ ~disturbed
             /\ \A x \in Blocks : ~Live(x)
             /\ \A u \in Threads : pc'[u] # "idle" <=> u = t
             /\ using'[t] = d /\ device'[d] = "open"
  <2>1. ~disturbed /\ \A u \in Threads : Idle(u)
    BY <1>7 DEF Enters
  <2>2. /\ pc' = [pc EXCEPT ![t] = where] /\ using' = [using EXCEPT ![t] = d]
        /\ device[d] = "open" /\ device' = device
    BY <1>7 DEF Enters
  <2>3. \A u \in Threads : pc'[u] # "idle" <=> u = t
    BY <2>1, <2>2 DEF Idle, Callers
  <2>4. using'[t] = d
    BY <2>2 DEF Callers
  <2> QED
    BY <2>1, <2>2, <2>3, <2>4 DEF Apart
<1>8. ASSUME NEW t \in Threads, NEW d \in Devices, Execute(t, d) PROVE Apart'
  <2> DEFINE x == allocated'
  <2>1. PICK n \in 1..MaxUnits : AllocateXAction(d, n)
    BY <1>8 DEF Execute
  <2>2. Enters(t, d, "poll") /\ Enqueue(x) /\ done' = done
    BY <1>8 DEF Execute, Enters
  <2>3. /\ ~disturbed
        /\ \A y \in Blocks : ~Live(y)
        /\ \A u \in Threads : pc'[u] # "idle" <=> u = t
        /\ using'[t] = d /\ device'[d] = "open"
    BY <1>7, <2>2
  <2>4. x \in Blocks /\ status[x] = "fresh" /\ hal'[d] = x
    BY <2>1, BlocksLemma DEF AllocateXAction, Memory, Blocks, Callers
  <2> HIDE DEF x
  <2>5. list = <<>>
    BY <2>3, SoleLemma
  <2>6. list' = <<x>>
    BY <2>2, <2>5 DEF Enqueue, Unlinked, Elems
  <2>7. /\ status' = [[status EXCEPT ![x] = "scheduled"] EXCEPT ![x] = "processing"]
        /\ current' = [current EXCEPT ![x] = @ + 1]
    BY <2>2, <2>6 DEF Enqueue, StartNext
  <2>8. /\ status'[x] = "processing" /\ current'[x] = current[x] + 1
        /\ \A y \in Blocks : y # x => status'[y] = status[y]
    BY <1>0, <2>4, <2>7
  <2>9. current[x] = 0 /\ done[x] = 0
    <3>1. current[x] = 0 /\ done[x] <= current[x] /\ done[x] \in Nat
      BY <1>0, <2>4
    <3> QED
      BY <3>1
  <2>10. Units'
    BY <2>2, <2>3, <2>8, <2>9 DEF Units, Live
  <2>11. \A y \in Blocks : status'[y] \notin {"fresh", "freed"} => y = x
    BY <2>3, <2>8 DEF Live
  <2>20. Handed'
    BY <1>0a, <1>8 DEF Calls
  <2> QED
    BY <2>20, <2>3, <2>4, <2>10, <2>11 DEF Apart, Live, Idle
<1>9. ASSUME NEW t \in Threads, NEW d \in Devices, ExecuteInvalid(t, d) PROVE Apart'
  <2> DEFINE x == allocated'
  <2>1. /\ AllocateXAction(d, 1) /\ Enters(t, d, "release") /\ done' = done
        /\ status' = [status EXCEPT ![x] = "idle"]
    BY <1>9 DEF ExecuteInvalid, Enters
  <2>2. /\ ~disturbed
        /\ \A y \in Blocks : ~Live(y)
        /\ \A u \in Threads : pc'[u] # "idle" <=> u = t
        /\ using'[t] = d /\ device'[d] = "open"
    BY <1>7, <2>1
  <2>3. x \in Blocks /\ hal'[d] = x
    BY <2>1, BlocksLemma DEF AllocateXAction, Memory, Blocks, Callers
  <2> HIDE DEF x
  <2>4. status'[x] = "idle" /\ \A y \in Blocks : y # x => status'[y] = status[y]
    BY <1>0, <2>1, <2>3
  <2>5. Units'
    BY <2>2, <2>4 DEF Units, Live
  <2>6. \A y \in Blocks : status'[y] \notin {"fresh", "freed"} => y = x
    BY <2>2, <2>4 DEF Live
  <2>20. Handed'
    BY <1>0a, <1>9 DEF Calls
  <2> QED
    BY <2>20, <2>2, <2>3, <2>5, <2>6 DEF Apart, Live, Idle
<1>10. ASSUME NEW t \in Threads, NEW d \in Devices, ExecuteRefused(t, d) PROVE Apart'
  <2>1. \A y \in Blocks : ~Live(y)
    BY <1>7, <1>10 DEF ExecuteRefused
  <2>2. hal[d] \in Blocks /\ Live(hal[d])
    BY <1>10 DEF ExecuteRefused, DevicePending, Callers, Owned, Live
  <2> QED
    BY <2>1, <2>2
<1>11. ASSUME NEW t \in Threads, Poll(t) \/ WaitEvents(t) PROVE Apart'
  <2>1. UNCHANGED <<device, hal, using, disturbed, units, done, status, current>>
    BY <1>11 DEF Poll, WaitEvents, heap, queues
  <2>2. PICK where \in {"poll", "release", "await", "expire", "waiting"} :
          pc' = [pc EXCEPT ![t] = where]
    BY <1>11 DEF Poll, WaitEvents
  <2>3. ~Idle(t)
    BY <1>11 DEF Poll, WaitEvents, Idle
  <2>4. \A u \in Threads : pc'[u] = "idle" <=> Idle(u)
    BY <2>2, <2>3 DEF Idle, Callers
  <2>20. Handed'
    BY <1>0a, <1>11 DEF Calls, InCall
  <2> QED
    BY <2>20, <2>1, <2>4, ApartKeepLemma DEF Live, Units, Apart
<1>12. ASSUME NEW t \in Threads, Resume(t) PROVE Apart'
  <2>1. UNCHANGED <<device, hal, disturbed, units, done, status, current>> /\ ~Idle(t)
    BY <1>12 DEF Resume, heap, queues, Idle
  <2>2. device[using[t]] = "open"
    BY <2>1 DEF Apart
  <2>3. using' = using /\ pc' = [pc EXCEPT ![t] = "poll"]
    BY <1>12, <2>2 DEF Resume
  <2>4. \A u \in Threads : pc'[u] = "idle" <=> Idle(u)
    BY <2>1, <2>3 DEF Idle, Callers
  <2>20. Handed'
    BY <1>0a, <1>12 DEF Calls, InCall
  <2> QED
    BY <2>20, <2>1, <2>3, <2>4, ApartKeepLemma DEF Live, Units, Apart
<1>13. ASSUME NEW t \in Threads, TimedOut(t) PROVE Apart'
  <2> DEFINE x == hal[using[t]]
  <2>1. /\ UNCHANGED <<device, hal, using, disturbed, units, done>> /\ ~Idle(t)
        /\ pc' = [pc EXCEPT ![t] = "release"] /\ using[t] \in Devices
    BY <1>13 DEF TimedOut, heap, Idle, Callers
  <2>2. \A u \in Threads : pc'[u] = "idle" <=> Idle(u)
    BY <2>1 DEF Idle, Callers
  <2>20. Handed'
    BY <1>0a, <1>13 DEF Calls, InCall
  <2>3. CASE x = None
    <3>1. status' = status /\ current' = current
      BY <1>13, <2>3 DEF TimedOut, queues
    <3> QED
      BY <2>1, <2>2, <2>20, <3>1, ApartKeepLemma DEF Live, Units, Apart
  <2>4. CASE x # None
    <3>1. x \in Blocks /\ Live(x) /\ Cancel(x, "cancelled") /\ ~disturbed
      BY <1>13, <2>1, <2>4 DEF TimedOut, Owned, Callers, Live
    <3> HIDE DEF x
    <3>2. /\ current' = current /\ status'[x] = "cancelled"
          /\ \A y \in Blocks : y # x => status'[y] = status[y]
      BY <3>1, CancelSoleLemma
    <3>3. Units'
      BY <2>1, <3>1, <3>2 DEF Units, Apart
    <3> QED
      BY <2>1, <2>2, <3>1, <3>2, <2>20, <3>3, ApartKeepLemma DEF Live
  <2> QED
    BY <2>3, <2>4
<1>14. ASSUME NEW t \in Threads, Release(t) PROVE Apart'
  <2> DEFINE x == hal[using[t]]
  <2>1. /\ UNCHANGED <<device, disturbed, units, done>> /\ ~Idle(t)
        /\ using[t] \in Devices /\ ReleaseBuffers(using[t]) /\ Returns(t)
    BY <1>14 DEF Release, ReleaseBuffers, Idle, Callers
  <2>2. ~disturbed /\ \A y \in Blocks : Live(y) => y = x
    BY <2>1 DEF Apart
  <2>3. \A u \in Threads : pc'[u] = "idle"
    <3>1. pc' = [pc EXCEPT ![t] = "idle"]
      BY <2>1 DEF Returns
    <3> QED
      BY <2>1, <3>1 DEF Apart, Idle, Callers
  <2>4. (\A y \in Blocks : status'[y] \in {"fresh", "freed"})
    <3>1. CASE x = None
      <4>1. status' = status
        BY <2>1, <3>1 DEF ReleaseBuffers, queues
      <4> QED
        BY <2>2, <3>1, <4>1, BlocksLemma DEF Live
    <3>2. CASE x # None
      <4>1. x \in Blocks /\ Live(x) /\ Cancel(x, "freed")
        BY <2>1, <3>2 DEF ReleaseBuffers, Owned, Callers, Live
      <4> HIDE DEF x
      <4>2. status'[x] = "freed" /\ \A y \in Blocks : y # x => status'[y] = status[y]
        BY <2>2, <4>1, CancelSoleLemma
      <4> QED
        BY <2>2, <4>2 DEF Live
    <3> QED
      BY <3>1, <3>2
  <2>5. Units'
    BY <2>4 DEF Units
  <2>20. Handed'
    BY <1>0a, <1>14 DEF Calls, InCall
  <2> QED
    BY <2>20, <2>3, <2>4, <2>5 DEF Apart, Live, Idle
<1>15. ASSUME NEW t \in Threads, Abort(t) PROVE Apart'
  BY <1>15 DEF Abort
<1>16. ASSUME NEW d \in Devices, Open(d) PROVE Apart'
  <2>1. UNCHANGED <<hal, using, pc, disturbed, units, done, status, current>>
        /\ device' = [device EXCEPT ![d] = "open"]
    BY <1>16 DEF Open, heap, queues, calls
  <2>2. \A t \in Threads : using[t] # d \/ Idle(t) \/ device'[using[t]] = "open"
    BY <2>1 DEF Callers, Idle
  <2>3. \A e \in Devices : device'[e] = device[e] \/ device'[e] = "open"
    BY <2>1 DEF Callers
  <2>4. \A t \in Threads : ~Idle(t) => using[t] \in Devices
    BY DEF Callers
  <2>20. Handed'
    BY <1>0a, <1>16 DEF Others
  <2> QED
    BY <2>20, <2>1, <2>3, <2>4 DEF Apart, Live, Idle, Units
<1>17. ASSUME NEW d \in Devices, Dispose(d) PROVE Apart'
  <2>1. UNCHANGED <<hal, using, pc, units, done, status, current>>
        /\ device' = [device EXCEPT ![d] = "disposed"]
        /\ ~disturbed /\ \A t \in Threads : using[t] # d
    BY <1>17 DEF Dispose, heap, queues, calls
  <2>2. \A e \in Devices : e # d => device'[e] = device[e]
    BY <2>1 DEF Callers
  <2>3. \A t \in Threads : ~Idle(t) => using[t] \in Devices
    BY DEF Callers
  <2>20. Handed'
    BY <1>0a, <1>17 DEF Others
  <2> QED
    BY <2>20, <2>1, <2>2, <2>3 DEF Apart, Live, Idle, Units
<1>18. ASSUME NEW d \in Devices, Collect(d) PROVE Apart'
  <2>1. /\ UNCHANGED <<device, using, pc, disturbed, units, done>> /\ ReleaseBuffers(d)
        /\ \A t \in Threads : using[t] # d
    BY <1>18 DEF Collect, calls, ReleaseBuffers
  <2>2. hal[d] = None
    <3> SUFFICES ASSUME hal[d] # None PROVE FALSE
      OBVIOUS
    <3>1. hal[d] \in Blocks /\ Live(hal[d]) /\ ~disturbed
      BY <2>1 DEF Owned, Callers, Live
    <3>2. PICK t \in Threads : ~Idle(t) /\ hal[using[t]] = hal[d]
      BY <3>1 DEF Apart
    <3>3. using[t] \in Devices
      BY <3>2 DEF Callers
    <3> QED
      BY <2>1, <3>1, <3>2, <3>3 DEF Owned
  <2>3. status' = status /\ current' = current /\ hal' = hal
    BY <2>1, <2>2 DEF ReleaseBuffers, queues, Callers
  <2>20. Handed'
    BY <1>0a, <1>18 DEF Others
  <2> QED
    BY <2>20, <2>1, <2>3, ApartKeepLemma DEF Live, Idle, Units, Apart
<1> QED
  BY <1>1, <1>2, <1>3, <1>4, <1>5, <1>6, <1>8, <1>9, <1>10, <1>11, <1>12,
     <1>13, <1>14, <1>15, <1>16, <1>17, <1>18, <1>19 DEF Next, InCall

LEMMA ApartWhole == Inv /\ Apart => WholeTransfers
<1> SUFFICES ASSUME Inv, Apart, ~disturbed
             PROVE  /\ overtaken = {} /\ Units
                    /\ (\A t \in Threads : Idle(t)) =>
                         \A x \in 1..allocated : status[x] = "freed"
  BY DEF WholeTransfers, Units
<1>1. ASSUME \A t \in Threads : Idle(t), NEW x \in 1..allocated
      PROVE  status[x] = "freed"
  <2>1. x \in Blocks /\ ~(x > allocated)
    BY BlocksLemma DEF Inv, Memory, Blocks
  <2>2. status[x] # "fresh"
    BY <2>1 DEF Inv, Memory
  <2> QED
    BY <1>1, <2>1, <2>2 DEF Apart, Live
<1> QED
  BY <1>1 DEF Apart, Handed

(* Undisturbed calls transfer every unit of a transaction once, complete   *)
(* it after its last unit only, leave no transaction behind, and have no   *)
(* callback overtaken by the interrupt, for any number of threads, devices *)
(* and units (Execute, ISR, CompletedCallback, ReleaseBuffers).            *)
THEOREM TransfersAreWhole == Spec => []WholeTransfers
<1>1. Init => Inv /\ Apart
  BY InitInv, InitApart
<1>2. Inv /\ Apart /\ [Next]_vars => (Inv /\ Apart)'
  BY NextInv, NextApart
<1>3. Inv /\ Apart => WholeTransfers
  BY ApartWhole
<1> QED
  BY <1>1, <1>2, <1>3, PTL DEF Spec

=============================================================================
