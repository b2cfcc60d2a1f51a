---------------------------- MODULE TschTxProofs ----------------------------
(***************************************************************************)
(* Machine-checked theorems about the transmit path, for any size of the   *)
(* rings and of the packet pool, any number of transmissions and packets,  *)
(* any change of cells and either rule: a packet has one owner and one     *)
(* answer, unless the implicit-ack rule loses it, and a Tx slot keeps its  *)
(* packet and its link, when no flush preempts it.                         *)
(***************************************************************************)
EXTENDS TschTx, FiniteSetTheorems, WellFoundedInduction, TLAPS

-----------------------------------------------------------------------------
(***************************************************************************)
(* Sequences of blocks                                                     *)
(***************************************************************************)

Els(s) == {s[i] : i \in 1 .. Len(s)}
Distinct(s) == \A i, j \in 1 .. Len(s) : s[i] = s[j] => i = j

\* r is q without its head, with b at its end, or with its i-th moved ahead.
Popped(q, r) == /\ Len(q) # 0 /\ Len(r) = Len(q) - 1
                /\ \A k \in 1 .. Len(r) : r[k] = q[k + 1]
Pushed(q, b, r) == /\ Len(r) = Len(q) + 1
                   /\ \A k \in 1 .. Len(q) : r[k] = q[k]
                   /\ r[Len(r)] = b
Advanced(q, i, r) == /\ Len(r) = Len(q) /\ r[1] = q[i]
                     /\ \A k \in 2 .. i : r[k] = q[k - 1]
                     /\ \A k \in i + 1 .. Len(q) : r[k] = q[k]

LEMMA PoppedEls ==
  ASSUME NEW S, NEW q \in Seq(S), NEW r \in Seq(S), Popped(q, r), Distinct(q)
  PROVE  /\ Distinct(r) /\ Els(r) = Els(q) \ {q[1]} /\ q[1] \in Els(q)
<1>1. Distinct(r)
  BY DEF Popped, Distinct
<1>2. ASSUME NEW x \in Els(r) PROVE x \in Els(q) /\ x # q[1]
  <2>1. PICK k \in 1 .. Len(r) : x = r[k]
    BY DEF Els
  <2>2. k + 1 \in 1 .. Len(q) /\ 1 \in 1 .. Len(q) /\ x = q[k + 1]
    BY <2>1 DEF Popped
  <2> QED
    BY <2>2 DEF Els, Distinct
<1>3. ASSUME NEW x \in Els(q), x # q[1] PROVE x \in Els(r)
  <2>1. PICK k \in 1 .. Len(q) : x = q[k]
    BY DEF Els
  <2>2. k - 1 \in 1 .. Len(r) /\ r[k - 1] = q[(k - 1) + 1] /\ (k - 1) + 1 = k
    BY <1>3, <2>1 DEF Popped
  <2> QED
    BY <2>1, <2>2 DEF Els
<1>4. q[1] \in Els(q)
  BY DEF Els, Popped
<1> QED
  BY <1>1, <1>2, <1>3, <1>4

LEMMA PushedEls ==
  ASSUME NEW S, NEW q \in Seq(S), NEW b \in S \ Els(q), NEW r \in Seq(S),
         Pushed(q, b, r), Distinct(q)
  PROVE  Distinct(r) /\ Els(r) = Els(q) \cup {b}
<1>1. Distinct(r)
  BY DEF Pushed, Distinct, Els
<1>2. ASSUME NEW x \in Els(r) PROVE x \in Els(q) \cup {b}
  BY <1>2 DEF Pushed, Els
<1>3. ASSUME NEW x \in Els(q) PROVE x \in Els(r)
  <2>1. PICK k \in 1 .. Len(q) : x = q[k]
    BY DEF Els
  <2> QED
    BY <2>1 DEF Pushed, Els
<1>4. b \in Els(r)
  BY DEF Pushed, Els
<1> QED
  BY <1>1, <1>2, <1>3, <1>4

LEMMA AdvancedEls ==
  ASSUME NEW S, NEW q \in Seq(S), NEW i \in 1 .. Len(q), NEW r \in Seq(S),
         Advanced(q, i, r), Distinct(q)
  PROVE  Distinct(r) /\ Els(r) = Els(q)
<1> DEFINE From(k) == IF k = 1 THEN i ELSE IF k \in 2 .. i THEN k - 1 ELSE k
<1>1. \A k \in 1 .. Len(r) : From(k) \in 1 .. Len(q) /\ r[k] = q[From(k)]
  BY DEF Advanced
<1>2. \A j, k \in 1 .. Len(r) : From(j) = From(k) => j = k
  BY DEF Advanced
<1>3. \A k \in 1 .. Len(q) : \E j \in 1 .. Len(r) : From(j) = k
  <2> TAKE k \in 1 .. Len(q)
  <2>1. CASE k = i
    BY <2>1 DEF Advanced
  <2>2. CASE k < i
    <3>1. k + 1 \in 1 .. Len(r) /\ k + 1 # 1 /\ k + 1 \in 2 .. i /\ (k + 1) - 1 = k
      BY <2>2 DEF Advanced
    <3> QED
      BY <3>1
  <2>3. CASE k > i
    <3>1. k \in 1 .. Len(r) /\ k # 1 /\ k \notin 2 .. i
      BY <2>3 DEF Advanced
    <3> QED
      BY <3>1
  <2> QED
    BY <2>1, <2>2, <2>3
<1> HIDE DEF From
<1>4. Distinct(r)
  BY <1>1, <1>2 DEF Distinct
<1>5. Els(r) \subseteq Els(q)
  BY <1>1 DEF Els
<1>6. ASSUME NEW e \in Els(q) PROVE e \in Els(r)
  <2>1. PICK k \in 1 .. Len(q) : e = q[k]
    BY DEF Els
  <2>2. PICK j \in 1 .. Len(r) : From(j) = k
    BY <1>3
  <2> QED
    BY <1>1, <2>1, <2>2 DEF Els
<1> QED
  BY <1>4, <1>5, <1>6

-----------------------------------------------------------------------------
(***************************************************************************)
(* The ring buffer as a sequence                                           *)
(***************************************************************************)

\* The number of entries from index g up to index p, the index of the i-th,
\* and the entries themselves in array a.
Cnt(g, p) == (p - g) % RingSize
Pos(g, i) == (g + i - 1) % RingSize
After(g) == (g + 1) % RingSize
QueueOf(a, g, p) == [i \in 1 .. Cnt(g, p) |-> a[Pos(g, i)]]

Slots == [Index -> {Null} \cup Block]

LEMMA RingType == RingSize \in Nat /\ RingSize >= 2
<1>1. RingSize \in {RingSize, DequeuedSize}
  OBVIOUS
<1>2. RingSize \in {2, 4, 8, 16, 32, 64, 128}
  BY <1>1, TxAssumption, Zenon
<1> QED
  BY <1>2

\* Index arithmetic: one turn of the ring at most.
LEMMA Wrap ==
  ASSUME NEW x \in -RingSize .. 2 * RingSize - 1
  PROVE  x % RingSize = IF x < 0 THEN x + RingSize
                        ELSE IF x < RingSize THEN x ELSE x - RingSize
  BY RingType

LEMMA CntIs ==
  ASSUME NEW g \in Index, NEW p \in Index
  PROVE  /\ Cnt(g, p) \in 0 .. RingSize - 1
         /\ Cnt(g, p) = IF p >= g THEN p - g ELSE p - g + RingSize
<1>1. p - g \in -RingSize .. 2 * RingSize - 1
  BY RingType DEF Index
<1>2. Cnt(g, p) = IF p >= g THEN p - g ELSE p - g + RingSize
  BY <1>1, Wrap, RingType DEF Index, Cnt
<1> QED
  BY <1>2, RingType DEF Index

LEMMA PosIs ==
  ASSUME NEW g \in Index, NEW i \in 1 .. RingSize - 1
  PROVE  /\ Pos(g, i) \in Index
         /\ Pos(g, i) = IF g + i - 1 < RingSize THEN g + i - 1
                        ELSE g + i - 1 - RingSize
<1>1. g + i - 1 \in -RingSize .. 2 * RingSize - 1
  BY RingType DEF Index
<1>2. Pos(g, i) = IF g + i - 1 < RingSize THEN g + i - 1
                  ELSE g + i - 1 - RingSize
  BY <1>1, Wrap, RingType DEF Index, Pos
<1> QED
  BY <1>2, RingType DEF Index

LEMMA AfterIs ==
  ASSUME NEW g \in Index
  PROVE  After(g) \in Index /\ After(g) = IF g = RingSize - 1 THEN 0 ELSE g + 1
<1>1. g + 1 \in -RingSize .. 2 * RingSize - 1
  BY RingType DEF Index
<1>2. After(g) = IF g + 1 < RingSize THEN g + 1 ELSE g + 1 - RingSize
  BY <1>1, Wrap, RingType DEF Index, After
<1> QED
  BY <1>2, RingType DEF Index

\* The i-th entry after the head is the next one of the rest, and the index
\* behind the last entry is the put index.
LEMMA PosMoves ==
  ASSUME NEW g \in Index, NEW p \in Index
  PROVE  /\ Pos(g, 1) = g
         /\ \A i \in 1 .. RingSize - 2 : Pos(After(g), i) = Pos(g, i + 1)
         /\ Cnt(g, p) # 0 => Cnt(After(g), p) = Cnt(g, p) - 1
         /\ Cnt(g, p) # RingSize - 1 =>
              Cnt(g, After(p)) = Cnt(g, p) + 1 /\ Pos(g, Cnt(g, p) + 1) = p
         /\ \A i \in 1 .. Cnt(g, p) : Pos(g, i) # p
<1> USE RingType
<1>1. After(g) \in Index /\ After(g) = IF g = RingSize - 1 THEN 0 ELSE g + 1
  BY AfterIs
<1>2. After(p) \in Index /\ After(p) = IF p = RingSize - 1 THEN 0 ELSE p + 1
  BY AfterIs
<1>3. /\ Cnt(g, p) \in 0 .. RingSize - 1
      /\ Cnt(g, p) = IF p >= g THEN p - g ELSE p - g + RingSize
  BY CntIs
<1>4. Pos(g, 1) = g
  BY 1 \in 1 .. RingSize - 1, PosIs DEF Index
<1>5. ASSUME NEW i \in 1 .. RingSize - 2 PROVE Pos(After(g), i) = Pos(g, i + 1)
  <2>1. Pos(g, i + 1) = IF g + (i + 1) - 1 < RingSize THEN g + (i + 1) - 1
                        ELSE g + (i + 1) - 1 - RingSize
    BY i + 1 \in 1 .. RingSize - 1, PosIs
  <2>2. Pos(After(g), i) = IF After(g) + i - 1 < RingSize THEN After(g) + i - 1
                           ELSE After(g) + i - 1 - RingSize
    BY <1>1, i \in 1 .. RingSize - 1, PosIs
  <2> QED
    BY <1>1, <2>1, <2>2 DEF Index
<1>6. ASSUME Cnt(g, p) # 0 PROVE Cnt(After(g), p) = Cnt(g, p) - 1
  <2>1. Cnt(After(g), p) = IF p >= After(g) THEN p - After(g)
                           ELSE p - After(g) + RingSize
    BY <1>1, CntIs
  <2> QED
    BY <1>1, <1>3, <1>6, <2>1 DEF Index
<1>7. ASSUME Cnt(g, p) # RingSize - 1
      PROVE  Cnt(g, After(p)) = Cnt(g, p) + 1 /\ Pos(g, Cnt(g, p) + 1) = p
  <2>1. Cnt(g, After(p)) = IF After(p) >= g THEN After(p) - g
                           ELSE After(p) - g + RingSize
    BY <1>2, CntIs
  <2> DEFINE c == Cnt(g, p) + 1
  <2>2. c \in 1 .. RingSize - 1 /\ c = IF p >= g THEN p - g + 1 ELSE p - g + RingSize + 1
    BY <1>3, <1>7 DEF Index
  <2>3. Pos(g, c) = IF g + c - 1 < RingSize THEN g + c - 1 ELSE g + c - 1 - RingSize
    BY <2>2, PosIs
  <2>4. Pos(g, c) = p
    <3> HIDE DEF c
    <3> QED
      BY <2>2, <2>3 DEF Index
  <2> QED
    BY <1>2, <1>3, <1>7, <2>1, <2>4 DEF Index
<1>8. ASSUME NEW i \in 1 .. Cnt(g, p) PROVE Pos(g, i) # p
  <2>1. i \in 1 .. RingSize - 1
    BY <1>3
  <2>2. Pos(g, i) = IF g + i - 1 < RingSize THEN g + i - 1
                    ELSE g + i - 1 - RingSize
    BY <2>1, PosIs
  <2> QED
    BY <1>3, <2>1, <2>2 DEF Index
<1> QED
  BY <1>4, <1>5, <1>6, <1>7, <1>8

LEMMA QueueOfIs ==
  ASSUME NEW a \in Slots, NEW g \in Index, NEW p \in Index
  PROVE  /\ QueueOf(a, g, p) \in Seq({Null} \cup Block)
         /\ Len(QueueOf(a, g, p)) = Cnt(g, p)
         /\ \A i \in 1 .. Cnt(g, p) : QueueOf(a, g, p)[i] = a[Pos(g, i)]
<1>1. Cnt(g, p) \in Nat /\ Cnt(g, p) <= RingSize - 1
  BY CntIs, RingType
<1>2. \A i \in 1 .. Cnt(g, p) : a[Pos(g, i)] \in {Null} \cup Block
  BY <1>1, PosIs, RingType DEF Slots
<1> QED
  BY <1>1, <1>2 DEF QueueOf

\* ringbufindex_get() drops the head ...
LEMMA RingGet ==
  ASSUME NEW a \in Slots, NEW g \in Index, NEW p \in Index, Cnt(g, p) # 0
  PROVE  /\ Popped(QueueOf(a, g, p), QueueOf(a, After(g), p))
         /\ QueueOf(a, g, p)[1] = a[g]
<1> DEFINE q == QueueOf(a, g, p)
           r == QueueOf(a, After(g), p)
<1>1. Cnt(g, p) \in 1 .. RingSize - 1 /\ Cnt(After(g), p) = Cnt(g, p) - 1
  BY CntIs, PosMoves, RingType
<1>2. Len(q) = Cnt(g, p) /\ \A i \in 1 .. Cnt(g, p) : q[i] = a[Pos(g, i)]
  BY QueueOfIs
<1>3. Len(r) = Cnt(g, p) - 1 /\ \A i \in 1 .. Cnt(g, p) - 1 : r[i] = a[Pos(After(g), i)]
  BY <1>1, AfterIs, QueueOfIs
<1>4. \A i \in 1 .. Cnt(g, p) - 1 : Pos(After(g), i) = Pos(g, i + 1)
  BY <1>1, PosMoves, RingType
<1>5. q[1] = a[g]
  BY <1>1, <1>2, PosMoves
<1> HIDE DEF q, r
<1>6. Popped(q, r)
  BY <1>1, <1>2, <1>3, <1>4 DEF Popped
<1> QED
  BY <1>5, <1>6 DEF q, r

\* ... and ringbufindex_put() appends what was written at the put index.
LEMMA RingPut ==
  ASSUME NEW a \in Slots, NEW g \in Index, NEW p \in Index,
         Cnt(g, p) # RingSize - 1
  PROVE  Pushed(QueueOf(a, g, p), a[p], QueueOf(a, g, After(p)))
<1> DEFINE q == QueueOf(a, g, p)
           r == QueueOf(a, g, After(p))
<1>1. /\ Cnt(g, p) \in 0 .. RingSize - 2 /\ Cnt(g, After(p)) = Cnt(g, p) + 1
      /\ Pos(g, Cnt(g, p) + 1) = p
  BY CntIs, PosMoves, RingType
<1>2. Len(q) = Cnt(g, p) /\ \A i \in 1 .. Cnt(g, p) : q[i] = a[Pos(g, i)]
  BY QueueOfIs
<1>3. Len(r) = Cnt(g, p) + 1 /\ \A i \in 1 .. Cnt(g, p) + 1 : r[i] = a[Pos(g, i)]
  BY <1>1, AfterIs, QueueOfIs
<1> HIDE DEF q, r
<1>4. Pushed(q, a[p], r)
  BY <1>1, <1>2, <1>3 DEF Pushed
<1> QED
  BY <1>4 DEF q, r

\* A write at the put index is not in the queue.
LEMMA RingWrite ==
  ASSUME NEW a \in Slots, NEW g \in Index, NEW p \in Index,
         NEW x \in {Null} \cup Block
  PROVE  /\ [a EXCEPT ![p] = x] \in Slots
         /\ QueueOf([a EXCEPT ![p] = x], g, p) = QueueOf(a, g, p)
<1>1. [a EXCEPT ![p] = x] \in Slots
  BY DEF Slots
<1>2. ASSUME NEW i \in 1 .. Cnt(g, p)
      PROVE  [a EXCEPT ![p] = x][Pos(g, i)] = a[Pos(g, i)]
  <2>1. i \in 1 .. RingSize - 1
    BY CntIs, RingType
  <2>2. Pos(g, i) # p /\ Pos(g, i) \in Index
    BY <2>1, PosMoves, PosIs
  <2> QED
    BY <2>2 DEF Slots
<1> QED
  BY <1>1, <1>2 DEF QueueOf

LEMMA PosInverse ==
  ASSUME NEW g \in Index, NEW i \in 1 .. RingSize - 1
  PROVE  Cnt(g, Pos(g, i)) = i - 1
<1>1. /\ Pos(g, i) \in Index
      /\ Pos(g, i) = IF g + i - 1 < RingSize THEN g + i - 1
                     ELSE g + i - 1 - RingSize
  BY PosIs
<1>2. Cnt(g, Pos(g, i)) = IF Pos(g, i) >= g THEN Pos(g, i) - g
                          ELSE Pos(g, i) - g + RingSize
  BY <1>1, CntIs
<1> QED
  BY <1>1, <1>2, RingType DEF Index

\* tsch_queue_get_packet_for_nbr() moves the i-th packet to the head, keeps the
\* order of the others and writes no other index.
LEMMA RingPromote ==
  ASSUME arr \in Slots, get \in Index, put \in Index, NEW i \in 1 .. Count
  PROVE  /\ Promoted(i) \in Slots
         /\ Advanced(Queue, i, QueueOf(Promoted(i), get, put))
         /\ Promoted(i)[put] = arr[put]
         /\ Promoted(i)[get] = arr[At(i)]
<1> USE RingType
<1> DEFINE a == Promoted(i)
           to(k) == Cnt(get, k) + 1
<1>1. Count = Cnt(get, put) /\ Count \in 0 .. RingSize - 1
  BY CntIs DEF Count, Cnt
<1>2. \A j \in 1 .. RingSize - 1 : At(j) = Pos(get, j) /\ At(j) \in Index
  BY PosIs DEF At, Pos
<1>3. \A k \in Index : a[k] = IF to(k) = 1 THEN arr[At(i)]
                              ELSE IF to(k) \in 2 .. i THEN arr[At(to(k) - 1)]
                              ELSE arr[k]
  BY CntIs DEF Promoted, Cnt
<1>4. a \in Slots
  <2>1. a = [k \in Index |-> a[k]]
    BY DEF Promoted
  <2>2. ASSUME NEW k \in Index PROVE a[k] \in {Null} \cup Block
    <3>1. to(k) \in Nat
      BY CntIs
    <3>2. to(k) \in 2 .. i => to(k) - 1 \in 1 .. RingSize - 1
      BY <1>1, <3>1
    <3> QED
      BY <1>1, <1>2, <1>3, <3>2 DEF Slots
  <2> HIDE DEF a
  <2> QED
    BY <2>1, <2>2 DEF Slots
<1>5. \A j \in 1 .. Count : to(Pos(get, j)) = j
  BY <1>1, PosInverse
<1> DEFINE q == Queue
           r == QueueOf(a, get, put)
<1>6. Len(q) = Count /\ \A j \in 1 .. Count : q[j] = arr[Pos(get, j)]
  BY <1>1, <1>2 DEF Queue
<1>7. Len(r) = Count /\ \A j \in 1 .. Count : r[j] = a[Pos(get, j)]
  BY <1>1, <1>4, QueueOfIs
<1>8. \A j \in 1 .. Count : r[j] = IF j = 1 THEN q[i]
                                   ELSE IF j \in 2 .. i THEN q[j - 1] ELSE q[j]
  <2> TAKE j \in 1 .. Count
  <2>1. Pos(get, j) \in Index /\ to(Pos(get, j)) = j
    BY <1>1, <1>2, <1>5
  <2>2. r[j] = IF j = 1 THEN arr[At(i)]
               ELSE IF j \in 2 .. i THEN arr[At(j - 1)] ELSE arr[Pos(get, j)]
    BY <1>3, <1>7, <2>1
  <2>3. j \in 2 .. i => j - 1 \in 1 .. Count
    BY <1>1
  <2>4. \A k \in 1 .. Count : q[k] = arr[At(k)]
    BY <1>1, <1>2, <1>6
  <2> HIDE DEF q, r, to
  <2> QED
    BY <1>6, <2>2, <2>3, <2>4
<1>9. Advanced(q, i, r)
  <2> HIDE DEF q, r
  <2> QED
    BY <1>1, <1>6, <1>7, <1>8 DEF Advanced
<1>10. to(put) = Count + 1 /\ to(get) = 1
  <2>1. Pos(get, 1) = get
    BY PosMoves
  <2> QED
    BY <1>1, <1>5, <2>1
<1>11. a[put] = arr[put] /\ a[get] = arr[At(i)]
  BY <1>1, <1>3, <1>10
<1> QED
  BY <1>4, <1>9, <1>11

-----------------------------------------------------------------------------
(***************************************************************************)
(* The first packet of a slotframe                                         *)
(***************************************************************************)

\* A non-empty set of numbers has a least one.
LEMMA LeastNumber ==
  ASSUME NEW S \in SUBSET Nat, S # {}
  PROVE  Min(S) \in S /\ \A y \in S : Min(S) <= y
<1> DEFINE R == OpToRel(<, Nat)
<1>1. R = {ss \in Nat \X Nat : ss[1] < ss[2]}
  BY Zenon DEF OpToRel
<1>2. IsWellFoundedOn(R, Nat)
  BY NatLessThanWellFounded
<1> HIDE DEF R
<1>3. PICK x \in S : \A y \in S : ~(<<y, x>> \in R)
  BY <1>2, WFMin
<1>4. ASSUME NEW y \in S PROVE x <= y
  <2>1. <<y, x>> \in Nat \X Nat /\ <<y, x>>[1] = y /\ <<y, x>>[2] = x
    OBVIOUS
  <2>2. ~(<<y, x>>[1] < <<y, x>>[2])
    BY <1>1, <1>3, <2>1, Zenon
  <2> QED
    BY <2>1, <2>2
<1> QED
  BY <1>3, <1>4 DEF Min

LEMMA QueueIs ==
  ASSUME TxTypeOK
  PROVE  /\ arr \in Slots /\ get \in Index /\ put \in Index
         /\ Queue = QueueOf(arr, get, put) /\ Count = Cnt(get, put)
         /\ Queue \in Seq({Null} \cup Block) /\ Len(Queue) = Count
         /\ Count \in 0 .. RingSize - 1
         /\ \A i \in 1 .. Count : Queue[i] = arr[At(i)] /\ At(i) \in Index
<1>1. arr \in Slots /\ get \in Index /\ put \in Index
  BY DEF TxTypeOK, Slots
<1>2. Queue = QueueOf(arr, get, put) /\ Count = Cnt(get, put)
  BY DEF Queue, QueueOf, Count, Cnt, At, Pos
<1>3. \A i \in 1 .. RingSize - 1 : At(i) = Pos(get, i) /\ At(i) \in Index
  BY <1>1, PosIs DEF At, Pos
<1>4. Cnt(get, put) \in 0 .. RingSize - 1
  BY <1>1, CntIs
<1>5. /\ Queue \in Seq({Null} \cup Block) /\ Len(Queue) = Count
      /\ \A i \in 1 .. Count : Queue[i] = arr[Pos(get, i)]
  BY <1>1, <1>2, QueueOfIs
<1>6. ASSUME NEW i \in 1 .. Count PROVE Queue[i] = arr[At(i)] /\ At(i) \in Index
  BY <1>2, <1>3, <1>4, <1>5, RingType
<1> QED
  BY <1>1, <1>2, <1>4, <1>5, <1>6

LEMMA MatchIs ==
  ASSUME TxTypeOK, NEW l, Match(l) # 0
  PROVE  /\ Serves(l) /\ Match(l) \in 1 .. Count
         /\ mem[Queue[Match(l)]].tag = l /\ ~Pending(Queue[Match(l)])
         /\ \A i \in 1 .. Match(l) - 1 : mem[Queue[i]].tag # l \/ Pending(Queue[i])
<1> DEFINE I == {i \in 1 .. Len(Queue) : mem[Queue[i]].tag = l /\ ~Pending(Queue[i])}
<1>1. Serves(l) /\ Match(l) = IF I # {} THEN Min(I) ELSE 0
  BY DEF Match, SelectInSeq
<1>2. Match(l) = Min(I) /\ I # {}
  BY <1>1
<1>3. I \in SUBSET Nat /\ Len(Queue) = Count /\ Count \in Nat
  BY QueueIs, RingType
<1>4. Min(I) \in I /\ \A y \in I : Min(I) <= y
  BY <1>2, <1>3, LeastNumber
<1>5. /\ Match(l) \in 1 .. Count /\ mem[Queue[Match(l)]].tag = l
      /\ ~Pending(Queue[Match(l)])
  BY <1>2, <1>3, <1>4
<1>6. ASSUME NEW i \in 1 .. Match(l) - 1
      PROVE  mem[Queue[i]].tag # l \/ Pending(Queue[i])
  <2>1. i \in 1 .. Len(Queue) /\ ~(Match(l) <= i)
    BY <1>3, <1>5
  <2> QED
    BY <1>2, <1>4, <2>1
<1> QED
  BY <1>1, <1>5, <1>6

-----------------------------------------------------------------------------
(***************************************************************************)
(* The invariant                                                           *)
(***************************************************************************)

\* The block of the packet that is being added.
Adding == IF pc \in {"filled", "written"} THEN {blk} ELSE {}

\* The queue, the dequeued ring and the process adding a packet share the
\* allocated blocks that are not lost among them.
OwnersOK ==
  /\ Distinct(Queue) /\ Distinct(dequeued)
  /\ Els(Queue) \cap Els(dequeued) = {}
  /\ Adding \cap (Els(Queue) \cup Els(dequeued)) = {}
  /\ used \ lost = Els(Queue) \cup Els(dequeued) \cup Adding
  /\ lost \subseteq used /\ (~implicit => lost = {})

\* Room for a packet was checked before it was filled, and stays.
AddingOK ==
  /\ pc \in {"filled", "written"} =>
       /\ blk \in Block /\ Count # RingSize - 1
       /\ mem[blk].id = issued /\ mem[blk].pending = "no"
  /\ pc = "written" => arr[put] = blk

\* Numbers of the packets in blocks u, with contents m, n of them accepted.
Numbered(u, m, n, ans) ==
  /\ \A b \in u : m[b].id \in 1 .. n
  /\ \A b, c \in u : m[b].id = m[c].id => b = c
  /\ \A i \in Id : ans[i] = IF i <= n /\ \A b \in u : m[b].id # i THEN 1 ELSE 0

\* A packet that may still be sent has transmissions left; one that is pending
\* was sent.
SentOK ==
  \A b \in Els(Queue) \cup Adding :
    IF Pending(b) THEN mem[b].sent > 0 ELSE mem[b].sent < MaxTransmissions

\* Only the implicit-ack rule sends without asking for an ACK.
QuietOK == \A b \in Block : mem[b].quiet \/ mem[b].pending # "no" => implicit

\* The order of packets of one slotframe, but for those that are pending.
Ordered(q, m) ==
  \A i, j \in 1 .. Len(q) :
    i < j /\ m[q[i]].tag = m[q[j]].tag /\ m[q[j]].pending = "no"
      => m[q[i]].id < m[q[j]].id

\* A Tx slot has the head of the queue, and room to report it; a packet that is
\* due is the head.
FlightOK ==
  /\ slot = "tx" => /\ Count # 0 /\ arr[get] = packet /\ ~Pending(packet)
                    /\ Len(dequeued) < DequeuedSize - 1
  /\ slot = "due" => Count # 0 /\ Pending(arr[get])

LockOK == /\ locked <=> pc = "locked"
          /\ pc \in {"locking", "locked"} => resized < Resizes
          /\ TxSlotUndisturbed

TxInv == /\ TxTypeOK /\ OwnersOK /\ AddingOK /\ SentOK /\ QuietOK /\ FlightOK /\ LockOK
         /\ Numbered(used, mem, issued, answers) /\ Ordered(Queue, mem)

-----------------------------------------------------------------------------
(***************************************************************************)
(* Order and numbers                                                       *)
(***************************************************************************)

LEMMA PoppedOrder ==
  ASSUME NEW S, NEW q \in Seq(S), NEW r \in Seq(S), NEW m, Popped(q, r), Ordered(q, m)
  PROVE  Ordered(r, m)
<1> SUFFICES ASSUME NEW i \in 1 .. Len(r), NEW j \in 1 .. Len(r), i < j,
                    m[r[i]].tag = m[r[j]].tag, m[r[j]].pending = "no"
             PROVE  m[r[i]].id < m[r[j]].id
  BY DEF Ordered
<1>1. i + 1 \in 1 .. Len(q) /\ j + 1 \in 1 .. Len(q) /\ i + 1 < j + 1
  BY DEF Popped
<1>2. r[i] = q[i + 1] /\ r[j] = q[j + 1]
  BY DEF Popped
<1> QED
  BY <1>1, <1>2 DEF Ordered

LEMMA PushedOrder ==
  ASSUME NEW S, NEW q \in Seq(S), NEW r \in Seq(S), NEW b, NEW m,
         Pushed(q, b, r), Ordered(q, m), \A e \in Els(q) : m[e].id < m[b].id
  PROVE  Ordered(r, m)
<1> SUFFICES ASSUME NEW i \in 1 .. Len(r), NEW j \in 1 .. Len(r), i < j,
                    m[r[i]].tag = m[r[j]].tag, m[r[j]].pending = "no"
             PROVE  m[r[i]].id < m[r[j]].id
  BY DEF Ordered
<1>1. i \in 1 .. Len(q) /\ r[i] = q[i] /\ q[i] \in Els(q)
  BY DEF Pushed, Els
<1>2. CASE j \in 1 .. Len(q)
  BY <1>1, <1>2 DEF Pushed, Ordered
<1>3. CASE j = Len(r)
  BY <1>1, <1>3 DEF Pushed
<1> QED
  BY <1>2, <1>3 DEF Pushed

LEMMA AdvancedOrder ==
  ASSUME NEW S, NEW q \in Seq(S), NEW r \in Seq(S), NEW i \in 1 .. Len(q), NEW m,
         Advanced(q, i, r), Ordered(q, m),
         \A k \in 1 .. i - 1 : m[q[k]].tag # m[q[i]].tag \/ m[q[k]].pending # "no"
  PROVE  Ordered(r, m)
<1> SUFFICES ASSUME NEW j \in 1 .. Len(r), NEW k \in 1 .. Len(r), j < k,
                    m[r[j]].tag = m[r[k]].tag, m[r[k]].pending = "no"
             PROVE  m[r[j]].id < m[r[k]].id
  BY DEF Ordered
<1>1. CASE j = 1 /\ k \in 2 .. i
  BY <1>1, k - 1 \in 1 .. i - 1 DEF Advanced
<1>2. CASE j = 1 /\ k > i
  BY <1>2 DEF Advanced, Ordered
<1>3. CASE j \in 2 .. i /\ k \in 2 .. i
  <2>1. j - 1 \in 1 .. Len(q) /\ k - 1 \in 1 .. Len(q) /\ j - 1 < k - 1
    BY <1>3
  <2> QED
    BY <1>3, <2>1 DEF Advanced, Ordered
<1>4. CASE j \in 2 .. i /\ k > i
  <2>1. j - 1 \in 1 .. Len(q) /\ j - 1 < k
    BY <1>4
  <2> QED
    BY <1>4, <2>1 DEF Advanced, Ordered
<1>5. CASE j > i /\ k > i
  BY <1>5 DEF Advanced, Ordered
<1> QED
  BY <1>1, <1>2, <1>3, <1>4, <1>5

LEMMA SmallNumbers ==
  /\ MaxTransmissions \in Nat \ {0} /\ Packets \in Nat /\ Resizes \in Nat
  /\ PoolSize \in Nat \ {0}
  /\ MinBe \in Nat /\ MaxBe \in 0 .. 16 /\ MinBe <= MaxBe
  /\ DequeuedSize \in Nat /\ DequeuedSize >= 2
<1>1. /\ DequeuedSize \in {RingSize, DequeuedSize}
      /\ MaxTransmissions \in {PoolSize, MaxTransmissions}
      /\ PoolSize \in {PoolSize, MaxTransmissions}
  OBVIOUS
<1>2. DequeuedSize \in {2, 4, 8, 16, 32, 64, 128}
  BY <1>1, TxAssumption, Zenon
<1>3. MaxTransmissions \in Nat \ {0} /\ PoolSize \in Nat \ {0}
  BY <1>1, TxAssumption, Zenon
<1> QED
  BY <1>2, <1>3, TxAssumption

\* The sent callback runs for a packet that leaves: one block, one answer.
LEMMA AnswerNumbers ==
  ASSUME TxTypeOK, NEW b \in used, Answer(b), mem' = mem, issued' = issued,
         Numbered(used, mem, issued, answers)
  PROVE  Numbered(used, mem, issued, answers)' /\ answers' \in [Id -> Nat]
<1>1. mem[b].id \in Id /\ issued \in Nat
  <2>1. mem[b].id \in 1 .. issued
    BY DEF Numbered
  <2>2. issued \in 0 .. Packets
    BY DEF TxTypeOK
  <2> QED
    BY <2>1, <2>2, SmallNumbers DEF Id
<1>2. \A i \in Id : answers'[i] = IF i = mem[b].id THEN answers[i] + 1 ELSE answers[i]
  BY <1>1 DEF Answer, TxTypeOK
<1>3. answers' \in [Id -> Nat]
  BY <1>1 DEF Answer, TxTypeOK
<1>4. used' = used \ {b}
  BY DEF Answer
<1> QED
  BY <1>1, <1>2, <1>3, <1>4 DEF Numbered

-----------------------------------------------------------------------------
(***************************************************************************)
(* Every step keeps the invariant                                          *)
(***************************************************************************)

LEMMA Powers == \A e \in 0 .. 16 : 2^e \in Nat \ {0}
<1>1. /\ 2^0 \in Nat \ {0} /\ 2^1 \in Nat \ {0} /\ 2^2 \in Nat \ {0}
      /\ 2^3 \in Nat \ {0} /\ 2^4 \in Nat \ {0} /\ 2^5 \in Nat \ {0}
      /\ 2^6 \in Nat \ {0} /\ 2^7 \in Nat \ {0} /\ 2^8 \in Nat \ {0}
  OBVIOUS
<1>2. /\ 2^9 \in Nat \ {0} /\ 2^10 \in Nat \ {0} /\ 2^11 \in Nat \ {0}
      /\ 2^12 \in Nat \ {0} /\ 2^13 \in Nat \ {0} /\ 2^14 \in Nat \ {0}
      /\ 2^15 \in Nat \ {0} /\ 2^16 \in Nat \ {0}
  OBVIOUS
<1> TAKE e \in 0 .. 16
<1>3. \/ e = 0 \/ e = 1 \/ e = 2 \/ e = 3 \/ e = 4 \/ e = 5 \/ e = 6 \/ e = 7
      \/ e = 8 \/ e = 9 \/ e = 10 \/ e = 11 \/ e = 12 \/ e = 13 \/ e = 14
      \/ e = 15 \/ e = 16
  OBVIOUS
<1> QED
  BY <1>1, <1>2, <1>3, Zenon

LEMMA TxInvInit == Init => TxInv
<1> SUFFICES ASSUME Init PROVE TxInv
  OBVIOUS
<1> USE SmallNumbers, RingType
<1>1. Count = 0 /\ Queue = <<>>
  <2>1. 0 \in Index /\ put = 0 /\ get = 0
    BY DEF Init, Index
  <2>2. Cnt(0, 0) = 0
    BY <2>1, CntIs
  <2>3. Count = 0
    BY <2>1, <2>2 DEF Count, Cnt
  <2> QED
    BY <2>3 DEF Queue
<1>2. TxTypeOK
  <2>1. exponent \in MinBe .. MaxBe /\ window \in 0 .. 2^exponent
    <3>1. MinBe \in 0 .. 16 /\ window = 0 /\ exponent = MinBe
      BY DEF Init
    <3>2. 2^MinBe \in Nat
      BY <3>1, Powers
    <3> QED
      BY <3>1, <3>2
  <2>2. mem \in [Block -> Content]
    BY DEF Init, Content
  <2>3. dequeued \in Seq(Block) /\ Len(dequeued) < DequeuedSize
    BY DEF Init
  <2>4. answers \in [Id -> Nat] /\ arr \in [Index -> {Null} \cup Block]
        /\ get \in Index /\ put \in Index
    BY DEF Init, Index
  <2>5. implicit \in BOOLEAN
    BY TxAssumption DEF Init
  <2>6. /\ used = {} /\ lost = {} /\ cells \subseteq Installable
        /\ pc = "idle" /\ blk = Null /\ packet = Null /\ slot = "off"
        /\ locked = FALSE /\ requested = FALSE
        /\ current = "common" /\ backup = NoLink /\ issued = 0 /\ resized = 0
    BY DEF Init
  <2> QED
    <3>1. {locked, requested, implicit} \subseteq BOOLEAN
      BY <2>5, <2>6
    <3>2. issued \in 0 .. Packets /\ resized \in 0 .. Resizes
      BY <2>6
    <3>3. current \in OwnCells \cup {NoLink, "common", "listen"}
          /\ backup \in {NoLink, "common", "listen"}
      BY <2>6
    <3>4. used \subseteq Block /\ lost \subseteq Block
      BY <2>6
    <3> QED
      BY <2>1, <2>2, <2>3, <2>4, <2>6, <3>1, <3>2, <3>3, <3>4, Zenon DEF TxTypeOK
<1>3. Els(Queue) = {} /\ Els(dequeued) = {} /\ Adding = {}
  BY <1>1 DEF Init, Els, Adding
<1>4. OwnersOK /\ QuietOK
  BY <1>1, <1>3 DEF Init, OwnersOK, Distinct, QuietOK
<1>5. AddingOK /\ SentOK /\ FlightOK /\ LockOK
  BY <1>3 DEF Init, AddingOK, SentOK, FlightOK, LockOK, TxSlotUndisturbed
<1>6. Numbered(used, mem, issued, answers) /\ Ordered(Queue, mem)
  BY <1>1 DEF Init, Numbered, Ordered, Id
<1> QED
  BY <1>2, <1>4, <1>5, <1>6 DEF TxInv

\* Contents m that differ from those of the packets in which link a pending
\* packet still points to.
Alike(m) ==
  /\ m \in [Block -> Content]
  /\ \A b \in Block :
       /\ m[b].id = mem[b].id /\ m[b].tag = mem[b].tag /\ m[b].sent = mem[b].sent
       /\ m[b].quiet = mem[b].quiet
       /\ m[b].pending = "no" <=> mem[b].pending = "no"

\* What allocated blocks are numbered does not depend on the rest, nor does the
\* order if no packet stops to be pending.
LEMMA SameNumbers ==
  ASSUME TxInv, NEW m, \A b \in Block : m[b].id = mem[b].id
  PROVE  Numbered(used, m, issued, answers)
<1>1. used \subseteq Block
  BY DEF TxInv, TxTypeOK
<1> QED
  BY <1>1 DEF TxInv, Numbered

LEMMA SameOrder ==
  ASSUME NEW S, NEW q \in Seq(S), NEW m, NEW n, Ordered(q, m),
         \A b \in Els(q) : /\ n[b].id = m[b].id /\ n[b].tag = m[b].tag
                           /\ n[b].pending = "no" => m[b].pending = "no"
  PROVE  Ordered(q, n)
<1>1. \A i \in 1 .. Len(q) : q[i] \in Els(q)
  BY DEF Els
<1> QED
  BY <1>1 DEF Ordered

\* The queue holds allocated blocks.
LEMMA QueueBlocks ==
  ASSUME TxInv
  PROVE  /\ Els(Queue) \subseteq Block /\ Adding \subseteq Block
         /\ Els(Queue) \cap lost = {} /\ Adding \cap lost = {}
         /\ Els(dequeued) \cap lost = {}
         /\ Queue \in Seq({Null} \cup Block)
<1>1. Queue \in Seq({Null} \cup Block)
  BY QueueIs DEF TxInv
<1> QED
  BY <1>1 DEF TxInv, TxTypeOK, OwnersOK

\* A step that leaves packets, queue and process alone.
LEMMA PacketsKept ==
  ASSUME TxInv, Alike(mem'),
         UNCHANGED <<used, queue, dequeued, blk, issued, answers, implicit, lost>>,
         pc' = pc \/ (pc \notin {"filled", "written"} /\ pc' \notin {"filled", "written"})
  PROVE  /\ OwnersOK' /\ AddingOK' /\ SentOK' /\ QuietOK'
         /\ Numbered(used, mem, issued, answers)' /\ Ordered(Queue, mem)'
         /\ Count' = Count /\ Queue' = Queue
<1>1. Queue' = Queue /\ Count' = Count
  BY DEF queue, Queue, Count, At
<1>2. Adding' = Adding
  BY DEF Adding
<1>3. OwnersOK'
  BY <1>1, <1>2 DEF TxInv, OwnersOK
<1>4. SentOK'
  <2>1. Els(Queue)' = Els(Queue)
    BY <1>1 DEF Els
  <2>2. \A b \in Els(Queue) \cup Adding :
          b \in Block /\ (Pending(b)' <=> Pending(b)) /\ mem'[b].sent = mem[b].sent
    BY QueueBlocks DEF Pending, Alike
  <2> QED
    BY <1>2, <2>1, <2>2 DEF TxInv, SentOK
<1>5. QuietOK'
  BY DEF TxInv, QuietOK, Alike
<1>6. AddingOK'
  BY <1>1 DEF TxInv, AddingOK, queue, Alike
<1>7. Numbered(used, mem, issued, answers)'
  <2>1. Numbered(used, mem', issued, answers)
    BY SameNumbers DEF Alike
  <2> QED
    BY <2>1 DEF Numbered
<1>8. Ordered(Queue, mem)'
  <2>1. Ordered(Queue, mem')
    BY QueueBlocks, SameOrder DEF Alike, TxInv
  <2> QED
    BY <1>1, <2>1 DEF Ordered
<1> QED
  BY <1>1, <1>3, <1>4, <1>5, <1>6, <1>7, <1>8

LEMMA AlikeSelf == TxTypeOK /\ mem' = mem => Alike(mem')
  BY DEF TxTypeOK, Alike

LEMMA WaitedType ==
  ASSUME TxTypeOK, NEW e \in 0 .. 16, NEW w \in 0 .. 2^e, NEW l
  PROVE  Waited(w, l) \in 0 .. 2^e
<1>1. 2^e \in Nat
  BY Powers
<1> DEFINE top == 2^e
<1>2. top \in Nat /\ w \in 0 .. top
  BY <1>1
<1> HIDE DEF top
<1>3. w # 0 => w - 1 \in 0 .. top
  BY <1>2
<1>4. Waited(w, l) \in 0 .. top
  BY <1>2, <1>3 DEF Waited
<1> QED
  BY <1>4 DEF top

LEMMA NextLinksType ==
  ASSUME TxTypeOK, ChooseNext
  PROVE  /\ current' \in OwnCells \cup {NoLink, "common", "listen"}
         /\ backup' \in {NoLink, "common", "listen"}
<1>1. PICK l \in NextLinks : current' = l[1] /\ backup' = l[2]
  BY DEF ChooseNext
<1>2. cells \subseteq OwnCells
  BY DEF TxTypeOK, Installable, OwnCells
<1>3. /\ l[1] \in OwnCells \cup {NoLink, "common", "listen"}
      /\ l[2] \in {NoLink, "common", "listen"}
  BY <1>1, <1>2 DEF NextLinks
<1> QED
  BY <1>1, <1>3

\* The slot is over and the next one, or the search for due packets, begins.
Over == /\ UNCHANGED <<used, arr, put, process, cells, implicit>>
        /\ slot' \in {"off", "due"} /\ packet' = Null
        /\ current' \in OwnCells \cup {NoLink, "common", "listen"}
        /\ backup' \in {NoLink, "common", "listen"}
        /\ FlightOK'

LEMMA EndSlotOver ==
  ASSUME TxTypeOK, EndSlot \/ (SlotOver /\ NextSlot)
  PROVE  Over
<1>1. UNCHANGED <<used, arr, put, process, cells, implicit>> /\ packet' = Null
  BY DEF EndSlot, SlotOver
<1>2. CASE NextSlot
  BY <1>1, <1>2, NextLinksType DEF NextSlot, Over, FlightOK
<1>3. CASE /\ slot' = "due" /\ ~locked
           /\ Count' # 0 /\ mem'[arr[get']].pending # "no"
           /\ UNCHANGED <<current, backup>>
  <2>1. FlightOK'
    BY <1>1, <1>3 DEF FlightOK, Pending
  <2> QED
    BY <1>1, <1>3, <2>1 DEF TxTypeOK, Over
<1> QED
  BY <1>2, <1>3 DEF EndSlot

LEMMA OverLock == TxInv /\ Over => LockOK'
  BY DEF TxInv, LockOK, TxSlotUndisturbed, Over, process

LEMMA BackoffType ==
  ASSUME TxInv
  PROVE  /\ exponent \in MinBe .. MaxBe /\ exponent \in 0 .. 16
         /\ Longer \in MinBe .. MaxBe /\ Longer \in 0 .. 16
         /\ 2^MinBe \in Nat /\ 2^exponent \in Nat /\ 2^Longer \in Nat
         /\ \A l : Waited(window, l) \in 0 .. 2^exponent
<1>1. /\ exponent \in MinBe .. MaxBe /\ exponent \in 0 .. 16
      /\ window \in 0 .. 2^exponent
  BY SmallNumbers DEF TxInv, TxTypeOK
<1>2. Longer \in MinBe .. MaxBe /\ Longer \in 0 .. 16
  BY <1>1, SmallNumbers DEF Longer
<1>3. 2^MinBe \in Nat /\ 2^exponent \in Nat /\ 2^Longer \in Nat
  <2>1. MinBe \in 0 .. 16
    BY SmallNumbers
  <2>2. 2^MinBe \in Nat /\ 2^exponent \in Nat /\ 2^Longer \in Nat
    BY <1>1, <1>2, <2>1, Powers, Zenon
  <2> QED
    BY <2>2
<1>4. \A l : Waited(window, l) \in 0 .. 2^exponent
  BY <1>1, WaitedType DEF TxInv
<1> QED
  BY <1>1, <1>2, <1>3, <1>4

\* The process waits for the lock, takes it, changes the cells, ends a flush.
LEMMA ProcessQuietSteps ==
  ASSUME TxInv, slot # "due", RequestLock \/ TakeLock \/ ChangeCells \/ FlushEnd
  PROVE  TxInv'
<1>1. /\ UNCHANGED <<used, queue, dequeued, blk, issued, answers, implicit, lost, slot>>
      /\ pc \notin {"filled", "written"} /\ pc' \notin {"filled", "written"}
  BY DEF RequestLock, TakeLock, ChangeCells, FlushEnd, air
<1>2. Alike(mem')
  <2>1. CASE mem' = mem
    BY <2>1, AlikeSelf DEF TxInv
  <2>2. CASE ChangeCells
    <3>1. PICK c \in Installable :
                 \/ mem' = mem
                 \/ mem' = [b \in Block |->
                              IF mem[b].tag = c /\ mem[b].pending = "live"
                              THEN [mem[b] EXCEPT !.pending = "stale"] ELSE mem[b]]
      BY <2>2 DEF ChangeCells
    <3>2. CASE mem' = [b \in Block |-> IF mem[b].tag = c /\ mem[b].pending = "live"
                                       THEN [mem[b] EXCEPT !.pending = "stale"]
                                       ELSE mem[b]]
      <4>1. ASSUME NEW b \in Block
            PROVE  /\ mem'[b] \in Content
                   /\ mem'[b].id = mem[b].id /\ mem'[b].tag = mem[b].tag
                   /\ mem'[b].sent = mem[b].sent /\ mem'[b].quiet = mem[b].quiet
                   /\ mem'[b].pending = "no" <=> mem[b].pending = "no"
        <5>1. mem[b] \in Content
          BY DEF TxInv, TxTypeOK
        <5>2. mem'[b] = IF mem[b].tag = c /\ mem[b].pending = "live"
                        THEN [mem[b] EXCEPT !.pending = "stale"] ELSE mem[b]
          BY <3>2
        <5> QED
          BY <5>1, <5>2 DEF Content
      <4>2. mem' \in [Block -> Content]
        BY <3>2, <4>1
      <4> QED
        BY <4>1, <4>2 DEF Alike
    <3> QED
      BY <2>1, <3>1, <3>2
  <2> QED
    BY <2>1, <2>2 DEF RequestLock, TakeLock, FlushEnd
<1>3. /\ OwnersOK' /\ AddingOK' /\ SentOK' /\ QuietOK'
      /\ Numbered(used, mem, issued, answers)' /\ Ordered(Queue, mem)'
      /\ Count' = Count /\ Queue' = Queue
  BY <1>1, <1>2, PacketsKept
<1>4. TxTypeOK'
  <2>1. CASE RequestLock
    BY <2>1 DEF TxInv, TxTypeOK, RequestLock, queue, air, Installable
  <2>2. CASE TakeLock
    BY <2>2 DEF TxInv, TxTypeOK, TakeLock, queue, air, Installable
  <2>3. CASE ChangeCells
    <3>1. resized' \in 0 .. Resizes
      BY <2>3, SmallNumbers DEF TxInv, TxTypeOK, LockOK, ChangeCells
    <3>2. /\ cells' \subseteq Installable
          /\ current' \in OwnCells \cup {NoLink, "common", "listen"}
      BY <2>3 DEF TxInv, TxTypeOK, ChangeCells
    <3>3. mem' \in [Block -> Content]
      BY <1>2 DEF Alike
    <3>4. /\ locked' = FALSE /\ pc' = "idle"
          /\ UNCHANGED <<used, queue, dequeued, blk, requested, issued, answers,
                 slot, packet, backup, window, exponent, implicit, lost>>
      BY <2>3 DEF ChangeCells
    <3> QED
      BY <3>1, <3>2, <3>3, <3>4 DEF TxInv, TxTypeOK, queue, Installable
  <2>4. CASE FlushEnd
    BY <2>4 DEF TxInv, TxTypeOK, FlushEnd, queue, air, Installable
  <2> QED
    BY <2>1, <2>2, <2>3, <2>4
<1>5. FlightOK' /\ LockOK'
  <2>1. CASE RequestLock
    BY <1>3, <2>1 DEF TxInv, FlightOK, LockOK, TxSlotUndisturbed, RequestLock, queue,
                      air, Pending, ServedBy
  <2>2. CASE TakeLock
    BY <1>3, <2>2 DEF TxInv, FlightOK, LockOK, TxSlotUndisturbed, TakeLock, air
  <2>3. CASE ChangeCells
    BY <1>1, <2>3 DEF TxInv, FlightOK, LockOK, TxSlotUndisturbed, ChangeCells
  <2>4. CASE FlushEnd
    BY <1>3, <2>4 DEF TxInv, FlightOK, LockOK, TxSlotUndisturbed, FlushEnd, queue,
                      air, Pending, ServedBy
  <2> QED
    BY <2>1, <2>2, <2>3, <2>4
<1> QED
  BY <1>3, <1>4, <1>5 DEF TxInv

\* Slots that send nothing.
LEMMA SlotQuietSteps ==
  ASSUME TxInv, RxSlotStart \/ RxSlotEnd \/ IdleSlot
  PROVE  TxInv'
<1>1. /\ UNCHANGED <<used, mem, queue, dequeued, process, cells, exponent, implicit,
                     lost>>
      /\ slot' # "tx"
  <2>1. CASE RxSlotStart
    BY <2>1 DEF RxSlotStart
  <2>2. CASE RxSlotEnd \/ IdleSlot
    BY <2>2, EndSlotOver DEF TxInv, RxSlotEnd, IdleSlot, Over, queue
  <2> QED
    BY <2>1, <2>2
<1>2. /\ OwnersOK' /\ AddingOK' /\ SentOK' /\ QuietOK'
      /\ Numbered(used, mem, issued, answers)' /\ Ordered(Queue, mem)'
  BY <1>1, PacketsKept, AlikeSelf DEF process, TxInv
<1>3. window' \in 0 .. 2^exponent
  BY BackoffType DEF RxSlotStart, RxSlotEnd, IdleSlot, TxInv, TxTypeOK
<1>4. /\ current' \in OwnCells \cup {NoLink, "common", "listen"}
      /\ backup' \in {NoLink, "common", "listen"}
      /\ packet' \in {Null} \cup Block /\ slot' \in {"off", "rx", "due"}
      /\ FlightOK'
  <2>1. CASE RxSlotStart
    BY <2>1 DEF TxInv, TxTypeOK, RxSlotStart, Runs, FlightOK
  <2>2. CASE RxSlotEnd \/ IdleSlot
    BY <2>2, EndSlotOver DEF TxInv, RxSlotEnd, IdleSlot, Over
  <2> QED
    BY <2>1, <2>2
<1>5. TxTypeOK'
  BY <1>1, <1>3, <1>4 DEF TxInv, TxTypeOK, queue, process, Installable
<1>6. LockOK'
  BY <1>1 DEF TxInv, LockOK, TxSlotUndisturbed, process
<1> QED
  BY <1>2, <1>4, <1>5, <1>6 DEF TxInv

\* The head of the queue is an entry of it, and so is the packet on the air.
LEMMA HeadIs ==
  ASSUME TxInv, Count # 0
  PROVE  /\ arr[get] \in Els(Queue) /\ arr[get] \in Block /\ Queue[1] = arr[get]
         /\ arr[get] \notin Els(dequeued) /\ arr[get] \notin Adding
         /\ arr[get] \in used /\ arr[get] \notin lost
<1>1. /\ Len(Queue) = Count /\ Count \in 0 .. RingSize - 1 /\ get \in Index
      /\ Queue = QueueOf(arr, get, put) /\ arr \in Slots /\ put \in Index
      /\ Count = Cnt(get, put)
  BY QueueIs DEF TxInv
<1>2. Queue[1] = arr[get]
  BY <1>1, RingGet
<1>3. arr[get] \in Els(Queue)
  BY <1>1, <1>2, RingType DEF Els
<1> QED
  BY <1>2, <1>3, QueueBlocks DEF TxInv, OwnersOK

LEMMA FlightHead ==
  ASSUME TxInv, slot = "tx"
  PROVE  packet \in Els(Queue) /\ packet \in Block /\ packet = arr[get] /\ Count # 0
  BY HeadIs DEF TxInv, FlightOK

\* A packet is accepted: a free block, the next number, no answer yet.
LEMMA AddPacketStep ==
  ASSUME TxInv, slot # "due", AddPacket
  PROVE  TxInv'
<1> DEFINE b == Min(Block \ used)
<1> USE SmallNumbers
<1>1. b \in Block \ used
  <2>1. Block \subseteq Nat
    BY DEF Block
  <2>2. used \subseteq Block /\ used # Block
    BY DEF TxInv, TxTypeOK, AddPacket
  <2>3. Block \ used # {} /\ Block \ used \in SUBSET Nat
    BY <2>1, <2>2
  <2> QED
    BY <2>3, LeastNumber
<1> HIDE DEF b
<1>19. PICK t \in Stamps : \E q \in Quiet(t) :
           /\ used' = used \cup {b} /\ blk' = b
           /\ mem' = [mem EXCEPT ![b] = [id |-> issued + 1, tag |-> t, sent |-> 0,
                                         quiet |-> q, pending |-> "no"]]
  BY DEF AddPacket, b
<1>2. PICK q \in Quiet(t) :
           /\ used' = used \cup {b} /\ blk' = b
           /\ mem' = [mem EXCEPT ![b] = [id |-> issued + 1, tag |-> t, sent |-> 0,
                                         quiet |-> q, pending |-> "no"]]
  BY <1>19
<1>20. /\ issued' = issued + 1 /\ pc' = "filled" /\ pc = "idle" /\ Room
       /\ UNCHANGED <<queue, dequeued, air, cells, locked, requested, answers, resized>>
       /\ issued < Packets
  <2>1. issued \in Nat
    BY DEF TxInv, TxTypeOK
  <2>2. issued < IF implicit THEN ImplicitPackets ELSE Packets
    BY DEF AddPacket
  <2>3. ImplicitPackets \in 0 .. Packets
    BY TxAssumption
  <2>4. issued < Packets
    BY <2>1, <2>2, <2>3
  <2> QED
    BY <2>4 DEF AddPacket
<1>21. t \in OwnCells \cup {"common"} /\ q \in BOOLEAN /\ (q => implicit)
  BY DEF Stamps, Quiet, TxInv, TxTypeOK, Installable, OwnCells
<1>3. /\ \A c \in Block : c # b => mem'[c] = mem[c]
      /\ mem'[b] = [id |-> issued + 1, tag |-> t, sent |-> 0, quiet |-> q,
                    pending |-> "no"]
  BY <1>1, <1>2, <1>20 DEF TxInv, TxTypeOK
<1>4. issued + 1 \in Id /\ issued \in Nat /\ b \in Block
  BY <1>1, <1>2, <1>20 DEF TxInv, TxTypeOK, Id
<1>5. Queue' = Queue /\ Count' = Count /\ dequeued' = dequeued /\ put' = put
  BY <1>2, <1>20 DEF queue, Queue, Count, At
<1>6. Adding = {} /\ Adding' = {b} /\ used \subseteq Block
  BY <1>2, <1>20 DEF Adding, TxInv, TxTypeOK
<1>7. OwnersOK'
  <2>1. UNCHANGED <<implicit, lost>>
    BY <1>20 DEF air
  <2>2. lost \subseteq used /\ b \notin lost
    BY <1>1 DEF TxInv, OwnersOK
  <2>3. used' \ lost' = (used \ lost) \cup {b} /\ lost' \subseteq used'
    BY <1>2, <2>1, <2>2
  <2> QED
    BY <1>1, <1>5, <1>6, <2>1, <2>3 DEF TxInv, OwnersOK
<1>8. \A c \in Els(Queue) : c # b /\ c \in used /\ mem'[c] = mem[c]
  BY <1>1, <1>3, <1>6 DEF TxInv, OwnersOK
<1>9. AddingOK'
  BY <1>2, <1>20, <1>3, <1>4, <1>5 DEF AddingOK, Room
<1>10. SentOK'
  <2>1. \A c \in Els(Queue) : mem'[c] = mem[c]
    BY <1>8
  <2>2. Els(Queue)' = Els(Queue)
    BY <1>5 DEF Els
  <2> QED
    BY <1>3, <1>6, <2>1, <2>2 DEF TxInv, SentOK, Pending
<1>15. QuietOK'
  <2>1. ASSUME NEW c \in Block PROVE (mem'[c].quiet \/ mem'[c].pending # "no") => implicit
    <3>1. CASE c = b
      BY <1>3, <1>21, <3>1
    <3>2. CASE c # b
      BY <1>3, <3>2 DEF TxInv, QuietOK
    <3> QED
      BY <3>1, <3>2
  <2> QED
    BY <1>20, <2>1 DEF QuietOK, air
<1>11. Numbered(used, mem, issued, answers)'
  <2>1. \A c \in used' : mem'[c].id = IF c = b THEN issued + 1 ELSE mem[c].id
    BY <1>2, <1>20, <1>3, <1>6
  <2>2. \A c \in used : mem[c].id \in 1 .. issued
    BY DEF TxInv, Numbered
  <2>3. \A c \in used' : mem'[c].id \in 1 .. issued'
    BY <1>2, <1>20, <1>4, <2>1, <2>2
  <2>4. \A c, d \in used' : mem'[c].id = mem'[d].id => c = d
    BY <1>1, <1>2, <1>20, <1>4, <2>1, <2>2 DEF TxInv, Numbered
  <2>5. ASSUME NEW i \in Id
        PROVE  answers'[i] = IF i <= issued' /\ \A c \in used' : mem'[c].id # i
                             THEN 1 ELSE 0
    <3>1. answers'[i] = answers[i] /\ i \in Nat
      BY <1>2, <1>20 DEF Id
    <3>2. CASE i = issued + 1
      BY <1>2, <1>20, <1>4, <2>1, <3>1, <3>2 DEF TxInv, Numbered
    <3>3. CASE i # issued + 1
      <4>1. (\A c \in used' : mem'[c].id # i) <=> (\A c \in used : mem[c].id # i)
        BY <1>1, <1>2, <1>20, <2>1, <3>3
      <4>2. i <= issued' <=> i <= issued
        BY <1>2, <1>20, <1>4, <3>1, <3>3
      <4> QED
        BY <3>1, <4>1, <4>2 DEF TxInv, Numbered
    <3> QED
      BY <3>2, <3>3
  <2> QED
    BY <2>3, <2>4, <2>5 DEF Numbered
<1>12. Ordered(Queue, mem)'
  <2>1. \A i \in 1 .. Len(Queue) : mem'[Queue[i]] = mem[Queue[i]]
    BY <1>8 DEF Els
  <2> QED
    BY <1>5, <2>1 DEF TxInv, Ordered
<1>13. TxTypeOK'
  <2>1. mem' \in [Block -> Content]
    <3>1. issued + 1 \in 0 .. Packets /\ 0 \in 0 .. MaxTransmissions
      BY <1>4 DEF Id
    <3>2. mem \in [Block -> Content]
      BY DEF TxInv, TxTypeOK
    <3>3. [id |-> issued + 1, tag |-> t, sent |-> 0, quiet |-> q, pending |-> "no"]
            \in Content
      BY <1>21, <3>1 DEF Content
    <3> QED
      BY <1>2, <1>4, <3>2, <3>3
  <2>2. issued' \in 0 .. Packets
    BY <1>20, <1>4 DEF Id
  <2> QED
    BY <1>2, <1>20, <1>4, <1>6, <2>1, <2>2 DEF TxInv, TxTypeOK, queue, air, Installable
<1>14. FlightOK' /\ LockOK'
  <2>1. slot = "tx" => packet \in Block /\ packet # b
    BY <1>8, FlightHead DEF TxInv
  <2>2. FlightOK'
    BY <1>20, <1>3, <1>5, <2>1 DEF TxInv, FlightOK, queue, air, Pending
  <2>3. LockOK'
    BY <1>20 DEF TxInv, LockOK, TxSlotUndisturbed, ServedBy, air
  <2> QED
    BY <2>2, <2>3
<1> QED
  BY <1>7, <1>9, <1>10, <1>11, <1>12, <1>13, <1>14, <1>15 DEF TxInv

\* The entry is written behind the queue ...
LEMMA WriteEntryStep ==
  ASSUME TxInv, slot # "due", WriteEntry
  PROVE  TxInv'
<1>1. /\ blk \in Block /\ Count # RingSize - 1 /\ pc = "filled" /\ pc' = "written"
      /\ arr' = [arr EXCEPT ![put] = blk]
      /\ UNCHANGED <<used, mem, get, put, dequeued, air, cells, blk, locked,
                     requested, issued, answers, resized>>
  BY DEF WriteEntry, TxInv, AddingOK
<1>2. /\ arr \in Slots /\ get \in Index /\ put \in Index
      /\ Queue = QueueOf(arr, get, put) /\ Count = Cnt(get, put)
  BY QueueIs DEF TxInv
<1>3. arr' \in Slots /\ QueueOf(arr', get, put) = QueueOf(arr, get, put)
  BY <1>1, <1>2, RingWrite
<1>4. Queue' = QueueOf(arr', get', put') /\ Count' = Cnt(get', put')
  BY DEF Queue, QueueOf, Count, Cnt, At, Pos
<1>5. Queue' = Queue /\ Count' = Count /\ Adding' = Adding
  BY <1>1, <1>2, <1>3, <1>4 DEF Adding
<1>6. OwnersOK' /\ SentOK' /\ QuietOK' /\ Ordered(Queue, mem)'
      /\ Numbered(used, mem, issued, answers)'
  <2>1. mem' = mem /\ implicit' = implicit /\ lost' = lost /\ Els(Queue)' = Els(Queue)
    BY <1>1, <1>5 DEF air, Els
  <2>2. SentOK' /\ QuietOK'
    BY <1>5, <2>1 DEF TxInv, SentOK, QuietOK, Pending
  <2> QED
    BY <1>1, <1>5, <2>1, <2>2 DEF TxInv, OwnersOK, Ordered, Numbered
<1>7. AddingOK'
  BY <1>1, <1>2, <1>5 DEF TxInv, AddingOK, Slots
<1>8. TxTypeOK'
  BY <1>1, <1>3 DEF TxInv, TxTypeOK, Slots, air, Installable
<1>9. FlightOK'
  <2> SUFFICES ASSUME slot = "tx"
               PROVE  /\ Count # 0 /\ arr'[get] = packet /\ ~Pending(packet)
                      /\ Len(dequeued) < DequeuedSize - 1
    BY <1>1, <1>5 DEF FlightOK, air, Pending
  <2>1. /\ Count # 0 /\ arr[get] = packet /\ ~Pending(packet)
        /\ Len(dequeued) < DequeuedSize - 1
    BY DEF TxInv, FlightOK
  <2>2. get # put
    <3>1. Cnt(get, put) = IF put >= get THEN put - get ELSE put - get + RingSize
      BY <1>2, CntIs
    <3> QED
      BY <1>2, <2>1, <3>1, RingType DEF Index
  <2> QED
    BY <1>1, <1>2, <2>1, <2>2 DEF Slots
<1>10. LockOK'
  BY <1>1 DEF TxInv, LockOK, TxSlotUndisturbed, ServedBy, air
<1> QED
  BY <1>6, <1>7, <1>8, <1>9, <1>10 DEF TxInv

\* ... and enters it with the put index.
LEMMA CommitEntryStep ==
  ASSUME TxInv, slot # "due", CommitEntry
  PROVE  TxInv'
<1>1. /\ blk \in Block /\ Count # RingSize - 1 /\ arr[put] = blk
      /\ mem[blk].id = issued /\ mem[blk].pending = "no"
      /\ pc = "written" /\ pc' = "idle" /\ put' = After(put) /\ blk' = Null
      /\ UNCHANGED <<used, mem, arr, get, dequeued, air, cells, locked, requested,
                     issued, answers, resized>>
  BY DEF CommitEntry, TxInv, AddingOK, After
<1>2. /\ arr \in Slots /\ get \in Index /\ put \in Index
      /\ Queue = QueueOf(arr, get, put) /\ Count = Cnt(get, put)
      /\ Queue \in Seq({Null} \cup Block) /\ Count \in 0 .. RingSize - 1
  BY QueueIs DEF TxInv
<1>3. Queue' = QueueOf(arr', get', put') /\ Count' = Cnt(get', put')
  BY DEF Queue, QueueOf, Count, Cnt, At, Pos
<1>4. put' \in Index
  BY <1>1, <1>2, AfterIs
<1>5. Queue' \in Seq({Null} \cup Block) /\ Count' = Count + 1
  BY <1>1, <1>2, <1>3, <1>4, QueueOfIs, PosMoves
<1>6. Pushed(Queue, blk, Queue')
  BY <1>1, <1>2, <1>3, RingPut
<1>7. Adding = {blk} /\ Adding' = {}
  BY <1>1 DEF Adding
<1>8. blk \in ({Null} \cup Block) \ Els(Queue) /\ Distinct(Queue)
  BY <1>1, <1>7 DEF TxInv, OwnersOK
<1>9. Distinct(Queue') /\ Els(Queue') = Els(Queue) \cup {blk}
  BY <1>2, <1>5, <1>6, <1>8, PushedEls
<1>10. Els(Queue)' = Els(Queue') /\ Els(dequeued)' = Els(dequeued)
       /\ Distinct(Queue)' = Distinct(Queue') /\ Distinct(dequeued)' = Distinct(dequeued)
  BY <1>1 DEF Els, Distinct
<1>11. OwnersOK'
  BY <1>1, <1>7, <1>9, <1>10 DEF TxInv, OwnersOK, air
<1>12. SentOK' /\ QuietOK'
  BY <1>1, <1>7, <1>9, <1>10 DEF TxInv, SentOK, QuietOK, Pending, air
<1>13. Ordered(Queue', mem)
  <2>1. ASSUME NEW e \in Els(Queue) PROVE mem[e].id < mem[blk].id
    <3>1. e \in used /\ blk \in used /\ e # blk
      BY <1>7, <1>8 DEF TxInv, OwnersOK
    <3>2. mem[e].id # mem[blk].id /\ mem[e].id \in 1 .. issued
      BY <3>1 DEF TxInv, Numbered
    <3>3. issued \in Nat
      BY DEF TxInv, TxTypeOK
    <3> QED
      BY <1>1, <3>2, <3>3
  <2> QED
    BY <1>2, <1>5, <1>6, <2>1, PushedOrder DEF TxInv
<1>14. Ordered(Queue, mem)' /\ Numbered(used, mem, issued, answers)'
  BY <1>1, <1>13 DEF TxInv, Ordered, Numbered
<1>15. TxTypeOK'
  BY <1>1, <1>4 DEF TxInv, TxTypeOK, air, Installable
<1>16. AddingOK'
  BY <1>1 DEF AddingOK
<1>17. FlightOK'
  BY <1>1, <1>2, <1>5, RingType DEF TxInv, FlightOK, air, Pending
<1>18. LockOK'
  BY <1>1 DEF TxInv, LockOK, TxSlotUndisturbed, ServedBy, air
<1> QED
  BY <1>11, <1>12, <1>14, <1>15, <1>16, <1>17, <1>18 DEF TxInv

\* The head of the queue leaves, by a flush or by the end of its slot.
LEMMA HeadLeaves ==
  ASSUME TxInv, Count # 0, get' = After(get), put' = put, arr' = arr
  PROVE  /\ get' \in Index /\ Count' = Count - 1 /\ Count \in 1 .. RingSize - 1
         /\ Queue' \in Seq({Null} \cup Block)
         /\ Popped(Queue, Queue') /\ arr[get] \in Els(Queue)
         /\ Distinct(Queue') /\ Els(Queue') = Els(Queue) \ {arr[get]}
         /\ Ordered(Queue', mem)
<1>1. /\ arr \in Slots /\ get \in Index /\ put \in Index
      /\ Queue = QueueOf(arr, get, put) /\ Count = Cnt(get, put)
      /\ Queue \in Seq({Null} \cup Block) /\ Count \in 0 .. RingSize - 1
  BY QueueIs DEF TxInv
<1>2. Queue' = QueueOf(arr', get', put') /\ Count' = Cnt(get', put')
  BY DEF Queue, QueueOf, Count, Cnt, At, Pos
<1>3. get' \in Index
  BY <1>1, AfterIs
<1>4. Queue' \in Seq({Null} \cup Block) /\ Count' = Count - 1
  BY <1>1, <1>2, <1>3, QueueOfIs, PosMoves
<1>5. Popped(Queue, Queue') /\ Queue[1] = arr[get]
  BY <1>1, <1>2, RingGet
<1>6. /\ Distinct(Queue') /\ Els(Queue') = Els(Queue) \ {arr[get]}
      /\ arr[get] \in Els(Queue)
  BY <1>1, <1>4, <1>5, PoppedEls DEF TxInv, OwnersOK
<1>7. Ordered(Queue', mem)
  BY <1>1, <1>4, <1>5, PoppedOrder DEF TxInv
<1> QED
  BY <1>1, <1>3, <1>4, <1>5, <1>6, <1>7, RingType

\* A flush answers the head and drops it, while no Tx slot holds it.
LEMMA FlushHeadStep ==
  ASSUME TxInv, slot # "due", FlushHead, ~FlushInTx
  PROVE  TxInv'
<1>1. /\ Count # 0 /\ get' = After(get) /\ put' = put /\ arr' = arr
      /\ slot # "tx" /\ pc \in {"idle", "flushing"} /\ pc' = "flushing"
      /\ Answer(arr[get])
      /\ UNCHANGED <<mem, dequeued, air, cells, blk, locked, requested, issued,
                     resized>>
  BY DEF FlushHead, After
<1>2. /\ get' \in Index /\ Count' = Count - 1 /\ arr[get] \in Els(Queue)
      /\ Distinct(Queue') /\ Els(Queue') = Els(Queue) \ {arr[get]}
      /\ Ordered(Queue', mem)
  BY <1>1, HeadLeaves
<1>3. /\ Els(Queue)' = Els(Queue') /\ Els(dequeued)' = Els(dequeued)
      /\ Distinct(Queue)' = Distinct(Queue') /\ Distinct(dequeued)' = Distinct(dequeued)
  BY <1>1 DEF Els, Distinct
<1>4. Adding = {} /\ Adding' = {} /\ arr[get] \in used /\ arr[get] \notin lost
      /\ arr[get] \notin Els(dequeued)
  BY <1>1, HeadIs DEF Adding
<1>5. used' = used \ {arr[get]}
  BY <1>1 DEF Answer
<1>6. OwnersOK'
  <2>1. UNCHANGED <<implicit, lost>>
    BY <1>1 DEF air
  <2>2. used' \ lost' = (used \ lost) \ {arr[get]} /\ lost' \subseteq used'
    BY <1>4, <1>5, <2>1 DEF TxInv, OwnersOK
  <2> QED
    BY <1>2, <1>3, <1>4, <2>1, <2>2 DEF TxInv, OwnersOK
<1>7. Numbered(used, mem, issued, answers)' /\ answers' \in [Id -> Nat]
  BY <1>1, <1>4, AnswerNumbers DEF TxInv
<1>8. SentOK' /\ QuietOK' /\ Ordered(Queue, mem)'
  BY <1>1, <1>2, <1>3, <1>4 DEF TxInv, SentOK, QuietOK, Ordered, Pending, air
<1>9. AddingOK' /\ FlightOK' /\ LockOK'
  BY <1>1 DEF TxInv, AddingOK, FlightOK, LockOK, TxSlotUndisturbed, ServedBy, air
<1>10. TxTypeOK'
  BY <1>1, <1>2, <1>5, <1>7 DEF TxInv, TxTypeOK, air, Installable
<1> QED
  BY <1>6, <1>7, <1>8, <1>9, <1>10 DEF TxInv

\* A dequeued packet is answered.
LEMMA TxProcessPendingStep ==
  ASSUME TxInv, slot # "due", TxProcessPending
  PROVE  TxInv'
<1> DEFINE b == Head(dequeued)
<1>1. /\ dequeued # <<>> /\ dequeued' = Tail(dequeued) /\ Answer(b) /\ pc = "idle"
      /\ UNCHANGED <<mem, queue, air, cells, pc, blk, locked, requested, issued,
                     resized>>
  BY DEF TxProcessPending
<1>2. dequeued \in Seq(Block) /\ Len(dequeued) < DequeuedSize
  BY DEF TxInv, TxTypeOK
<1>3. /\ b = dequeued[1] /\ dequeued' \in Seq(Block)
      /\ Len(dequeued') = Len(dequeued) - 1 /\ Popped(dequeued, dequeued')
      /\ Len(dequeued) \in Nat
  BY <1>1, <1>2 DEF Popped
<1>4. /\ Distinct(dequeued') /\ Els(dequeued') = Els(dequeued) \ {b}
      /\ b \in Els(dequeued)
  BY <1>2, <1>3, PoppedEls DEF TxInv, OwnersOK
<1> HIDE DEF b
<1>5. Queue' = Queue /\ Count' = Count /\ Adding = {} /\ Adding' = {}
  BY <1>1 DEF queue, Queue, Count, At, Adding
<1>6. b \in used /\ b \notin Els(Queue) /\ b \notin lost /\ used' = used \ {b}
  BY <1>1, <1>4, QueueBlocks DEF TxInv, OwnersOK, Answer
<1>7. /\ Els(Queue)' = Els(Queue) /\ Els(dequeued)' = Els(dequeued')
      /\ Distinct(Queue)' = Distinct(Queue) /\ Distinct(dequeued)' = Distinct(dequeued')
  BY <1>5 DEF Els, Distinct
<1>8. OwnersOK'
  <2>1. UNCHANGED <<implicit, lost>>
    BY <1>1 DEF air
  <2>2. used' \ lost' = (used \ lost) \ {b} /\ lost' \subseteq used'
    BY <1>6, <2>1 DEF TxInv, OwnersOK
  <2> QED
    BY <1>4, <1>5, <1>6, <1>7, <2>1, <2>2 DEF TxInv, OwnersOK
<1>9. Numbered(used, mem, issued, answers)' /\ answers' \in [Id -> Nat]
  BY <1>1, <1>6, AnswerNumbers DEF TxInv
<1>10. SentOK' /\ QuietOK' /\ Ordered(Queue, mem)'
  BY <1>1, <1>5, <1>7 DEF TxInv, SentOK, QuietOK, Ordered, Pending, air
<1>11. TxTypeOK'
  BY <1>1, <1>2, <1>3, <1>6, <1>9, SmallNumbers DEF TxInv, TxTypeOK, queue, air, Installable
<1>12. AddingOK' /\ LockOK'
  BY <1>1 DEF TxInv, AddingOK, LockOK, TxSlotUndisturbed, ServedBy, queue, air
<1>13. FlightOK'
  BY <1>1, <1>3, <1>5, SmallNumbers DEF TxInv, FlightOK, queue, air, Pending
<1> QED
  BY <1>8, <1>9, <1>10, <1>11, <1>12, <1>13 DEF TxInv

\* The packet a link matches moves to the head, whether or not it is sent.
LEMMA PromotedIs ==
  ASSUME TxInv, Match(current) # 0, arr' = Promoted(Match(current)),
         UNCHANGED <<used, mem, get, put, dequeued, process, cells, implicit, lost>>
  PROVE  /\ OwnersOK' /\ AddingOK' /\ SentOK' /\ QuietOK' /\ Count' # 0
         /\ Ordered(Queue, mem)' /\ Numbered(used, mem, issued, answers)'
         /\ arr' \in Slots /\ arr'[get] = arr[At(Match(current))]
         /\ arr[At(Match(current))] \in Block /\ ~Pending(arr[At(Match(current))])
<1> DEFINE i == Match(current)
<1>1. /\ i # 0 /\ arr' = Promoted(i)
      /\ UNCHANGED <<used, mem, get, put, dequeued, process, cells, implicit, lost>>
  OBVIOUS
<1>2. /\ i \in 1 .. Count /\ mem[Queue[i]].tag = current
      /\ ~Pending(Queue[i])
      /\ \A k \in 1 .. i - 1 : mem[Queue[k]].tag # current \/ Pending(Queue[k])
  BY <1>1, MatchIs DEF TxInv
<1> HIDE DEF i
<1>3. /\ arr \in Slots /\ get \in Index /\ put \in Index /\ Count = Cnt(get, put)
      /\ Queue \in Seq({Null} \cup Block) /\ Len(Queue) = Count
      /\ Count \in 0 .. RingSize - 1 /\ Queue[i] = arr[At(i)]
  BY <1>2, QueueIs DEF TxInv
<1>4. /\ arr' \in Slots /\ Advanced(Queue, i, QueueOf(arr', get, put))
      /\ arr'[put] = arr[put] /\ arr'[get] = arr[At(i)]
  BY <1>1, <1>2, <1>3, RingPromote
<1>5. Queue' = QueueOf(arr', get', put') /\ Count' = Cnt(get', put')
  BY DEF Queue, QueueOf, Count, Cnt, At, Pos
<1>6. Queue' \in Seq({Null} \cup Block) /\ Count' = Count /\ Advanced(Queue, i, Queue')
  BY <1>1, <1>3, <1>4, <1>5, QueueOfIs
<1>7. Distinct(Queue') /\ Els(Queue') = Els(Queue)
  BY <1>2, <1>3, <1>6, AdvancedEls DEF TxInv, OwnersOK
<1>8. Ordered(Queue', mem)
  BY <1>2, <1>3, <1>6, AdvancedOrder DEF TxInv, Pending
<1>9. /\ Els(Queue)' = Els(Queue) /\ Els(dequeued)' = Els(dequeued) /\ Adding' = Adding
      /\ Distinct(Queue)' = Distinct(Queue') /\ Distinct(dequeued)' = Distinct(dequeued)
  BY <1>1, <1>7 DEF Els, Distinct, Adding, process
<1>10. OwnersOK'
  BY <1>1, <1>7, <1>9 DEF TxInv, OwnersOK
<1>11. /\ SentOK' /\ QuietOK' /\ Ordered(Queue, mem)'
       /\ Numbered(used, mem, issued, answers)'
  BY <1>1, <1>8, <1>9 DEF TxInv, SentOK, QuietOK, Ordered, Numbered, process, Pending
<1>12. AddingOK'
  BY <1>1, <1>4, <1>6 DEF TxInv, AddingOK, process
<1>13. Queue[i] \in Block
  BY <1>2, <1>3 DEF TxInv, TxTypeOK, OwnersOK, Els
<1>14. Count' # 0 /\ arr[At(i)] \in Block /\ ~Pending(arr[At(i)])
  BY <1>2, <1>3, <1>6, <1>13
<1> QED
  BY <1>4, <1>10, <1>11, <1>12, <1>14 DEF i

\* A Tx slot sends the packet it has moved to the head.
LEMMA TxSlotStartStep ==
  ASSUME TxInv, TxSlotStart
  PROVE  TxInv'
<1> DEFINE b == arr[At(Match(current))]
<1>1. /\ DequeuedRoom /\ slot' = "tx" /\ packet' = b
      /\ UNCHANGED <<used, mem, get, put, dequeued, process, cells, current, backup,
                     window, exponent, implicit, lost>>
  BY DEF TxSlotStart
<1>2. /\ OwnersOK' /\ AddingOK' /\ SentOK' /\ QuietOK' /\ Count' # 0
      /\ Ordered(Queue, mem)' /\ Numbered(used, mem, issued, answers)'
      /\ arr' \in Slots /\ arr'[get] = b /\ b \in Block /\ ~Pending(b)
  BY PromotedIs DEF TxSlotStart
<1>3. Serves(current)
  BY MatchIs DEF TxSlotStart, TxInv
<1> HIDE DEF b
<1>4. TxTypeOK'
  BY <1>1, <1>2 DEF TxInv, TxTypeOK, Slots, process, Installable
<1>5. FlightOK'
  BY <1>1, <1>2 DEF FlightOK, DequeuedRoom, Pending
<1>6. LockOK'
  BY <1>1, <1>3 DEF TxInv, LockOK, TxSlotUndisturbed, ServedBy, Serves, process
<1> QED
  BY <1>2, <1>4, <1>5, <1>6 DEF TxInv

\* A slot without room to report the packet has moved it as well.
LEMMA BlockedSlotStep ==
  ASSUME TxInv, BlockedSlot
  PROVE  TxInv'
<1>1. /\ slot' = "off" /\ NextSlot
      /\ UNCHANGED <<used, mem, get, put, dequeued, process, cells, packet, window,
                     exponent, implicit, lost>>
  BY DEF BlockedSlot, NextSlot
<1>2. /\ OwnersOK' /\ AddingOK' /\ SentOK' /\ QuietOK' /\ arr' \in Slots
      /\ Ordered(Queue, mem)' /\ Numbered(used, mem, issued, answers)'
  BY PromotedIs DEF BlockedSlot
<1>3. /\ current' \in OwnCells \cup {NoLink, "common", "listen"}
      /\ backup' \in {NoLink, "common", "listen"}
  BY <1>1, NextLinksType DEF NextSlot, TxInv
<1>4. TxTypeOK'
  BY <1>1, <1>2, <1>3 DEF TxInv, TxTypeOK, Slots, process, Installable
<1>5. FlightOK' /\ LockOK'
  BY <1>1 DEF TxInv, FlightOK, LockOK, TxSlotUndisturbed, process
<1> QED
  BY <1>2, <1>4, <1>5 DEF TxInv

\* One transmission more, of the packet at the head: what becomes of contents m.
Transmitted(m, p) ==
  /\ m \in [Block -> Content]
  /\ \A b \in Block : /\ m[b].id = mem[b].id /\ m[b].tag = mem[b].tag
                      /\ m[b].quiet = mem[b].quiet
  /\ \A b \in Block \ {packet} : m[b] = mem[b]
  /\ m[packet].sent = mem[packet].sent + 1 /\ m[packet].pending = p

LEMMA SentIs ==
  ASSUME TxInv, slot = "tx"
  PROVE  /\ mem' = [mem EXCEPT ![packet].sent = @ + 1] => Transmitted(mem', "no")
         /\ mem' = [mem EXCEPT ![packet].sent = @ + 1, ![packet].pending = "live"]
              => Transmitted(mem', "live")
         /\ mem[packet].sent + 1 \in 1 .. MaxTransmissions
<1>1. packet \in Els(Queue) /\ packet \in Block
  BY FlightHead
<1>2. mem[packet].pending = "no" /\ mem[packet].sent < MaxTransmissions
  BY <1>1 DEF TxInv, SentOK, FlightOK, Pending
<1>3. mem \in [Block -> Content] /\ mem[packet] \in Content
  BY <1>1 DEF TxInv, TxTypeOK
<1>4. mem[packet].sent \in Nat /\ mem[packet].sent + 1 \in 0 .. MaxTransmissions
  BY <1>2, <1>3, SmallNumbers DEF Content
<1> DEFINE R(p) == [id |-> mem[packet].id, tag |-> mem[packet].tag,
                    sent |-> mem[packet].sent + 1, quiet |-> mem[packet].quiet,
                    pending |-> p]
<1>5. ASSUME NEW p \in {"no", "live"}, mem' = [mem EXCEPT ![packet] = R(p)]
      PROVE  Transmitted(mem', p)
  <2>1. R(p) \in Content
    BY <1>3, <1>4 DEF Content
  <2>2. /\ R(p).id = mem[packet].id /\ R(p).tag = mem[packet].tag
        /\ R(p).quiet = mem[packet].quiet /\ R(p).sent = mem[packet].sent + 1
        /\ R(p).pending = p
    OBVIOUS
  <2> DEFINE r == R(p)
  <2> HIDE DEF R, r
  <2>3. mem' \in [Block -> Content]
    BY <1>3, <1>5, <2>1 DEF r
  <2>4. mem'[packet] = r /\ \A b \in Block \ {packet} : mem'[b] = mem[b]
    BY <1>1, <1>3, <1>5 DEF r
  <2> QED
    BY <1>1, <2>2, <2>3, <2>4 DEF Transmitted, r
<1>6. /\ [mem[packet] EXCEPT !.sent = @ + 1] = R("no")
      /\ [mem[packet] EXCEPT !.sent = @ + 1, !.pending = "live"] = R("live")
  <2> DEFINE c == mem[packet]
  <2>1. c \in Content /\ c.pending = "no"
    BY <1>2, <1>3
  <2> HIDE DEF c
  <2>2. PICK i, t, n, q : c = [id |-> i, tag |-> t, sent |-> n, quiet |-> q,
                               pending |-> "no"]
    BY <2>1 DEF Content
  <2>3. [c EXCEPT !.sent = @ + 1]
          = [id |-> i, tag |-> t, sent |-> n + 1, quiet |-> q, pending |-> "no"]
    BY <2>2
  <2>4. [c EXCEPT !.sent = @ + 1, !.pending = "live"]
          = [id |-> i, tag |-> t, sent |-> n + 1, quiet |-> q, pending |-> "live"]
    <3> DEFINE d == [c EXCEPT !.sent = @ + 1]
    <3>1. [c EXCEPT !.sent = @ + 1, !.pending = "live"] = [d EXCEPT !.pending = "live"]
      OBVIOUS
    <3>2. d = [id |-> i, tag |-> t, sent |-> n + 1, quiet |-> q, pending |-> "no"]
      BY <2>3
    <3> HIDE DEF d
    <3>3. [d EXCEPT !.pending = "live"]
            = [id |-> i, tag |-> t, sent |-> n + 1, quiet |-> q, pending |-> "live"]
      BY <3>2
    <3> QED
      BY <3>1, <3>3
  <2>5. c.id = i /\ c.tag = t /\ c.sent = n /\ c.quiet = q
    BY <2>2
  <2> QED
    BY <2>3, <2>4, <2>5 DEF c
<1>7. ASSUME mem' = [mem EXCEPT ![packet].sent = @ + 1]
      PROVE  mem' = [mem EXCEPT ![packet] = R("no")]
  <2>1. mem' = [mem EXCEPT ![packet] = [mem[packet] EXCEPT !.sent = @ + 1]]
    BY <1>7
  <2> QED
    BY <1>6, <2>1
<1>8. ASSUME mem' = [mem EXCEPT ![packet].sent = @ + 1, ![packet].pending = "live"]
      PROVE  mem' = [mem EXCEPT ![packet] = R("live")]
  <2>1. mem' = [mem EXCEPT ![packet] = [mem[packet] EXCEPT !.sent = @ + 1,
                                                          !.pending = "live"]]
    BY <1>1, <1>3, <1>8
  <2> QED
    BY <1>6, <2>1
<1> HIDE DEF R
<1> QED
  BY <1>4, <1>5, <1>7, <1>8

LEMMA QueueOfBlocks ==
  ASSUME TxTypeOK, NEW q \in Seq({Null} \cup Block), Els(q) \subseteq Block
  PROVE  q \in Seq(Block)
<1>1. \A i \in 1 .. Len(q) : q[i] \in Block
  BY DEF Els
<1> QED
  BY <1>1

\* A sent or dropped packet moves from the head of the queue to the dequeued
\* ring ...
LEMMA SlotReports ==
  ASSUME TxInv, slot = "tx", Transmitted(mem', "no"), Dequeue, Over, lost' = lost,
         exponent' \in MinBe .. MaxBe, window' \in 0 .. 2^exponent'
  PROVE  TxInv'
<1>1. /\ packet \in Els(Queue) /\ packet \in Block /\ packet = arr[get] /\ Count # 0
      /\ packet \notin Els(dequeued) /\ packet \notin Adding
  BY FlightHead, HeadIs
<1>2. /\ mem' \in [Block -> Content]
      /\ \A b \in Block : /\ mem'[b].id = mem[b].id /\ mem'[b].tag = mem[b].tag
                          /\ mem'[b].quiet = mem[b].quiet
      /\ \A b \in Block \ {packet} : mem'[b] = mem[b]
      /\ mem'[packet].pending = "no"
  BY DEF Transmitted
<1>3. /\ UNCHANGED <<used, arr, put, process, cells, implicit>>
      /\ slot' \in {"off", "due"} /\ packet' = Null
      /\ current' \in OwnCells \cup {NoLink, "common", "listen"}
      /\ backup' \in {NoLink, "common", "listen"}
      /\ FlightOK'
  BY DEF Over
<1>4. get' = After(get) /\ dequeued' = Append(dequeued, packet)
  BY <1>1 DEF Dequeue, RemoveHead, After
<1>5. /\ get' \in Index /\ Count' = Count - 1 /\ Count \in 1 .. RingSize - 1
      /\ Queue' \in Seq({Null} \cup Block)
      /\ Distinct(Queue') /\ Els(Queue') = Els(Queue) \ {packet}
      /\ Ordered(Queue', mem)
  BY <1>1, <1>3, <1>4, HeadLeaves
<1>6. dequeued \in Seq(Block) /\ Len(dequeued) < DequeuedSize - 1
  BY DEF TxInv, TxTypeOK, FlightOK
<1>7. /\ dequeued' \in Seq(Block) /\ Len(dequeued') < DequeuedSize
      /\ Pushed(dequeued, packet, dequeued')
  BY <1>1, <1>4, <1>6, SmallNumbers DEF Pushed
<1>8. Distinct(dequeued') /\ Els(dequeued') = Els(dequeued) \cup {packet}
  BY <1>1, <1>6, <1>7, PushedEls DEF TxInv, OwnersOK
<1>9. /\ Els(Queue)' = Els(Queue') /\ Els(dequeued)' = Els(dequeued') /\ Adding' = Adding
      /\ Distinct(Queue)' = Distinct(Queue') /\ Distinct(dequeued)' = Distinct(dequeued')
  BY <1>3 DEF Els, Distinct, Adding, process
<1>10. OwnersOK'
  BY <1>1, <1>3, <1>5, <1>8, <1>9 DEF TxInv, OwnersOK
<1>11. Els(Queue) \subseteq Block /\ Adding \subseteq Block
  BY QueueBlocks
<1>12. Numbered(used, mem, issued, answers)' /\ Ordered(Queue, mem)'
  <2>1. Numbered(used, mem', issued, answers)
    BY <1>2, SameNumbers
  <2>2. Ordered(Queue', mem')
    BY <1>2, <1>5, <1>11, SameOrder
  <2> QED
    BY <1>3, <2>1, <2>2 DEF Numbered, Ordered, process
<1>13. SentOK' /\ QuietOK'
  <2>1. SentOK'
    BY <1>1, <1>2, <1>5, <1>9, <1>11 DEF TxInv, SentOK, Pending
  <2>2. QuietOK'
    BY <1>2, <1>3 DEF TxInv, QuietOK
  <2> QED
    BY <2>1, <2>2
<1>14. AddingOK'
  <2>1. pc \in {"filled", "written"} => blk \in Block /\ blk # packet
    BY <1>1 DEF TxInv, AddingOK, Adding
  <2>2. pc \in {"filled", "written"} => mem'[blk] = mem[blk]
    BY <1>2, <2>1
  <2> QED
    BY <1>3, <1>5, <2>2, RingType DEF TxInv, AddingOK, process
<1>15. TxTypeOK'
  BY <1>2, <1>3, <1>5, <1>7 DEF TxInv, TxTypeOK, process, Installable
<1>16. LockOK'
  BY OverLock
<1> QED
  BY <1>3, <1>10, <1>12, <1>13, <1>14, <1>15, <1>16 DEF TxInv

\* ... and one that is to be sent again, or is pending, stays there.
LEMMA SlotKeeps ==
  ASSUME TxInv, slot = "tx", NEW p, Transmitted(mem', p), Over,
         UNCHANGED <<get, dequeued, lost>>,
         \/ p = "no" /\ mem[packet].sent + 1 < MaxTransmissions
         \/ p = "live" /\ mem[packet].quiet,
         exponent' \in MinBe .. MaxBe, window' \in 0 .. 2^exponent'
  PROVE  TxInv'
<1>1. /\ packet \in Els(Queue) /\ packet \in Block /\ packet = arr[get]
      /\ packet \notin Adding
  BY FlightHead, HeadIs
<1>2. /\ mem' \in [Block -> Content]
      /\ \A b \in Block : /\ mem'[b].id = mem[b].id /\ mem'[b].tag = mem[b].tag
                          /\ mem'[b].quiet = mem[b].quiet
      /\ \A b \in Block \ {packet} : mem'[b] = mem[b]
      /\ mem'[packet].sent = mem[packet].sent + 1 /\ mem'[packet].pending = p
  BY DEF Transmitted
<1>3. /\ UNCHANGED <<used, arr, put, process, cells, implicit>>
      /\ slot' \in {"off", "due"} /\ packet' = Null
      /\ current' \in OwnCells \cup {NoLink, "common", "listen"}
      /\ backup' \in {NoLink, "common", "listen"}
      /\ FlightOK'
  BY DEF Over
<1>4. Queue' = Queue /\ Count' = Count /\ Adding' = Adding
  BY <1>3 DEF Queue, Count, At, Adding, process
<1>5. OwnersOK'
  BY <1>3, <1>4 DEF TxInv, OwnersOK
<1>6. /\ Els(Queue) \subseteq Block /\ Adding \subseteq Block
      /\ Queue \in Seq({Null} \cup Block)
  BY QueueBlocks
<1>7. Numbered(used, mem, issued, answers)' /\ Ordered(Queue, mem)'
  <2>1. Numbered(used, mem', issued, answers)
    BY <1>2, SameNumbers
  <2>2. mem[packet].pending = "no"
    BY DEF TxInv, FlightOK, Pending
  <2>3. Ordered(Queue, mem')
    BY <1>2, <1>6, <2>2, SameOrder DEF TxInv
  <2> QED
    BY <1>3, <1>4, <2>1, <2>3 DEF Numbered, Ordered, process
<1>8. SentOK'
  <2>1. Els(Queue)' = Els(Queue)
    BY <1>4 DEF Els
  <2>2. mem'[packet].sent \in 1 .. MaxTransmissions
    BY <1>2, SentIs
  <2>3. IF p # "no" THEN mem'[packet].sent > 0
                    ELSE mem'[packet].sent < MaxTransmissions
    BY <1>2, <2>2, SmallNumbers
  <2> QED
    BY <1>2, <1>4, <1>6, <2>1, <2>3 DEF TxInv, SentOK, Pending
<1>9. QuietOK'
  BY <1>1, <1>2, <1>3 DEF TxInv, QuietOK
<1>10. AddingOK'
  <2>1. pc \in {"filled", "written"} => blk \in Block /\ blk # packet
    BY <1>1 DEF TxInv, AddingOK, Adding
  <2>2. pc \in {"filled", "written"} => mem'[blk] = mem[blk]
    BY <1>2, <2>1
  <2> QED
    BY <1>3, <1>4, <2>2 DEF TxInv, AddingOK, process
<1>11. TxTypeOK'
  BY <1>2, <1>3 DEF TxInv, TxTypeOK, process, Installable
<1>12. LockOK'
  BY OverLock
<1> QED
  BY <1>3, <1>5, <1>7, <1>8, <1>9, <1>10, <1>11, <1>12 DEF TxInv

\* A Tx slot ends, whatever the radio reports.
LEMMA TxSlotEndStep ==
  ASSUME TxInv, TxSlotOk \/ TxSlotFailed \/ TxSlotDeferred
  PROVE  TxInv'
<1>1. slot = "tx" /\ Over /\ lost' = lost
  BY EndSlotOver DEF TxSlotOk, TxSlotFailed, TxSlotDeferred, TxInv
<1>2. exponent' \in MinBe .. MaxBe /\ window' \in 0 .. 2^exponent'
  <2>1. CASE TxSlotOk
    BY <2>1, BackoffType, SmallNumbers DEF TxSlotOk, ResetBackoff
  <2>2. CASE TxSlotFailed
    <3>1. exponent' = Longer
      BY <2>2 DEF TxSlotFailed
    <3>2. PICK w \in 1 .. 2^exponent' : window' = Waited(w, current)
      BY <2>2 DEF TxSlotFailed
    <3>3. w \in 0 .. 2^exponent' /\ exponent' \in 0 .. 16
      BY <3>1, BackoffType
    <3> QED
      BY <3>1, <3>2, <3>3, BackoffType, WaitedType DEF TxInv
  <2>3. CASE TxSlotDeferred
    BY <2>3, BackoffType DEF TxSlotDeferred
  <2> QED
    BY <2>1, <2>2, <2>3
<1>3. CASE TxSlotOk
  <2>1. Transmitted(mem', "no") /\ Dequeue
    BY <1>1, <1>3, SentIs DEF TxSlotOk
  <2> QED
    BY <1>1, <1>2, <2>1, SlotReports
<1>4. CASE TxSlotFailed
  <2>1. Transmitted(mem', "no")
    BY <1>1, <1>4, SentIs DEF TxSlotFailed
  <2>2. CASE Dequeue
    BY <1>1, <1>2, <2>1, <2>2, SlotReports
  <2>3. CASE UNCHANGED <<get, dequeued>> /\ ~(mem'[packet].sent >= MaxTransmissions)
    <3>1. mem[packet].sent + 1 < MaxTransmissions
      BY <1>1, <2>1, <2>3, SentIs, SmallNumbers DEF Transmitted
    <3> QED
      BY <1>1, <1>2, <2>1, <2>3, <3>1, SlotKeeps
  <2> QED
    BY <1>4, <2>2, <2>3 DEF TxSlotFailed
<1>5. CASE TxSlotDeferred
  <2>1. Transmitted(mem', "live") /\ mem[packet].quiet /\ UNCHANGED <<get, dequeued>>
    BY <1>1, <1>5, SentIs DEF TxSlotDeferred, Deferred
  <2> QED
    BY <1>1, <1>2, <2>1, SlotKeeps
<1> QED
  BY <1>3, <1>4, <1>5

\* The packet at the head is no longer pending.
Resolved(m) ==
  /\ m \in [Block -> Content]
  /\ \A b \in Block : /\ m[b].id = mem[b].id /\ m[b].tag = mem[b].tag
                      /\ m[b].quiet = mem[b].quiet /\ m[b].sent = mem[b].sent
  /\ \A b \in Block \ {arr[get]} : m[b] = mem[b]
  /\ m[arr[get]].pending = "no"

LEMMA ResolvedIs ==
  ASSUME TxInv, Count # 0, mem' = [mem EXCEPT ![arr[get]].pending = "no"]
  PROVE  Resolved(mem')
<1>1. arr[get] \in Block
  BY HeadIs
<1>2. mem \in [Block -> Content] /\ mem[arr[get]] \in Content
  BY <1>1 DEF TxInv, TxTypeOK
<1> DEFINE r == [mem[arr[get]] EXCEPT !.pending = "no"]
<1>3. /\ r \in Content /\ r.id = mem[arr[get]].id /\ r.tag = mem[arr[get]].tag
      /\ r.quiet = mem[arr[get]].quiet /\ r.sent = mem[arr[get]].sent
      /\ r.pending = "no"
  BY <1>2 DEF Content
<1>4. mem' = [mem EXCEPT ![arr[get]] = r]
  OBVIOUS
<1> HIDE DEF r
<1>5. mem' \in [Block -> Content] /\ mem'[arr[get]] = r
  BY <1>1, <1>2, <1>3, <1>4
<1>6. \A b \in Block \ {arr[get]} : mem'[b] = mem[b]
  BY <1>2, <1>4
<1> QED
  BY <1>1, <1>3, <1>5, <1>6 DEF Resolved

\* A packet that is taken for arrived, or given up, leaves to nobody ...
LEMMA HeadForgotten ==
  ASSUME TxInv, slot # "tx", Count # 0, Pending(arr[get]), Resolved(mem'),
         Forgotten(arr[get]), dequeued' = dequeued, Over,
         exponent' \in MinBe .. MaxBe, window' \in 0 .. 2^exponent'
  PROVE  TxInv'
<1> DEFINE h == arr[get]
<1>1. /\ h \in Els(Queue) /\ h \in Block /\ h \notin Els(dequeued) /\ h \notin Adding
      /\ h \in used /\ h \notin lost
  BY HeadIs
<1>2. /\ mem' \in [Block -> Content]
      /\ \A b \in Block : /\ mem'[b].id = mem[b].id /\ mem'[b].tag = mem[b].tag
                          /\ mem'[b].quiet = mem[b].quiet
      /\ \A b \in Block \ {h} : mem'[b] = mem[b]
      /\ mem'[h].pending = "no"
  BY DEF Resolved
<1>3. /\ UNCHANGED <<used, arr, put, process, cells, implicit>>
      /\ slot' \in {"off", "due"} /\ packet' = Null
      /\ current' \in OwnCells \cup {NoLink, "common", "listen"}
      /\ backup' \in {NoLink, "common", "listen"}
      /\ FlightOK'
  BY DEF Over
<1>4. get' = After(get) /\ lost' = lost \cup {h}
  BY DEF Forgotten, RemoveHead, After
<1>5. /\ get' \in Index /\ Count' = Count - 1 /\ Count \in 1 .. RingSize - 1
      /\ Queue' \in Seq({Null} \cup Block)
      /\ Distinct(Queue') /\ Els(Queue') = Els(Queue) \ {h}
      /\ Ordered(Queue', mem)
  BY <1>3, <1>4, HeadLeaves
<1>6. implicit
  BY <1>1 DEF TxInv, QuietOK, Pending
<1> HIDE DEF h
<1>7. /\ Els(Queue)' = Els(Queue') /\ Els(dequeued)' = Els(dequeued) /\ Adding' = Adding
      /\ Distinct(Queue)' = Distinct(Queue') /\ Distinct(dequeued)' = Distinct(dequeued)
  BY <1>3 DEF Els, Distinct, Adding, process
<1>8. OwnersOK'
  <2>1. used' \ lost' = (used \ lost) \ {h} /\ lost' \subseteq used' /\ implicit'
    BY <1>1, <1>3, <1>4, <1>6 DEF TxInv, OwnersOK
  <2> QED
    BY <1>1, <1>5, <1>7, <2>1 DEF TxInv, OwnersOK
<1>9. Els(Queue) \subseteq Block /\ Adding \subseteq Block
  BY QueueBlocks
<1>10. Numbered(used, mem, issued, answers)' /\ Ordered(Queue, mem)'
  <2>1. Numbered(used, mem', issued, answers)
    BY <1>2, SameNumbers
  <2>2. \A b \in Els(Queue') : mem'[b] = mem[b]
    BY <1>2, <1>5, <1>9
  <2>3. Ordered(Queue', mem')
    BY <1>5, <2>2, SameOrder
  <2> QED
    BY <1>3, <2>1, <2>3 DEF Numbered, Ordered, process
<1>11. SentOK'
  BY <1>1, <1>2, <1>5, <1>7, <1>9 DEF TxInv, SentOK, Pending
<1>12. QuietOK'
  BY <1>3, <1>6 DEF QuietOK
<1>13. AddingOK'
  <2>1. pc \in {"filled", "written"} => blk \in Block /\ blk # h
    BY <1>1 DEF TxInv, AddingOK, Adding
  <2>2. pc \in {"filled", "written"} => mem'[blk] = mem[blk]
    BY <1>2, <2>1
  <2> QED
    BY <1>3, <1>5, <2>2, RingType DEF TxInv, AddingOK, process
<1>14. TxTypeOK'
  BY <1>1, <1>2, <1>3, <1>4, <1>5 DEF TxInv, TxTypeOK, process, Installable
<1>15. LockOK'
  BY OverLock
<1> QED
  BY <1>3, <1>8, <1>10, <1>11, <1>12, <1>13, <1>14, <1>15 DEF TxInv

\* ... or is to be sent again, where it is.
LEMMA HeadResolved ==
  ASSUME TxInv, Count # 0, Resolved(mem'), UNCHANGED <<get, dequeued, lost>>, Over,
         mem[arr[get]].sent < MaxTransmissions,
         exponent' \in MinBe .. MaxBe, window' \in 0 .. 2^exponent'
  PROVE  TxInv'
<1> DEFINE h == arr[get]
<1>1. /\ h \in Els(Queue) /\ h \in Block /\ h \notin Adding /\ Queue[1] = h
  BY HeadIs
<1>2. /\ mem' \in [Block -> Content]
      /\ \A b \in Block : /\ mem'[b].id = mem[b].id /\ mem'[b].tag = mem[b].tag
                          /\ mem'[b].quiet = mem[b].quiet /\ mem'[b].sent = mem[b].sent
      /\ \A b \in Block \ {h} : mem'[b] = mem[b]
      /\ mem'[h].pending = "no"
  BY DEF Resolved
<1>3. /\ UNCHANGED <<used, arr, put, process, cells, implicit>>
      /\ slot' \in {"off", "due"} /\ packet' = Null
      /\ current' \in OwnCells \cup {NoLink, "common", "listen"}
      /\ backup' \in {NoLink, "common", "listen"}
      /\ FlightOK'
  BY DEF Over
<1>4. Queue' = Queue /\ Count' = Count /\ Adding' = Adding
  BY <1>3 DEF Queue, Count, At, Adding, process
<1>5. mem[h].sent < MaxTransmissions
  OBVIOUS
<1> HIDE DEF h
<1>6. OwnersOK'
  BY <1>3, <1>4 DEF TxInv, OwnersOK
<1>7. /\ Els(Queue) \subseteq Block /\ Adding \subseteq Block
      /\ Queue \in Seq({Null} \cup Block)
  BY QueueBlocks
<1>8. Numbered(used, mem, issued, answers)' /\ Ordered(Queue, mem)'
  <2>1. Numbered(used, mem', issued, answers)
    BY <1>2, SameNumbers
  <2>2. Distinct(Queue) /\ Ordered(Queue, mem)
    BY DEF TxInv, OwnersOK
  <2>3. ASSUME NEW i \in 1 .. Len(Queue), NEW j \in 1 .. Len(Queue), i < j,
               mem'[Queue[i]].tag = mem'[Queue[j]].tag, mem'[Queue[j]].pending = "no"
        PROVE  mem'[Queue[i]].id < mem'[Queue[j]].id
    <3>1. Queue[i] \in Block /\ Queue[j] \in Block
      BY <1>7 DEF Els
    <3>2. j # 1 /\ 1 \in 1 .. Len(Queue)
      BY <2>3
    <3>3. Queue[j] # h
      BY <1>1, <2>2, <3>2 DEF Distinct
    <3> QED
      BY <1>2, <2>2, <2>3, <3>1, <3>3 DEF Ordered
  <2> QED
    BY <1>3, <1>4, <2>1, <2>3 DEF Numbered, Ordered, process
<1>9. SentOK'
  <2>1. Els(Queue)' = Els(Queue)
    BY <1>4 DEF Els
  <2> QED
    BY <1>2, <1>4, <1>5, <1>7, <2>1 DEF TxInv, SentOK, Pending
<1>10. QuietOK'
  BY <1>1, <1>2, <1>3 DEF TxInv, QuietOK
<1>11. AddingOK'
  <2>1. pc \in {"filled", "written"} => blk \in Block /\ blk # h
    BY <1>1 DEF TxInv, AddingOK, Adding
  <2>2. pc \in {"filled", "written"} => mem'[blk] = mem[blk]
    BY <1>2, <2>1
  <2> QED
    BY <1>3, <1>4, <2>2 DEF TxInv, AddingOK, process
<1>12. TxTypeOK'
  BY <1>2, <1>3 DEF TxInv, TxTypeOK, process, Installable
<1>13. LockOK'
  BY OverLock
<1> QED
  BY <1>3, <1>6, <1>8, <1>9, <1>10, <1>11, <1>12, <1>13 DEF TxInv

\* Our parent relays a packet of ours.
LEMMA OverheardStep ==
  ASSUME TxInv, Overheard
  PROVE  TxInv'
<1>1. /\ slot # "tx" /\ Count # 0 /\ Pending(arr[get]) /\ Forgotten(arr[get])
      /\ dequeued' = dequeued /\ mem' = [mem EXCEPT ![arr[get]].pending = "no"]
  BY DEF Overheard
<1>2. Over
  BY EndSlotOver DEF Overheard, TxInv
<1>3. \/ window' = 0 /\ exponent' = MinBe
      \/ window' = Waited(window, current) /\ exponent' = exponent
  BY DEF Overheard, ResetBackoff
<1>4. exponent' \in MinBe .. MaxBe /\ window' \in 0 .. 2^exponent'
  BY <1>3, BackoffType, SmallNumbers
<1> QED
  BY <1>1, <1>2, <1>4, ResolvedIs, HeadForgotten

\* Nothing was overheard in time.
LEMMA AckTimeoutStep ==
  ASSUME TxInv, AckTimeout
  PROVE  TxInv'
<1>1. /\ slot # "tx" /\ Count # 0 /\ Pending(arr[get])
      /\ dequeued' = dequeued /\ mem' = [mem EXCEPT ![arr[get]].pending = "no"]
  BY DEF AckTimeout, TxInv, FlightOK
<1>2. Over
  BY EndSlotOver DEF AckTimeout, TxInv
<1>3. \/ exponent' = Longer /\ window' \in 1 .. 2^exponent'
      \/ window' = window /\ exponent' = exponent
  BY DEF AckTimeout
<1>4. exponent' \in MinBe .. MaxBe /\ window' \in 0 .. 2^exponent'
  <2>1. window \in 0 .. 2^exponent
    BY DEF TxInv, TxTypeOK
  <2> QED
    BY <1>3, <2>1, BackoffType
<1>5. Resolved(mem')
  BY <1>1, ResolvedIs
<1>6. CASE Forgotten(arr[get])
  BY <1>1, <1>2, <1>4, <1>5, <1>6, HeadForgotten
<1>7. CASE UNCHANGED <<get, lost>> /\ ~(mem[arr[get]].sent >= MaxTransmissions)
  <2>1. mem[arr[get]].sent \in Nat
    BY <1>1, HeadIs DEF TxInv, TxTypeOK, Content
  <2>2. mem[arr[get]].sent < MaxTransmissions
    BY <1>7, <2>1, SmallNumbers
  <2> QED
    BY <1>1, <1>2, <1>4, <1>5, <1>7, <2>2, HeadResolved
<1> QED
  BY <1>6, <1>7 DEF AckTimeout

LEMMA TxInvNext ==
  ASSUME TxInv, [Next]_txvars, ~FlushInTx
  PROVE  TxInv'
<1>1. CASE UNCHANGED txvars
  <2>1. /\ UNCHANGED <<used, mem, queue, dequeued, blk, issued, answers>> /\ pc' = pc
        /\ UNCHANGED <<locked, requested, resized, air, cells>>
    BY <1>1 DEF txvars, process
  <2>2. /\ OwnersOK' /\ AddingOK' /\ SentOK' /\ QuietOK' /\ Count' = Count
        /\ Numbered(used, mem, issued, answers)' /\ Ordered(Queue, mem)'
    BY <2>1, PacketsKept, AlikeSelf DEF TxInv, air
  <2>3. TxTypeOK'
    BY <2>1 DEF TxInv, TxTypeOK, queue, air, Installable
  <2>4. FlightOK' /\ LockOK'
    BY <2>1, <2>2 DEF TxInv, FlightOK, LockOK, TxSlotUndisturbed, ServedBy, Pending,
                      queue, air
  <2> QED
    BY <2>2, <2>3, <2>4 DEF TxInv
<1>2. CASE slot # "due" /\ AddPacket
  BY <1>2, AddPacketStep
<1>3. CASE slot # "due" /\ FlushHead
  BY <1>3, FlushHeadStep
<1>4. CASE slot # "due" /\ (RequestLock \/ TakeLock \/ ChangeCells \/ FlushEnd)
  BY <1>4, ProcessQuietSteps
<1>5. CASE slot # "due" /\ WriteEntry
  BY <1>5, WriteEntryStep
<1>6. CASE slot # "due" /\ CommitEntry
  BY <1>6, CommitEntryStep
<1>7. CASE slot # "due" /\ TxProcessPending
  BY <1>7, TxProcessPendingStep
<1>8. CASE TxSlotStart
  BY <1>8, TxSlotStartStep
<1>9. CASE TxSlotOk \/ TxSlotFailed \/ TxSlotDeferred
  BY <1>9, TxSlotEndStep
<1>10. CASE RxSlotStart \/ RxSlotEnd \/ IdleSlot
  BY <1>10, SlotQuietSteps
<1>11. CASE Overheard
  BY <1>11, OverheardStep
<1>12. CASE AckTimeout
  BY <1>12, AckTimeoutStep
<1>13. CASE BlockedSlot
  BY <1>13, BlockedSlotStep
<1> QED
  BY <1>1, <1>2, <1>3, <1>4, <1>5, <1>6, <1>7, <1>8, <1>9, <1>10, <1>11, <1>12, <1>13
     DEF Next, ProcessStep, SlotStep

-----------------------------------------------------------------------------
(***************************************************************************)
(* Safety theorems: no flush preempts a Tx slot                            *)
(***************************************************************************)

\* The transmit path's inductive invariant holds in every behaviour.
THEOREM TxInvariance ==
  ASSUME ~FlushInTx
  PROVE  Spec => []TxInv
<1>1. Init => TxInv
  BY TxInvInit
<1>2. TxInv /\ [Next]_txvars => TxInv'
  BY TxInvNext
<1> QED
  BY <1>1, <1>2, PTL DEF Spec

\* The packet pool, both rings, the locks and the backoff keep their types: the
\* dequeued ring never overflows, no packet is sent once too often.
THEOREM TxTypeCorrect ==
  ASSUME ~FlushInTx
  PROVE  Spec => []TxTypeOK
<1>1. TxInv => TxTypeOK
  BY DEF TxInv
<1> QED
  BY <1>1, TxInvariance, PTL

LEMMA ConcatEls ==
  ASSUME NEW S, NEW q \in Seq(S), NEW d \in Seq(S), Distinct(q), Distinct(d),
         Els(q) \cap Els(d) = {}
  PROVE  q \o d \in Seq(S) /\ Distinct(q \o d) /\ Els(q \o d) = Els(q) \cup Els(d)
<1> DEFINE s == q \o d
<1>1. /\ s \in Seq(S) /\ Len(s) = Len(q) + Len(d) /\ Len(q) \in Nat /\ Len(d) \in Nat
      /\ \A k \in 1 .. Len(s) : s[k] = IF k <= Len(q) THEN q[k] ELSE d[k - Len(q)]
  OBVIOUS
<1> HIDE DEF s
<1>2. ASSUME NEW k \in 1 .. Len(s)
      PROVE  \/ k \in 1 .. Len(q) /\ s[k] = q[k] /\ s[k] \in Els(q)
             \/ /\ k > Len(q) /\ k - Len(q) \in 1 .. Len(d) /\ s[k] = d[k - Len(q)]
                /\ s[k] \in Els(d)
  <2>1. CASE k <= Len(q)
    BY <1>1, <2>1 DEF Els
  <2>2. CASE k > Len(q)
    <3>1. k - Len(q) \in 1 .. Len(d)
      BY <1>1, <2>2
    <3> QED
      BY <1>1, <2>2, <3>1 DEF Els
  <2> QED
    BY <1>1, <2>1, <2>2
<1>3. Distinct(s)
  <2> SUFFICES ASSUME NEW j \in 1 .. Len(s), NEW k \in 1 .. Len(s), s[j] = s[k]
               PROVE  j = k
    BY DEF Distinct
  <2>1. CASE j \in 1 .. Len(q) /\ s[j] = q[j] /\ s[j] \in Els(q)
    BY <1>2, <2>1 DEF Distinct
  <2>2. CASE /\ j > Len(q) /\ j - Len(q) \in 1 .. Len(d) /\ s[j] = d[j - Len(q)]
             /\ s[j] \in Els(d)
    <3>1. /\ k > Len(q) /\ k - Len(q) \in 1 .. Len(d) /\ s[k] = d[k - Len(q)]
      BY <1>2, <2>2
    <3>2. j - Len(q) = k - Len(q)
      BY <2>2, <3>1 DEF Distinct
    <3> QED
      BY <1>1, <3>2
  <2> QED
    BY <1>2, <2>1, <2>2
<1>4. Els(s) \subseteq Els(q) \cup Els(d)
  <2> SUFFICES ASSUME NEW e \in Els(s) PROVE e \in Els(q) \cup Els(d)
    OBVIOUS
  <2>1. PICK k \in 1 .. Len(s) : e = s[k]
    BY DEF Els
  <2> QED
    BY <1>2, <2>1
<1>5. ASSUME NEW e \in Els(q) PROVE e \in Els(s)
  <2>1. PICK k \in 1 .. Len(q) : e = q[k]
    BY DEF Els
  <2>2. k \in 1 .. Len(s) /\ s[k] = e
    BY <1>1, <2>1
  <2> QED
    BY <2>2 DEF Els
<1>6. ASSUME NEW e \in Els(d) PROVE e \in Els(s)
  <2>1. PICK k \in 1 .. Len(d) : e = d[k]
    BY DEF Els
  <2>2. /\ k + Len(q) \in 1 .. Len(s) /\ ~(k + Len(q) <= Len(q))
        /\ (k + Len(q)) - Len(q) = k
    BY <1>1
  <2>3. s[k + Len(q)] = e
    BY <1>1, <2>1, <2>2
  <2> QED
    BY <2>2, <2>3 DEF Els
<1> QED
  BY <1>1, <1>3, <1>4, <1>5, <1>6 DEF s

\* A sequence without repetition is as long as its set of entries is large.
LEMMA DistinctLength ==
  ASSUME NEW S, NEW s \in Seq(S), Distinct(s)
  PROVE  ToSet(s) = Els(s) /\ Len(s) = Cardinality(Els(s))
<1>1. Len(s) \in Nat /\ DOMAIN s = 1 .. Len(s)
  OBVIOUS
<1>2. s \in [1 .. Len(s) -> Els(s)]
  BY <1>1 DEF Els
<1>3. s \in Injection(1 .. Len(s), Els(s))
  BY <1>2 DEF Injection, IsInjective, Distinct
<1>4. s \in Surjection(1 .. Len(s), Els(s))
  BY <1>2 DEF Surjection, Els
<1>5. ExistsBijection(1 .. Len(s), Els(s))
  BY <1>3, <1>4 DEF ExistsBijection, Bijection
<1> QED
  BY <1>1, <1>5, FS_CountingElements DEF ToSet, Els

\* Every allocated packet is in exactly one place, for any interleaving of the
\* processes with the slot operation.
THEOREM OneOwnerAlways ==
  ASSUME ~FlushInTx
  PROVE  Spec => []OneOwner
<1>1. TxInv => OneOwner
  <2> SUFFICES ASSUME TxInv PROVE OneOwner
    OBVIOUS
  <2> DEFINE last == IF pc \in {"filled", "written"} THEN <<blk>> ELSE <<>>
  <2>1. last \in Seq(Block) /\ Distinct(last) /\ Els(last) = Adding
    <3>1. CASE pc \in {"filled", "written"}
      <4>1. last = <<blk>> /\ blk \in Block /\ Adding = {blk}
        BY <3>1 DEF TxInv, AddingOK, Adding
      <4> QED
        BY <4>1 DEF Distinct, Els
    <3>2. CASE pc \notin {"filled", "written"}
      BY <3>2 DEF Distinct, Els, Adding
    <3> QED
      BY <3>1, <3>2
  <2>2. Els(Queue) \subseteq Block
    BY DEF TxInv, OwnersOK, TxTypeOK
  <2>3. Queue \in Seq(Block) /\ dequeued \in Seq(Block)
    BY <2>2, QueueIs, QueueOfBlocks DEF TxInv, TxTypeOK
  <2>4. /\ Queue \o dequeued \in Seq(Block) /\ Distinct(Queue \o dequeued)
        /\ Els(Queue \o dequeued) = Els(Queue) \cup Els(dequeued)
    BY <2>3, ConcatEls DEF TxInv, OwnersOK
  <2> DEFINE rest == Queue \o dequeued
  <2>5. Els(rest) \cap Els(last) = {}
    BY <2>1, <2>4 DEF TxInv, OwnersOK
  <2>6. rest \in Seq(Block) /\ Distinct(rest)
    BY <2>4
  <2> HIDE DEF rest, last
  <2>7. /\ rest \o last \in Seq(Block) /\ Distinct(rest \o last)
        /\ Els(rest \o last) = Els(rest) \cup Els(last)
    BY <2>1, <2>5, <2>6, ConcatEls
  <2>8. Owned = rest \o last
    BY DEF Owned, rest, last
  <2>9. Els(Owned) = used \ lost
    BY <2>1, <2>4, <2>7, <2>8 DEF rest, TxInv, OwnersOK
  <2> QED
    BY <2>7, <2>8, <2>9, DistinctLength DEF OneOwner, TxInv, OwnersOK
<1> QED
  BY <1>1, TxInvariance, PTL

\* No packet is answered twice, and none leaves the pool without its answer.
THEOREM AnsweredExactlyOnce ==
  ASSUME ~FlushInTx
  PROVE  Spec => []AnsweredOnce
<1>1. TxInv => AnsweredOnce
  <2> SUFFICES ASSUME TxInv, NEW i \in 1 .. issued
               PROVE  answers[i] = IF \E b \in used : mem[b].id = i THEN 0 ELSE 1
    BY DEF AnsweredOnce
  <2>1. i \in Id /\ i <= issued
    BY SmallNumbers DEF TxInv, TxTypeOK, Id
  <2> QED
    BY <2>1 DEF TxInv, Numbered
<1> QED
  BY <1>1, TxInvariance, PTL

\* The packet on the air stays allocated and at the head, whatever is added
\* behind it and reported meanwhile.
THEOREM InFlightStays ==
  ASSUME ~FlushInTx
  PROVE  Spec => []InFlightIsHead
<1>1. TxInv => InFlightIsHead
  <2> SUFFICES ASSUME TxInv, slot = "tx"
               PROVE  Count # 0 /\ arr[get] = packet /\ packet \in used
    BY DEF InFlightIsHead
  <2>1. Count # 0 /\ arr[get] = packet
    BY DEF TxInv, FlightOK
  <2>2. /\ arr \in Slots /\ get \in Index /\ put \in Index /\ Count = Cnt(get, put)
        /\ Queue = QueueOf(arr, get, put) /\ Len(Queue) = Count
        /\ Count \in 0 .. RingSize - 1
    BY QueueIs DEF TxInv
  <2>3. Queue[1] = packet
    BY <2>1, <2>2, RingGet
  <2> QED
    BY <2>1, <2>2, <2>3, RingType DEF TxInv, OwnersOK, Els
<1> QED
  BY <1>1, TxInvariance, PTL

\* Promoting a packet to the head never reorders packets of one slotframe.
THEOREM SameTagInOrder ==
  ASSUME ~FlushInTx
  PROVE  Spec => []SameTagOrder
<1>1. TxInv => SameTagOrder
  <2>1. TxInv => Len(Queue) = Count
    BY QueueIs DEF TxInv
  <2> QED
    BY <2>1 DEF TxInv, Ordered, SameTagOrder, Pending
<1> QED
  BY <1>1, TxInvariance, PTL

\* A packet that is counted as sent by the overhear or the timeout was sent.
THEOREM PendingPacketsSent ==
  ASSUME ~FlushInTx
  PROVE  Spec => []PendingWasSent
<1>1. TxInv => PendingWasSent
  <2>1. TxInv => Len(Queue) = Count
    BY QueueIs DEF TxInv
  <2> QED
    BY <2>1 DEF TxInv, SentOK, PendingWasSent, Els
<1> QED
  BY <1>1, TxInvariance, PTL

\* The links stay as they are from the start to the end of a Tx slot.
THEOREM TxSlotsUndisturbed ==
  ASSUME ~FlushInTx
  PROVE  Spec => []TxSlotUndisturbed
<1>1. TxInv => TxSlotUndisturbed
  BY DEF TxInv, LockOK
<1> QED
  BY <1>1, TxInvariance, PTL
=============================================================================
