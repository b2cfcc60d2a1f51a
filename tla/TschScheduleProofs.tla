------------------------- MODULE TschScheduleProofs -------------------------
(***************************************************************************)
(* Machine-checked lemmas about the operators of TschSchedule, for any     *)
(* pool, any slotframes and any schedule: what adding and removing a link  *)
(* leaves in the lists and in the pool, and which link the scan of the     *)
(* slotframes chooses.                                                     *)
(***************************************************************************)
EXTENDS TschSchedule, FiniteSetTheorems, SequenceTheorems, WellFoundedInduction, TLAPS

-----------------------------------------------------------------------------
(***************************************************************************)
(* Functions defined step by step                                          *)
(***************************************************************************)

\* A nonempty set of naturals has a least element.
LEMMA Least ==
  ASSUME NEW T \in SUBSET Nat, T # {}
  PROVE  \E x \in T : \A y \in T : x <= y
<1>1. PICK x \in T : \A y \in T : ~ (<<y, x>> \in OpToRel(<, Nat))
  BY NatLessThanWellFounded, WFMin, Zenon
<1>2. \A y \in T : ~ (y < x)
  BY <1>1 DEF OpToRel
<1>3. \A y \in T : x \in Nat /\ y \in Nat
  OBVIOUS
<1> QED
  BY <1>2, <1>3

\* What holds at the start and is kept by every step holds at every step.
LEMMA Chain ==
  ASSUME NEW N \in Nat, NEW f, NEW G,
         f[0] \in G[0],
         \A k \in 1 .. N : f[k - 1] \in G[k - 1] => f[k] \in G[k]
  PROVE  \A k \in 0 .. N : f[k] \in G[k]
<1> DEFINE Bad == {k \in 0 .. N : f[k] \notin G[k]}
<1>1. SUFFICES ASSUME Bad # {} PROVE FALSE
  OBVIOUS
<1>2. PICK x \in Bad : \A y \in Bad : x <= y
  <2>1. Bad \in SUBSET Nat
    OBVIOUS
  <2> HIDE DEF Bad
  <2> QED
    BY <1>1, <2>1, Least
<1>3. x # 0 /\ x \in 0 .. N
  OBVIOUS
<1>4. x - 1 \in 0 .. N /\ x - 1 \notin Bad
  BY <1>2, <1>3
<1> QED
  BY <1>3, <1>4

\* g starts with v0 and goes on with the steps D, inside the set V.
Iterates(N, V, v0, D, g) ==
  /\ g \in [0 .. N -> V]
  /\ g[0] = v0
  /\ \A k \in 1 .. N : g[k] = D[k][g[k - 1]]

\* Steps from a set into itself define a function.
LEMMA Recursion ==
  ASSUME NEW N \in Nat, NEW V, NEW v0 \in V, NEW D, D \in [1 .. N -> [V -> V]]
  PROVE  \E g : Iterates(N, V, v0, D, g)
<1> DEFINE Bad == {n \in 0 .. N : ~ \E g : Iterates(n, V, v0, D, g)}
<1>1. SUFFICES ASSUME Bad # {} PROVE FALSE
  <2>1. N \in 0 .. N
    OBVIOUS
  <2>2. N \notin Bad
    BY <1>1
  <2> QED
    BY <2>1, <2>2
<1>2. PICK n \in Bad : \A y \in Bad : n <= y
  <2>1. Bad \in SUBSET Nat
    OBVIOUS
  <2> HIDE DEF Bad
  <2> QED
    BY <1>1, <2>1, Least
<1>3. CASE n = 0
  <2>1. PICK g : g = [i \in 0 .. 0 |-> v0]
    OBVIOUS
  <2>2. g \in [0 .. 0 -> V] /\ g[0] = v0
    BY <2>1
  <2>3. Iterates(0, V, v0, D, g)
    BY <2>2 DEF Iterates
  <2> QED
    BY <1>3, <2>3
<1>4. CASE n # 0
  <2>1. n \in 1 .. N /\ n - 1 \in 0 .. N /\ n - 1 \notin Bad
    <3>1. n \in 0 .. N
      OBVIOUS
    <3> HIDE DEF Bad
    <3> QED
      BY <1>2, <1>4, <3>1
  <2>2. PICK g : Iterates(n - 1, V, v0, D, g)
    BY <2>1
  <2>3. /\ g \in [0 .. n - 1 -> V] /\ g[0] = v0
        /\ \A k \in 1 .. n - 1 : g[k] = D[k][g[k - 1]]
    BY <2>2 DEF Iterates
  <2>4. g[n - 1] \in V /\ D[n] \in [V -> V]
    BY <2>1, <2>3
  <2>5. PICK v \in V : v = D[n][g[n - 1]]
    BY <2>4
  <2>6. PICK e : e = [i \in 0 .. n |-> IF i = n THEN v ELSE g[i]]
    OBVIOUS
  <2>7. e \in [0 .. n -> V]
    BY <2>1, <2>3, <2>6
  <2>8. \A i \in 0 .. n - 1 : e[i] = g[i]
    BY <2>1, <2>6
  <2>9. ASSUME NEW k \in 1 .. n PROVE e[k] = D[k][e[k - 1]]
    <3>1. k - 1 \in 0 .. n - 1 /\ e[k - 1] = g[k - 1]
      BY <2>1, <2>8
    <3>2. CASE k = n
      BY <2>1, <2>5, <2>6, <3>1, <3>2
    <3>3. CASE k # n
      <4>1. k \in 1 .. n - 1 /\ k \in 0 .. n - 1
        BY <2>1, <3>3
      <4>2. e[k] = g[k] /\ g[k] = D[k][g[k - 1]]
        BY <2>3, <2>8, <4>1
      <4> QED
        BY <3>1, <4>2
    <3> QED
      BY <3>2, <3>3
  <2>10. Iterates(n, V, v0, D, e)
    BY <2>1, <2>3, <2>7, <2>8, <2>9 DEF Iterates
  <2> QED
    BY <2>10
<1> QED
  BY <1>3, <1>4

-----------------------------------------------------------------------------
(***************************************************************************)
(* Lists                                                                   *)
(***************************************************************************)

Distinct(q) == \A i, j \in 1 .. Len(q) : q[i] = q[j] => i = j

LEMMA AppendedList ==
  ASSUME NEW S, NEW q \in Seq(S), NEW b \in S, Distinct(q), b \notin ToSet(q)
  PROVE  /\ Append(q, b) \in Seq(S)
         /\ Distinct(Append(q, b))
         /\ ToSet(Append(q, b)) = ToSet(q) \cup {b}
<1>1. PICK r : r = Append(q, b)
  OBVIOUS
<1>2. /\ r \in Seq(S) /\ Len(r) = Len(q) + 1 /\ r[Len(r)] = b
      /\ \A k \in 1 .. Len(q) : r[k] = q[k]
  BY <1>1
<1>3. \A x : x \in ToSet(q) <=> \E k \in 1 .. Len(q) : x = q[k]
  BY DEF ToSet
<1>4. \A x : x \in ToSet(r) <=> \E k \in 1 .. Len(r) : x = r[k]
  BY <1>2 DEF ToSet
<1>5. Distinct(r)
  BY <1>2, <1>3 DEF Distinct
<1>6. ASSUME NEW x \in ToSet(r) PROVE x \in ToSet(q) \cup {b}
  BY <1>2, <1>3, <1>4, <1>6
<1>7. ASSUME NEW x \in ToSet(q) \cup {b} PROVE x \in ToSet(r)
  <2>1. CASE x = b
    BY <1>2, <1>4, <2>1
  <2>2. CASE x \in ToSet(q)
    <3>1. PICK k \in 1 .. Len(q) : x = q[k]
      BY <1>3, <2>2
    <3>2. k \in 1 .. Len(r) /\ x = r[k]
      BY <1>2, <3>1
    <3> QED
      BY <1>4, <3>2
  <2> QED
    BY <2>1, <2>2
<1> QED
  BY <1>1, <1>2, <1>5, <1>6, <1>7

LEMMA RemovedList ==
  ASSUME NEW S, NEW q \in Seq(S), NEW b, Distinct(q)
  PROVE  /\ RemoveFirst(q, b) \in Seq(S)
         /\ Distinct(RemoveFirst(q, b))
         /\ ToSet(RemoveFirst(q, b)) = ToSet(q) \ {b}
<1>1. \A x : x \in ToSet(q) <=> \E k \in 1 .. Len(q) : x = q[k]
  BY DEF ToSet
<1>2. CASE ~ \E i \in 1 .. Len(q) : q[i] = b
  BY <1>1, <1>2 DEF RemoveFirst
<1>3. CASE \E i \in 1 .. Len(q) : q[i] = b
  <2>1. PICK p : p = SelectInSeq(q, LAMBDA v : v = b)
    OBVIOUS
  <2>2. p \in 1 .. Len(q) /\ q[p] = b
    <3> DEFINE I == {i \in 1 .. Len(q) : q[i] = b}
    <3>1. I # {} /\ I \in SUBSET Nat
      BY <1>3
    <3>2. p = CHOOSE x \in I : \A y \in I : x <= y
      BY <1>3, <2>1 DEF SelectInSeq, Min
    <3>3. \E x \in I : \A y \in I : x <= y
      <4> HIDE DEF I
      <4> QED
        BY <3>1, Least
    <3>4. p \in I
      <4> HIDE DEF I
      <4> QED
        BY <3>2, <3>3
    <3> QED
      BY <3>4
  <2>3. PICK r : r = SubSeq(q, 1, p - 1) \o SubSeq(q, p + 1, Len(q))
    OBVIOUS
  <2>4. /\ r \in Seq(S) /\ Len(r) = Len(q) - 1
        /\ \A k \in 1 .. Len(r) : r[k] = IF k < p THEN q[k] ELSE q[k + 1]
    <3>1. PICK x, y : x = SubSeq(q, 1, p - 1) /\ y = SubSeq(q, p + 1, Len(q))
      OBVIOUS
    <3>2. /\ x \in Seq(S) /\ Len(x) = p - 1
          /\ \A k \in 1 .. p - 1 : x[k] = q[k]
      BY <2>2, <3>1
    <3>3. /\ y \in Seq(S) /\ Len(y) = Len(q) - p
          /\ \A k \in 1 .. Len(q) - p : y[k] = q[k + p]
      BY <2>2, <3>1
    <3>4. r = x \o y
      BY <2>3, <3>1
    <3>5. /\ r \in Seq(S) /\ Len(r) = Len(q) - 1
          /\ \A k \in 1 .. Len(r) : r[k] = IF k < p THEN x[k] ELSE y[k - (p - 1)]
      <4>1. Len(x) \in Nat /\ Len(y) \in Nat /\ Len(x) + Len(y) = Len(q) - 1
        BY <2>2, <3>2, <3>3
      <4>2. /\ r \in Seq(S) /\ Len(r) = Len(x) + Len(y)
            /\ \A k \in 1 .. Len(x) + Len(y) :
                 r[k] = IF k <= Len(x) THEN x[k] ELSE y[k - Len(x)]
        <5>1. x \in Seq(S) /\ y \in Seq(S)
          BY <3>2, <3>3
        <5> QED
          BY <3>4, <5>1, ConcatProperties, Zenon
      <4> QED
        BY <2>2, <3>2, <4>1, <4>2
    <3>6. ASSUME NEW k \in 1 .. Len(r), ~(k < p) PROVE r[k] = q[k + 1]
      <4>1. k - (p - 1) \in 1 .. Len(q) - p /\ (k - (p - 1)) + p = k + 1
        BY <2>2, <3>5, <3>6
      <4> QED
        BY <3>3, <3>5, <3>6, <4>1
    <3> QED
      BY <2>2, <3>2, <3>5, <3>6
  <2>5. RemoveFirst(q, b) = r
    BY <1>3, <2>1, <2>3 DEF RemoveFirst, RemoveAt
  <2>6. \A x : x \in ToSet(r) <=> \E k \in 1 .. Len(r) : x = r[k]
    BY <2>4 DEF ToSet
  <2>7. Distinct(r)
    BY <2>2, <2>4 DEF Distinct
  <2>8. ASSUME NEW x \in ToSet(r) PROVE x \in ToSet(q) \ {b}
    <3>1. PICK k \in 1 .. Len(r) : x = r[k]
      BY <2>6
    <3>2. PICK j \in 1 .. Len(q) : x = q[j] /\ j # p
      BY <2>2, <2>4, <3>1
    <3> QED
      BY <1>1, <2>2, <3>2 DEF Distinct
  <2>9. ASSUME NEW x \in ToSet(q) \ {b} PROVE x \in ToSet(r)
    <3>1. PICK j \in 1 .. Len(q) : x = q[j] /\ j # p
      BY <1>1, <2>2
    <3>2. CASE j < p
      <4>1. j \in 1 .. Len(r) /\ x = r[j]
        BY <2>2, <2>4, <3>1, <3>2
      <4> QED
        BY <2>6, <4>1
    <3>3. CASE j > p
      <4>1. j - 1 \in 1 .. Len(r) /\ x = r[j - 1]
        BY <2>2, <2>4, <3>1, <3>3
      <4> QED
        BY <2>6, <4>1
    <3> QED
      BY <2>2, <3>1, <3>2, <3>3
  <2> QED
    BY <2>4, <2>5, <2>7, <2>8, <2>9
<1> QED
  BY <1>2, <1>3

-----------------------------------------------------------------------------
(***************************************************************************)
(* Schedules                                                               *)
(***************************************************************************)

\* Blocks and links, for links whose address is in A, and schedules of them.
Pointer == Block \cup {Null}
Links(A) == [sf : Handle, ts : Nat, tx : BOOLEAN, rx : BOOLEAN, addr : A]
Schedules(A) ==
  [used : SUBSET Block, mem : [Block -> Links(A)], links : [Handle -> Seq(Block)],
   txLinks : [Address -> 0 .. 255], current : Pointer]

\* Every list holds the allocated links of its slotframe, each of them once,
\* and the link that runs next is an allocated one.
Accounted(s) ==
  /\ \A h \in Handle : /\ Distinct(s.links[h])
                       /\ ToSet(s.links[h]) = {b \in s.used : s.mem[b].sf = h}
  /\ s.current \in s.used \cup {Null}

LEMMA BlockType == Null \notin Block /\ Block \in SUBSET Nat /\ MaxLinks \in Nat
  BY ScheduleAssumption DEF Null, Block

LEMMA CountedIs ==
  ASSUME NEW A, NEW s \in Schedules(A), NEW l, NEW d \in Int
  PROVE  /\ Counted(s, l, d) \in Schedules(A)
         /\ Counted(s, l, d).used = s.used
         /\ Counted(s, l, d).mem = s.mem
         /\ Counted(s, l, d).links = s.links
         /\ Counted(s, l, d).current = s.current
         /\ \A a \in Address : Counted(s, l, d).txLinks[a] =
              IF l.tx /\ l.addr = a THEN (s.txLinks[a] + d) % 256 ELSE s.txLinks[a]
<1>1. PICK t : t = [s.txLinks EXCEPT ![l.addr] = (@ + d) % 256]
  OBVIOUS
<1>2. t \in [Address -> 0 .. 255]
  <2>1. s.txLinks \in [Address -> 0 .. 255]
    BY DEF Schedules
  <2>2. \A x \in 0 .. 255 : (x + d) % 256 \in 0 .. 255
    OBVIOUS
  <2> QED
    BY <1>1, <2>1, <2>2
<1>3. \A a \in Address : t[a] = IF l.addr = a THEN (s.txLinks[a] + d) % 256
                                              ELSE s.txLinks[a]
  BY <1>1 DEF Schedules
<1>4. Counted(s, l, d) = IF l.tx THEN [s EXCEPT !.txLinks = t] ELSE s
  BY <1>1 DEF Counted
<1>5. [s EXCEPT !.txLinks = t] \in Schedules(A)
  BY <1>2 DEF Schedules
<1> QED
  BY <1>3, <1>4, <1>5 DEF Schedules

\* The Tx links towards an address, and the counters that follow them.
TxTo(s, a) == {b \in s.used : s.mem[b].tx /\ s.mem[b].addr = a}
Counts(s) == \A a \in Address : s.txLinks[a] = Cardinality(TxTo(s, a)) % 256

LEMMA TxToFinite ==
  ASSUME NEW s, s.used \subseteq Block, NEW a
  PROVE  IsFiniteSet(TxTo(s, a)) /\ Cardinality(TxTo(s, a)) \in Nat
<1>1. IsFiniteSet(Block)
  BY BlockType, FS_Interval DEF Block
<1>2. TxTo(s, a) \subseteq Block
  BY DEF TxTo
<1> QED
  BY <1>1, <1>2, FS_Subset, FS_CardinalityType

\* One more, one less, around the end of a byte.
LEMMA ByteUp ==
  ASSUME NEW n \in Nat
  PROVE  ((n % 256) + 1) % 256 = (n + 1) % 256
  OBVIOUS

LEMMA ByteDown ==
  ASSUME NEW n \in Nat, n > 0
  PROVE  ((n % 256) + (-1)) % 256 = (n - 1) % 256
  OBVIOUS

-----------------------------------------------------------------------------
(***************************************************************************)
(* Removing a link                                                         *)
(***************************************************************************)

\* Whether the call has any effect: a null pointer or a link of another
\* slotframe is refused.
Removes(s, h, b) == b # Null /\ s.mem[b].sf = h

LEMMA RemoveLinkIs ==
  ASSUME NEW A, NEW s \in Schedules(A), NEW h \in Handle, NEW b \in Pointer,
         Accounted(s), NEW r, r = RemoveLink(s, h, b)
  PROVE  /\ r \in Schedules(A)
         /\ Accounted(r)
         /\ r.mem = s.mem
         /\ r.used = IF Removes(s, h, b) THEN s.used \ {b} ELSE s.used
<1>1. CASE ~Removes(s, h, b)
  BY <1>1 DEF RemoveLink, Removes
<1>2. CASE Removes(s, h, b)
  <2>1. b \in Block
    BY <1>2 DEF Removes, Pointer
  <2>2. PICK q : q = RemoveFirst(s.links[h], b)
    OBVIOUS
  <2>3. s.links \in [Handle -> Seq(Block)] /\ s.links[h] \in Seq(Block)
    BY DEF Schedules
  <2>4. /\ q \in Seq(Block) /\ Distinct(q)
        /\ ToSet(q) = ToSet(s.links[h]) \ {b}
    BY <2>2, <2>3, RemovedList DEF Accounted
  <2>5. PICK t : t = [s EXCEPT !.links[h] = q, !.used = @ \ {b},
                               !.current = IF @ = b THEN Null ELSE @]
    OBVIOUS
  <2>6. /\ t \in Schedules(A)
        /\ t.used = s.used \ {b} /\ t.mem = s.mem
        /\ t.current = IF s.current = b THEN Null ELSE s.current
        /\ \A g \in Handle : t.links[g] = IF g = h THEN q ELSE s.links[g]
    <3>1. [s.links EXCEPT ![h] = q] \in [Handle -> Seq(Block)]
      BY <2>3, <2>4
    <3>2. s.current \in Pointer /\ s.used \ {b} \in SUBSET Block
      BY DEF Schedules
    <3> QED
      BY <2>3, <2>5, <3>1, <3>2 DEF Schedules, Pointer
  <2>7. r = Counted(t, s.mem[b], -1)
    BY <1>2, <2>2, <2>5 DEF RemoveLink, Removes
  <2>8. /\ r \in Schedules(A) /\ r.used = t.used /\ r.mem = t.mem
        /\ r.links = t.links /\ r.current = t.current
    BY <2>6, <2>7, CountedIs
  <2>9. Accounted(t)
    <3>1. ASSUME NEW g \in Handle
          PROVE  /\ Distinct(t.links[g])
                 /\ ToSet(t.links[g]) = {c \in t.used : t.mem[c].sf = g}
      <4>1. CASE g = h
        BY <2>4, <2>6, <4>1 DEF Accounted
      <4>2. CASE g # h
        BY <1>2, <2>6, <4>2 DEF Accounted, Removes
      <4> QED
        BY <4>1, <4>2
    <3>2. t.current \in t.used \cup {Null}
      BY <2>6 DEF Accounted
    <3> QED
      BY <3>1, <3>2 DEF Accounted
  <2>10. Accounted(r)
    BY <2>8, <2>9 DEF Accounted
  <2> QED
    BY <1>2, <2>6, <2>8, <2>10
<1> QED
  BY <1>1, <1>2

\* The counters follow a link that was allocated.
LEMMA RemoveLinkCounts ==
  ASSUME NEW A, NEW s \in Schedules(A), NEW h \in Handle, NEW b \in s.used \cup {Null},
         Counts(s), NEW r, r = RemoveLink(s, h, b), r.mem = s.mem,
         r.used = IF Removes(s, h, b) THEN s.used \ {b} ELSE s.used
  PROVE  Counts(r)
<1>1. CASE ~Removes(s, h, b)
  BY <1>1 DEF RemoveLink, Removes
<1>2. CASE Removes(s, h, b)
  <2>1. b \in s.used /\ s.used \subseteq Block
    BY <1>2 DEF Removes, Schedules
  <2>2. PICK t : t = [s EXCEPT !.links[h] = RemoveFirst(@, b), !.used = @ \ {b},
                               !.current = IF @ = b THEN Null ELSE @]
    OBVIOUS
  <2>3. r = Counted(t, s.mem[b], -1) /\ t.txLinks = s.txLinks
    BY <1>2, <2>2 DEF RemoveLink, Removes, Schedules
  <2>4. ASSUME NEW a \in Address PROVE r.txLinks[a] = Cardinality(TxTo(r, a)) % 256
    <3> DEFINE l == s.mem[b]  n == Cardinality(TxTo(s, a))
    <3>1. n \in Nat /\ IsFiniteSet(TxTo(s, a)) /\ s.txLinks[a] = n % 256
      BY <2>1, TxToFinite DEF Counts
    <3>2. r.txLinks[a] = IF l.tx /\ l.addr = a THEN (s.txLinks[a] + (-1)) % 256
                                               ELSE s.txLinks[a]
      BY <2>3 DEF Counted, Schedules
    <3>3. CASE l.tx /\ l.addr = a
      <4>1. TxTo(r, a) = TxTo(s, a) \ {b} /\ b \in TxTo(s, a)
        BY <1>2, <2>1, <3>3 DEF TxTo
      <4>2. Cardinality(TxTo(r, a)) = n - 1 /\ n > 0
        BY <3>1, <4>1, FS_RemoveElement, TxToFinite, FS_EmptySet
      <4> QED
        BY <3>1, <3>2, <3>3, <4>2, ByteDown
    <3>4. CASE ~(l.tx /\ l.addr = a)
      <4>1. TxTo(r, a) = TxTo(s, a)
        BY <1>2, <2>1, <3>4 DEF TxTo
      <4> QED
        BY <3>1, <3>2, <3>4, <4>1
    <3> QED
      BY <3>3, <3>4
  <2> QED
    BY <2>4 DEF Counts
<1> QED
  BY <1>1, <1>2

-----------------------------------------------------------------------------
(***************************************************************************)
(* Adding a link                                                           *)
(***************************************************************************)

\* The link of a timeslot is one of the list.
LEMMA LinkAtIs ==
  ASSUME NEW A, NEW s \in Schedules(A), NEW h \in Handle, NEW ts, Accounted(s),
         NEW b, b = LinkAt(s, h, ts)
  PROVE  b # Null => b \in s.used /\ s.mem[b].sf = h /\ s.mem[b].ts = ts
<1> DEFINE q == s.links[h]
           I == {i \in 1 .. Len(q) : s.mem[q[i]].ts = ts}
<1>1. q \in Seq(Block) /\ I \in SUBSET Nat
  BY DEF Schedules
<1>2. CASE I = {}
  BY <1>2 DEF LinkAt, SelectInSeq
<1>3. CASE I # {}
  <2>1. PICK i : i = CHOOSE x \in I : \A y \in I : x <= y
    OBVIOUS
  <2>2. \E x \in I : \A y \in I : x <= y
    <3> HIDE DEF I
    <3> QED
      BY <1>1, <1>3, Least
  <2>3. i \in I
    <3> HIDE DEF I
    <3> QED
      BY <2>1, <2>2
  <2>4. SelectInSeq(q, LAMBDA c : s.mem[c].ts = ts) = i
    BY <1>3, <2>1 DEF SelectInSeq, Min
  <2>5. b = q[i]
    BY <1>1, <2>3, <2>4 DEF LinkAt
  <2>6. b \in ToSet(q)
    BY <1>1, <2>3, <2>5 DEF ToSet
  <2> QED
    BY <2>3, <2>5, <2>6 DEF Accounted
<1> QED
  BY <1>2, <1>3

\* The pool hands out a free block as long as there is one.
LEMMA AllocatedIs ==
  ASSUME NEW s, s.used \in SUBSET Block, NEW b, b = Allocated(s)
  PROVE  IF s.used = Block THEN b = Null ELSE b \in Block \ s.used
<1> DEFINE Free == Block \ s.used
<1>1. CASE s.used = Block
  BY <1>1 DEF Allocated
<1>2. CASE s.used # Block
  <2>1. Free # {} /\ Free \in SUBSET Nat
    BY <1>2, BlockType
  <2>2. b = CHOOSE x \in Free : \A y \in Free : x <= y
    BY <2>1 DEF Allocated
  <2>3. \E x \in Free : \A y \in Free : x <= y
    <3> HIDE DEF Free
    <3> QED
      BY <2>1, Least
  <2>4. b \in Free
    <3> HIDE DEF Free
    <3> QED
      BY <2>2, <2>3
  <2> QED
    BY <1>2, <2>4
<1> QED
  BY <1>1, <1>2

\* What a link is added to: the schedule without the link it replaces.
Cleared(s, l, doRemove) ==
  IF doRemove THEN RemoveLink(s, l.sf, LinkAt(s, l.sf, l.ts)) ELSE s

LEMMA ClearedIs ==
  ASSUME NEW A, NEW s \in Schedules(A), NEW l \in Links(A), NEW d \in BOOLEAN,
         Accounted(s), NEW t, t = Cleared(s, l, d)
  PROVE  /\ t \in Schedules(A) /\ Accounted(t) /\ t.mem = s.mem
         /\ t.used \subseteq s.used
         /\ \A c \in s.used : s.mem[c].sf # l.sf \/ s.mem[c].ts # l.ts => c \in t.used
         /\ \A c, e \in s.used : c \in t.used \/ e \in t.used \/ c = e
         /\ Counts(s) => Counts(t)
<1>1. CASE ~d
  BY <1>1 DEF Cleared
<1>2. CASE d
  <2>1. PICK b : b = LinkAt(s, l.sf, l.ts)
    OBVIOUS
  <2>2. l.sf \in Handle /\ s.used \in SUBSET Block
    BY DEF Links, Schedules
  <2>3. b # Null => b \in s.used /\ s.mem[b].sf = l.sf /\ s.mem[b].ts = l.ts
    BY <2>1, <2>2, LinkAtIs
  <2>4. t = RemoveLink(s, l.sf, b) /\ b \in Pointer /\ b \in s.used \cup {Null}
    BY <1>2, <2>1, <2>2, <2>3 DEF Cleared, Pointer
  <2>5. /\ t \in Schedules(A) /\ Accounted(t) /\ t.mem = s.mem
        /\ t.used = IF Removes(s, l.sf, b) THEN s.used \ {b} ELSE s.used
    BY <2>2, <2>4, RemoveLinkIs
  <2>6. Counts(s) => Counts(t)
    BY <2>2, <2>4, <2>5, RemoveLinkCounts
  <2> QED
    BY <2>3, <2>5, <2>6 DEF Removes
<1> QED
  BY <1>1, <1>2

LEMMA AddLinkIs ==
  ASSUME NEW A, NEW s \in Schedules(A), NEW l \in Links(A), NEW d \in BOOLEAN,
         Accounted(s), NEW r, r = AddLink(s, l, d)
  PROVE  /\ r.sch \in Schedules(A) /\ Accounted(r.sch) /\ r.ptr \in Pointer
         /\ r.ptr = Null => r.sch.used = Block
         /\ r.ptr # Null => r.ptr \in r.sch.used /\ r.sch.mem[r.ptr] = l
         /\ s.used = Block => r.sch.used = Block
         /\ \A c \in s.used :
              s.mem[c].sf # l.sf \/ s.mem[c].ts # l.ts =>
                c \in r.sch.used /\ r.sch.mem[c] = s.mem[c] /\ c # r.ptr
         /\ \A c \in r.sch.used :
              c # r.ptr => c \in s.used /\ r.sch.mem[c] = s.mem[c]
         /\ Counts(s) => Counts(r.sch)
<1>1. PICK t : t = Cleared(s, l, d)
  OBVIOUS
<1>2. /\ t \in Schedules(A) /\ Accounted(t) /\ t.mem = s.mem
      /\ t.used \subseteq s.used
      /\ \A c \in s.used : s.mem[c].sf # l.sf \/ s.mem[c].ts # l.ts => c \in t.used
      /\ \A c, e \in s.used : c \in t.used \/ e \in t.used \/ c = e
      /\ Counts(s) => Counts(t)
  BY <1>1, ClearedIs
<1>3. PICK b : b = Allocated(t)
  OBVIOUS
<1>4. t.used \in SUBSET Block /\ s.used \in SUBSET Block /\ t.mem \in [Block -> Links(A)]
      /\ l.sf \in Handle /\ t.links \in [Handle -> Seq(Block)]
  BY <1>2 DEF Schedules, Links
<1>5. IF t.used = Block THEN b = Null ELSE b \in Block \ t.used
  BY <1>3, <1>4, AllocatedIs
<1>6. CASE b = Null
  <2>1. r = [sch |-> t, ptr |-> Null] /\ t.used = Block
    BY <1>1, <1>3, <1>5, <1>6, BlockType DEF AddLink, Cleared
  <2>2. r.sch = t /\ r.ptr = Null
    BY <2>1
  <2>3. \A c \in s.used : c # Null
    BY <1>4, BlockType
  <2> QED
    BY <1>2, <2>1, <2>2, <2>3 DEF Pointer
<1>7. CASE b # Null
  <2>1. b \in Block /\ b \notin t.used
    BY <1>5, <1>7
  <2>2. PICK q : q = Append(t.links[l.sf], b)
    OBVIOUS
  <2>3. b \notin ToSet(t.links[l.sf]) /\ t.links[l.sf] \in Seq(Block)
        /\ Distinct(t.links[l.sf])
    BY <1>2, <1>4, <2>1 DEF Accounted
  <2>4. /\ q \in Seq(Block) /\ Distinct(q)
        /\ ToSet(q) = ToSet(t.links[l.sf]) \cup {b}
    BY <2>1, <2>2, <2>3, AppendedList
  <2>5. PICK u : u = [t EXCEPT !.used = @ \cup {b}, !.mem[b] = l, !.links[l.sf] = q]
    OBVIOUS
  <2>6. /\ u \in Schedules(A)
        /\ u.used = t.used \cup {b} /\ u.current = t.current
        /\ u.txLinks = t.txLinks
        /\ \A c \in Block : u.mem[c] = IF c = b THEN l ELSE t.mem[c]
        /\ \A g \in Handle : u.links[g] = IF g = l.sf THEN q ELSE t.links[g]
    <3>1. [t.links EXCEPT ![l.sf] = q] \in [Handle -> Seq(Block)]
      BY <1>4, <2>4
    <3>2. [t.mem EXCEPT ![b] = l] \in [Block -> Links(A)]
      BY <1>4
    <3>3. t.used \cup {b} \in SUBSET Block
      BY <1>4, <2>1
    <3> QED
      BY <1>2, <1>4, <2>5, <3>1, <3>2, <3>3 DEF Schedules
  <2>7. r = [sch |-> Counted(u, l, 1), ptr |-> b]
    BY <1>1, <1>3, <1>7, <2>2, <2>5 DEF AddLink, Cleared
  <2>8. PICK v : v = Counted(u, l, 1)
    OBVIOUS
  <2>9. /\ v \in Schedules(A) /\ v.used = u.used /\ v.mem = u.mem
        /\ v.links = u.links /\ v.current = u.current
        /\ \A a \in Address : v.txLinks[a] =
             IF l.tx /\ l.addr = a THEN (u.txLinks[a] + 1) % 256 ELSE u.txLinks[a]
    BY <2>6, <2>8, CountedIs
  <2>10. Accounted(v)
    <3>1. ASSUME NEW g \in Handle
          PROVE  /\ Distinct(v.links[g])
                 /\ ToSet(v.links[g]) = {c \in v.used : v.mem[c].sf = g}
      <4>1. CASE g = l.sf
        BY <1>2, <1>4, <2>1, <2>4, <2>6, <2>9, <4>1 DEF Accounted
      <4>2. CASE g # l.sf
        <5>1. /\ v.links[g] = t.links[g] /\ Distinct(t.links[g])
              /\ ToSet(t.links[g]) = {c \in t.used : t.mem[c].sf = g}
          BY <1>2, <2>6, <2>9, <4>2 DEF Accounted
        <5>2. \A c \in v.used : v.mem[c].sf = g <=> c \in t.used /\ t.mem[c].sf = g
          BY <1>4, <2>1, <2>6, <2>9, <4>2
        <5>3. t.used \subseteq v.used
          BY <2>6, <2>9
        <5> QED
          BY <5>1, <5>2, <5>3
      <4> QED
        BY <4>1, <4>2
    <3>2. v.current \in v.used \cup {Null}
      BY <1>2, <2>6, <2>9 DEF Accounted
    <3> QED
      BY <3>1, <3>2 DEF Accounted
  <2>11. s.used = Block => v.used = Block
    BY <1>2, <1>4, <2>1, <2>6, <2>9
  <2>12. ASSUME Counts(t) PROVE Counts(v)
    <3>1. ASSUME NEW a \in Address PROVE v.txLinks[a] = Cardinality(TxTo(v, a)) % 256
      <4> DEFINE n == Cardinality(TxTo(t, a))
      <4>1. n \in Nat /\ IsFiniteSet(TxTo(t, a)) /\ t.txLinks[a] = n % 256
        BY <1>4, <2>12, TxToFinite DEF Counts
      <4>2. CASE l.tx /\ l.addr = a
        <5>1. TxTo(v, a) = TxTo(t, a) \cup {b} /\ b \notin TxTo(t, a)
          BY <1>4, <2>1, <2>6, <2>9, <4>2 DEF TxTo
        <5>2. Cardinality(TxTo(v, a)) = n + 1
          BY <4>1, <5>1, FS_AddElement
        <5> QED
          BY <2>6, <2>9, <4>1, <4>2, <5>2, ByteUp
      <4>3. CASE ~(l.tx /\ l.addr = a)
        <5>1. TxTo(v, a) = TxTo(t, a)
          BY <1>4, <2>1, <2>6, <2>9, <4>3 DEF TxTo
        <5> QED
          BY <2>6, <2>9, <4>1, <4>3, <5>1
      <4> QED
        BY <4>2, <4>3
    <3> QED
      BY <3>1 DEF Counts
  <2>13. \A c \in t.used : c \in v.used /\ v.mem[c] = s.mem[c] /\ c # b
    BY <1>2, <1>4, <2>1, <2>6, <2>9
  <2>14. b \in v.used /\ v.mem[b] = l /\ b \in Pointer
    BY <2>1, <2>6, <2>9 DEF Pointer
  <2>15. \A c \in v.used : c # b => c \in s.used /\ v.mem[c] = s.mem[c]
    BY <1>2, <1>4, <2>6, <2>9
  <2> QED
    BY <1>2, <1>7, <2>7, <2>8, <2>9, <2>10, <2>11, <2>12, <2>13, <2>14, <2>15
<1> QED
  BY <1>6, <1>7

-----------------------------------------------------------------------------
(***************************************************************************)
(* The scan for the next active link                                       *)
(***************************************************************************)

\* What the scan keeps, and the wait for a link.
Places == [best : Pointer, backup : Pointer, wait : Nat]
WaitOf(s, asn, b) == Wait(asn, s.mem[b].sf, s.mem[b].ts)

\* What the scan of the set S of links has found: a link with the least wait,
\* one that transmits if any of that slot does; and of the other links of that
\* slot that receive, none has a lower slotframe handle than the backup.
Found(s, asn, S, acc) ==
  IF S = {} THEN acc.best = Null
  ELSE /\ acc.best \in S
       /\ acc.wait = WaitOf(s, asn, acc.best)
       /\ \A b \in S : acc.wait <= WaitOf(s, asn, b)
       /\ \A b \in S : WaitOf(s, asn, b) = acc.wait /\ s.mem[b].tx
                         => s.mem[acc.best].tx
       /\ acc.backup # Null => /\ acc.backup \in S /\ s.mem[acc.backup].rx
                               /\ WaitOf(s, asn, acc.backup) = acc.wait
       /\ \A b \in S : WaitOf(s, asn, b) = acc.wait /\ s.mem[b].rx /\ b # acc.best
            => acc.backup # Null /\ s.mem[acc.backup].sf <= s.mem[b].sf

LEMMA HandleType ==
  /\ Handle \subseteq Nat
  /\ \A h \in Handle : SizeOf(h) \in Nat \ {0}
<1>1. ASSUME NEW h \in Handle PROVE h \in Nat /\ SizeOf(h) \in Nat \ {0}
  <2>1. PICK i \in DOMAIN Slotframes : h = Slotframes[i][1]
    BY DEF Handle
  <2>2. Slotframes[i] \in Range(Slotframes) /\ Slotframes[i] \in Nat \X (Nat \ {0})
    BY ScheduleAssumption DEF Range
  <2>3. PICK f : f = CHOOSE g \in Range(Slotframes) : g[1] = h
    OBVIOUS
  <2>4. f \in Range(Slotframes)
    BY <2>1, <2>2, <2>3
  <2>5. f \in Nat \X (Nat \ {0})
    BY <2>4, ScheduleAssumption DEF Range
  <2> QED
    BY <2>1, <2>2, <2>3, <2>5 DEF SizeOf
<1> QED
  BY <1>1

\* A link is due after at least one slot and at most one slotframe.
LEMMA WaitType ==
  ASSUME NEW asn \in Nat, NEW h \in Handle, NEW ts \in Nat
  PROVE  Wait(asn, h, ts) \in Nat \ {0}
<1>1. PICK n \in Nat \ {0} : n = SizeOf(h)
  BY HandleType
<1>2. PICK now \in 0 .. n - 1 : now = asn % n
  BY <1>1
<1> QED
  BY <1>1, <1>2 DEF Wait

\* The comparison of two links names one of them, or neither when the present
\* best stays; a link that transmits never loses to one that does not.
LEMMA NewBestIs ==
  ASSUME NEW s, NEW best, NEW b, NEW packets,
         s.mem[best].tx \in BOOLEAN, s.mem[b].tx \in BOOLEAN,
         NEW new, new = NewBest(s, best, b, packets)
  PROVE  /\ new \in {best, b, Null}
         /\ s.mem[b].tx /\ ~ s.mem[best].tx => new = b
         /\ s.mem[best].tx /\ ~ s.mem[b].tx => new = Null
<1>1. CASE s.mem[b].tx # s.mem[best].tx
  <2>1. new = IF s.mem[b].tx THEN b ELSE Null
    BY <1>1, Zenon DEF NewBest
  <2> QED
    BY <1>1, <2>1
<1>2. CASE s.mem[b].tx = s.mem[best].tx /\ s.mem[b].sf # s.mem[best].sf
  BY <1>2 DEF NewBest
<1>3. CASE s.mem[b].tx = s.mem[best].tx /\ s.mem[b].sf = s.mem[best].sf
  <2>1. new = Compared(s, best, b, packets)
    BY <1>3 DEF NewBest
  <2> QED
    BY <1>3, <2>1 DEF Compared
<1> QED
  BY <1>1, <1>2, <1>3

\* The backup only moves to links that receive, and to lower handles.
LEMMA BackupIs ==
  ASSUME NEW A, NEW s \in Schedules(A), NEW k \in Pointer, NEW b \in Block,
         NEW r, r = Backup(s, k, b)
  PROVE  /\ r \in {k, b}
         /\ r = b => s.mem[b].rx \/ k = b
         /\ k # Null => r # Null /\ s.mem[r].sf <= s.mem[k].sf
         /\ s.mem[b].rx => r # Null /\ s.mem[r].sf <= s.mem[b].sf
<1>1. \A c \in Block : s.mem[c].sf \in Nat
  BY HandleType DEF Schedules, Links
<1>2. CASE s.mem[b].rx /\ (k = Null \/ s.mem[b].sf < s.mem[k].sf)
  <2>1. r = b
    BY <1>2 DEF Backup
  <2> QED
    BY <1>1, <1>2, <2>1, BlockType DEF Pointer
<1>3. CASE ~(s.mem[b].rx /\ (k = Null \/ s.mem[b].sf < s.mem[k].sf))
  <2>1. r = k
    BY <1>3 DEF Backup
  <2> QED
    BY <1>1, <1>3, <2>1, BlockType DEF Pointer
<1> QED
  BY <1>2, <1>3

\* One more link of the scan.
LEMMA ScannedIs ==
  ASSUME NEW A, NEW s \in Schedules(A), NEW asn \in Nat, NEW packets,
         NEW S \in SUBSET Block, NEW b \in Block, NEW acc \in Places,
         Found(s, asn, S, acc),
         NEW r, r = Scanned(s, asn, packets, acc, b)
  PROVE  r \in Places /\ Found(s, asn, S \cup {b}, r)
<1> DEFINE W(c) == WaitOf(s, asn, c)
<1>1. \A c \in Block : /\ W(c) \in Nat /\ s.mem[c].sf \in Nat
                       /\ s.mem[c].tx \in BOOLEAN /\ s.mem[c].rx \in BOOLEAN
  BY WaitType, HandleType DEF Schedules, Links, WaitOf
<1>2. /\ acc.best \in Pointer /\ acc.backup \in Pointer /\ acc.wait \in Nat
      /\ acc = [best |-> acc.best, backup |-> acc.backup, wait |-> acc.wait]
  BY DEF Places
<1>3. acc.best = Null <=> S = {}
  BY <1>2, BlockType DEF Found
<1>4. CASE acc.best = Null \/ W(b) < acc.wait
  <2>1. r = [best |-> b, backup |-> Null, wait |-> W(b)]
    BY <1>1, <1>2, <1>4 DEF Scanned, WaitOf
  <2>2. r \in Places
    BY <1>1, <2>1 DEF Places, Pointer
  <2>3. \A c \in S : W(b) < W(c)
    BY <1>1, <1>2, <1>3, <1>4 DEF Found
  <2> HIDE DEF W
  <2>4. /\ r.best = b /\ r.backup = Null /\ r.wait = W(b)
        /\ \A c \in S \cup {b} : r.wait <= W(c) /\ (W(c) = r.wait => c = b)
    BY <1>1, <2>1, <2>3
  <2>5. Found(s, asn, S \cup {b}, r)
    BY <2>4 DEF Found, W
  <2> QED
    BY <2>2, <2>5
<1>5. CASE acc.best # Null /\ W(b) = acc.wait
  <2> DEFINE best == acc.best
  <2>1. PICK new : new = NewBest(s, best, b, packets)
    OBVIOUS
  <2>2. best \in S /\ best \in Block
    BY <1>3, <1>5 DEF Found
  <2>3. /\ new \in {best, b, Null}
        /\ s.mem[b].tx /\ ~ s.mem[best].tx => new = b
        /\ s.mem[best].tx /\ ~ s.mem[b].tx => new = Null
    BY <1>1, <2>1, <2>2, NewBestIs
  <2>4. PICK k : k = IF new # b THEN Backup(s, acc.backup, b) ELSE acc.backup
    OBVIOUS
  <2>5. PICK m : m = IF new # best THEN Backup(s, k, best) ELSE k
    OBVIOUS
  <2>6. r = [best |-> IF new = Null THEN best ELSE new, backup |-> m,
             wait |-> acc.wait]
    <3>1. ~(acc.best = Null \/ Wait(asn, s.mem[b].sf, s.mem[b].ts) < acc.wait)
      BY <1>2, <1>5 DEF WaitOf
    <3>2. r = [acc EXCEPT !.best = IF new = Null THEN @ ELSE new, !.backup = m]
      BY <1>5, <2>1, <2>4, <2>5, <3>1 DEF Scanned, WaitOf
    <3> QED
      BY <1>2, <3>2
  <2>7. /\ k \in {acc.backup, b} /\ k \in Pointer
        /\ k = b /\ k # acc.backup => s.mem[b].rx
        /\ acc.backup # Null => k # Null /\ s.mem[k].sf <= s.mem[acc.backup].sf
        /\ new # b /\ s.mem[b].rx => k # Null /\ s.mem[k].sf <= s.mem[b].sf
    <3>1. CASE new # b
      BY <1>2, <2>4, <3>1, BackupIs DEF Pointer
    <3>2. CASE new = b
      BY <1>1, <1>2, <2>4, <3>2 DEF Pointer
    <3> QED
      BY <3>1, <3>2
  <2>8. /\ m \in {k, best} /\ m \in Pointer
        /\ m = best /\ m # k => s.mem[best].rx
        /\ k # Null => m # Null /\ s.mem[m].sf <= s.mem[k].sf
        /\ new # best /\ s.mem[best].rx => m # Null /\ s.mem[m].sf <= s.mem[best].sf
    <3>1. CASE new # best
      BY <2>2, <2>5, <2>7, <3>1, BackupIs DEF Pointer
    <3>2. CASE new = best
      BY <1>1, <2>5, <2>7, <3>2 DEF Pointer
    <3> QED
      BY <3>1, <3>2
  <2>9. r \in Places
    BY <1>2, <2>2, <2>3, <2>6, <2>8 DEF Places, Pointer
  <2>10. /\ best \in S /\ acc.wait = W(best)
         /\ \A c \in S : acc.wait <= W(c)
         /\ \A c \in S : W(c) = acc.wait /\ s.mem[c].tx => s.mem[best].tx
         /\ acc.backup # Null => /\ acc.backup \in S /\ s.mem[acc.backup].rx
                                 /\ W(acc.backup) = acc.wait
         /\ \A c \in S : W(c) = acc.wait /\ s.mem[c].rx /\ c # best
              => acc.backup # Null /\ s.mem[acc.backup].sf <= s.mem[c].sf
    BY <2>2 DEF Found
  <2> HIDE DEF W
  <2>11. /\ r.best \in {best, b} /\ r.wait = acc.wait /\ r.backup = m
         /\ r.best = IF new = Null THEN best ELSE new
    BY <2>3, <2>6
  <2>12. \A c \in S \cup {b} : r.wait <= W(c)
    BY <1>1, <1>2, <1>5, <2>10, <2>11
  <2>13. \A c \in S \cup {b} : W(c) = r.wait /\ s.mem[c].tx => s.mem[r.best].tx
    BY <1>1, <1>5, <2>2, <2>3, <2>10, <2>11, BlockType
  <2>14. r.backup # Null => /\ r.backup \in S \cup {b} /\ s.mem[r.backup].rx
                            /\ W(r.backup) = r.wait
    BY <1>5, <2>7, <2>8, <2>10, <2>11
  <2>15. ASSUME NEW c \in S \cup {b}, W(c) = r.wait, s.mem[c].rx, c # r.best
         PROVE  m # Null /\ s.mem[m].sf <= s.mem[c].sf
    <3>1. c \in Block /\ s.mem[c].sf \in Nat
      BY <1>1
    <3>2. CASE c = b
      <4>1. new # b
        BY <2>11, <2>15, <3>2, BlockType
      <4>2. k # Null /\ s.mem[k].sf <= s.mem[c].sf
        BY <2>7, <2>15, <3>2, <4>1
      <4> QED
        BY <1>1, <2>7, <2>8, <3>1, <4>2 DEF Pointer
    <3>3. CASE c = best /\ c # b
      <4>1. new # best
        BY <2>2, <2>11, <2>15, <3>3, BlockType
      <4> QED
        BY <2>8, <2>15, <3>3, <4>1
    <3>4. CASE c # b /\ c # best
      <4>1. acc.backup # Null /\ s.mem[acc.backup].sf <= s.mem[c].sf
        BY <2>10, <2>11, <2>15, <3>4
      <4>2. k # Null /\ s.mem[k].sf <= s.mem[acc.backup].sf
        BY <2>7, <4>1
      <4>3. m # Null /\ s.mem[m].sf <= s.mem[k].sf
        BY <2>8, <4>2
      <4>4. acc.backup \in Block /\ k \in Block /\ m \in Block
        BY <1>2, <2>7, <2>8, <4>1, <4>2, <4>3 DEF Pointer
      <4> QED
        BY <1>1, <3>1, <4>1, <4>2, <4>3, <4>4
    <3> QED
      BY <3>2, <3>3, <3>4
  <2>16. r.best \in S \cup {b} /\ r.wait = W(r.best)
    BY <1>5, <2>10, <2>11
  <2>17. Found(s, asn, S \cup {b}, r)
    <3>1. \A c \in S \cup {b} : W(c) = r.wait /\ s.mem[c].rx /\ c # r.best
            => r.backup # Null /\ s.mem[r.backup].sf <= s.mem[c].sf
      BY <2>11, <2>15
    <3> QED
      BY <2>12, <2>13, <2>14, <2>16, <3>1 DEF Found, W
  <2> QED
    BY <2>9, <2>17
<1>6. CASE acc.best # Null /\ W(b) > acc.wait
  <2>1. r = acc
    BY <1>1, <1>2, <1>6 DEF Scanned, WaitOf
  <2>2. W(b) # acc.wait /\ acc.wait <= W(b)
    BY <1>1, <1>2, <1>6
  <2>3. S # {}
    BY <1>3, <1>6
  <2> QED
    BY <2>1, <2>2, <2>3 DEF Found
<1> QED
  <2>1. W(b) \in Nat /\ acc.wait \in Nat
    BY <1>1, <1>2
  <2> QED
    BY <1>4, <1>5, <1>6, <2>1

\* The links of one slotframe.
LEMMA FrameScannedIs ==
  ASSUME NEW A, NEW s \in Schedules(A), NEW asn \in Nat, NEW packets,
         NEW S \in SUBSET Block, NEW h \in Handle, NEW acc \in Places,
         Found(s, asn, S, acc)
  PROVE  LET r == FrameScanned(s, asn, packets, acc, h)
         IN  r \in Places /\ Found(s, asn, S \cup ToSet(s.links[h]), r)
<1> DEFINE q == s.links[h]
           N == Len(q)
           f == CHOOSE g : g = [i \in 0 .. N |->
                  IF i = 0 THEN acc ELSE Scanned(s, asn, packets, g[i - 1], q[i])]
           V == {v \in Places : \E T \in SUBSET Block : Found(s, asn, T, v)}
           G == [i \in 0 .. N |->
                  {v \in Places : Found(s, asn, S \cup {q[j] : j \in 1 .. i}, v)}]
<1>1. N \in Nat /\ \A k \in 1 .. N : q[k] \in Block
  BY DEF Schedules
<1>2. FrameScanned(s, asn, packets, acc, h) = f[N]
  BY DEF FrameScanned
<1>3. \A v \in V, b \in Block : Scanned(s, asn, packets, v, b) \in V
  <2> TAKE v \in V, b \in Block
  <2>1. PICK T \in SUBSET Block : Found(s, asn, T, v)
    OBVIOUS
  <2>2. T \cup {b} \in SUBSET Block
    OBVIOUS
  <2> QED
    BY <2>1, <2>2, ScannedIs
<1>4. acc \in V
  OBVIOUS
<1>5. \E g : g = [i \in 0 .. N |->
               IF i = 0 THEN acc ELSE Scanned(s, asn, packets, g[i - 1], q[i])]
  <2> HIDE DEF V, N, q
  <2>1. PICK D : D = [k \in 1 .. N |-> [v \in V |-> Scanned(s, asn, packets, v, q[k])]]
    OBVIOUS
  <2>2. D \in [1 .. N -> [V -> V]]
    BY <1>1, <1>3, <2>1
  <2>3. PICK g : Iterates(N, V, acc, D, g)
    BY <1>1, <1>4, <2>2, Recursion
  <2>4. g \in [0 .. N -> V]
    BY <2>3 DEF Iterates
  <2>5. ASSUME NEW k \in 0 .. N
        PROVE  g[k] = IF k = 0 THEN acc ELSE Scanned(s, asn, packets, g[k - 1], q[k])
    <3>1. CASE k = 0
      BY <2>3, <3>1 DEF Iterates
    <3>2. CASE k # 0
      <4>1. k \in 1 .. N /\ k - 1 \in 0 .. N
        BY <1>1, <3>2
      <4>2. g[k - 1] \in V /\ g[k] = D[k][g[k - 1]]
        BY <2>3, <2>4, <4>1 DEF Iterates
      <4> QED
        BY <2>1, <3>2, <4>1, <4>2
    <3> QED
      BY <3>1, <3>2
  <2>6. g = [i \in 0 .. N |-> g[i]]
    BY <2>4
  <2> QED
    BY <2>5, <2>6, Zenon
<1>6. f = [i \in 0 .. N |->
            IF i = 0 THEN acc ELSE Scanned(s, asn, packets, f[i - 1], q[i])]
  <2> HIDE DEF N, q
  <2> QED
    BY <1>5
<1> HIDE DEF f
<1>7. f[0] = acc
  BY <1>1, <1>6
<1>8. \A k \in 1 .. N : f[k] = Scanned(s, asn, packets, f[k - 1], q[k])
  <2> HIDE DEF N, q
  <2> QED
    BY <1>1, <1>6
<1>9. f[0] \in G[0]
  <2>1. S \cup {q[j] : j \in 1 .. 0} = S
    OBVIOUS
  <2>2. G[0] = {v \in Places : Found(s, asn, S \cup {q[j] : j \in 1 .. 0}, v)}
    BY <1>1
  <2> QED
    BY <1>7, <2>1, <2>2, Zenon
<1>10. ASSUME NEW k \in 1 .. N, f[k - 1] \in G[k - 1] PROVE f[k] \in G[k]
  <2> DEFINE T == S \cup {q[j] : j \in 1 .. k - 1}
  <2>1. k - 1 \in 0 .. N /\ k \in 0 .. N
    BY <1>1
  <2>2. f[k - 1] \in Places /\ Found(s, asn, T, f[k - 1])
    BY <1>10, <2>1
  <2>3. T \in SUBSET Block /\ q[k] \in Block
    BY <1>1
  <2>4. S \cup {q[j] : j \in 1 .. k} = T \cup {q[k]}
    BY <1>1
  <2> HIDE DEF T, q
  <2>5. f[k] \in Places /\ Found(s, asn, T \cup {q[k]}, f[k])
    BY <1>8, <2>2, <2>3, ScannedIs
  <2>6. G[k] = {v \in Places : Found(s, asn, S \cup {q[j] : j \in 1 .. k}, v)}
    BY <2>1
  <2> QED
    BY <2>4, <2>5, <2>6, Zenon
<1>11. f[N] \in G[N]
  <2> HIDE DEF N, G
  <2>1. \A k \in 1 .. N : f[k - 1] \in G[k - 1] => f[k] \in G[k]
    BY <1>10
  <2>2. \A k \in 0 .. N : f[k] \in G[k]
    BY <1>1, <1>9, <2>1, Chain
  <2> QED
    BY <1>1, <2>2
<1>12. ToSet(q) = {q[j] : j \in 1 .. N}
  BY DEF ToSet, Schedules
<1>13. G[N] = {v \in Places : Found(s, asn, S \cup {q[j] : j \in 1 .. N}, v)}
  BY <1>1
<1> HIDE DEF q, N, G
<1>14. f[N] \in Places /\ Found(s, asn, S \cup ToSet(q), f[N])
  BY <1>11, <1>12, <1>13, Zenon
<1> QED
  BY <1>2, <1>14 DEF q

\* The links of every slotframe: all that are allocated.
LEMMA NextActiveIs ==
  ASSUME NEW A, NEW s \in Schedules(A), NEW asn \in Nat, NEW packets, Accounted(s),
         NEW r, r = NextActive(s, asn, packets)
  PROVE  r \in Places /\ Found(s, asn, s.used, r)
<1> DEFINE N == Len(Slotframes)
           Frame(i) == Slotframes[i][1]
           f == CHOOSE g : g = [i \in 0 .. N |->
                  IF i = 0 THEN NothingDue
                  ELSE FrameScanned(s, asn, packets, g[i - 1], Slotframes[i][1])]
           V == {v \in Places : \E T \in SUBSET Block : Found(s, asn, T, v)}
           Upto(i) == UNION {ToSet(s.links[Frame(j)]) : j \in 1 .. i}
           G == [i \in 0 .. N |-> {v \in Places : Found(s, asn, Upto(i), v)}]
<1>1. N \in Nat /\ \A k \in 1 .. N : Frame(k) \in Handle
  BY ScheduleAssumption DEF Handle
<1>2. r = f[N]
  BY DEF NextActive
<1>3. \A h \in Handle : ToSet(s.links[h]) \in SUBSET Block
  BY DEF Schedules, ToSet
<1>4. \A v \in V, h \in Handle : FrameScanned(s, asn, packets, v, h) \in V
  <2> TAKE v \in V, h \in Handle
  <2>1. PICK T \in SUBSET Block : Found(s, asn, T, v)
    OBVIOUS
  <2>2. T \cup ToSet(s.links[h]) \in SUBSET Block
    BY <1>3
  <2> QED
    BY <2>1, <2>2, FrameScannedIs
<1>5. NothingDue \in V /\ Found(s, asn, {}, NothingDue)
  BY DEF NothingDue, Places, Pointer, Found
<1>6. \E g : g = [i \in 0 .. N |->
               IF i = 0 THEN NothingDue
               ELSE FrameScanned(s, asn, packets, g[i - 1], Slotframes[i][1])]
  <2> HIDE DEF V, N
  <2>1. PICK D : D = [k \in 1 .. N |->
                       [v \in V |-> FrameScanned(s, asn, packets, v, Slotframes[k][1])]]
    OBVIOUS
  <2>2. D \in [1 .. N -> [V -> V]]
    BY <1>1, <1>4, <2>1
  <2>3. PICK g : Iterates(N, V, NothingDue, D, g)
    BY <1>1, <1>5, <2>2, Recursion
  <2>4. g \in [0 .. N -> V]
    BY <2>3 DEF Iterates
  <2>5. ASSUME NEW k \in 0 .. N
        PROVE  g[k] = IF k = 0 THEN NothingDue
                      ELSE FrameScanned(s, asn, packets, g[k - 1], Slotframes[k][1])
    <3>1. CASE k = 0
      BY <2>3, <3>1 DEF Iterates
    <3>2. CASE k # 0
      <4>1. k \in 1 .. N /\ k - 1 \in 0 .. N
        BY <1>1, <3>2
      <4>2. g[k - 1] \in V /\ g[k] = D[k][g[k - 1]]
        BY <2>3, <2>4, <4>1 DEF Iterates
      <4> QED
        BY <2>1, <3>2, <4>1, <4>2
    <3> QED
      BY <3>1, <3>2
  <2>6. g = [i \in 0 .. N |-> g[i]]
    BY <2>4
  <2> QED
    BY <2>5, <2>6, Zenon
<1>7. f = [i \in 0 .. N |->
            IF i = 0 THEN NothingDue
            ELSE FrameScanned(s, asn, packets, f[i - 1], Slotframes[i][1])]
  <2> HIDE DEF N
  <2> QED
    BY <1>6
<1> HIDE DEF f
<1>8. /\ f[0] = NothingDue
      /\ \A k \in 1 .. N : f[k] = FrameScanned(s, asn, packets, f[k - 1], Frame(k))
  <2> HIDE DEF N
  <2> QED
    BY <1>1, <1>7
<1>9. f[0] \in G[0]
  <2>1. Upto(0) = {} /\ 0 \in 0 .. N
    BY <1>1
  <2>2. NothingDue \in Places
    BY <1>5
  <2> HIDE DEF Upto
  <2>3. G[0] = {v \in Places : Found(s, asn, Upto(0), v)}
    BY <2>1
  <2> QED
    BY <1>5, <1>8, <2>1, <2>2, <2>3, Zenon
<1>10. ASSUME NEW k \in 1 .. N, f[k - 1] \in G[k - 1] PROVE f[k] \in G[k]
  <2>1. k - 1 \in 0 .. N /\ k \in 0 .. N
    BY <1>1
  <2>2. f[k - 1] \in Places /\ Found(s, asn, Upto(k - 1), f[k - 1])
    BY <1>10, <2>1
  <2>3. Upto(k - 1) \in SUBSET Block /\ Frame(k) \in Handle
    BY <1>1, <1>3
  <2>4. Upto(k) = Upto(k - 1) \cup ToSet(s.links[Frame(k)])
    <3>1. 1 .. k = (1 .. k - 1) \cup {k}
      BY <1>1
    <3> QED
      BY <3>1
  <2> HIDE DEF Upto, Frame
  <2>5. /\ f[k] \in Places
        /\ Found(s, asn, Upto(k - 1) \cup ToSet(s.links[Frame(k)]), f[k])
    BY <1>8, <2>2, <2>3, FrameScannedIs
  <2>6. G[k] = {v \in Places : Found(s, asn, Upto(k), v)}
    BY <2>1
  <2> QED
    BY <2>4, <2>5, <2>6, Zenon
<1>11. f[N] \in G[N]
  <2> HIDE DEF N, G
  <2>1. \A k \in 1 .. N : f[k - 1] \in G[k - 1] => f[k] \in G[k]
    BY <1>10
  <2>2. \A k \in 0 .. N : f[k] \in G[k]
    BY <1>1, <1>9, <2>1, Chain
  <2> QED
    BY <1>1, <2>2
<1>12. Upto(N) = s.used
  <2>1. Handle = {Frame(j) : j \in 1 .. N}
    BY ScheduleAssumption DEF Handle
  <2>2. \A h \in Handle : ToSet(s.links[h]) = {b \in s.used : s.mem[b].sf = h}
    BY DEF Accounted
  <2>3. \A b \in s.used : s.mem[b].sf \in Handle
    BY DEF Schedules, Links
  <2>4. ASSUME NEW b \in s.used PROVE b \in Upto(N)
    <3>1. PICK j \in 1 .. N : s.mem[b].sf = Frame(j)
      BY <2>1, <2>3
    <3>2. b \in ToSet(s.links[Frame(j)])
      BY <2>2, <2>3, <3>1
    <3> QED
      BY <3>2
  <2>5. ASSUME NEW b \in Upto(N) PROVE b \in s.used
    <3>1. PICK j \in 1 .. N : b \in ToSet(s.links[Frame(j)])
      OBVIOUS
    <3> QED
      BY <1>1, <2>2, <3>1
  <2> QED
    BY <2>4, <2>5
<1>13. G[N] = {v \in Places : Found(s, asn, Upto(N), v)}
  BY <1>1
<1> HIDE DEF Upto, N, G
<1> QED
  BY <1>2, <1>11, <1>12, <1>13, Zenon

-----------------------------------------------------------------------------
(***************************************************************************)
(* When a link is due                                                      *)
(***************************************************************************)

LEMMA DivMod ==
  ASSUME NEW n \in Nat \ {0}, NEW a \in Int
  PROVE  a \div n \in Int /\ a % n \in 0 .. n - 1 /\ a = (a \div n) * n + (a % n)
  OBVIOUS

\* A multiple of a number and a rest.
LEMMA RestIs ==
  ASSUME NEW n \in Nat \ {0}, NEW q \in Int, NEW x \in 0 .. n - 1
  PROVE  (q * n + x) % n = x
<1>1. PICK y : y = q * n + x
  OBVIOUS
<1>2. y \in Int
  BY <1>1
<1>3. PICK p \in Int : p = y \div n
  BY <1>2
<1>4. PICK z \in 0 .. n - 1 : z = y % n
  BY <1>2
<1>5. y = p * n + z
  BY <1>2, <1>3, <1>4
<1>6. CASE p >= q + 1
  <2>1. p * n >= (q + 1) * n /\ (q + 1) * n = q * n + n
    BY <1>6
  <2> QED
    BY <1>1, <1>5, <2>1
<1>7. CASE p <= q - 1
  <2>1. p * n <= (q - 1) * n /\ (q - 1) * n = q * n - n
    BY <1>7
  <2> QED
    BY <1>1, <1>5, <2>1
<1>8. CASE p = q
  BY <1>1, <1>4, <1>5, <1>8
<1> QED
  BY <1>6, <1>7, <1>8

\* A link is due once its wait is over, and in no slot before.
LEMMA DueAfterWait ==
  ASSUME NEW asn \in Nat, NEW h \in Handle, NEW ts \in 0 .. SizeOf(h) - 1,
         NEW w, w = Wait(asn, h, ts), NEW t \in 1 .. w
  PROVE  (asn + t - ts) % SizeOf(h) = 0 <=> t = w
<1>1. PICK n \in Nat \ {0} : n = SizeOf(h)
  BY HandleType
<1>2. PICK now, q : now = asn % n /\ q = asn \div n
  OBVIOUS
<1>3. now \in 0 .. n - 1 /\ q \in Int
  BY <1>2, DivMod
<1>4. asn = q * n + now
  BY <1>2, DivMod
<1>5. ts \in 0 .. n - 1 /\ w \in Nat /\ w = IF ts > now THEN ts - now ELSE n + ts - now
  <2>1. ts \in 0 .. n - 1 /\ ts \in Nat
    BY <1>1
  <2>2. w \in Nat
    BY <2>1, WaitType
  <2> QED
    BY <1>1, <1>2, <2>1, <2>2 DEF Wait
<1>6. CASE t = w /\ ts > now
  <2>1. asn + t - ts = q * n + 0
    BY <1>3, <1>4, <1>5, <1>6
  <2> QED
    BY <1>1, <1>3, <1>6, <2>1, RestIs
<1>7. CASE t = w /\ ts <= now
  <2>1. asn + t - ts = (q + 1) * n + 0
    BY <1>3, <1>4, <1>5, <1>7
  <2>2. q + 1 \in Int /\ 0 \in 0 .. n - 1
    BY <1>3
  <2>3. ((q + 1) * n + 0) % n = 0
    BY <2>2, RestIs
  <2> QED
    BY <1>1, <1>7, <2>1, <2>3
<1>8. CASE t # w /\ ts > now
  <2>1. PICK x : x = n + now + t - ts
    OBVIOUS
  <2>2. x \in 1 .. n - 1
    BY <1>3, <1>5, <1>8, <2>1
  <2>3. asn + t - ts = (q - 1) * n + x
    BY <1>3, <1>4, <1>5, <2>1
  <2>4. q - 1 \in Int /\ x \in 0 .. n - 1
    BY <1>3, <2>2
  <2>5. ((q - 1) * n + x) % n = x
    BY <2>4, RestIs
  <2> QED
    BY <1>1, <1>8, <2>2, <2>3, <2>5
<1>9. CASE t # w /\ ts <= now
  <2>1. PICK x : x = now + t - ts
    OBVIOUS
  <2>2. x \in 1 .. n - 1
    BY <1>3, <1>5, <1>9, <2>1
  <2>3. asn + t - ts = q * n + x
    BY <1>3, <1>4, <1>5, <2>1
  <2> QED
    BY <1>1, <1>3, <1>9, <2>2, <2>3, RestIs
<1> QED
  BY <1>3, <1>5, <1>6, <1>7, <1>8, <1>9

\* Every allocated link has a timeslot of its slotframe.
InRange(s) == \A b \in s.used : s.mem[b].ts \in 0 .. SizeOf(s.mem[b].sf) - 1

DueIn(s, t) == {b \in s.used : (t - s.mem[b].ts) % SizeOf(s.mem[b].sf) = 0}

\* The chosen link is due in the first slot that any link is due in, and
\* transmits if any link due in that slot does; a slot with nothing to send
\* listens if any link due in it could, on the lowest slotframe handle.
LEMMA NextActiveDue ==
  ASSUME NEW A, NEW s \in Schedules(A), NEW asn \in Nat, NEW packets, Accounted(s),
         InRange(s), s.used # {}, NEW c, c = NextActive(s, asn, packets)
  PROVE  /\ c.best \in DueIn(s, asn + c.wait)
         /\ \A t \in 1 .. c.wait - 1 : DueIn(s, asn + t) = {}
         /\ (\E b \in DueIn(s, asn + c.wait) : s.mem[b].tx) => s.mem[c.best].tx
         /\ LET listen == {b \in DueIn(s, asn + c.wait) : s.mem[b].rx}
                run == IdleLink(s, c.best, c.backup)
            IN  listen # {} => /\ run \in listen
                               /\ \A b \in listen : s.mem[run].sf <= s.mem[b].sf
<1> DEFINE W(b) == WaitOf(s, asn, b)
           best == c.best
           backup == c.backup
           D == DueIn(s, asn + c.wait)
<1>1. c \in Places /\ Found(s, asn, s.used, c)
  BY NextActiveIs
<1>2. s.used \subseteq Block /\ Block \subseteq Nat /\ Null \notin Block
  BY BlockType DEF Schedules
<1>3. \A b \in s.used : /\ W(b) \in Nat /\ s.mem[b].sf \in Handle
                        /\ s.mem[b].sf \in Nat /\ s.mem[b].ts \in Nat
                        /\ s.mem[b].rx \in BOOLEAN
  BY <1>2, WaitType, HandleType DEF Schedules, Links, WaitOf
<1>4. ASSUME NEW b \in s.used, NEW t \in 1 .. W(b)
      PROVE  b \in DueIn(s, asn + t) <=> t = W(b)
  <2>1. /\ s.mem[b].sf \in Handle
        /\ s.mem[b].ts \in 0 .. SizeOf(s.mem[b].sf) - 1
    BY <1>3 DEF InRange
  <2>2. (asn + t - s.mem[b].ts) % SizeOf(s.mem[b].sf) = 0 <=> t = W(b)
    BY <1>4, <2>1, DueAfterWait DEF WaitOf
  <2>3. b \in DueIn(s, asn + t)
          <=> ((asn + t) - s.mem[b].ts) % SizeOf(s.mem[b].sf) = 0
    BY DEF DueIn
  <2>4. (asn + t) - s.mem[b].ts = asn + t - s.mem[b].ts
    BY <1>3
  <2> QED
    BY <2>2, <2>3, <2>4, Zenon
<1>5. /\ best \in s.used /\ c.wait = W(best) /\ c.wait \in Nat \ {0}
      /\ \A b \in s.used : c.wait <= W(b)
  <2>1. /\ best \in s.used /\ c.wait = W(best)
        /\ \A b \in s.used : c.wait <= W(b)
    BY <1>1 DEF Found
  <2>2. W(best) \in Nat \ {0}
    BY <1>3, <2>1, WaitType DEF WaitOf
  <2> QED
    BY <2>1, <2>2
<1>6. \A b \in s.used : b \in D <=> W(b) = c.wait
  BY <1>3, <1>4, <1>5
<1>7. ASSUME NEW t \in 1 .. c.wait - 1 PROVE DueIn(s, asn + t) = {}
  <2>1. ASSUME NEW b \in DueIn(s, asn + t) PROVE FALSE
    <3>1. b \in s.used
      BY DEF DueIn
    <3>2. t \in 1 .. W(b) /\ t # W(b)
      BY <1>3, <1>5, <3>1
    <3> QED
      BY <1>4, <2>1, <3>1, <3>2
  <2> QED
    BY <2>1
<1>8. D \subseteq s.used
  BY DEF DueIn
<1> HIDE DEF W, D
<1>9. best \in D /\ \A b \in D : s.mem[b].tx => s.mem[best].tx
  BY <1>1, <1>5, <1>6, <1>8 DEF Found, W
<1>10. /\ backup # Null => backup \in D /\ s.mem[backup].rx
       /\ \A b \in D : s.mem[b].rx /\ b # best
            => backup # Null /\ s.mem[backup].sf <= s.mem[b].sf
  BY <1>1, <1>5, <1>6, <1>8 DEF Found, W
<1>11. ASSUME NEW b \in D, s.mem[b].rx,
              NEW run, run = IdleLink(s, best, backup)
       PROVE  run \in D /\ s.mem[run].rx /\ s.mem[run].sf <= s.mem[b].sf
  <2>1. CASE backup # Null /\ (~ s.mem[best].rx \/ s.mem[backup].sf < s.mem[best].sf)
    <3>1. run = backup
      BY <1>11, <2>1 DEF IdleLink
    <3>2. CASE b # best
      BY <1>10, <1>11, <2>1, <3>1, <3>2
    <3>3. CASE b = best
      BY <1>3, <1>8, <1>9, <1>10, <1>11, <2>1, <3>1, <3>3
    <3> QED
      BY <3>2, <3>3
  <2>2. CASE ~(backup # Null /\ (~ s.mem[best].rx \/ s.mem[backup].sf < s.mem[best].sf))
    <3>1. run = best
      BY <1>11, <2>2 DEF IdleLink
    <3>2. CASE b = best
      BY <1>3, <1>8, <1>9, <1>11, <3>1, <3>2
    <3>3. CASE b # best
      <4>1. backup # Null /\ s.mem[backup].sf <= s.mem[b].sf
        BY <1>10, <1>11, <3>3
      <4>2. s.mem[best].rx /\ ~(s.mem[backup].sf < s.mem[best].sf)
        BY <2>2, <4>1
      <4>3. backup \in s.used /\ b \in s.used /\ best \in s.used
        BY <1>8, <1>9, <1>10, <4>1
      <4> QED
        BY <1>3, <1>9, <3>1, <4>1, <4>2, <4>3
    <3> QED
      BY <3>2, <3>3
  <2> QED
    BY <2>1, <2>2
<1> QED
  BY <1>7, <1>9, <1>11 DEF D
=============================================================================
