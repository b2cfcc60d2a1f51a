---------------------------- MODULE CgCellsProofs ----------------------------
(***************************************************************************)
(* Machine-checked theorems about the cells of the rule, for any pool, any *)
(* slotframes, any hashes, any table and any setting of the switches: no   *)
(* block of the pool is lost, and as long as the cells of a node do not    *)
(* share a timeslot no pointer is stale, the counters are exact and the    *)
(* next slot is the one a link is due in.                                  *)
(***************************************************************************)
EXTENDS CgCells, ChildGrandchildProofs, TschScheduleProofs

-----------------------------------------------------------------------------
(***************************************************************************)
(* Groups of cells                                                         *)
(***************************************************************************)

Addr == Address \cup {None}
Pointers == [Shard -> Pointer]
Work == [sch : Schedules(Addr), ptr : Pointers]

LEMMA FramesType ==
  /\ {Eb, Short, Root, Common} = Handle
  /\ Eb # Short /\ Eb # Root /\ Short # Root
  BY CellsAssumption DEF Eb, Short, Root, Common

LEMMA SlotType ==
  ASSUME NEW h \in Handle, NEW hash \in Nat, NEW k \in Shard
  PROVE  SlotOf(h, hash, k) \in 0 .. SizeOf(h) - 1
<1>1. k - 1 \in Nat /\ Kappa \in Nat /\ HashSpace \in Nat \ {0}
  BY CellsAssumption, ShardsMaxType DEF Shard
<1>2. PICK m : m = (k - 1) * Kappa
  OBVIOUS
<1>3. m \in Nat
  BY <1>1, <1>2
<1>4. PICK x : x = (hash + m) % HashSpace
  OBVIOUS
<1>5. x \in Nat
  <2>1. hash + m \in Int
    BY <1>3
  <2>2. x \in 0 .. HashSpace - 1
    BY <1>1, <1>4, <2>1, DivMod
  <2> QED
    BY <1>1, <2>2
<1>6. SizeOf(h) \in Nat \ {0}
  BY HandleType
<1>7. SlotOf(h, hash, k) = x % SizeOf(h)
  BY <1>2, <1>4 DEF SlotOf
<1>8. PICK n : n = SizeOf(h)
  OBVIOUS
<1>9. x \in Int /\ n \in Nat \ {0}
  BY <1>5, <1>6, <1>8
<1>10. x % n \in 0 .. n - 1
  BY <1>9, DivMod
<1> QED
  BY <1>7, <1>8, <1>10

LEMMA CellType ==
  ASSUME NEW h \in Handle, NEW hash \in Nat, NEW k \in Shard, NEW tx \in BOOLEAN,
         NEW addr \in Addr, NEW l, l = CellLink(h, hash, k, tx, addr)
  PROVE  /\ l \in Links(Addr)
         /\ l.sf = h /\ l.ts = SlotOf(h, hash, k) /\ l.tx = tx /\ l.addr = addr
         /\ l.ts \in 0 .. SizeOf(l.sf) - 1
  BY SlotType DEF CellLink, Link, Links

\* A cell is added over whatever has its timeslot.
Installed(s, l) == AddLink(s, l, TRUE)

\* The four cases of a resized cell.
Resizes(s, p, k, want, l, t, q) ==
  /\ k > want /\ p[k] = Null => t = s /\ q = p
  /\ k > want /\ p[k] # Null =>
       t = RemoveLink(s, l.sf, p[k]) /\ q = [p EXCEPT ![k] = Null]
  /\ k <= want /\ p[k] = Null =>
       /\ t = Installed(s, l).sch
       /\ q = [p EXCEPT ![k] = Installed(s, l).ptr]
  /\ k <= want /\ p[k] # Null => t = Retargeted(s, p[k], l) /\ q = p

LEMMA ResizedIs ==
  ASSUME NEW s, NEW p, NEW acc, acc = [sch |-> s, ptr |-> p],
         NEW k \in Nat, NEW want \in Nat, NEW l,
         NEW r, r = ResizedCell(acc, k, want, l), NEW t, t = r.sch, NEW q, q = r.ptr
  PROVE  r = [sch |-> t, ptr |-> q] /\ Resizes(s, p, k, want, l, t, q)
<1>1. PICK b : b = p[k]
  OBVIOUS
<1>2. acc.sch = s /\ acc.ptr = p
  OBVIOUS
<1>3. PICK a, y : a = Installed(s, l) /\ y = [p EXCEPT ![k] = a.ptr]
  OBVIOUS
<1>4. PICK u, z : u = RemoveLink(s, l.sf, b) /\ z = [p EXCEPT ![k] = Null]
  OBVIOUS
<1>5. PICK m : m = Retargeted(s, b, l)
  OBVIOUS
<1>6. r = CASE k > want /\ b = Null -> acc
            [] k > want /\ b # Null -> [sch |-> u, ptr |-> z]
            [] k <= want /\ b = Null -> [sch |-> a.sch, ptr |-> y]
            [] k <= want /\ b # Null -> [acc EXCEPT !.sch = m]
  BY <1>1, <1>2, <1>3, <1>4, <1>5, Zenon DEF ResizedCell, Installed
<1>7. [acc EXCEPT !.sch = m] = [sch |-> m, ptr |-> p]
  OBVIOUS
<1>8. r = IF b = Null THEN IF k > want THEN [sch |-> s, ptr |-> p]
                                       ELSE [sch |-> a.sch, ptr |-> y]
          ELSE IF k > want THEN [sch |-> u, ptr |-> z] ELSE [sch |-> m, ptr |-> p]
  BY <1>6, <1>7
<1>9. /\ k > want /\ b = Null => t = s /\ q = p
      /\ k > want /\ b # Null => t = u /\ q = z
      /\ k <= want /\ b = Null => t = a.sch /\ q = y
      /\ k <= want /\ b # Null => t = m /\ q = p
      /\ r = [sch |-> t, ptr |-> q]
  BY <1>8
<1> QED
  BY <1>1, <1>3, <1>4, <1>5, <1>9, Zenon DEF Resizes

\* Moving a cell changes neither the lists nor any slotframe.
LEMMA RetargetedIs ==
  ASSUME NEW s \in Schedules(Addr), NEW b \in Block, NEW l \in Links(Addr),
         Accounted(s), NEW t, t = Retargeted(s, b, l)
  PROVE  /\ t \in Schedules(Addr) /\ Accounted(t) /\ t.used = s.used
         /\ \A c \in Block : t.mem[c].sf = s.mem[c].sf
         /\ \A c \in Block : c # b => t.mem[c] = s.mem[c]
         /\ s.mem[b] = l => t = s
<1>1. PICK m : m = Moved(s.mem[b], l)
  OBVIOUS
<1>2. /\ s.mem \in [Block -> Links(Addr)] /\ s.mem[b] \in Links(Addr)
      /\ l.ts \in Nat /\ l.addr \in Addr
  BY DEF Schedules, Links
<1>3. m \in Links(Addr) /\ m.sf = s.mem[b].sf
  BY <1>1, <1>2 DEF Moved, Links
<1>4. t = [s EXCEPT !.mem = [s.mem EXCEPT ![b] = m]]
  BY <1>1 DEF Retargeted
<1>5. [s.mem EXCEPT ![b] = m] \in [Block -> Links(Addr)]
  BY <1>2, <1>3
<1>6. /\ t \in Schedules(Addr) /\ t.used = s.used /\ t.links = s.links
      /\ t.current = s.current /\ t.mem = [s.mem EXCEPT ![b] = m]
  BY <1>4, <1>5 DEF Schedules
<1>7. \A c \in Block : t.mem[c] = IF c = b THEN m ELSE s.mem[c]
  BY <1>2, <1>6
<1>8. \A c \in Block : t.mem[c].sf = s.mem[c].sf
  BY <1>3, <1>7
<1>9. Accounted(t)
  <2>1. s.used \in SUBSET Block
    BY DEF Schedules
  <2> QED
    BY <1>6, <1>8, <2>1 DEF Accounted
<1>10. ASSUME s.mem[b] = l
       PROVE  t = s
  <2>1. m = s.mem[b]
    BY <1>1, <1>2, <1>10 DEF Moved, Links
  <2>2. [s.mem EXCEPT ![b] = m] = s.mem
    BY <1>2, <2>1
  <2>3. [s EXCEPT !.mem = s.mem] = s
    BY DEF Schedules
  <2> QED
    BY <1>4, <2>2, <2>3
<1> QED
  BY <1>6, <1>7, <1>8, <1>9, <1>10

LEMMA InstalledIs ==
  ASSUME NEW s \in Schedules(Addr), NEW l \in Links(Addr), Accounted(s),
         NEW a, a = Installed(s, l)
  PROVE  /\ a.sch \in Schedules(Addr) /\ Accounted(a.sch) /\ a.ptr \in Pointer
         /\ a.ptr = Null => a.sch.used = Block
         /\ a.ptr # Null => a.ptr \in a.sch.used /\ a.sch.mem[a.ptr] = l
         /\ s.used = Block => a.sch.used = Block
         /\ \A c \in s.used :
              s.mem[c].sf # l.sf \/ s.mem[c].ts # l.ts =>
                c \in a.sch.used /\ a.sch.mem[c] = s.mem[c] /\ c # a.ptr
         /\ \A c \in a.sch.used :
              c # a.ptr => c \in s.used /\ a.sch.mem[c] = s.mem[c]
         /\ Counts(s) => Counts(a.sch)
<1>1. PICK d : d = TRUE
  OBVIOUS
<1>2. d \in BOOLEAN /\ a = AddLink(s, l, d)
  BY <1>1 DEF Installed
<1> HIDE <1>1
<1> QED
  BY <1>2, AddLinkIs

\* Resizing one cell keeps the pool accounted for, whatever the pointer leads to.
LEMMA ResizedKeepsPool ==
  ASSUME NEW s \in Schedules(Addr), Accounted(s), NEW p \in Pointers,
         NEW acc, acc = [sch |-> s, ptr |-> p],
         NEW k \in Shard, NEW want \in Nat, NEW l \in Links(Addr),
         NEW r, r = ResizedCell(acc, k, want, l),
         NEW t, t = r.sch, NEW q, q = r.ptr
  PROVE  /\ r = [sch |-> t, ptr |-> q]
         /\ t \in Schedules(Addr) /\ q \in Pointers /\ Accounted(t)
         /\ \A j \in Shard : j # k => q[j] = p[j]
         /\ q[k] # Null => k <= want
         /\ k <= want => q[k] # Null \/ t.used = Block
         /\ s.used = Block /\ (k <= want \/ p[k] = Null) => t.used = Block
         /\ \A c \in s.used : s.mem[c].sf # l.sf =>
              c \in t.used /\ t.mem[c].sf = s.mem[c].sf
<1>1. PICK b : b = p[k]
  OBVIOUS
<1>2. b \in Pointer
  BY <1>1 DEF Pointers
<1>3. k \in Nat
  BY ShardsMaxType DEF Shard
<1>4. l.sf \in Handle /\ s.used \in SUBSET Block
  BY DEF Links, Schedules
<1>5. r = [sch |-> t, ptr |-> q] /\ Resizes(s, p, k, want, l, t, q)
  BY <1>3, ResizedIs
<1>6. r = [sch |-> t, ptr |-> q]
  BY <1>5
<1>7. /\ k > want /\ b = Null => t = s /\ q = p
      /\ k > want /\ b # Null => t = RemoveLink(s, l.sf, b) /\ q = [p EXCEPT ![k] = Null]
      /\ k <= want /\ b = Null =>
           /\ t = Installed(s, l).sch
           /\ q = [p EXCEPT ![k] = Installed(s, l).ptr]
      /\ k <= want /\ b # Null => t = Retargeted(s, b, l) /\ q = p
  BY <1>1, <1>5, Zenon DEF Resizes
<1> SUFFICES /\ t \in Schedules(Addr) /\ q \in Pointers /\ Accounted(t)
             /\ \A j \in Shard : j # k => q[j] = p[j]
             /\ q[k] # Null => k <= want
             /\ k <= want => q[k] # Null \/ t.used = Block
             /\ s.used = Block /\ (k <= want \/ b = Null) => t.used = Block
             /\ \A c \in s.used : s.mem[c].sf # l.sf =>
                  c \in t.used /\ t.mem[c].sf = s.mem[c].sf
  BY <1>1, <1>6
<1>8. CASE k > want /\ b = Null
  <2>1. t = s /\ q = p
    BY <1>7, <1>8
  <2>2. ~ (k <= want)
    BY <1>3, <1>8
  <2> QED
    BY <1>1, <1>8, <2>1, <2>2, Zenon
<1>9. CASE k > want /\ b # Null
  <2>1. t = RemoveLink(s, l.sf, b) /\ q = [p EXCEPT ![k] = Null]
    BY <1>7, <1>9
  <2>2. /\ t \in Schedules(Addr) /\ Accounted(t) /\ t.mem = s.mem
        /\ t.used = IF Removes(s, l.sf, b) THEN s.used \ {b} ELSE s.used
    BY <1>2, <1>4, <2>1, RemoveLinkIs
  <2>3. \A c \in s.used : s.mem[c].sf # l.sf => c \in t.used
    BY <2>2 DEF Removes
  <2>4. q \in Pointers /\ \A j \in Shard : q[j] = IF j = k THEN Null ELSE p[j]
    BY <2>1 DEF Pointers, Pointer
  <2> QED
    BY <1>1, <1>3, <1>9, <2>2, <2>3, <2>4
<1>10. CASE k <= want /\ b = Null
  <2>1. PICK a : a = Installed(s, l)
    OBVIOUS
  <2>2. t = a.sch /\ q = [p EXCEPT ![k] = a.ptr]
    BY <1>7, <1>10, <2>1
  <2>3. /\ a.sch \in Schedules(Addr) /\ Accounted(a.sch) /\ a.ptr \in Pointer
        /\ a.ptr = Null => a.sch.used = Block
        /\ a.ptr # Null => a.ptr \in a.sch.used /\ a.sch.mem[a.ptr] = l
        /\ s.used = Block => a.sch.used = Block
        /\ \A c \in s.used : s.mem[c].sf # l.sf \/ s.mem[c].ts # l.ts =>
             c \in a.sch.used /\ a.sch.mem[c] = s.mem[c] /\ c # a.ptr
        /\ \A c \in a.sch.used : c # a.ptr => c \in s.used /\ a.sch.mem[c] = s.mem[c]
        /\ Counts(s) => Counts(a.sch)
    BY <2>1, InstalledIs
  <2>4. \A c \in s.used : s.mem[c].sf # l.sf => c \in t.used /\ t.mem[c].sf = s.mem[c].sf
    BY <2>2, <2>3
  <2>5. q \in Pointers /\ \A j \in Shard : q[j] = IF j = k THEN a.ptr ELSE p[j]
    BY <2>2, <2>3 DEF Pointers
  <2> QED
    BY <1>1, <1>3, <1>10, <2>2, <2>3, <2>4, <2>5
<1>11. CASE k <= want /\ b # Null
  <2>1. t = Retargeted(s, b, l) /\ q = p
    BY <1>7, <1>11
  <2>2. b \in Block
    BY <1>2, <1>11 DEF Pointer
  <2>3. /\ t \in Schedules(Addr) /\ Accounted(t) /\ t.used = s.used
        /\ \A c \in Block : t.mem[c].sf = s.mem[c].sf
        /\ \A c \in Block : c # b => t.mem[c] = s.mem[c]
        /\ s.mem[b] = l => t = s
    BY <2>1, <2>2, RetargetedIs
  <2> QED
    BY <1>1, <1>3, <1>4, <1>11, <2>1, <2>3
<1> QED
  BY <1>3, <1>8, <1>9, <1>10, <1>11

\* The pointers of a group lead to the cells they were made for.
Aims(s, p, h, hash, tx, addr) ==
  \A k \in Shard : p[k] # Null =>
    p[k] \in s.used /\ s.mem[p[k]] = CellLink(h, hash, k, tx, addr)

Apart(h, hash) ==
  \A j, k \in Shard : SlotOf(h, hash, j) = SlotOf(h, hash, k) => j = k

\* The links that are none of a group's business: those of another slotframe,
\* and those of a timeslot the group does not use.
Foreign(l, h, hash) == l.sf # h \/ \A j \in Shard : l.ts # SlotOf(h, hash, j)

Spared(s, t, h, hash) ==
  \A c \in s.used : Foreign(s.mem[c], h, hash) => c \in t.used /\ t.mem[c] = s.mem[c]

\* Resizing one cell of a group whose slots differ keeps the counters exact, the
\* timeslots in their slotframes and the pointers of the group true.
LEMMA ResizedSound ==
  ASSUME NEW s \in Schedules(Addr), Accounted(s), Counts(s), InRange(s),
         NEW p \in Pointers, NEW acc, acc = [sch |-> s, ptr |-> p],
         NEW h \in Handle, NEW tx \in BOOLEAN,
         NEW hash \in Nat, NEW addr \in Addr, NEW hash2 \in Nat, NEW addr2 \in Addr,
         Apart(h, hash), Aims(s, p, h, hash, tx, addr),
         NEW k \in Shard, NEW want \in Nat, k <= want => hash2 = hash /\ addr2 = addr,
         NEW l, l = CellLink(h, hash2, k, tx, addr2),
         NEW r, r = ResizedCell(acc, k, want, l),
         NEW t, t = r.sch, NEW q, q = r.ptr
  PROVE  /\ Counts(t) /\ InRange(t)
         /\ Aims(t, q, h, hash, tx, addr)
         /\ Spared(s, t, h, hash)
<1>1. k \in Nat
  BY ShardsMaxType DEF Shard
<1>2. /\ l \in Links(Addr) /\ l.sf = h
      /\ l.ts = SlotOf(h, hash2, k) /\ l.ts \in 0 .. SizeOf(l.sf) - 1
  BY CellType
<1>3. \A j \in Shard : LET m == CellLink(h, hash, j, tx, addr)
                       IN  m.sf = h /\ m.ts = SlotOf(h, hash, j)
  <2> TAKE j \in Shard
  <2>1. PICK m : m = CellLink(h, hash, j, tx, addr)
    OBVIOUS
  <2>2. m.sf = h /\ m.ts = SlotOf(h, hash, j)
    BY <2>1, CellType
  <2> QED
    BY <2>1, <2>2
<1>4. PICK b : b = p[k]
  OBVIOUS
<1>5. /\ b \in Pointer
      /\ b # Null => /\ b \in s.used /\ s.mem[b] = CellLink(h, hash, k, tx, addr)
                     /\ s.mem[b].sf = h /\ s.mem[b].ts = SlotOf(h, hash, k)
  BY <1>3, <1>4 DEF Pointers, Aims
<1>6. \A j \in Shard : j # k /\ p[j] # Null =>
        /\ p[j] \in s.used /\ s.mem[p[j]].ts # SlotOf(h, hash, k)
        /\ s.mem[p[j]] = CellLink(h, hash, j, tx, addr)
  BY <1>3 DEF Aims, Apart
<1>7. Resizes(s, p, k, want, l, t, q)
  BY <1>1, ResizedIs
<1>8. /\ k > want /\ b = Null => t = s /\ q = p
      /\ k > want /\ b # Null => t = RemoveLink(s, l.sf, b) /\ q = [p EXCEPT ![k] = Null]
      /\ k <= want /\ b = Null =>
           /\ t = Installed(s, l).sch
           /\ q = [p EXCEPT ![k] = Installed(s, l).ptr]
      /\ k <= want /\ b # Null => t = Retargeted(s, b, l) /\ q = p
  BY <1>4, <1>7, Zenon DEF Resizes
<1>9. CASE t = s /\ q = p
  BY <1>9 DEF Spared
<1>10. CASE k > want /\ b # Null
  <2>1. t = RemoveLink(s, h, b) /\ q = [p EXCEPT ![k] = Null]
    BY <1>2, <1>8, <1>10
  <2>2. /\ t \in Schedules(Addr) /\ Accounted(t) /\ t.mem = s.mem
        /\ t.used = IF Removes(s, h, b) THEN s.used \ {b} ELSE s.used
    BY <1>5, <2>1, RemoveLinkIs
  <2>3. Counts(t)
    BY <1>5, <1>10, <2>1, <2>2, RemoveLinkCounts
  <2>4. t.used = s.used \ {b}
    BY <1>5, <1>10, <2>2 DEF Removes
  <2>5. InRange(t)
    BY <2>2, <2>4 DEF InRange
  <2>6. \A j \in Shard : q[j] = IF j = k THEN Null ELSE p[j]
    BY <2>1 DEF Pointers
  <2>7. Aims(t, q, h, hash, tx, addr)
    BY <1>5, <1>6, <1>10, <2>2, <2>4, <2>6 DEF Aims
  <2>8. Spared(s, t, h, hash)
    BY <1>5, <1>10, <2>2, <2>4 DEF Spared, Foreign
  <2> QED
    BY <2>3, <2>5, <2>7, <2>8
<1>11. CASE k <= want /\ b = Null
  <2>1. PICK a : a = Installed(s, l)
    OBVIOUS
  <2>2. t = a.sch /\ q = [p EXCEPT ![k] = a.ptr]
    BY <1>8, <1>11, <2>1
  <2>3. /\ a.sch \in Schedules(Addr) /\ Accounted(a.sch) /\ a.ptr \in Pointer
        /\ a.ptr = Null => a.sch.used = Block
        /\ a.ptr # Null => a.ptr \in a.sch.used /\ a.sch.mem[a.ptr] = l
        /\ s.used = Block => a.sch.used = Block
        /\ \A c \in s.used : s.mem[c].sf # l.sf \/ s.mem[c].ts # l.ts =>
             c \in a.sch.used /\ a.sch.mem[c] = s.mem[c] /\ c # a.ptr
        /\ \A c \in a.sch.used : c # a.ptr => c \in s.used /\ a.sch.mem[c] = s.mem[c]
        /\ Counts(s) => Counts(a.sch)
    BY <1>2, <2>1, InstalledIs
  <2>4. l = CellLink(h, hash, k, tx, addr) /\ l.ts = SlotOf(h, hash, k)
    BY <1>2, <1>11
  <2>5. InRange(t)
    <3>1. a.ptr = Null => \A c \in a.sch.used : c # a.ptr
      BY <2>3, BlockType
    <3> QED
      BY <1>2, <2>2, <2>3, <3>1 DEF InRange
  <2>6. \A j \in Shard : q[j] = IF j = k THEN a.ptr ELSE p[j]
    BY <2>2 DEF Pointers
  <2>7. Aims(t, q, h, hash, tx, addr)
    <3> SUFFICES ASSUME NEW j \in Shard, q[j] # Null
                 PROVE  q[j] \in t.used /\ t.mem[q[j]] = CellLink(h, hash, j, tx, addr)
      BY DEF Aims
    <3>1. CASE j = k
      BY <2>2, <2>3, <2>4, <2>6, <3>1
    <3>2. CASE j # k
      BY <1>6, <2>2, <2>3, <2>4, <2>6, <3>2
    <3> QED
      BY <3>1, <3>2
  <2>8. Spared(s, t, h, hash)
    BY <1>2, <2>2, <2>3, <2>4 DEF Spared, Foreign
  <2> QED
    BY <2>2, <2>3, <2>5, <2>7, <2>8
<1>12. CASE k <= want /\ b # Null
  <2>1. s.mem[b] = l
    BY <1>5, <1>12
  <2>2. b \in Block
    BY <1>5, <1>12 DEF Pointer
  <2>3. PICK m : m = Retargeted(s, b, l)
    OBVIOUS
  <2>4. m = s
    BY <1>2, <2>1, <2>2, <2>3, RetargetedIs
  <2> QED
    BY <1>8, <1>9, <1>12, <2>3, <2>4
<1> QED
  BY <1>1, <1>8, <1>9, <1>10, <1>11, <1>12

-----------------------------------------------------------------------------
(***************************************************************************)
(* Whole groups, by induction on the shard                                 *)
(***************************************************************************)

\* The group's links are links, whatever hash and address they come from.
LEMMA WorkStep ==
  ASSUME NEW v \in {w \in Work : Accounted(w.sch)}, NEW k \in Shard, NEW want \in Nat,
         NEW l \in Links(Addr)
  PROVE  ResizedCell(v, k, want, l) \in {w \in Work : Accounted(w.sch)}
<1>1. PICK s, p : s = v.sch /\ p = v.ptr
  OBVIOUS
<1>2. v = [sch |-> s, ptr |-> p] /\ s \in Schedules(Addr) /\ p \in Pointers /\ Accounted(s)
  BY <1>1 DEF Work
<1>3. PICK r, t, q : r = ResizedCell(v, k, want, l) /\ t = r.sch /\ q = r.ptr
  OBVIOUS
<1>4. /\ r = [sch |-> t, ptr |-> q]
      /\ t \in Schedules(Addr) /\ q \in Pointers /\ Accounted(t)
  BY <1>2, <1>3, ResizedKeepsPool
<1> QED
  BY <1>3, <1>4 DEF Work

\* The steps of a group from work w, shard by shard.
Steps(f, w, want, h, hash, tx, addr) ==
  /\ f[0] = w
  /\ \A k \in Shard :
       f[k] = ResizedCell(f[k - 1], k, want, CellLink(h, hash, k, tx, addr))

LEMMA GroupIs ==
  ASSUME NEW s \in Schedules(Addr), Accounted(s), NEW p \in Pointers, NEW want \in Nat,
         NEW h \in Handle, NEW hash \in Nat, NEW tx \in BOOLEAN, NEW addr \in Addr,
         NEW w, w = [sch |-> s, ptr |-> p]
  PROVE  \E f : /\ Steps(f, w, want, h, hash, tx, addr)
                /\ Group(s, p, want, h, hash, tx, addr) = f[ShardsMax]
<1> DEFINE N == ShardsMax
           L(k) == CellLink(h, hash, k, tx, addr)
           f == CHOOSE g : g = [k \in 0 .. N |->
                  IF k = 0 THEN [sch |-> s, ptr |-> p]
                  ELSE ResizedCell(g[k - 1], k, want, L(k))]
           V == {v \in Work : Accounted(v.sch)}
<1>1. N \in Nat /\ Shard = 1 .. N /\ \A k \in 1 .. N : L(k) \in Links(Addr)
  <2>1. N \in Nat /\ Shard = 1 .. N
    BY ShardsMaxType DEF Shard
  <2>2. ASSUME NEW k \in Shard PROVE L(k) \in Links(Addr)
    BY CellType
  <2> QED
    BY <2>1, <2>2
<1>2. Group(s, p, want, h, hash, tx, addr) = f[N]
  BY DEF Group
<1>3. \A v \in V, k \in 1 .. N : ResizedCell(v, k, want, L(k)) \in V
  <2> HIDE DEF L
  <2> QED
    BY <1>1, WorkStep
<1>4. w \in V
  <2>1. w.sch = s /\ w \in Work
    BY DEF Work
  <2> QED
    BY <2>1
<1>5. \E g : g = [k \in 0 .. N |->
               IF k = 0 THEN w ELSE ResizedCell(g[k - 1], k, want, L(k))]
  <2> HIDE DEF V, N, L
  <2>1. PICK D : D = [k \in 1 .. N |-> [v \in V |-> ResizedCell(v, k, want, L(k))]]
    OBVIOUS
  <2>2. D \in [1 .. N -> [V -> V]]
    BY <1>3, <2>1
  <2>3. PICK g : Iterates(N, V, w, D, g)
    BY <1>1, <1>4, <2>2, Recursion
  <2>4. g \in [0 .. N -> V]
    BY <2>3 DEF Iterates
  <2>5. ASSUME NEW k \in 0 .. N
        PROVE  g[k] = IF k = 0 THEN w ELSE ResizedCell(g[k - 1], k, want, L(k))
    <3>1. CASE k = 0
      BY <2>3, <3>1 DEF Iterates
    <3>2. CASE k # 0
      <4>1. k \in 1 .. N /\ k - 1 \in 0 .. N
        BY <1>1, <3>2
      <4>2. g[k - 1] \in V /\ g[k] = D[k][g[k - 1]]
        BY <2>3, <2>4, <4>1 DEF Iterates
      <4> QED
        BY <2>1, <3>2, <4>1, <4>2
    <3> QED
      BY <3>1, <3>2
  <2>6. g = [i \in 0 .. N |-> g[i]]
    BY <2>4
  <2> QED
    BY <2>5, <2>6, Zenon
<1>6. f = [k \in 0 .. N |->
            IF k = 0 THEN w ELSE ResizedCell(f[k - 1], k, want, L(k))]
  <2> HIDE DEF N, L
  <2> QED
    BY <1>5
<1> HIDE DEF f
<1>7. f[0] = w
  BY <1>1, <1>6
<1>8. \A k \in 1 .. N : f[k] = ResizedCell(f[k - 1], k, want, L(k))
  <2> HIDE DEF N, L
  <2> QED
    BY <1>1, <1>6
<1>9. Steps(f, w, want, h, hash, tx, addr)
  BY <1>1, <1>7, <1>8, Zenon DEF Steps
<1> QED
  BY <1>2, <1>9, Zenon

\* What holds before the first shard and is kept by every shard holds after the
\* last one.
LEMMA GroupChain ==
  ASSUME NEW s \in Schedules(Addr), Accounted(s), NEW p \in Pointers, NEW want \in Nat,
         NEW h \in Handle, NEW hash \in Nat, NEW tx \in BOOLEAN, NEW addr \in Addr,
         NEW w, w = [sch |-> s, ptr |-> p],
         NEW G, w \in G[0],
         \A k \in Shard : \A v \in G[k - 1] :
           ResizedCell(v, k, want, CellLink(h, hash, k, tx, addr)) \in G[k]
  PROVE  Group(s, p, want, h, hash, tx, addr) \in G[ShardsMax]
<1>1. PICK f : /\ Steps(f, w, want, h, hash, tx, addr)
               /\ Group(s, p, want, h, hash, tx, addr) = f[ShardsMax]
  BY GroupIs
<1>2. ShardsMax \in Nat /\ Shard = 1 .. ShardsMax
  BY ShardsMaxType DEF Shard
<1>3. f[0] \in G[0]
  BY <1>1 DEF Steps
<1>4. \A k \in 1 .. ShardsMax : f[k - 1] \in G[k - 1] => f[k] \in G[k]
  BY <1>1, <1>2 DEF Steps
<1>5. \A k \in 0 .. ShardsMax : f[k] \in G[k]
  BY <1>2, <1>3, <1>4, Chain
<1> QED
  BY <1>1, <1>2, <1>5

\* A resized group keeps the pool accounted for, has no pointer past the wanted
\* count, leaves the links of other slotframes alone, and unless it shrinks,
\* leaves every wanted cell installed or no link free.
KeepsPool(s, p, want, h, g) ==
  /\ g.sch \in Schedules(Addr) /\ g.ptr \in Pointers /\ Accounted(g.sch)
  /\ \A j \in Shard : g.ptr[j] # Null => j <= want
  /\ \A c \in s.used : s.mem[c].sf # h =>
       c \in g.sch.used /\ g.sch.mem[c].sf = s.mem[c].sf
  /\ (\A j \in Shard : p[j] # Null => j <= want) =>
       /\ \A j \in Shard : j <= want => g.ptr[j] # Null \/ g.sch.used = Block
       /\ s.used = Block => g.sch.used = Block

LEMMA GroupKeepsPool ==
  ASSUME NEW s \in Schedules(Addr), Accounted(s), NEW p \in Pointers, NEW want \in Nat,
         NEW h \in Handle, NEW hash \in Nat, NEW tx \in BOOLEAN, NEW addr \in Addr,
         NEW g, g = Group(s, p, want, h, hash, tx, addr)
  PROVE  KeepsPool(s, p, want, h, g)
<1> DEFINE Fits == \A j \in Shard : p[j] # Null => j <= want
           Good(k, v) ==
             /\ v \in Work /\ Accounted(v.sch)
             /\ \A j \in Shard : j > k => v.ptr[j] = p[j]
             /\ \A j \in Shard : j <= k => (v.ptr[j] # Null => j <= want)
             /\ \A c \in s.used : s.mem[c].sf # h =>
                  c \in v.sch.used /\ v.sch.mem[c].sf = s.mem[c].sf
             /\ Fits => /\ \A j \in Shard : j <= k /\ j <= want =>
                              v.ptr[j] # Null \/ v.sch.used = Block
                        /\ s.used = Block => v.sch.used = Block
           G == [k \in 0 .. ShardsMax |-> {v \in Work : Good(k, v)}]
<1>1. PICK w : w = [sch |-> s, ptr |-> p]
  OBVIOUS
<1>2. ShardsMax \in Nat /\ Shard = 1 .. ShardsMax
  BY ShardsMaxType DEF Shard
<1>3. w \in G[0]
  <2>1. w \in Work /\ w.sch = s /\ w.ptr = p
    BY <1>1 DEF Work
  <2>2. Good(0, w)
    BY <1>2, <2>1
  <2> HIDE DEF Good
  <2> QED
    BY <1>2, <2>1, <2>2
<1>4. ASSUME NEW k \in Shard, NEW v \in G[k - 1]
      PROVE  ResizedCell(v, k, want, CellLink(h, hash, k, tx, addr)) \in G[k]
  <2>1. k \in 0 .. ShardsMax /\ k - 1 \in 0 .. ShardsMax
    BY <1>2
  <2>2. v \in Work /\ Good(k - 1, v)
    <3> HIDE DEF Good
    <3> QED
      BY <2>1
  <2>3. PICK a, b : a = v.sch /\ b = v.ptr
    OBVIOUS
  <2>4. v = [sch |-> a, ptr |-> b] /\ a \in Schedules(Addr) /\ b \in Pointers
    BY <2>2, <2>3 DEF Work
  <2>5. /\ Accounted(a)
        /\ \A j \in Shard : j > k - 1 => b[j] = p[j]
        /\ \A j \in Shard : j <= k - 1 => (b[j] # Null => j <= want)
        /\ \A c \in s.used : s.mem[c].sf # h => c \in a.used /\ a.mem[c].sf = s.mem[c].sf
        /\ Fits => /\ \A j \in Shard : j <= k - 1 /\ j <= want => b[j] # Null \/ a.used = Block
                   /\ s.used = Block => a.used = Block
    BY <2>2, <2>3
  <2>6. PICK l : l = CellLink(h, hash, k, tx, addr)
    OBVIOUS
  <2>7. l \in Links(Addr) /\ l.sf = h
    BY <2>6, CellType
  <2>8. PICK r, t, q : r = ResizedCell(v, k, want, l) /\ t = r.sch /\ q = r.ptr
    OBVIOUS
  <2>9. /\ r = [sch |-> t, ptr |-> q]
        /\ t \in Schedules(Addr) /\ q \in Pointers /\ Accounted(t)
        /\ \A j \in Shard : j # k => q[j] = b[j]
        /\ q[k] # Null => k <= want
        /\ k <= want => q[k] # Null \/ t.used = Block
        /\ a.used = Block /\ (k <= want \/ b[k] = Null) => t.used = Block
        /\ \A c \in a.used : a.mem[c].sf # l.sf => c \in t.used /\ t.mem[c].sf = a.mem[c].sf
    BY <2>4, <2>5, <2>7, <2>8, ResizedKeepsPool
  <2>10. \A j \in Shard : j > k => q[j] = p[j]
    BY <1>2, <2>5, <2>9
  <2>11. \A j \in Shard : j <= k => (q[j] # Null => j <= want)
    <3> SUFFICES ASSUME NEW j \in Shard, j <= k, q[j] # Null PROVE j <= want
      OBVIOUS
    <3>1. CASE j = k
      BY <2>9, <3>1
    <3>2. CASE j # k
      <4>1. j <= k - 1
        BY <1>2, <3>2
      <4>2. q[j] = b[j]
        BY <2>9, <3>2
      <4> QED
        BY <2>5, <4>1, <4>2
    <3> QED
      BY <3>1, <3>2
  <2>12. \A c \in s.used : s.mem[c].sf # h => c \in t.used /\ t.mem[c].sf = s.mem[c].sf
    BY <2>5, <2>7, <2>9
  <2>13. ASSUME Fits
         PROVE  /\ \A j \in Shard : j <= k /\ j <= want => q[j] # Null \/ t.used = Block
                /\ s.used = Block => t.used = Block
    <3>1. k <= want \/ b[k] = Null
      BY <1>2, <2>5, <2>13
    <3>2. a.used = Block => t.used = Block
      BY <2>9, <3>1
    <3> QED
      BY <1>2, <2>5, <2>9, <2>13, <3>2
  <2>14. r \in Work /\ r.sch = t /\ r.ptr = q
    BY <2>9 DEF Work
  <2>15. Good(k, r)
    <3> HIDE DEF Fits
    <3> QED
      BY <2>9, <2>10, <2>11, <2>12, <2>13, <2>14
  <2> HIDE DEF Good
  <2> QED
    BY <2>1, <2>6, <2>8, <2>14, <2>15
<1>5. g \in G[ShardsMax]
  <2> HIDE DEF G
  <2> QED
    BY <1>1, <1>3, <1>4, GroupChain
<1>6. Good(ShardsMax, g)
  <2> HIDE DEF Good
  <2> QED
    BY <1>2, <1>5
<1> QED
  BY <1>2, <1>6 DEF Work, KeepsPool

\* A resized group whose slots differ keeps the counters exact, the timeslots in
\* their slotframes, its pointers true and everybody else's links as they are.
LEMMA GroupSound ==
  ASSUME NEW s \in Schedules(Addr), Accounted(s), Counts(s), InRange(s),
         NEW p \in Pointers, NEW want \in Nat,
         NEW h \in Handle, NEW tx \in BOOLEAN,
         NEW hash \in Nat, NEW addr \in Addr, NEW hash2 \in Nat, NEW addr2 \in Addr,
         Apart(h, hash), Aims(s, p, h, hash, tx, addr),
         want > 0 => hash2 = hash /\ addr2 = addr,
         NEW g, g = Group(s, p, want, h, hash2, tx, addr2)
  PROVE  /\ Counts(g.sch) /\ InRange(g.sch)
         /\ Aims(g.sch, g.ptr, h, hash, tx, addr)
         /\ Spared(s, g.sch, h, hash)
<1> DEFINE Good(v) == /\ Accounted(v.sch) /\ Counts(v.sch) /\ InRange(v.sch)
                      /\ Aims(v.sch, v.ptr, h, hash, tx, addr)
                      /\ Spared(s, v.sch, h, hash)
           G == [k \in 0 .. ShardsMax |-> {v \in Work : Good(v)}]
<1>1. PICK w : w = [sch |-> s, ptr |-> p]
  OBVIOUS
<1>2. ShardsMax \in Nat /\ Shard = 1 .. ShardsMax
  BY ShardsMaxType DEF Shard
<1>3. w \in G[0]
  <2>1. w \in Work /\ w.sch = s /\ w.ptr = p
    BY <1>1 DEF Work
  <2>2. Good(w)
    BY <2>1 DEF Spared
  <2> HIDE DEF Good
  <2> QED
    BY <1>2, <2>1, <2>2
<1>4. ASSUME NEW k \in Shard, NEW v \in G[k - 1]
      PROVE  ResizedCell(v, k, want, CellLink(h, hash2, k, tx, addr2)) \in G[k]
  <2>1. k \in 0 .. ShardsMax /\ k - 1 \in 0 .. ShardsMax
    BY <1>2
  <2>2. v \in Work /\ Good(v)
    <3> HIDE DEF Good
    <3> QED
      BY <2>1
  <2>3. PICK a, b : a = v.sch /\ b = v.ptr
    OBVIOUS
  <2>4. v = [sch |-> a, ptr |-> b] /\ a \in Schedules(Addr) /\ b \in Pointers
    BY <2>2, <2>3 DEF Work
  <2>5. /\ Accounted(a) /\ Counts(a) /\ InRange(a)
        /\ Aims(a, b, h, hash, tx, addr) /\ Spared(s, a, h, hash)
    BY <2>2, <2>3
  <2>6. PICK l : l = CellLink(h, hash2, k, tx, addr2)
    OBVIOUS
  <2>7. l \in Links(Addr) /\ l.sf = h
    BY <2>6, CellType
  <2>8. PICK r, t, q : r = ResizedCell(v, k, want, l) /\ t = r.sch /\ q = r.ptr
    OBVIOUS
  <2>9. k <= want => hash2 = hash /\ addr2 = addr
    BY <1>2
  <2>10. /\ r = [sch |-> t, ptr |-> q]
         /\ t \in Schedules(Addr) /\ q \in Pointers /\ Accounted(t)
         /\ \A j \in Shard : j # k => q[j] = b[j]
         /\ q[k] # Null => k <= want
         /\ k <= want => q[k] # Null \/ t.used = Block
         /\ a.used = Block /\ (k <= want \/ b[k] = Null) => t.used = Block
         /\ \A c \in a.used : a.mem[c].sf # l.sf => c \in t.used /\ t.mem[c].sf = a.mem[c].sf
    BY <2>4, <2>5, <2>7, <2>8, ResizedKeepsPool
  <2>11. /\ Counts(t) /\ InRange(t)
         /\ Aims(t, q, h, hash, tx, addr)
         /\ Spared(a, t, h, hash)
    BY <2>4, <2>5, <2>6, <2>8, <2>9, ResizedSound
  <2>12. Spared(s, t, h, hash)
    BY <2>5, <2>11 DEF Spared
  <2>13. r \in Work /\ r.sch = t /\ r.ptr = q
    BY <2>10 DEF Work
  <2>14. Good(r)
    BY <2>10, <2>11, <2>12, <2>13
  <2> HIDE DEF Good
  <2> QED
    BY <2>1, <2>6, <2>8, <2>13, <2>14
<1>5. g \in G[ShardsMax]
  <2> HIDE DEF G
  <2> QED
    BY <1>1, <1>3, <1>4, GroupChain
<1>6. Good(g)
  <2> HIDE DEF Good
  <2> QED
    BY <1>2, <1>5
<1> QED
  BY <1>6

\* A group with no cell, none of which is wanted, stays as it is.
LEMMA GroupIdle ==
  ASSUME NEW s \in Schedules(Addr), Accounted(s), NEW p \in Pointers, p = NoCells,
         NEW want, want = 0,
         NEW h \in Handle, NEW hash \in Nat, NEW tx \in BOOLEAN, NEW addr \in Addr,
         NEW g, g = Group(s, p, want, h, hash, tx, addr)
  PROVE  g.sch = s /\ g.ptr = p
<1> DEFINE G == [k \in 0 .. ShardsMax |-> {[sch |-> s, ptr |-> p]}]
<1>1. PICK w : w = [sch |-> s, ptr |-> p]
  OBVIOUS
<1>2. ShardsMax \in Nat /\ Shard = 1 .. ShardsMax
  BY ShardsMaxType DEF Shard
<1>3. w \in G[0]
  BY <1>1, <1>2
<1>4. ASSUME NEW k \in Shard, NEW v \in G[k - 1]
      PROVE  ResizedCell(v, k, want, CellLink(h, hash, k, tx, addr)) \in G[k]
  <2>1. k \in 0 .. ShardsMax /\ k - 1 \in 0 .. ShardsMax /\ k > want /\ p[k] = Null
    BY <1>2 DEF NoCells
  <2>2. v = w
    BY <1>1, <2>1
  <2>3. PICK r, t, q : /\ r = ResizedCell(v, k, want, CellLink(h, hash, k, tx, addr))
                       /\ t = r.sch /\ q = r.ptr
    OBVIOUS
  <2>4. r = [sch |-> t, ptr |-> q]
        /\ Resizes(s, p, k, want, CellLink(h, hash, k, tx, addr), t, q)
    <3>1. k \in Nat /\ want \in Nat
      BY <1>2
    <3> HIDE DEF G
    <3> QED
      BY <1>1, <2>2, <2>3, <3>1, ResizedIs
  <2>5. t = s /\ q = p
    BY <2>1, <2>4 DEF Resizes
  <2>6. r = w
    BY <1>1, <2>4, <2>5
  <2> QED
    BY <1>1, <2>1, <2>3, <2>6
<1>5. g \in G[ShardsMax]
  <2>1. want \in Nat
    OBVIOUS
  <2> HIDE DEF G
  <2> QED
    BY <1>1, <1>3, <1>4, <2>1, GroupChain
<1>6. g = [sch |-> s, ptr |-> p]
  BY <1>2, <1>5
<1> QED
  BY <1>6

-----------------------------------------------------------------------------
(***************************************************************************)
(* What the handlers do to the schedule                                    *)
(***************************************************************************)

\* The node's EB slot keeps its link: the schedule is never empty.
HasEb(s) == \E c \in s.used : s.mem[c].sf = Eb

\* The coordinator is the root: it has no parent, and listens on another frame.
RootHasNoParent == coordinator => parent = None

\* Pointers to cells towards a parent, and to those of the children.
ParentAims(s, u, r, par) ==
  IF par = None THEN u = NoCells /\ r = NoCells
  ELSE /\ Aims(s, u, Short, ParentHash[par], TRUE, par)
       /\ Aims(s, r, Root, ParentHash[par], TRUE, par)

ChildAims(s, x, f) ==
  \A n \in Neighbor : Aims(s, x[n], f, ChildHash[n], FALSE, n)

LEMMA HashType ==
  /\ Neighbor \subseteq Addr /\ None \in Addr
  /\ \A n \in Neighbor : ChildHash[n] \in Nat /\ ParentHash[n] \in Nat
  /\ Eb \in Handle /\ Short \in Handle /\ Root \in Handle /\ RxFrame \in Handle
  /\ Eb # Short /\ Eb # Root /\ Short # Root /\ RxFrame # Eb
<1>1. ChildHash \in [Neighbor -> 0 .. HashSpace - 1]
      /\ ParentHash \in [Neighbor -> 0 .. HashSpace - 1]
  BY CellsAssumption
<1>2. HashSpace \in Nat
  BY CellsAssumption
<1>3. \A n \in Neighbor : ChildHash[n] \in Nat /\ ParentHash[n] \in Nat
  BY <1>1, <1>2
<1>4. Neighbor \subseteq Addr /\ None \in Addr
  BY CellsAssumption DEF Addr
<1> QED
  BY <1>3, <1>4, FramesType DEF RxFrame

\* What a resized group leaves alone, the pointers of another group keep.
LEMMA OthersAims ==
  ASSUME NEW s, NEW t, NEW p, NEW h \in Handle, NEW hash \in Nat,
         NEW g \in Handle, NEW hash1 \in Nat, NEW tx \in BOOLEAN, NEW addr \in Addr,
         Spared(s, t, h, hash), Aims(s, p, g, hash1, tx, addr),
         g # h \/ \A j, k \in Shard : SlotOf(g, hash1, k) # SlotOf(h, hash, j)
  PROVE  Aims(t, p, g, hash1, tx, addr)
<1> SUFFICES ASSUME NEW k \in Shard, p[k] # Null
             PROVE  p[k] \in t.used /\ t.mem[p[k]] = CellLink(g, hash1, k, tx, addr)
  BY DEF Aims
<1>1. PICK l : l = CellLink(g, hash1, k, tx, addr)
  OBVIOUS
<1>2. l.sf = g /\ l.ts = SlotOf(g, hash1, k)
  BY <1>1, CellType
<1>3. p[k] \in s.used /\ s.mem[p[k]] = l
  BY <1>1 DEF Aims
<1>4. Foreign(l, h, hash)
  BY <1>2 DEF Foreign
<1> QED
  BY <1>1, <1>3, <1>4 DEF Spared

LEMMA GroupKeepsEb ==
  ASSUME NEW s, NEW t, NEW h, h # Eb, HasEb(s),
         \A c \in s.used : s.mem[c].sf # h => c \in t.used /\ t.mem[c].sf = s.mem[c].sf
  PROVE  HasEb(t)
  BY DEF HasEb

LEMMA ChildGroupPool ==
  ASSUME NEW n \in Neighbor, sch \in Schedules(Addr), Accounted(sch), HasEb(sch),
         rx[n] \in Pointers, children'[n].rx \in Nat, NEW g, g = ChildGroup(n)
  PROVE  /\ g.sch \in Schedules(Addr) /\ g.ptr \in Pointers /\ Accounted(g.sch)
         /\ HasEb(g.sch)
         /\ \A j \in Shard : g.ptr[j] # Null => j <= children'[n].rx
<1>1. PICK p, want, h, hash, tx :
        /\ p = rx[n] /\ want = children'[n].rx /\ h = RxFrame
        /\ hash = ChildHash[n] /\ tx = FALSE
  OBVIOUS
<1>2. g = Group(sch, p, want, h, hash, tx, n)
  BY <1>1, Zenon DEF ChildGroup
<1>3. /\ p \in Pointers /\ want \in Nat /\ h \in Handle /\ hash \in Nat
      /\ tx \in BOOLEAN /\ n \in Addr /\ h # Eb
  BY <1>1, HashType
<1> HIDE <1>1
<1>4. /\ g.sch \in Schedules(Addr) /\ g.ptr \in Pointers /\ Accounted(g.sch)
      /\ \A j \in Shard : g.ptr[j] # Null => j <= want
      /\ \A c \in sch.used : sch.mem[c].sf # h =>
           c \in g.sch.used /\ g.sch.mem[c].sf = sch.mem[c].sf
      /\ (\A j \in Shard : p[j] # Null => j <= want) =>
           /\ \A j \in Shard : j <= want => g.ptr[j] # Null \/ g.sch.used = Block
           /\ sch.used = Block => g.sch.used = Block
  <2>1. KeepsPool(sch, p, want, h, g)
    BY <1>2, <1>3, GroupKeepsPool
  <2> QED
    BY <2>1, Zenon DEF KeepsPool
<1>5. HasEb(g.sch)
  BY <1>3, <1>4, GroupKeepsEb
<1> QED
  BY <1>1, <1>4, <1>5

LEMMA ChildGroupSound ==
  ASSUME NEW n \in Neighbor, sch \in Schedules(Addr), Accounted(sch),
         rx \in [Neighbor -> Pointers], children'[n].rx \in Nat, NEW g, g = ChildGroup(n),
         parent \in Neighbor \cup {None}, RootHasNoParent,
         SlotsDistinct, Counts(sch), InRange(sch), ChildAims(sch, rx, RxFrame),
         ParentAims(sch, up, ra, parent)
  PROVE  /\ Counts(g.sch) /\ InRange(g.sch)
         /\ ChildAims(g.sch, [rx EXCEPT ![n] = g.ptr], RxFrame)
         /\ ParentAims(g.sch, up, ra, parent)
<1>1. PICK p, want, h, hash, tx :
        /\ p = rx[n] /\ want = children'[n].rx /\ h = RxFrame
        /\ hash = ChildHash[n] /\ tx = FALSE
  OBVIOUS
<1>2. g = Group(sch, p, want, h, hash, tx, n)
  BY <1>1, Zenon DEF ChildGroup
<1>3. /\ p \in Pointers /\ want \in Nat /\ h \in Handle /\ hash \in Nat
      /\ tx \in BOOLEAN /\ n \in Addr
  BY <1>1, HashType
<1>4. h \in {Short, Root} /\ (parent # None => h = Short)
  BY <1>1 DEF RxFrame, RootHasNoParent
<1>5. Apart(h, hash)
  BY <1>1, <1>4 DEF SlotsDistinct, Apart
<1>6. Aims(sch, p, h, hash, tx, n)
  BY <1>1 DEF ChildAims
<1>7. /\ Counts(g.sch) /\ InRange(g.sch)
      /\ Aims(g.sch, g.ptr, h, hash, tx, n)
      /\ Spared(sch, g.sch, h, hash)
  BY <1>2, <1>3, <1>5, <1>6, GroupSound
<1>8. ChildAims(g.sch, [rx EXCEPT ![n] = g.ptr], RxFrame)
  <2> SUFFICES ASSUME NEW m \in Neighbor
               PROVE  Aims(g.sch, [rx EXCEPT ![n] = g.ptr][m], RxFrame, ChildHash[m], FALSE, m)
    BY DEF ChildAims
  <2>1. [rx EXCEPT ![n] = g.ptr][m] = IF m = n THEN g.ptr ELSE rx[m]
    OBVIOUS
  <2>2. CASE m = n
    <3>1. [rx EXCEPT ![n] = g.ptr][m] = g.ptr
      BY <2>1, <2>2
    <3> QED
      BY <1>1, <1>7, <2>2, <3>1, Zenon
  <2>3. CASE m # n
    <3>1. \A j, k \in Shard : SlotOf(h, ChildHash[m], k) # SlotOf(h, hash, j)
      BY <1>1, <1>4, <2>3 DEF SlotsDistinct
    <3>2. Aims(sch, rx[m], h, ChildHash[m], tx, m)
      BY <1>1 DEF ChildAims
    <3>3. ChildHash[m] \in Nat /\ m \in Addr
      BY HashType
    <3>4. Aims(g.sch, rx[m], h, ChildHash[m], tx, m)
      BY <1>3, <1>7, <3>1, <3>2, <3>3, OthersAims
    <3>5. [rx EXCEPT ![n] = g.ptr][m] = rx[m]
      BY <2>1, <2>3
    <3> QED
      BY <1>1, <3>4, <3>5, Zenon
  <2> QED
    BY <2>2, <2>3
<1>9. ParentAims(g.sch, up, ra, parent)
  <2>1. CASE parent = None
    BY <2>1 DEF ParentAims
  <2>2. CASE parent # None
    <3>1. PICK y, par : y = TRUE /\ par = parent
      OBVIOUS
    <3>2. /\ h = Short /\ par \in Neighbor /\ par \in Addr /\ ParentHash[par] \in Nat
          /\ y \in BOOLEAN /\ Short \in Handle /\ Root \in Handle /\ Short # Root
      BY <1>4, <2>2, <3>1, HashType
    <3>3. /\ Aims(sch, up, Short, ParentHash[par], y, par)
          /\ Aims(sch, ra, Root, ParentHash[par], y, par)
      BY <2>2, <3>1 DEF ParentAims
    <3>4. \A j, k \in Shard : SlotOf(Short, ParentHash[par], k) # SlotOf(h, hash, j)
      BY <1>1, <3>2 DEF SlotsDistinct
    <3>5. Aims(g.sch, up, Short, ParentHash[par], y, par)
      BY <1>3, <1>7, <3>2, <3>3, <3>4, OthersAims
    <3>6. Aims(g.sch, ra, Root, ParentHash[par], y, par)
      BY <1>3, <1>7, <3>2, <3>3, OthersAims
    <3> QED
      BY <2>2, <3>1, <3>5, <3>6 DEF ParentAims
  <2> QED
    BY <2>1, <2>2
<1> QED
  BY <1>7, <1>8, <1>9

\* The two calls of OwnGroups, with their schedules and pointers named.
OwnGroupsFrom(s, hash, g, q) ==
  /\ g = Group(s, up, uplink', Short, hash, TRUE, parent')
  /\ q = Group(g.sch, ra, rootAdj', Root, hash, TRUE, parent')
  /\ up' = g.ptr /\ ra' = q.ptr /\ sch' = q.sch

LEMMA OwnGroupsIs ==
  ASSUME NEW s, OwnGroups(s)
  PROVE  \E g, q : OwnGroupsFrom(s, IF parent' = None THEN 0 ELSE ParentHash[parent'], g, q)
  BY Zenon DEF OwnGroups, OwnGroupsFrom

LEMMA OwnGroupsPool ==
  ASSUME NEW s \in Schedules(Addr), Accounted(s), HasEb(s), up \in Pointers,
         ra \in Pointers, uplink' \in Nat, rootAdj' \in Nat,
         parent' \in Neighbor \cup {None}, OwnGroups(s)
  PROVE  /\ sch' \in Schedules(Addr) /\ Accounted(sch') /\ HasEb(sch')
         /\ up' \in Pointers /\ ra' \in Pointers
         /\ \A j \in Shard : /\ up'[j] # Null => j <= uplink'
                             /\ ra'[j] # Null => j <= rootAdj'
         /\ /\ uplink' = 0 \/ \A j \in Shard : up[j] # Null => j <= uplink'
            /\ \A j \in Shard : ra[j] # Null => j <= rootAdj'
            => OwnCellsInstalled' \/ sch'.used = Block
<1>1. PICK hash, addr, tx :
        /\ hash = IF parent' = None THEN 0 ELSE ParentHash[parent']
        /\ addr = parent' /\ tx = TRUE
  OBVIOUS
<1>2. PICK g, q : OwnGroupsFrom(s, hash, g, q)
  BY <1>1, OwnGroupsIs
<1>3. /\ hash \in Nat /\ addr \in Addr /\ tx \in BOOLEAN
      /\ Short \in Handle /\ Root \in Handle /\ Short # Eb /\ Root # Eb
  BY <1>1, HashType
<1>4. /\ g = Group(s, up, uplink', Short, hash, tx, addr)
      /\ q = Group(g.sch, ra, rootAdj', Root, hash, tx, addr)
      /\ up' = g.ptr /\ ra' = q.ptr /\ sch' = q.sch
  BY <1>1, <1>2, Zenon DEF OwnGroupsFrom
<1> HIDE <1>1
<1>5. /\ g.sch \in Schedules(Addr) /\ g.ptr \in Pointers /\ Accounted(g.sch)
      /\ \A j \in Shard : g.ptr[j] # Null => j <= uplink'
      /\ \A c \in s.used : s.mem[c].sf # Short =>
           c \in g.sch.used /\ g.sch.mem[c].sf = s.mem[c].sf
      /\ (\A j \in Shard : up[j] # Null => j <= uplink') =>
           /\ \A j \in Shard : j <= uplink' => g.ptr[j] # Null \/ g.sch.used = Block
           /\ s.used = Block => g.sch.used = Block
  <2>1. KeepsPool(s, up, uplink', Short, g)
    BY <1>3, <1>4, GroupKeepsPool
  <2> QED
    BY <2>1, Zenon DEF KeepsPool
<1>6. HasEb(g.sch)
  BY <1>3, <1>5, GroupKeepsEb
<1>7. PICK t : t = g.sch
  OBVIOUS
<1>8. /\ q.sch \in Schedules(Addr) /\ q.ptr \in Pointers /\ Accounted(q.sch)
      /\ \A j \in Shard : q.ptr[j] # Null => j <= rootAdj'
      /\ \A c \in t.used : t.mem[c].sf # Root =>
           c \in q.sch.used /\ q.sch.mem[c].sf = t.mem[c].sf
      /\ (\A j \in Shard : ra[j] # Null => j <= rootAdj') =>
           /\ \A j \in Shard : j <= rootAdj' => q.ptr[j] # Null \/ q.sch.used = Block
           /\ t.used = Block => q.sch.used = Block
  <2>1. t \in Schedules(Addr) /\ Accounted(t)
    BY <1>5, <1>7
  <2>2. q = Group(t, ra, rootAdj', Root, hash, tx, addr)
    BY <1>4, <1>7
  <2>3. KeepsPool(t, ra, rootAdj', Root, q)
    BY <1>3, <2>1, <2>2, GroupKeepsPool
  <2> QED
    BY <2>3, Zenon DEF KeepsPool
<1>9. HasEb(q.sch)
  <2>1. HasEb(t)
    BY <1>6, <1>7
  <2> QED
    BY <1>3, <1>8, <2>1, GroupKeepsEb
<1>10. ASSUME uplink' = 0 \/ \A j \in Shard : up[j] # Null => j <= uplink',
              \A j \in Shard : ra[j] # Null => j <= rootAdj'
       PROVE  OwnCellsInstalled' \/ sch'.used = Block
  <2>1. CASE \A j \in Shard : up[j] # Null => j <= uplink'
    BY <1>4, <1>5, <1>7, <1>8, <1>10, <2>1 DEF OwnCellsInstalled
  <2>2. CASE uplink' = 0
    <3>1. \A j \in Shard : ~(j <= 0)
      BY ShardsMaxType DEF Shard
    <3> QED
      BY <1>4, <1>8, <1>10, <2>2, <3>1 DEF OwnCellsInstalled
  <2> QED
    BY <1>10, <2>1, <2>2
<1> QED
  BY <1>4, <1>5, <1>7, <1>8, <1>9, <1>10

\* With no cell towards anybody and none wanted, the schedule stays as it is.
LEMMA OwnGroupsIdle ==
  ASSUME NEW s \in Schedules(Addr), Accounted(s), up \in Pointers, ra \in Pointers,
         up = NoCells, ra = NoCells, uplink' = 0, rootAdj' = 0,
         parent' \in Neighbor \cup {None}, OwnGroups(s)
  PROVE  sch' = s /\ up' = up /\ ra' = ra
<1>1. PICK hash, addr, tx :
        /\ hash = IF parent' = None THEN 0 ELSE ParentHash[parent']
        /\ addr = parent' /\ tx = TRUE
  OBVIOUS
<1>2. PICK g, q : OwnGroupsFrom(s, hash, g, q)
  BY <1>1, OwnGroupsIs
<1>3. /\ hash \in Nat /\ addr \in Addr /\ tx \in BOOLEAN
      /\ Short \in Handle /\ Root \in Handle
  BY <1>1, HashType
<1>4. /\ g = Group(s, up, uplink', Short, hash, tx, addr)
      /\ q = Group(g.sch, ra, rootAdj', Root, hash, tx, addr)
      /\ up' = g.ptr /\ ra' = q.ptr /\ sch' = q.sch
  BY <1>1, <1>2, Zenon DEF OwnGroupsFrom
<1> HIDE <1>1
<1>5. g.sch = s /\ g.ptr = up
  BY <1>3, <1>4, GroupIdle
<1>6. q.sch = s /\ q.ptr = ra
  <2>1. q = Group(s, ra, rootAdj', Root, hash, tx, addr)
    BY <1>4, <1>5
  <2> QED
    BY <1>3, <2>1, GroupIdle
<1> QED
  BY <1>4, <1>5, <1>6

\* Resizing keeps the pointers true; a change of parent removes every cell.
LEMMA OwnGroupsSound ==
  ASSUME NEW s \in Schedules(Addr), Accounted(s), up \in Pointers, ra \in Pointers,
         uplink' \in Nat, rootAdj' \in Nat,
         parent \in Neighbor \cup {None}, parent' \in Neighbor \cup {None},
         RootHasNoParent,
         parent = None \/ parent' # parent => uplink' = 0 /\ rootAdj' = 0,
         NEW x, x \in [Neighbor -> Pointers],
         SlotsDistinct, Counts(s), InRange(s), ChildAims(s, x, RxFrame),
         ParentAims(s, up, ra, parent), OwnGroups(s)
  PROVE  /\ Counts(sch') /\ InRange(sch') /\ ChildAims(sch', x, RxFrame)
         /\ ParentAims(sch', up', ra', parent')
<1>1. CASE parent = None
  <2>1. up = NoCells /\ ra = NoCells /\ uplink' = 0 /\ rootAdj' = 0
    BY <1>1 DEF ParentAims
  <2>2. sch' = s /\ up' = up /\ ra' = ra
    BY <2>1, OwnGroupsIdle
  <2>3. ParentAims(s, NoCells, NoCells, parent')
    BY DEF ParentAims, Aims, NoCells
  <2> QED
    BY <2>1, <2>2, <2>3, Zenon
<1>2. CASE parent # None
  <2>1. PICK hash2, addr2, tx :
          /\ hash2 = IF parent' = None THEN 0 ELSE ParentHash[parent']
          /\ addr2 = parent' /\ tx = TRUE
    OBVIOUS
  <2>2. PICK hash, addr : hash = ParentHash[parent] /\ addr = parent
    OBVIOUS
  <2>3. PICK g, q : OwnGroupsFrom(s, hash2, g, q)
    BY <2>1, OwnGroupsIs
  <2>4. /\ hash \in Nat /\ addr \in Addr /\ hash2 \in Nat /\ addr2 \in Addr /\ tx \in BOOLEAN
        /\ Short \in Handle /\ Root \in Handle /\ Short # Root
        /\ parent \in Neighbor /\ RxFrame = Short
    BY <1>2, <2>1, <2>2, HashType DEF RxFrame, RootHasNoParent
  <2>5. /\ g = Group(s, up, uplink', Short, hash2, tx, addr2)
        /\ q = Group(g.sch, ra, rootAdj', Root, hash2, tx, addr2)
        /\ up' = g.ptr /\ ra' = q.ptr /\ sch' = q.sch
    BY <2>1, <2>3, Zenon DEF OwnGroupsFrom
  <2>6. Apart(Short, hash) /\ Apart(Root, hash)
    BY <2>2, <2>4 DEF SlotsDistinct, Apart
  <2>7. \A n \in Neighbor : \A j, k \in Shard :
          SlotOf(Short, ChildHash[n], k) # SlotOf(Short, hash, j)
    BY <2>2, <2>4 DEF SlotsDistinct
  <2>8. /\ Aims(s, up, Short, hash, tx, addr)
        /\ Aims(s, ra, Root, hash, tx, addr)
    BY <1>2, <2>1, <2>2 DEF ParentAims
  <2>9. /\ uplink' > 0 => hash2 = hash /\ addr2 = addr
        /\ rootAdj' > 0 => hash2 = hash /\ addr2 = addr
    BY <1>2, <2>1, <2>2
  <2>10. PICK t : t = g.sch
    OBVIOUS
  <2>11. q = Group(t, ra, rootAdj', Root, hash2, tx, addr2)
    BY <2>5, <2>10
  <2>12. /\ t \in Schedules(Addr) /\ g.ptr \in Pointers /\ Accounted(t)
         /\ \A j \in Shard : g.ptr[j] # Null => j <= uplink'
    <3>1. KeepsPool(s, up, uplink', Short, g)
      BY <2>4, <2>5, GroupKeepsPool
    <3> QED
      BY <2>10, <3>1, Zenon DEF KeepsPool
  <2>13. /\ q.ptr \in Pointers
         /\ \A j \in Shard : q.ptr[j] # Null => j <= rootAdj'
    <3>1. KeepsPool(t, ra, rootAdj', Root, q)
      BY <2>4, <2>11, <2>12, GroupKeepsPool
    <3> QED
      BY <3>1, Zenon DEF KeepsPool
  <2>14. /\ Counts(g.sch) /\ InRange(g.sch)
         /\ Aims(g.sch, g.ptr, Short, hash, tx, addr)
         /\ Spared(s, g.sch, Short, hash)
    BY <2>4, <2>5, <2>6, <2>8, <2>9, GroupSound
  <2>15. /\ Counts(t) /\ InRange(t) /\ Aims(t, g.ptr, Short, hash, tx, addr)
         /\ Spared(s, t, Short, hash)
    BY <2>10, <2>14
  <2>16. Aims(t, ra, Root, hash, tx, addr)
    BY <2>4, <2>8, <2>15, OthersAims
  <2>17. /\ Counts(q.sch) /\ InRange(q.sch)
         /\ Aims(q.sch, q.ptr, Root, hash, tx, addr)
         /\ Spared(t, q.sch, Root, hash)
    BY <2>4, <2>6, <2>9, <2>11, <2>12, <2>15, <2>16, GroupSound
  <2>18. Aims(q.sch, g.ptr, Short, hash, tx, addr)
    BY <2>4, <2>15, <2>17, OthersAims
  <2>19. ChildAims(q.sch, x, RxFrame)
    <3> SUFFICES ASSUME NEW n \in Neighbor
                 PROVE  Aims(q.sch, x[n], Short, ChildHash[n], FALSE, n)
      BY <2>4 DEF ChildAims
    <3>1. PICK f : f = FALSE
      OBVIOUS
    <3>2. f \in BOOLEAN /\ ChildHash[n] \in Nat /\ n \in Addr
      BY <3>1, HashType
    <3>3. Aims(s, x[n], Short, ChildHash[n], f, n)
      BY <2>4, <3>1 DEF ChildAims
    <3>4. Aims(t, x[n], Short, ChildHash[n], f, n)
      BY <2>4, <2>7, <2>15, <3>2, <3>3, OthersAims
    <3>5. Aims(q.sch, x[n], Short, ChildHash[n], f, n)
      BY <2>4, <2>17, <3>2, <3>4, OthersAims
    <3> QED
      BY <3>1, <3>5
  <2>20. ParentAims(sch', up', ra', parent')
    <3>1. CASE parent' = parent
      <4>1. /\ Aims(sch', up', Short, ParentHash[parent'], TRUE, parent')
            /\ Aims(sch', ra', Root, ParentHash[parent'], TRUE, parent')
        BY <2>1, <2>2, <2>5, <2>17, <2>18, <3>1, Zenon
      <4> QED
        BY <1>2, <3>1, <4>1 DEF ParentAims
    <3>2. CASE parent' # parent
      <4>1. uplink' = 0 /\ rootAdj' = 0
        BY <3>2
      <4>2. \A j \in Shard : j > 0
        BY ShardsMaxType DEF Shard
      <4>3. \A j \in Shard : g.ptr[j] = Null /\ q.ptr[j] = Null
        <5> SUFFICES ASSUME NEW j \in Shard PROVE g.ptr[j] = Null /\ q.ptr[j] = Null
          OBVIOUS
        <5>1. j \in Nat /\ ~(j <= 0)
          BY <4>2, ShardsMaxType DEF Shard
        <5> QED
          BY <2>12, <2>13, <4>1, <5>1
      <4>4. g.ptr = NoCells /\ q.ptr = NoCells
        BY <2>12, <2>13, <4>3 DEF Pointers, NoCells
      <4>5. ParentAims(sch', NoCells, NoCells, parent')
        BY DEF ParentAims, Aims, NoCells
      <4> QED
        BY <2>5, <4>4, <4>5, Zenon
    <3> QED
      BY <3>1, <3>2
  <2> QED
    BY <2>5, <2>17, <2>19, <2>20
<1> QED
  BY <1>1, <1>2

-----------------------------------------------------------------------------
(***************************************************************************)
(* The invariant                                                           *)
(***************************************************************************)

\* The types, the pool, and no pointer past the count of its group: all of this
\* holds even if cells share timeslots and evict one another.
PoolInv ==
  /\ coordinator \in BOOLEAN /\ RootHasNoParent
  /\ sch \in Schedules(Addr) /\ Accounted(sch) /\ HasEb(sch)
  /\ up \in Pointers /\ ra \in Pointers /\ rx \in [Neighbor -> Pointers]
  /\ \A k \in Shard : /\ up[k] # Null => k <= uplink
                      /\ ra[k] # Null => k <= rootAdj
                      /\ \A n \in Neighbor : rx[n][k] # Null => k <= children[n].rx

\* What needs cells that do not share a timeslot.
AimInv ==
  SlotsDistinct => /\ Counts(sch) /\ InRange(sch)
                   /\ ChildAims(sch, rx, RxFrame)
                   /\ ParentAims(sch, up, ra, parent)

CellsInv == PoolInv /\ AimInv

\* The rule's own actions are the ones its counts were checked for.
LEMMA CNextIsNext == [CNext]_cvars => [Next]_vars
<1> SUFFICES ASSUME [CNext]_cvars PROVE [Next]_vars
  OBVIOUS
<1>1. ASSUME NEW n \in Neighbor, CChildAdded(n) PROVE Next
  BY <1>1 DEF CChildAdded, Next
<1>2. ASSUME NEW n \in Neighbor, CChildRemoved(n) PROVE Next
  BY <1>2 DEF CChildRemoved, Next
<1>3. ASSUME NEW n \in Neighbor, NEW r \in Reports, CChildEbInput(n, r) PROVE Next
  BY <1>3 DEF CChildEbInput, Next
<1>4. ASSUME NEW n \in Neighbor, CRootUpdated(n) PROVE Next
  BY <1>4 DEF CRootUpdated, Next
<1>5. ASSUME NEW p \in Neighbor \cup {None}, CNewTimeSource(p) PROVE Next
  BY <1>5 DEF CNewTimeSource, Next
<1>6. CASE CBootstrapTick
  BY <1>6 DEF CBootstrapTick, Next
<1>7. CASE COther
  BY <1>7 DEF COther, Next
<1>8. ASSUME NEW asn \in WakeAt, SlotScheduled(asn) PROVE UNCHANGED vars
  BY <1>8 DEF SlotScheduled
<1>9. CASE UNCHANGED cvars
  BY <1>9 DEF cvars
<1> QED
  BY <1>1, <1>2, <1>3, <1>4, <1>5, <1>6, <1>7, <1>8, <1>9 DEF CNext

\* What the rule's invariant says of the counts.
LEMMA CountTypes ==
  ASSUME Inv
  PROVE  /\ parent \in Neighbor \cup {None}
         /\ uplink \in Nat /\ rootAdj \in Nat
         /\ \A n \in Neighbor : children[n].rx \in Nat
         /\ parent = None => uplink = 0 /\ rootAdj = 0
<1>1. uplink \in Nat /\ rootAdj \in Nat /\ \A n \in Neighbor : children[n].rx \in Nat
  BY ShardsMaxType DEF Inv, CellsOK, TableOK, Entry
<1>2. parent = None => ~(uplink + rootAdj > 0)
  BY DEF Inv, CellsOK, OnlyToAParentThatKnowsUs, Claimed
<1>3. parent \in Neighbor \cup {None}
  BY DEF Inv, RestOK
<1> QED
  BY <1>1, <1>2, <1>3

LEMMA CountTypesNext ==
  ASSUME Inv'
  PROVE  /\ parent' \in Neighbor \cup {None}
         /\ uplink' \in Nat /\ rootAdj' \in Nat
         /\ \A n \in Neighbor : children'[n].rx \in Nat
         /\ parent' = None => uplink' = 0 /\ rootAdj' = 0
<1>1. uplink' \in Nat /\ rootAdj' \in Nat /\ \A n \in Neighbor : children'[n].rx \in Nat
  BY ShardsMaxType DEF Inv, CellsOK, TableOK, Entry
<1>2. parent' = None => ~(uplink' + rootAdj' > 0)
  BY DEF Inv, CellsOK, OnlyToAParentThatKnowsUs, Claimed
<1>3. parent' \in Neighbor \cup {None}
  BY DEF Inv, RestOK
<1>4. parent' = None => uplink' = 0 /\ rootAdj' = 0
  <2>1. PICK u \in Nat, r \in Nat : u = uplink' /\ r = rootAdj'
    BY <1>1
  <2>2. ~(u + r > 0) => u = 0 /\ r = 0
    OBVIOUS
  <2> QED
    BY <1>2, <2>1, <2>2
<1> QED
  BY <1>1, <1>3, <1>4

\* A step that does not touch the cells, the counts or the parent.
LEMMA SameCells ==
  ASSUME CellsInv, UNCHANGED <<cellvars, uplink, rootAdj, parent>>,
         \A n \in Neighbor : children'[n].rx = children[n].rx
  PROVE  CellsInv'
<1>1. PoolInv'
  BY DEF CellsInv, PoolInv, cellvars, RootHasNoParent
<1>2. AimInv'
  BY DEF CellsInv, AimInv, cellvars, RxFrame
<1> QED
  BY <1>1, <1>2 DEF CellsInv

\* Between the two halves of a handler: schedule s, and the new pointers.
Midway(s) ==
  /\ coordinator' = coordinator
  /\ s \in Schedules(Addr) /\ Accounted(s) /\ HasEb(s)
  /\ rx' \in [Neighbor -> Pointers]
  /\ \A k \in Shard, n \in Neighbor : rx'[n][k] # Null => k <= children'[n].rx
  /\ SlotsDistinct => /\ Counts(s) /\ InRange(s) /\ ChildAims(s, rx', RxFrame)
                      /\ ParentAims(s, up, ra, parent)

LEMMA MidwayAtOnce ==
  ASSUME CellsInv, coordinator' = coordinator, rx' = rx,
         \A n \in Neighbor : children'[n].rx = children[n].rx
  PROVE  Midway(sch)
  BY DEF CellsInv, PoolInv, AimInv, Midway

LEMMA MidwayAfterChild ==
  ASSUME CellsInv, Inv, Inv', coordinator' = coordinator, NEW n \in Neighbor,
         NEW g, g = ChildGroup(n), rx' = [rx EXCEPT ![n] = g.ptr],
         \A m \in Neighbor : m # n => children'[m] = children[m]
  PROVE  Midway(g.sch)
<1>1. /\ sch \in Schedules(Addr) /\ Accounted(sch) /\ HasEb(sch)
      /\ rx \in [Neighbor -> Pointers] /\ RootHasNoParent
  BY DEF CellsInv, PoolInv
<1>2. children'[n].rx \in Nat /\ parent \in Neighbor \cup {None}
  BY CountTypes, CountTypesNext
<1>3. /\ g.sch \in Schedules(Addr) /\ g.ptr \in Pointers /\ Accounted(g.sch)
      /\ HasEb(g.sch)
      /\ \A j \in Shard : g.ptr[j] # Null => j <= children'[n].rx
  BY <1>1, <1>2, ChildGroupPool
<1>4. rx' \in [Neighbor -> Pointers]
  BY <1>1, <1>3
<1>5. \A m \in Neighbor : rx'[m] = IF m = n THEN g.ptr ELSE rx[m]
  BY <1>1
<1>6. \A k \in Shard, m \in Neighbor : rx'[m][k] # Null => k <= children'[m].rx
  BY <1>3, <1>5 DEF CellsInv, PoolInv
<1>7. ASSUME SlotsDistinct
      PROVE  /\ Counts(g.sch) /\ InRange(g.sch) /\ ChildAims(g.sch, rx', RxFrame)
             /\ ParentAims(g.sch, up, ra, parent)
  <2>1. /\ Counts(sch) /\ InRange(sch) /\ ChildAims(sch, rx, RxFrame)
        /\ ParentAims(sch, up, ra, parent)
    BY <1>7 DEF CellsInv, AimInv
  <2>2. /\ Counts(g.sch) /\ InRange(g.sch)
        /\ ChildAims(g.sch, [rx EXCEPT ![n] = g.ptr], RxFrame)
        /\ ParentAims(g.sch, up, ra, parent)
    BY <1>1, <1>2, <1>7, <2>1, ChildGroupSound
  <2> QED
    BY <2>2
<1> QED
  BY <1>3, <1>4, <1>6, <1>7, Zenon DEF Midway

\* The second half: the cells towards the parent follow, or stay.
LEMMA OwnStep ==
  ASSUME CellsInv, Inv, Inv', NEW s, Midway(s), OwnGroups(s),
         RootHasNoParent',
         parent' # parent => uplink' = 0 /\ rootAdj' = 0
  PROVE  CellsInv'
<1>1. /\ s \in Schedules(Addr) /\ Accounted(s) /\ HasEb(s)
      /\ rx' \in [Neighbor -> Pointers] /\ coordinator' = coordinator
      /\ up \in Pointers /\ ra \in Pointers /\ RootHasNoParent /\ RootHasNoParent'
      /\ coordinator' \in BOOLEAN
      /\ \A k \in Shard, n \in Neighbor : rx'[n][k] # Null => k <= children'[n].rx
  BY DEF CellsInv, PoolInv, Midway, RootHasNoParent
<1>2. /\ parent \in Neighbor \cup {None} /\ parent' \in Neighbor \cup {None}
      /\ uplink' \in Nat /\ rootAdj' \in Nat
      /\ parent' = None => uplink' = 0 /\ rootAdj' = 0
  BY CountTypes, CountTypesNext
<1>3. /\ sch' \in Schedules(Addr) /\ Accounted(sch') /\ HasEb(sch')
      /\ up' \in Pointers /\ ra' \in Pointers
      /\ \A j \in Shard : /\ up'[j] # Null => j <= uplink'
                          /\ ra'[j] # Null => j <= rootAdj'
  BY <1>1, <1>2, OwnGroupsPool
<1>4. PoolInv'
  BY <1>1, <1>3, Zenon DEF PoolInv
<1>5. ASSUME SlotsDistinct
      PROVE  /\ Counts(sch') /\ InRange(sch') /\ ChildAims(sch', rx', RxFrame)
             /\ ParentAims(sch', up', ra', parent')
  <2>1. /\ Counts(s) /\ InRange(s) /\ ChildAims(s, rx', RxFrame)
        /\ ParentAims(s, up, ra, parent)
    BY <1>5 DEF Midway
  <2>2. parent = None \/ parent' # parent => uplink' = 0 /\ rootAdj' = 0
    BY <1>2
  <2> QED
    BY <1>1, <1>2, <1>5, <2>1, <2>2, OwnGroupsSound
<1>6. RxFrame' = RxFrame
  BY <1>1 DEF RxFrame
<1>7. AimInv'
  BY <1>5, <1>6 DEF AimInv
<1> QED
  BY <1>4, <1>7 DEF CellsInv

LEMMA OwnStays ==
  ASSUME CellsInv, NEW s, Midway(s), sch' = s, UNCHANGED <<up, ra, uplink, rootAdj, parent>>
  PROVE  CellsInv'
<1>1. PoolInv'
  BY DEF CellsInv, PoolInv, Midway, RootHasNoParent
<1>2. AimInv'
  BY DEF CellsInv, AimInv, Midway, RxFrame
<1> QED
  BY <1>1, <1>2 DEF CellsInv

-----------------------------------------------------------------------------
(***************************************************************************)
(* The start, and every action                                             *)
(***************************************************************************)

LEMMA FixedLinkType ==
  ASSUME NEW h \in Handle
  PROVE  /\ FixedLink(h) \in Links(Addr)
         /\ FixedLink(h).sf = h /\ FixedLink(h).ts \in 0 .. SizeOf(h) - 1
<1>1. Broadcast \in Addr
  BY CellsAssumption DEF Addr
<1>2. SizeOf(h) \in Nat \ {0}
  BY HandleType
<1> QED
  BY <1>1, <1>2 DEF FixedLink, Link, Links

\* A fixed link among the first ones of a schedule.
LEMMA FixedLinkAdded ==
  ASSUME NEW s \in Schedules(Addr), NEW h \in Handle, NEW d \in BOOLEAN,
         Accounted(s), Counts(s), InRange(s),
         NEW l, l = FixedLink(h), NEW r, r = AddLink(s, l, d)
  PROVE  /\ r.sch \in Schedules(Addr) /\ Accounted(r.sch)
         /\ Counts(r.sch) /\ InRange(r.sch)
         /\ r.ptr # Null => r.ptr \in r.sch.used /\ r.sch.mem[r.ptr] = l
         /\ r.ptr = Null => r.sch.used = Block
         /\ \A c \in r.sch.used : c # r.ptr => c \in s.used
         /\ HasEb(s) /\ h # Eb => HasEb(r.sch)
<1>1. l \in Links(Addr) /\ l.sf = h /\ l.ts \in 0 .. SizeOf(h) - 1
  BY FixedLinkType
<1>2. /\ r.sch \in Schedules(Addr) /\ Accounted(r.sch) /\ r.ptr \in Pointer
      /\ r.ptr = Null => r.sch.used = Block
      /\ r.ptr # Null => r.ptr \in r.sch.used /\ r.sch.mem[r.ptr] = l
      /\ s.used = Block => r.sch.used = Block
      /\ \A c \in s.used :
           s.mem[c].sf # l.sf \/ s.mem[c].ts # l.ts =>
             c \in r.sch.used /\ r.sch.mem[c] = s.mem[c] /\ c # r.ptr
      /\ \A c \in r.sch.used :
           c # r.ptr => c \in s.used /\ r.sch.mem[c] = s.mem[c]
      /\ Counts(s) => Counts(r.sch)
  BY <1>1, AddLinkIs
<1>3. InRange(r.sch)
  <2>1. \A c \in r.sch.used : c # Null
    BY <1>2, BlockType DEF Schedules
  <2> QED
    BY <1>1, <1>2, <2>1 DEF InRange
<1>4. HasEb(s) /\ h # Eb => HasEb(r.sch)
  BY <1>1, <1>2 DEF HasEb
<1> QED
  BY <1>2, <1>3, <1>4

LEMMA EmptyScheduleIs ==
  /\ EmptySchedule \in Schedules(Addr) /\ Accounted(EmptySchedule)
  /\ Counts(EmptySchedule) /\ InRange(EmptySchedule) /\ EmptySchedule.used = {}
<1>1. PICK s : s = EmptySchedule
  OBVIOUS
<1>2. /\ s.used = {} /\ s.mem = [b \in Block |-> NoLink(0, None)]
      /\ s.links = [h \in Handle |-> <<>>] /\ s.txLinks = [a \in Address |-> 0]
      /\ s.current = Null
  BY <1>1 DEF EmptySchedule
<1>3. s \in Schedules(Addr)
  <2>1. NoLink(0, None) \in Links(Addr)
    BY FramesType, HashType DEF NoLink, Link, Links, Eb
  <2>2. [b \in Block |-> NoLink(0, None)] \in [Block -> Links(Addr)]
    BY <2>1
  <2>3. [h \in Handle |-> <<>>] \in [Handle -> Seq(Block)]
    OBVIOUS
  <2>4. [a \in Address |-> 0] \in [Address -> 0 .. 255]
    OBVIOUS
  <2> QED
    BY <1>1, <2>2, <2>3, <2>4 DEF EmptySchedule, Schedules, Pointer
<1>4. Accounted(s)
  <2>1. ToSet(<<>>) = {} /\ Distinct(<<>>)
    BY DEF ToSet, Distinct
  <2>2. ASSUME NEW h \in Handle
        PROVE  Distinct(s.links[h]) /\ ToSet(s.links[h]) = {b \in s.used : s.mem[b].sf = h}
    <3>1. s.links[h] = <<>>
      BY <1>2
    <3>2. {b \in s.used : s.mem[b].sf = h} = {}
      BY <1>2
    <3> QED
      BY <2>1, <3>1, <3>2, Zenon
  <2> QED
    BY <1>2, <2>2 DEF Accounted
<1>5. Counts(s)
  <2> SUFFICES ASSUME NEW a \in Address PROVE s.txLinks[a] = Cardinality(TxTo(s, a)) % 256
    BY DEF Counts
  <2>1. TxTo(s, a) = {}
    BY <1>2 DEF TxTo
  <2>2. Cardinality({}) = 0
    BY FS_EmptySet
  <2>3. s.txLinks[a] = 0
    BY <1>2
  <2>4. Cardinality(TxTo(s, a)) = 0
    BY <2>1, <2>2, Zenon
  <2> QED
    BY <2>3, <2>4
<1>6. InRange(s)
  BY <1>2 DEF InRange
<1> QED
  BY <1>1, <1>2, <1>3, <1>4, <1>5, <1>6

\* The node starts with its two fixed links and no other cell.
LEMMA CellsInit == CInit => CellsInv
<1> SUFFICES ASSUME CInit PROVE CellsInv
  OBVIOUS
<1>1. PICK s, l, a, m, f, d :
        /\ s = EmptySchedule /\ l = FixedLink(Eb) /\ f = FALSE /\ a = AddLink(s, l, f)
        /\ m = FixedLink(Common) /\ d = TRUE
  OBVIOUS
<1>2. PICK t, c : t = a.sch /\ c = AddLink(t, m, d)
  OBVIOUS
<1>3. sch = c.sch
  BY <1>1, <1>2, Zenon DEF CInit
<1>4. /\ s \in Schedules(Addr) /\ Accounted(s) /\ Counts(s) /\ InRange(s)
      /\ s.used = {} /\ f \in BOOLEAN /\ d \in BOOLEAN
      /\ Eb \in Handle /\ Common \in Handle /\ Common # Eb
  <2>1. /\ s \in Schedules(Addr) /\ Accounted(s) /\ Counts(s) /\ InRange(s)
        /\ s.used = {}
    BY <1>1, EmptyScheduleIs, Zenon
  <2>2. f \in BOOLEAN /\ d \in BOOLEAN
    BY <1>1
  <2>3. Eb \in Handle /\ Common \in Handle
    BY FramesType
  <2>4. Common # Eb
    BY DEF Common, Eb
  <2> QED
    BY <2>1, <2>2, <2>3, <2>4
<1>5. l = FixedLink(Eb) /\ a = AddLink(s, l, f) /\ m = FixedLink(Common)
  BY <1>1
<1> HIDE <1>1
<1>6. /\ a.sch \in Schedules(Addr) /\ Accounted(a.sch)
      /\ Counts(a.sch) /\ InRange(a.sch)
      /\ a.ptr # Null => a.ptr \in a.sch.used /\ a.sch.mem[a.ptr] = l
      /\ a.ptr = Null => a.sch.used = Block
      /\ \A e \in a.sch.used : e # a.ptr => e \in s.used
      /\ HasEb(s) /\ Eb # Eb => HasEb(a.sch)
  BY <1>4, <1>5, FixedLinkAdded
<1>7. HasEb(t)
  <2>1. a.ptr # Null
    <3> SUFFICES ASSUME a.ptr = Null PROVE FALSE
      OBVIOUS
    <3>1. 1 \in Block /\ 1 # Null
      BY ScheduleAssumption DEF Block, Null
    <3> QED
      BY <1>4, <1>6, <3>1
  <2>2. l.sf = Eb
    BY <1>4, <1>5, FixedLinkType
  <2> QED
    BY <1>2, <1>6, <2>1, <2>2 DEF HasEb
<1>8. t \in Schedules(Addr) /\ Accounted(t) /\ Counts(t) /\ InRange(t)
  BY <1>2, <1>6
<1>9. /\ c.sch \in Schedules(Addr) /\ Accounted(c.sch)
      /\ Counts(c.sch) /\ InRange(c.sch)
      /\ c.ptr # Null => c.ptr \in c.sch.used /\ c.sch.mem[c.ptr] = m
      /\ c.ptr = Null => c.sch.used = Block
      /\ \A e \in c.sch.used : e # c.ptr => e \in t.used
      /\ HasEb(t) /\ Common # Eb => HasEb(c.sch)
  BY <1>2, <1>4, <1>5, <1>8, FixedLinkAdded
<1>10. /\ coordinator \in BOOLEAN /\ parent = None /\ up = NoCells /\ ra = NoCells
       /\ rx = [n \in Neighbor |-> NoCells]
  BY DEF CInit, Init
<1>11. NoCells \in Pointers /\ \A k \in Shard : NoCells[k] = Null
  BY DEF NoCells, Pointers, Pointer
<1>12. PoolInv
  <2>1. RootHasNoParent
    BY <1>10 DEF RootHasNoParent
  <2>2. sch \in Schedules(Addr) /\ Accounted(sch) /\ HasEb(sch)
    BY <1>3, <1>4, <1>7, <1>9
  <2>3. rx \in [Neighbor -> Pointers] /\ \A n \in Neighbor : rx[n] = NoCells
    BY <1>10, <1>11
  <2> QED
    BY <1>10, <1>11, <2>1, <2>2, <2>3 DEF PoolInv
<1>13. AimInv
  BY <1>3, <1>9, <1>10, <1>11 DEF AimInv, ChildAims, ParentAims, Aims
<1> QED
  BY <1>12, <1>13 DEF CellsInv

\* The slot operation picks an installed link.
LEMMA CurrentStep ==
  ASSUME NEW s \in Schedules(Addr), Accounted(s), HasEb(s), NEW asn \in Nat,
         NEW t, t = [s EXCEPT !.current = Chosen(s, asn).best]
  PROVE  /\ t \in Schedules(Addr) /\ Accounted(t) /\ HasEb(t)
         /\ Counts(s) => Counts(t)
         /\ InRange(s) => InRange(t)
         /\ t.used = s.used /\ t.mem = s.mem
<1>1. PICK c : c = Chosen(s, asn)
  OBVIOUS
<1>2. c \in Places /\ Found(s, asn, s.used, c)
  BY <1>1, NextActiveIs DEF Chosen
<1>3. c.best \in s.used /\ c.best \in Pointer
  <2>1. s.used # {}
    BY DEF HasEb
  <2> QED
    BY <1>2, <2>1 DEF Found, Places
<1>4. /\ t \in Schedules(Addr) /\ t.used = s.used /\ t.mem = s.mem /\ t.links = s.links
      /\ t.txLinks = s.txLinks /\ t.current \in t.used
  BY <1>1, <1>3 DEF Schedules
<1>5. Accounted(t) /\ HasEb(t)
  BY <1>4 DEF Accounted, HasEb
<1>6. Counts(s) => Counts(t)
  BY <1>4 DEF Counts, TxTo
<1>7. InRange(s) => InRange(t)
  BY <1>4 DEF InRange
<1> QED
  BY <1>4, <1>5, <1>6, <1>7

\* An adopted report that changes no count changes no cell.
LEMMA SameRx ==
  ASSUME Inv, Inv', NEW n \in Neighbor,
         children'[n].inUse = children[n].inUse, children'[n].shards = children[n].shards
  PROVE  children'[n].rx = children[n].rx
  BY DEF Inv, TableOK, RxMatchesCount

\* A step that changes neither the role of the node nor its parent.
LEMMA NoParentStays ==
  ASSUME CellsInv, coordinator' = coordinator, parent' = parent
  PROVE  RootHasNoParent'
  BY DEF CellsInv, PoolInv, RootHasNoParent

\* Every step keeps the cells in order.
LEMMA CellsNext == CellsInv /\ Inv /\ Inv' /\ [CNext]_cvars => CellsInv'
<1> SUFFICES ASSUME CellsInv, Inv, Inv', [CNext]_cvars PROVE CellsInv'
  OBVIOUS
<1>1. ASSUME NEW n \in Neighbor, CChildAdded(n) PROVE CellsInv'
  <2>1. PICK g : g = ChildGroup(n)
    OBVIOUS
  <2>2. /\ rx' = [rx EXCEPT ![n] = g.ptr] /\ OwnGroups(g.sch)
        /\ coordinator' = coordinator
    BY <1>1, <2>1 DEF CChildAdded
  <2>3. parent' = parent
    BY <1>1 DEF CChildAdded, ChildAdded
  <2>4. \A m \in Neighbor : m # n => children'[m] = children[m]
    BY <1>1 DEF CChildAdded, ChildAdded, Inv, TableOK
  <2>5. Midway(g.sch)
    BY <2>1, <2>2, <2>4, MidwayAfterChild
  <2>6. RootHasNoParent'
    BY <2>2, <2>3, NoParentStays
  <2> QED
    BY <2>2, <2>3, <2>5, <2>6, OwnStep
<1>2. ASSUME NEW n \in Neighbor, CChildRemoved(n) PROVE CellsInv'
  <2>1. PICK g : g = ChildGroup(n)
    OBVIOUS
  <2>2. /\ rx' = [rx EXCEPT ![n] = g.ptr] /\ OwnGroups(g.sch)
        /\ coordinator' = coordinator
    BY <1>2, <2>1 DEF CChildRemoved
  <2>3. parent' = parent
    BY <1>2 DEF CChildRemoved, ChildRemoved
  <2>4. \A m \in Neighbor : m # n => children'[m] = children[m]
    BY <1>2 DEF CChildRemoved, ChildRemoved, Inv, TableOK
  <2>5. Midway(g.sch)
    BY <2>1, <2>2, <2>4, MidwayAfterChild
  <2>6. RootHasNoParent'
    BY <2>2, <2>3, NoParentStays
  <2> QED
    BY <2>2, <2>3, <2>5, <2>6, OwnStep
<1>3. ASSUME NEW n \in Neighbor, NEW r \in Reports, CChildEbInput(n, r)
      PROVE  CellsInv'
  <2>1. UNCHANGED <<parent, uplink, rootAdj, coordinator, up, ra>>
    BY <1>3 DEF CChildEbInput, ChildEbInput
  <2>2. \A m \in Neighbor : m # n => children'[m] = children[m]
    BY <1>3 DEF CChildEbInput, ChildEbInput, Inv, TableOK
  <2>3. CASE children'[n].shards # children[n].shards
    <3>1. PICK g : g = ChildGroup(n)
      OBVIOUS
    <3>2. rx' = [rx EXCEPT ![n] = g.ptr] /\ sch' = g.sch
      BY <1>3, <2>3, <3>1 DEF CChildEbInput
    <3>3. Midway(g.sch)
      BY <2>1, <2>2, <3>1, <3>2, MidwayAfterChild
    <3> QED
      BY <2>1, <3>2, <3>3, OwnStays
  <2>4. CASE children'[n].shards = children[n].shards
    <3>1. UNCHANGED cellvars
      BY <1>3, <2>1, <2>4 DEF CChildEbInput, cellvars
    <3>2. children'[n].inUse = children[n].inUse
      BY <1>3 DEF CChildEbInput, ChildEbInput, Adopted, Resized, Inv, TableOK, Entry
    <3>3. children'[n].rx = children[n].rx
      BY <2>4, <3>2, SameRx
    <3>4. \A m \in Neighbor : children'[m].rx = children[m].rx
      BY <2>2, <3>3
    <3> QED
      BY <2>1, <3>1, <3>4, SameCells
  <2> QED
    BY <2>3, <2>4
<1>4. ASSUME NEW r \in Neighbor, CRootUpdated(r) PROVE CellsInv'
  <2>1. /\ UNCHANGED <<parent, coordinator, rx>>
        /\ \A n \in Neighbor : children'[n].rx = children[n].rx
    BY <1>4 DEF CRootUpdated, RootAdded, RootExpired
  <2>2. CASE r = parent
    <3>1. Midway(sch)
      BY <2>1, MidwayAtOnce
    <3>2. OwnGroups(sch)
      BY <1>4, <2>2 DEF CRootUpdated
    <3>3. RootHasNoParent'
      BY <2>1, NoParentStays
    <3> QED
      BY <2>1, <3>1, <3>2, <3>3, OwnStep
  <2>3. CASE r # parent
    <3>1. UNCHANGED <<uplink, rootAdj>>
      BY <1>4, <2>3 DEF CRootUpdated, RootAdded, RootExpired
    <3>2. UNCHANGED cellvars
      BY <1>4, <2>1, <2>3 DEF CRootUpdated, cellvars
    <3> QED
      BY <2>1, <3>1, <3>2, SameCells
  <2> QED
    BY <2>2, <2>3
<1>5. ASSUME NEW p \in Neighbor \cup {None}, CNewTimeSource(p) PROVE CellsInv'
  <2>1. /\ ~coordinator /\ coordinator' = coordinator /\ rx' = rx
        /\ OwnGroups(sch)
    BY <1>5 DEF CNewTimeSource
  <2>2. \A n \in Neighbor : children'[n].rx = children[n].rx
    BY <1>5 DEF CNewTimeSource, NewTimeSource
  <2>3. uplink' = 0 /\ rootAdj' = 0
    BY <1>5 DEF CNewTimeSource, NewTimeSource, UpdateOwnCells, UplinkCells,
                RootAdjacentCells
  <2>4. Midway(sch)
    BY <2>1, <2>2, MidwayAtOnce
  <2>5. RootHasNoParent'
    BY <2>1 DEF RootHasNoParent
  <2> QED
    BY <2>1, <2>3, <2>4, <2>5, OwnStep
<1>6. CASE CBootstrapTick
  <2>1. /\ UNCHANGED <<parent, coordinator, rx>>
        /\ \A n \in Neighbor : children'[n].rx = children[n].rx
    BY <1>6 DEF CBootstrapTick, BootstrapTick
  <2>2. CASE knowsUs /\ (HoldBeforeUse \/ ~lastKnowsUs)
    <3>1. Midway(sch)
      BY <2>1, MidwayAtOnce
    <3>2. OwnGroups(sch)
      BY <1>6, <2>2 DEF CBootstrapTick
    <3>3. RootHasNoParent'
      BY <2>1, NoParentStays
    <3> QED
      BY <2>1, <3>1, <3>2, <3>3, OwnStep
  <2>3. CASE ~(knowsUs /\ (HoldBeforeUse \/ ~lastKnowsUs))
    <3>1. UNCHANGED <<uplink, rootAdj>>
      BY <1>6, <2>3 DEF CBootstrapTick, BootstrapTick
    <3>2. UNCHANGED cellvars
      BY <1>6, <2>1, <2>3 DEF CBootstrapTick, cellvars
    <3> QED
      BY <2>1, <3>1, <3>2, SameCells
  <2> QED
    BY <2>2, <2>3
<1>7. CASE COther
  <2>1. /\ UNCHANGED <<parent, uplink, rootAdj>>
        /\ \A n \in Neighbor : children'[n].rx = children[n].rx
    BY <1>7 DEF COther, DaoAcked, CreateEb
  <2>2. UNCHANGED cellvars
    BY <1>7 DEF COther
  <2> QED
    BY <2>1, <2>2, SameCells
<1>8. ASSUME NEW asn \in WakeAt, SlotScheduled(asn) PROVE CellsInv'
  <2>1. PICK t : t = [sch EXCEPT !.current = Chosen(sch, asn).best]
    OBVIOUS
  <2>2. sch' = t /\ UNCHANGED <<vars, coordinator, up, ra, rx>>
    BY <1>8, <2>1 DEF SlotScheduled
  <2>3. sch \in Schedules(Addr) /\ Accounted(sch) /\ HasEb(sch)
    BY DEF CellsInv, PoolInv
  <2>4. asn \in Nat
    BY AsnAssumption
  <2>5. /\ t \in Schedules(Addr) /\ Accounted(t) /\ HasEb(t)
        /\ Counts(sch) => Counts(t)
        /\ InRange(sch) => InRange(t)
        /\ t.used = sch.used /\ t.mem = sch.mem
    BY <2>1, <2>3, <2>4, CurrentStep
  <2>6. UNCHANGED <<uplink, rootAdj, children, parent>>
    BY <2>2 DEF vars
  <2>7. PoolInv'
    BY <2>2, <2>5, <2>6 DEF CellsInv, PoolInv, RootHasNoParent
  <2>8. AimInv'
    BY <2>2, <2>5, <2>6 DEF CellsInv, AimInv, RxFrame, ChildAims, ParentAims, Aims
  <2> QED
    BY <2>7, <2>8 DEF CellsInv
<1>9. CASE UNCHANGED cvars
  <2>1. UNCHANGED <<cellvars, uplink, rootAdj, parent, children>>
    BY <1>9 DEF cvars, vars
  <2>2. \A n \in Neighbor : children'[n].rx = children[n].rx
    BY <2>1
  <2> QED
    BY <2>1, <2>2, SameCells
<1> QED
  BY <1>1, <1>2, <1>3, <1>4, <1>5, <1>6, <1>7, <1>8, <1>9 DEF CNext

-----------------------------------------------------------------------------
(***************************************************************************)
(* Theorems                                                                *)
(***************************************************************************)

\* Whatever the handlers do to the schedule, they handle the rule's counts as
\* ChildGrandchild says: every theorem about the rule holds with its cells.
THEOREM CellsImplementTheRule == CSpec => Spec
<1>1. CInit => Init
  BY DEF CInit
<1> QED
  BY <1>1, CNextIsNext, PTL DEF CSpec, Spec

\* The inductive invariant of the cells holds in every behaviour.
THEOREM CellsInvariance == CSpec => []CellsInv
<1>1. CSpec => []Inv
  BY CellsImplementTheRule, Invariance, PTL
<1> QED
  BY <1>1, CellsInit, CellsNext, PTL DEF CSpec

\* No block of link_memb is ever lost or in two lists, even when the cells of a
\* node share timeslots and evict one another.
THEOREM PoolAlwaysAccounted == CSpec => []PoolAccounted
<1>1. CellsInv => PoolAccounted
  <2> SUFFICES ASSUME CellsInv PROVE PoolAccounted
    OBVIOUS
  <2>1. Accounted(sch) /\ sch \in Schedules(Addr)
    BY DEF CellsInv, PoolInv
  <2>2. \A h \in Handle : ToSet(sch.links[h]) = {b \in sch.used : sch.mem[b].sf = h}
    BY <2>1 DEF Accounted
  <2>3. UNION {ToSet(sch.links[h]) : h \in Handle} = sch.used
    <3>1. ASSUME NEW b \in sch.used PROVE \E h \in Handle : b \in ToSet(sch.links[h])
      <4>1. sch.mem[b].sf \in Handle
        BY <2>1 DEF Schedules, Links
      <4> QED
        BY <2>2, <4>1
    <3> QED
      BY <2>2, <3>1
  <2>4. ASSUME NEW h \in Handle, NEW g \in Handle, NEW i \in DOMAIN sch.links[h],
               NEW j \in DOMAIN sch.links[g], sch.links[h][i] = sch.links[g][j]
        PROVE  h = g /\ i = j
    <3>1. sch.links[h][i] \in ToSet(sch.links[h]) /\ sch.links[g][j] \in ToSet(sch.links[g])
      BY DEF ToSet
    <3>2. h = g
      BY <2>2, <2>4, <3>1
    <3>3. Distinct(sch.links[h])
      BY <2>1 DEF Accounted
    <3> QED
      BY <2>4, <3>2, <3>3 DEF Distinct
  <2> QED
    BY <2>3, <2>4 DEF PoolAccounted
<1> QED
  BY <1>1, CellsInvariance, PTL

\* The slot operation never runs a link that was removed or evicted after it was
\* chosen, also when cells share timeslots.
THEOREM CurrentAlwaysInstalled == CSpec => []CurrentInstalled
<1>1. CellsInv => CurrentInstalled
  BY DEF CellsInv, PoolInv, Accounted, CurrentInstalled
<1> QED
  BY <1>1, CellsInvariance, PTL

\* The pointers of one group that lead where they should.
LEMMA AimsLead ==
  ASSUME CellsInv, NEW p \in Pointers, NEW want, NEW h \in Handle, NEW hash,
         NEW tx, NEW addr, Aims(sch, p, h, hash, tx, addr),
         \A k \in Shard : p[k] # Null => k <= want
  PROVE  Leads(p, want, h, hash, tx, addr)
<1> SUFFICES ASSUME NEW k \in Shard, p[k] # Null
             PROVE  /\ k <= want
                    /\ Contains(sch.links[h], p[k])
                    /\ sch.mem[p[k]] = CellLink(h, hash, k, tx, addr)
  BY DEF Leads
<1>1. p[k] \in sch.used /\ sch.mem[p[k]] = CellLink(h, hash, k, tx, addr)
  BY DEF Aims
<1>2. sch.mem[p[k]].sf = h
  BY <1>1 DEF CellLink, Link
<1>3. p[k] \in ToSet(sch.links[h])
  BY <1>1, <1>2 DEF CellsInv, PoolInv, Accounted
<1>4. sch.links[h] \in Seq(Block)
  BY DEF CellsInv, PoolInv, Schedules
<1>5. Contains(sch.links[h], p[k])
  BY <1>3, <1>4 DEF Contains, ToSet
<1> QED
  BY <1>1, <1>5

\* As long as the cells of a node do not share a timeslot, no pointer of the
\* rule leads to a freed, reused or retargeted link, in whatever order cells
\* were installed, refused by a full pool, retargeted and removed.
THEOREM PointersAlwaysSound == CSpec => []PointersSound
<1>1. CellsInv => PointersSound
  <2> SUFFICES ASSUME CellsInv, SlotsDistinct
               PROVE  /\ \A n \in Neighbor :
                           Leads(rx[n], children[n].rx, RxFrame, ChildHash[n], FALSE, n)
                      /\ IF parent = None THEN up = NoCells /\ ra = NoCells
                         ELSE /\ Leads(up, uplink, Short, ParentHash[parent], TRUE, parent)
                              /\ Leads(ra, rootAdj, Root, ParentHash[parent], TRUE, parent)
    BY DEF PointersSound
  <2>1. ChildAims(sch, rx, RxFrame) /\ ParentAims(sch, up, ra, parent)
    BY DEF CellsInv, AimInv
  <2>2. /\ up \in Pointers /\ ra \in Pointers /\ rx \in [Neighbor -> Pointers]
        /\ \A k \in Shard : /\ up[k] # Null => k <= uplink
                            /\ ra[k] # Null => k <= rootAdj
                            /\ \A n \in Neighbor : rx[n][k] # Null => k <= children[n].rx
    BY DEF CellsInv, PoolInv
  <2>3. Short \in Handle /\ Root \in Handle /\ RxFrame \in Handle
    BY HashType
  <2>4. ASSUME NEW n \in Neighbor
        PROVE  Leads(rx[n], children[n].rx, RxFrame, ChildHash[n], FALSE, n)
    <3>1. PICK tx : tx = FALSE
      OBVIOUS
    <3>2. Aims(sch, rx[n], RxFrame, ChildHash[n], tx, n)
      BY <2>1, <3>1 DEF ChildAims
    <3>3. rx[n] \in Pointers /\ \A k \in Shard : rx[n][k] # Null => k <= children[n].rx
      BY <2>2
    <3>4. Leads(rx[n], children[n].rx, RxFrame, ChildHash[n], tx, n)
      BY <2>3, <3>2, <3>3, AimsLead
    <3> QED
      BY <3>1, <3>4
  <2>5. ASSUME parent # None
        PROVE  /\ Leads(up, uplink, Short, ParentHash[parent], TRUE, parent)
               /\ Leads(ra, rootAdj, Root, ParentHash[parent], TRUE, parent)
    <3>1. PICK tx : tx = TRUE
      OBVIOUS
    <3>2. /\ Aims(sch, up, Short, ParentHash[parent], tx, parent)
          /\ Aims(sch, ra, Root, ParentHash[parent], tx, parent)
      BY <2>1, <2>5, <3>1 DEF ParentAims
    <3>3. Leads(up, uplink, Short, ParentHash[parent], tx, parent)
      BY <2>2, <2>3, <3>2, AimsLead
    <3>4. Leads(ra, rootAdj, Root, ParentHash[parent], tx, parent)
      BY <2>2, <2>3, <3>2, AimsLead
    <3> QED
      BY <3>1, <3>3, <3>4
  <2> QED
    BY <2>1, <2>4, <2>5 DEF ParentAims
<1> QED
  BY <1>1, CellsInvariance, PTL

\* The count that decides whether a neighbour's queue may be freed is the number
\* of its Tx links, modulo its width, through every retarget and removal.
THEOREM TxCountsAlwaysMatch == CSpec => []TxCountsMatch
<1>1. CellsInv => TxCountsMatch
  BY DEF CellsInv, AimInv, TxCountsMatch, Counts, TxTo
<1> QED
  BY <1>1, CellsInvariance, PTL

\* What the scan chooses in a reachable schedule.
LEMMA ChosenDue ==
  ASSUME CellsInv, SlotsDistinct, NEW asn \in Asn, NEW c, c = Chosen(sch, asn)
  PROVE  /\ c.best \in Due(asn + c.wait)
         /\ \A t \in 1 .. c.wait - 1 : Due(asn + t) = {}
         /\ (\E b \in Due(asn + c.wait) : sch.mem[b].tx) => sch.mem[c.best].tx
         /\ LET listen == {b \in Due(asn + c.wait) : sch.mem[b].rx}
                run == IdleLink(sch, c.best, c.backup)
            IN  listen # {} => /\ run \in listen
                               /\ \A b \in listen : sch.mem[run].sf <= sch.mem[b].sf
<1>1. /\ sch \in Schedules(Addr) /\ Accounted(sch) /\ InRange(sch) /\ sch.used # {}
  BY DEF CellsInv, PoolInv, AimInv, HasEb
<1>2. asn \in Nat
  BY AsnAssumption DEF Asn
<1>3. c = NextActive(sch, asn, NoPackets)
  BY DEF Chosen
<1>4. \A t : Due(t) = DueIn(sch, t)
  BY DEF Due, DueIn
<1>5. /\ c.best \in DueIn(sch, asn + c.wait)
      /\ \A t \in 1 .. c.wait - 1 : DueIn(sch, asn + t) = {}
      /\ (\E b \in DueIn(sch, asn + c.wait) : sch.mem[b].tx) => sch.mem[c.best].tx
      /\ LET listen == {b \in DueIn(sch, asn + c.wait) : sch.mem[b].rx}
             run == IdleLink(sch, c.best, c.backup)
         IN  listen # {} => /\ run \in listen
                            /\ \A b \in listen : sch.mem[run].sf <= sch.mem[b].sf
  BY <1>1, <1>2, <1>3, NextActiveDue
<1> QED
  BY <1>4, <1>5, Zenon

\* From any slot the next one scheduled is the first a link is due in, and its
\* link transmits if any due link does: no slot is skipped and none is wasted.
THEOREM EarliestAlwaysTxFirst == CSpec => []EarliestTxFirst
<1>1. CellsInv => EarliestTxFirst
  BY ChosenDue DEF EarliestTxFirst
<1> QED
  BY <1>1, CellsInvariance, PTL

\* A slot with nothing to send listens whenever a link due in it could, on the
\* one with the lowest slotframe handle.
THEOREM IdleSlotAlwaysListens == CSpec => []IdleSlotListens
<1>1. CellsInv => IdleSlotListens
  BY ChosenDue DEF IdleSlotListens
<1> QED
  BY <1>1, CellsInvariance, PTL

\* A tick of the build with the hold recomputes both groups, and none shrinks
\* unless it is given up.
LEMMA TickGrows ==
  ASSUME ~RankCap, HoldBeforeUse, Inv, BootstrapTick, knowsUs,
         rootAdj = 0 \/ uplink' = 0
  PROVE  /\ uplink' \in Nat /\ rootAdj' \in Nat
         /\ uplink' = 0 \/ uplink <= uplink'
         /\ rootAdj <= rootAdj' \/ (uplink' = 0 /\ rootAdj' = 0)
<1>1. PICK own \in 1 .. ShardsMax : own = Own
  BY OwnType DEF Inv
<1>2. /\ uplink \in 0 .. ShardsMax /\ rootAdj \in 0 .. ShardsMax
      /\ announced \in 1 .. ShardsMax /\ ShardsMax \in Nat \ {0}
      /\ parent \in Neighbor \cup {None}
  BY ShardsMaxType DEF Inv, CellsOK, RestOK
<1>3. uplink + rootAdj <= announced /\ uplink + rootAdj <= own
  BY <1>1 DEF Inv, CellsOK, HoldRespected, Claimed
<1>4. PICK v \in 1 .. ShardsMax : v = Held(own) /\ uplink + rootAdj <= v
  BY <1>1, <1>2, <1>3 DEF Held, AtMost
<1>5. UpdateOwnCells(parent, roots, knowsUs, own)
  BY <1>1 DEF BootstrapTick
<1>6. CASE parent \in roots
  <2>1. uplink' = 0 /\ rootAdj' = v
    BY <1>4, <1>5, <1>6 DEF UpdateOwnCells, UplinkCells, RootAdjacentCells
  <2> QED
    BY <1>2, <1>4, <2>1
<1>7. CASE parent \notin roots /\ parent # None
  <2>1. uplink' = v /\ rootAdj' = 0
    BY <1>4, <1>5, <1>7 DEF UpdateOwnCells, UplinkCells, RootAdjacentCells
  <2> QED
    BY <1>2, <1>4, <2>1
<1>8. CASE parent \notin roots /\ parent = None
  <2>1. uplink' = 0 /\ rootAdj' = 0
    BY <1>5, <1>8 DEF UpdateOwnCells, UplinkCells, RootAdjacentCells
  <2> QED
    BY <2>1
<1> QED
  BY <1>6, <1>7, <1>8

\* In the build with the hold and a flat cap, own cells the pool had no room for
\* are tried again by every tick: afterwards all are installed, or no link is free.
THEOREM TicksRetry ==
  ASSUME ~RankCap, HoldBeforeUse
  PROVE  CSpec => TickRetries
<1>1. Inv /\ Inv' /\ CellsInv /\ [CNext]_cvars
        => [CBootstrapTick /\ knowsUs /\ (rootAdj = 0 \/ uplink' = 0)
              => OwnCellsInstalled' \/ sch'.used = Block]_cvars
  <2> SUFFICES ASSUME Inv, Inv', CellsInv, CBootstrapTick, knowsUs,
                      rootAdj = 0 \/ uplink' = 0
               PROVE  OwnCellsInstalled' \/ sch'.used = Block
    OBVIOUS
  <2>1. /\ uplink' \in Nat /\ rootAdj' \in Nat
        /\ uplink' = 0 \/ uplink <= uplink'
        /\ rootAdj <= rootAdj' \/ (uplink' = 0 /\ rootAdj' = 0)
    BY TickGrows DEF CBootstrapTick
  <2>2. OwnGroups(sch)
    BY DEF CBootstrapTick
  <2>3. /\ sch \in Schedules(Addr) /\ Accounted(sch) /\ HasEb(sch)
        /\ up \in Pointers /\ ra \in Pointers
        /\ \A k \in Shard : /\ up[k] # Null => k <= uplink
                            /\ ra[k] # Null => k <= rootAdj
    BY DEF CellsInv, PoolInv
  <2>4. parent' \in Neighbor \cup {None} /\ uplink \in Nat /\ rootAdj \in Nat
    BY CountTypes, CountTypesNext
  <2>5. Shard \subseteq Nat
    BY ShardsMaxType DEF Shard
  <2>6. uplink' = 0 \/ \A j \in Shard : up[j] # Null => j <= uplink'
    BY <2>1, <2>3, <2>4, <2>5
  <2>7. CASE rootAdj <= rootAdj'
    <3>1. \A j \in Shard : ra[j] # Null => j <= rootAdj'
      BY <2>1, <2>3, <2>4, <2>5, <2>7
    <3> QED
      BY <2>1, <2>2, <2>3, <2>4, <2>6, <3>1, OwnGroupsPool
  <2>8. CASE uplink' = 0 /\ rootAdj' = 0
    <3>1. \A j \in Shard : ~(j <= 0)
      BY ShardsMaxType DEF Shard
    <3> QED
      BY <2>8, <3>1 DEF OwnCellsInstalled
  <2> QED
    BY <2>1, <2>7, <2>8
<1>2. CSpec => []Inv
  BY CellsImplementTheRule, Invariance, PTL
<1> QED
  BY <1>1, <1>2, CellsInvariance, PTL DEF CSpec, TickRetries
=============================================================================
