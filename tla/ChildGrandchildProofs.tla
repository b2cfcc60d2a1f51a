----------------------- MODULE ChildGrandchildProofs ------------------------
(***************************************************************************)
(* Machine-checked theorems about the rule on one node, for every table    *)
(* size, every cap and every setting of the build switches.                *)
(***************************************************************************)
EXTENDS ChildGrandchild, FiniteSetTheorems, TLAPS

-----------------------------------------------------------------------------
(***************************************************************************)
(* The estimates stay in their ranges                                      *)
(***************************************************************************)

\* A share of a range, rounded down, stays in it.
LEMMA ShareType ==
  ASSUME NEW n \in Nat, NEW d \in Divisors
  PROVE  n \div d \in 0 .. n
  BY DEF Divisors

\* A share of a debt, rounded towards minus infinity, never exceeds it.
LEMMA DebtType ==
  ASSUME NEW n \in Nat, NEW d \in Divisors
  PROVE  (-n) \div d \in (-n) .. 0
  BY DEF Divisors

\* An average of values of a range stays in the range.
LEMMA TowardsType ==
  ASSUME NEW top \in Nat, NEW e \in 0 .. top, NEW s \in 0 .. top,
         NEW attack \in Divisors, NEW decay \in Divisors
  PROVE  Towards(e, s, attack, decay) \in 0 .. top
<1>1. CASE s >= e
  <2>1. PICK n \in Nat : n = s - e
    BY <1>1
  <2>2. PICK q \in 0 .. n : q = n \div attack
    BY ShareType
  <2> QED
    BY <1>1, <2>1, <2>2 DEF Towards
<1>2. CASE ~(s >= e)
  <2>1. PICK n \in Nat : n = e - s
    BY <1>2
  <2>2. PICK q \in (-n) .. 0 : q = (-n) \div decay
    BY DebtType
  <2>3. s - e = -n
    BY <2>1
  <2> QED
    BY <1>2, <2>1, <2>2, <2>3 DEF Towards
<1> QED
  BY <1>1, <1>2

\* An idle average stays a Q8 fraction.
LEMMA IdleFoldType ==
  ASSUME NEW e \in 0 .. One, NEW h \in BOOLEAN
  PROVE  IdleFold(e, h) \in 0 .. One
<1>1. PICK s \in 0 .. One : s = IF h THEN One ELSE 0
  BY DEF One
<1>2. 1 \in Divisors /\ IdleDecay \in Divisors /\ One \in Nat
  BY EstimatorAssumption DEF Divisors, One
<1> QED
  BY <1>1, <1>2, TowardsType DEF IdleFold

\* A window's sample is a Q8 fraction.
LEMMA LoadSampleType ==
  ASSUME NEW tx \in 0 .. Saturate
  PROVE  LoadSample(tx) \in 0 .. One
<1>1. Saturate \in Nat \ {0} /\ tx \in Nat /\ tx <= Saturate
  BY EstimatorAssumption
<1>2. PICK q : q = (tx * 256) \div Saturate
  OBVIOUS
<1>3. q \in Int /\ q * Saturate <= tx * 256 /\ tx * 256 < (q + 1) * Saturate
  BY <1>1, <1>2
<1>4. tx * 256 <= 256 * Saturate
  BY <1>1
<1>5. q >= 0
  BY <1>1, <1>3
<1>6. q <= 256
  BY <1>1, <1>3, <1>4
<1>7. LoadSample(tx) = q
  BY <1>1, <1>2 DEF LoadSample, One
<1> QED
  BY <1>3, <1>5, <1>6, <1>7 DEF One

\* A load average stays a Q8 fraction.
LEMMA LoadFoldType ==
  ASSUME NEW e \in 0 .. One, NEW tx \in 0 .. Saturate
  PROVE  LoadFold(e, tx) \in 0 .. One
<1>1. One \in Nat /\ LoadAttack \in Divisors /\ LoadDecay \in Divisors
  BY EstimatorAssumption DEF One
<1> QED
  BY <1>1, LoadSampleType, TowardsType DEF LoadFold

\* The average of shard counts stays within the build's maximum, and so does
\* the count that is installed for it.
LEMMA ShardFoldType ==
  ASSUME NEW max \in Nat \ {0}, NEW e \in 0 .. max * One, NEW r \in 1 .. max
  PROVE  /\ ShardFold(e, r) \in 0 .. max * One
         /\ Rounded(ShardFold(e, r), max) \in 1 .. max
<1>1. /\ max * One \in Nat /\ r * One \in 0 .. max * One
      /\ ShardAttack \in Divisors /\ ShardDecay \in Divisors
  BY EstimatorAssumption DEF One
<1>2. ShardFold(e, r) \in 0 .. max * One
  BY <1>1, TowardsType DEF ShardFold
<1> QED
  BY <1>2 DEF Rounded, One

-----------------------------------------------------------------------------
(***************************************************************************)
(* Shard counts and cells                                                  *)
(***************************************************************************)

LEMMA ShardsMaxType == ShardsMax \in Nat \ {0}
  BY CgAssumption DEF ShardsMax

\* The tracked children are finitely many.
LEMMA TrackedFinite ==
  ASSUME NEW kids
  PROVE  Cardinality(Tracked(kids)) \in Nat
<1>1. Tracked(kids) \subseteq Neighbor
  BY DEF Tracked
<1>2. IsFiniteSet(Tracked(kids))
  BY <1>1, CgAssumption, FS_Subset
<1> QED
  BY <1>2, FS_CardinalityType

\* A node's own shard count is at least the one every parent assumes and at
\* most what a table row has room for.
LEMMA OwnShardsType ==
  ASSUME NEW kids, NEW bonus \in BOOLEAN, NEW nr \in BOOLEAN
  PROVE  OwnShards(kids, bonus, nr) \in 1 .. ShardsMax
<1>1. Cardinality(Tracked(kids)) \in Nat
  BY TrackedFinite
<1> QED
  BY <1>1, CgAssumption DEF OwnShards, AtMost, EffectiveCap, ShardsMax

LEMMA RxCellsType ==
  ASSUME NEW n \in Nat
  PROVE  RxCells(n) \in 1 .. ShardsMax
  BY ShardsMaxType DEF RxCells, AtMost

\* What the pair of updates leaves installed.
LEMMA CellsType ==
  ASSUME NEW par, NEW rts, NEW knows \in BOOLEAN, NEW own \in 1 .. ShardsMax,
         announced \in 1 .. ShardsMax
  PROVE  /\ UplinkCells(par, rts, knows, own) \in 0 .. ShardsMax
         /\ RootAdjacentCells(par, rts, knows, own) \in 0 .. ShardsMax
  BY ShardsMaxType DEF UplinkCells, RootAdjacentCells, Held, AtMost

-----------------------------------------------------------------------------
(***************************************************************************)
(* Table entries                                                           *)
(***************************************************************************)

\* A well-formed entry whose receive cells are those of its shard count.
EntryOK(e) == /\ e \in Entry
              /\ e.rx = IF e.inUse THEN RxCells(e.shards) ELSE 0

LEMMA FreeEntryOK == EntryOK(FreeEntry)
  BY ShardsMaxType DEF EntryOK, FreeEntry, Entry, One

LEMMA ResizedOK ==
  ASSUME NEW e \in Entry, e.inUse
  PROVE  EntryOK(Resized(e)) /\ Resized(e).inUse
<1>1. RxCells(e.shards) \in 1 .. ShardsMax
  BY RxCellsType, ShardsMaxType DEF Entry
<1> QED
  BY <1>1 DEF EntryOK, Resized, Entry

LEMMA JoinedOK ==
  ASSUME NEW e \in Entry
  PROVE  EntryOK(Joined(e)) /\ Joined(e).inUse
<1>1. NewEntry \in Entry /\ NewEntry.inUse
  BY CgAssumption, ShardsMaxType DEF NewEntry, Entry, One
<1> QED
  BY <1>1, ResizedOK DEF Joined

\* The count an EB report leaves in an entry, and the average behind it.
LEMMA AdoptedOK ==
  ASSUME NEW e, EntryOK(e), e.inUse, NEW r \in Reports
  PROVE  EntryOK(Adopted(e, r)) /\ Adopted(e, r).inUse
<1>1. e \in Entry /\ e.ewma \in 0 .. ShardsMax * One /\ r \in 1 .. ShardsMax
  BY ShardsMaxType DEF EntryOK, Reports, Entry
<1>2. PICK avg : avg = ShardFold(e.ewma, r)
  OBVIOUS
<1>3. PICK n : n = Rounded(avg, ShardsMax)
  OBVIOUS
<1>4. avg \in 0 .. ShardsMax * One /\ n \in 1 .. ShardsMax
  <2> DEFINE max == ShardsMax  ew == e.ewma
  <2>1. max \in Nat \ {0} /\ ew \in 0 .. max * One /\ r \in 1 .. max
    BY <1>1, ShardsMaxType
  <2> HIDE DEF max, ew
  <2>2. ShardFold(ew, r) \in 0 .. max * One
        /\ Rounded(ShardFold(ew, r), max) \in 1 .. max
    BY <2>1, ShardFoldType
  <2> QED
    BY <1>2, <1>3, <2>2 DEF max, ew
<1>5. PICK e1 : e1 = IF EwmaShardCount THEN [e EXCEPT !.ewma = avg, !.shards = n]
                                       ELSE [e EXCEPT !.shards = r]
  OBVIOUS
<1>6. e1 \in Entry /\ e1.inUse /\ e1.rx = e.rx
  <2>1. n \in 0 .. ShardsMax /\ r \in 0 .. ShardsMax
    BY <1>1, <1>4, ShardsMaxType
  <2>2. [e EXCEPT !.ewma = avg, !.shards = n] \in Entry
    BY <1>1, <1>4, <2>1 DEF Entry
  <2>3. [e EXCEPT !.shards = r] \in Entry
    BY <1>1, <2>1 DEF Entry
  <2> QED
    BY <1>1, <1>5, <2>2, <2>3 DEF Entry
<1>7. Adopted(e, r) = IF e1.shards # e.shards THEN Resized(e1) ELSE e1
  <2>1. r > 0
    BY <1>1, ShardsMaxType
  <2> QED
    BY <1>2, <1>3, <1>5, <2>1 DEF Adopted
<1>8. CASE e1.shards # e.shards
  BY <1>6, <1>7, <1>8, ResizedOK
<1>9. CASE e1.shards = e.shards
  BY <1>6, <1>7, <1>9 DEF EntryOK
<1> QED
  BY <1>8, <1>9

\* A child the idle check visited, reclaimed or not.
LEMMA IdleCheckedOK ==
  ASSUME NEW e, EntryOK(e), e.inUse
  PROVE  EntryOK(IdleChecked(e)) /\ IdleChecked(e).inUse
<1>1. e \in Entry /\ e.idle \in 0 .. One /\ e.heard \in BOOLEAN
  BY DEF EntryOK, Entry
<1>2. PICK i \in 0 .. One : i = IdleFold(e.idle, e.heard)
  BY <1>1, IdleFoldType
<1>3. PICK e1 : e1 = [e EXCEPT !.idle = i, !.heard = FALSE]
  OBVIOUS
<1>4. e1 \in Entry /\ e1.inUse /\ e1.rx = e.rx /\ e1.shards = e.shards
  BY <1>1, <1>3 DEF Entry
<1>5. PICK e2 : e2 = [e1 EXCEPT !.shards = 1]
  OBVIOUS
<1>6. e2 \in Entry /\ e2.inUse
  BY <1>4, <1>5, ShardsMaxType DEF Entry
<1>7. IdleChecked(e) = IF e1.idle < IdleThreshold /\ e.shards > 1
                       THEN Resized(e2) ELSE e1
  BY <1>2, <1>3, <1>5 DEF IdleChecked
<1>8. CASE IdleChecked(e) = Resized(e2)
  BY <1>6, <1>8, ResizedOK
<1>9. CASE IdleChecked(e) = e1
  BY <1>4, <1>9 DEF EntryOK
<1> QED
  BY <1>7, <1>8, <1>9

-----------------------------------------------------------------------------
(***************************************************************************)
(* The cells towards the parent                                            *)
(***************************************************************************)

\* Everything the pair of updates establishes, whatever it is called with.
LEMMA UpdateOwnCellsOK ==
  ASSUME NEW par \in Neighbor \cup {None}, NEW rts \in SUBSET Neighbor,
         NEW knows \in BOOLEAN, NEW own \in 1 .. ShardsMax,
         announced \in 1 .. ShardsMax,
         UpdateOwnCells(par, rts, knows, own)
  PROVE  /\ uplink' \in 0 .. ShardsMax
         /\ rootAdj' \in 0 .. ShardsMax
         /\ uplink' = 0 \/ rootAdj' = 0
         /\ uplink' + rootAdj' > 0 => knows /\ par # None
         /\ uplink' + rootAdj' <= own
         /\ HoldBeforeUse => uplink' + rootAdj' <= announced
<1>1. CASE par \in rts
  BY <1>1, CgAssumption, ShardsMaxType
     DEF UpdateOwnCells, UplinkCells, RootAdjacentCells, Held, AtMost
<1>2. CASE par \notin rts
  BY <1>2, CgAssumption, ShardsMaxType
     DEF UpdateOwnCells, UplinkCells, RootAdjacentCells, Held, AtMost
<1> QED
  BY <1>1, <1>2

-----------------------------------------------------------------------------
(***************************************************************************)
(* The invariant                                                           *)
(***************************************************************************)

TableOK == /\ children \in [Neighbor -> Entry]
           /\ RxMatchesCount

CellsOK == /\ uplink \in 0 .. ShardsMax
           /\ rootAdj \in 0 .. ShardsMax
           /\ OneGroup
           /\ OnlyToAParentThatKnowsUs
           /\ HoldRespected

\* The variables besides the table and the cells.
RestOK == /\ parent \in Neighbor \cup {None}
          /\ knowsUs \in BOOLEAN
          /\ lastKnowsUs \in BOOLEAN
          /\ roots \in SUBSET Neighbor
          /\ near \in BOOLEAN
          /\ announced \in 1 .. ShardsMax
          /\ load \in [tx : 0 .. Saturate, ewma : 0 .. One, bonus : BOOLEAN]
          /\ queued \in SUBSET Neighbor

\* The safety properties of the rule, which together are inductive.
Inv == RestOK /\ TableOK /\ CellsOK

LEMMA OwnType ==
  ASSUME RestOK
  PROVE  Own \in 1 .. ShardsMax
  BY OwnShardsType DEF Own, RestOK

\* A handler that ends with the pair of updates, called with the node's own
\* shard count as it then is, leaves well-formed cells.
LEMMA UpdateGivesCellsOK ==
  ASSUME NEW rts \in SUBSET Neighbor, RestOK, RestOK', announced' = announced,
         UpdateOwnCells(parent', rts, knowsUs', Own')
  PROVE  CellsOK'
<1>1. Own' \in 1 .. ShardsMax
  BY OwnShardsType DEF Own, RestOK
<1>2. PICK own \in 1 .. ShardsMax : own = Own'
  BY <1>1
<1>3. UpdateOwnCells(parent', rts, knowsUs', own)
  BY <1>2
<1>4. /\ uplink' \in 0 .. ShardsMax
      /\ rootAdj' \in 0 .. ShardsMax
      /\ uplink' = 0 \/ rootAdj' = 0
      /\ uplink' + rootAdj' > 0 => knowsUs' /\ parent' # None
      /\ uplink' + rootAdj' <= own
      /\ HoldBeforeUse => uplink' + rootAdj' <= announced
  BY <1>3, UpdateOwnCellsOK DEF RestOK
<1> QED
  BY <1>2, <1>4 DEF CellsOK, OneGroup, OnlyToAParentThatKnowsUs, HoldRespected,
                    Claimed

\* A handler that leaves the cells alone and what they depend on, too.
LEMMA SameCellsOK ==
  ASSUME RestOK, CellsOK, UNCHANGED <<uplink, rootAdj, parent, announced>>,
         knowsUs => knowsUs', RankCap \/ Own' = Own
  PROVE  CellsOK'
  BY DEF CellsOK, OneGroup, OnlyToAParentThatKnowsUs, HoldRespected, Claimed

\* The own shard count depends on which children are tracked and on nothing
\* else in the table.
LEMMA SameOwn ==
  ASSUME \A n \in Neighbor : children'[n].inUse = children[n].inUse,
         UNCHANGED <<load, near>>
  PROVE  Own' = Own
<1>1. Tracked(children') = Tracked(children)
  BY DEF Tracked
<1> QED
  BY <1>1 DEF Own, OwnShards

\* One entry of the table replaced by a well-formed one.
LEMMA TableStep ==
  ASSUME TableOK, NEW n \in Neighbor, NEW e, EntryOK(e),
         children' = [children EXCEPT ![n] = e]
  PROVE  TableOK'
  BY DEF TableOK, EntryOK, RxMatchesCount

LEMMA EntryFromTable ==
  ASSUME TableOK, NEW n \in Neighbor
  PROVE  EntryOK(children[n]) /\ children[n] \in Entry
  BY DEF TableOK, EntryOK, RxMatchesCount

\* The rule starts with an empty table, no parent and no cells.
LEMMA InvInit == Init => Inv
<1> SUFFICES ASSUME Init PROVE Inv
  OBVIOUS
<1>1. RestOK
  <2>1. [tx |-> 0, ewma |-> 0, bonus |-> FALSE]
          \in [tx : 0 .. Saturate, ewma : 0 .. One, bonus : BOOLEAN]
    BY EstimatorAssumption DEF One
  <2>2. 1 \in 1 .. ShardsMax
    BY ShardsMaxType
  <2> QED
    BY <2>1, <2>2 DEF Init, RestOK
<1>2. TableOK
  BY FreeEntryOK DEF Init, TableOK, RxMatchesCount, EntryOK
<1>3. Own \in 1 .. ShardsMax
  BY <1>1, OwnType
<1>4. CellsOK
  BY <1>3, ShardsMaxType DEF Init, CellsOK, OneGroup, OnlyToAParentThatKnowsUs,
                             HoldRespected, Claimed
<1> QED
  BY <1>1, <1>2, <1>4 DEF Inv

\* Every callback and every tick preserves the invariant.
LEMMA InvNext == Inv /\ [Next]_vars => Inv'
<1> SUFFICES ASSUME Inv, [Next]_vars PROVE Inv'
  OBVIOUS
<1> USE DEF Inv
<1>1. ASSUME NEW n \in Neighbor, ChildAdded(n) PROVE Inv'
  <2>1. RestOK'
    BY <1>1 DEF ChildAdded, RestOK
  <2>2. TableOK'
    BY <1>1, TableStep, EntryFromTable, JoinedOK DEF ChildAdded, TableOK
  <2>3. CellsOK'
    <3>1. UpdateOwnCells(parent', roots, knowsUs', Own')
      BY <1>1 DEF ChildAdded, Own
    <3> QED
      BY <1>1, <2>1, <3>1, UpdateGivesCellsOK DEF ChildAdded, RestOK
  <2> QED
    BY <2>1, <2>2, <2>3
<1>2. ASSUME NEW n \in Neighbor, ChildRemoved(n) PROVE Inv'
  <2>1. RestOK'
    BY <1>2 DEF ChildRemoved, RestOK
  <2>2. TableOK'
    BY <1>2, TableStep, FreeEntryOK DEF ChildRemoved
  <2>3. CellsOK'
    <3>1. UpdateOwnCells(parent', roots, knowsUs', Own')
      BY <1>2 DEF ChildRemoved, Own
    <3> QED
      BY <1>2, <2>1, <3>1, UpdateGivesCellsOK DEF ChildRemoved, RestOK
  <2> QED
    BY <2>1, <2>2, <2>3
<1>3. ASSUME NEW n \in Neighbor, NEW r \in Reports, ChildEbInput(n, r) PROVE Inv'
  <2>1. RestOK'
    BY <1>3 DEF ChildEbInput, RestOK
  <2>2. EntryOK(Adopted(children[n], r)) /\ Adopted(children[n], r).inUse
    BY <1>3, EntryFromTable, AdoptedOK DEF ChildEbInput
  <2>3. TableOK'
    BY <1>3, <2>2, TableStep DEF ChildEbInput, TableOK
  <2>4. Own' = Own
    BY <1>3, <2>2, SameOwn DEF ChildEbInput, TableOK
  <2>5. CellsOK'
    BY <1>3, <2>4, SameCellsOK DEF ChildEbInput
  <2> QED
    BY <2>1, <2>3, <2>5
<1>4. ASSUME NEW n \in Neighbor, DataInput(n) PROVE Inv'
  <2>1. RestOK'
    BY <1>4 DEF DataInput, RestOK
  <2>2. TableOK'
    BY <1>4 DEF DataInput, TableOK, RxMatchesCount, Entry
  <2>3. Own' = Own
    BY <1>4, SameOwn DEF DataInput, TableOK, Entry
  <2>4. CellsOK'
    BY <1>4, <2>3, SameCellsOK DEF DataInput
  <2> QED
    BY <2>1, <2>2, <2>4
<1>5. ASSUME IdleTick PROVE Inv'
  <2>1. RestOK'
    BY <1>5 DEF IdleTick, RestOK
  <2>2. \A n \in Neighbor : /\ EntryOK(children'[n])
                           /\ children'[n].inUse = children[n].inUse
    <3> TAKE n \in Neighbor
    <3>1. CASE children[n].inUse
      BY <1>5, <3>1, EntryFromTable, IdleCheckedOK DEF IdleTick, TableOK, EntryOK, Entry
    <3>2. CASE ~children[n].inUse
      BY <1>5, <3>2, EntryFromTable DEF IdleTick
    <3> QED
      BY <3>1, <3>2
  <2>3. TableOK'
    BY <1>5, <2>2 DEF IdleTick, TableOK, RxMatchesCount, EntryOK
  <2>4. Own' = Own
    BY <1>5, <2>2, SameOwn DEF IdleTick
  <2>5. CellsOK'
    BY <1>5, <2>4, SameCellsOK DEF IdleTick
  <2> QED
    BY <2>1, <2>3, <2>5
<1>6. ASSUME NEW p \in Neighbor \cup {None}, NewTimeSource(p) PROVE Inv'
  <2>1. RestOK'
    BY <1>6 DEF NewTimeSource, RestOK
  <2>2. TableOK'
    BY <1>6 DEF NewTimeSource, TableOK, RxMatchesCount
  <2>3. UpdateOwnCells(parent', roots, knowsUs', Own')
    BY <1>6 DEF NewTimeSource, Own
  <2>4. CellsOK'
    BY <1>6, <2>1, <2>3, UpdateGivesCellsOK DEF NewTimeSource, RestOK
  <2> QED
    BY <2>1, <2>2, <2>4
<1>7. ASSUME DaoAcked PROVE Inv'
  <2>1. RestOK' /\ TableOK'
    BY <1>7 DEF DaoAcked, RestOK, TableOK, RxMatchesCount
  <2>2. CellsOK'
    BY <1>7, SameCellsOK DEF DaoAcked, Own
  <2> QED
    BY <2>1, <2>2
<1>8. ASSUME NEW r \in Neighbor, RootAdded(r) PROVE Inv'
  <2>1. RestOK' /\ TableOK'
    BY <1>8 DEF RootAdded, RestOK, TableOK, RxMatchesCount
  <2>2. Own' = Own
    BY <1>8 DEF RootAdded, Own
  <2>3. CASE r = parent
    BY <1>8, <2>1, <2>2, <2>3, UpdateGivesCellsOK DEF RootAdded, RestOK
  <2>4. CASE r # parent
    <3>1. UNCHANGED <<uplink, rootAdj, parent, announced>> /\ knowsUs' = knowsUs
      BY <1>8, <2>4 DEF RootAdded
    <3> QED
      BY <2>1, <2>2, <3>1, SameCellsOK
  <2> QED
    BY <2>1, <2>3, <2>4
<1>9. ASSUME NEW r \in Neighbor, RootExpired(r) PROVE Inv'
  <2>1. RestOK' /\ TableOK'
    BY <1>9 DEF RootExpired, RestOK, TableOK, RxMatchesCount
  <2>2. Own' = Own
    BY <1>9 DEF RootExpired, Own
  <2>3. CASE r = parent
    BY <1>9, <2>1, <2>2, <2>3, UpdateGivesCellsOK DEF RootExpired, RestOK
  <2>4. CASE r # parent
    <3>1. UNCHANGED <<uplink, rootAdj, parent, announced>> /\ knowsUs' = knowsUs
      BY <1>9, <2>4 DEF RootExpired
    <3> QED
      BY <2>1, <2>2, <3>1, SameCellsOK
  <2> QED
    BY <2>1, <2>3, <2>4
<1>10. ASSUME RankChanged PROVE Inv'
  <2>1. RestOK' /\ TableOK'
    BY <1>10 DEF RankChanged, RestOK, TableOK, RxMatchesCount
  <2>2. CellsOK'
    BY <1>10, SameCellsOK DEF RankChanged
  <2> QED
    BY <2>1, <2>2
<1>11. ASSUME BootstrapTick PROVE Inv'
  <2>1. RestOK' /\ TableOK'
    BY <1>11 DEF BootstrapTick, RestOK, TableOK, RxMatchesCount
  <2>2. Own' = Own
    BY <1>11 DEF BootstrapTick, Own
  <2>3. CASE knowsUs /\ (HoldBeforeUse \/ ~lastKnowsUs)
    BY <1>11, <2>1, <2>2, <2>3, UpdateGivesCellsOK DEF BootstrapTick, RestOK
  <2>4. CASE ~(knowsUs /\ (HoldBeforeUse \/ ~lastKnowsUs))
    <3>1. UNCHANGED <<uplink, rootAdj, parent, announced>> /\ knowsUs' = knowsUs
      BY <1>11, <2>4 DEF BootstrapTick
    <3> QED
      BY <2>1, <2>2, <3>1, SameCellsOK
  <2> QED
    BY <2>1, <2>3, <2>4
<1>12. ASSUME CreateEb PROVE Inv'
  <2>1. Own \in 1 .. ShardsMax /\ Own' = Own
    BY <1>12, OwnType DEF CreateEb, Own
  <2>2. RestOK' /\ TableOK'
    BY <1>12, <2>1 DEF CreateEb, RestOK, TableOK, RxMatchesCount
  <2>3. CellsOK'
    BY <1>12, <2>1 DEF CreateEb, CellsOK, OneGroup, OnlyToAParentThatKnowsUs,
                       HoldRespected, Claimed
  <2> QED
    BY <2>2, <2>3
<1>13. ASSUME NEW n \in Neighbor, PacketReady(n) PROVE Inv'
  <2>1. load' \in [tx : 0 .. Saturate, ewma : 0 .. One, bonus : BOOLEAN]
        /\ load'.bonus = load.bonus
    BY <1>13, EstimatorAssumption DEF PacketReady, RestOK, AtMost
  <2>2. RestOK' /\ TableOK'
    BY <1>13, <2>1 DEF PacketReady, RestOK, TableOK, RxMatchesCount
  <2>3. Own' = Own
    BY <1>13, <2>1 DEF PacketReady, Own
  <2>4. CellsOK'
    BY <1>13, <2>3, SameCellsOK DEF PacketReady
  <2> QED
    BY <2>2, <2>4
<1>14. ASSUME NEW n \in Neighbor, QueueDrained(n) PROVE Inv'
  <2>1. RestOK' /\ TableOK'
    BY <1>14 DEF QueueDrained, RestOK, TableOK, RxMatchesCount
  <2>2. CellsOK'
    BY <1>14, SameCellsOK DEF QueueDrained, Own
  <2> QED
    BY <2>1, <2>2
<1>15. ASSUME LoadTick PROVE Inv'
  <2>1. PICK e \in 0 .. One : e = LoadFold(load.ewma, load.tx)
    BY LoadFoldType DEF RestOK
  <2>2. PICK b \in BOOLEAN : b = Busy(e)
    <3>1. Busy(e) \in BOOLEAN
      BY DEF Busy
    <3> QED
      BY <3>1
  <2>3. load' = [tx |-> 0, ewma |-> e, bonus |-> b]
    BY <1>15, <2>1, <2>2 DEF LoadTick
  <2>4. RestOK' /\ TableOK'
    BY <1>15, <2>3, EstimatorAssumption DEF LoadTick, RestOK, TableOK, RxMatchesCount
  <2>5. Own' = OwnShards(children, b, near)
    BY <1>15, <2>3 DEF LoadTick, Own
  <2>6. CASE b # load.bonus
    <3>1. UpdateOwnCells(parent', roots, knowsUs', Own')
      BY <1>15, <2>1, <2>2, <2>5, <2>6 DEF LoadTick
    <3> QED
      BY <1>15, <2>4, <3>1, UpdateGivesCellsOK DEF LoadTick, RestOK
  <2>7. CASE b = load.bonus
    <3>1. UNCHANGED <<uplink, rootAdj, parent, announced>> /\ knowsUs' = knowsUs
      BY <1>15, <2>1, <2>2, <2>7 DEF LoadTick
    <3>2. Own' = Own
      BY <2>5, <2>7 DEF Own
    <3> QED
      BY <2>4, <3>1, <3>2, SameCellsOK
  <2> QED
    BY <2>4, <2>6, <2>7
<1>16. CASE UNCHANGED vars
  <2>1. RestOK' /\ TableOK'
    BY <1>16 DEF vars, RestOK, TableOK, RxMatchesCount
  <2>2. CellsOK'
    BY <1>16, SameCellsOK DEF vars, Own
  <2> QED
    BY <2>1, <2>2
<1> QED
  BY <1>1, <1>2, <1>3, <1>4, <1>5, <1>6, <1>7, <1>8, <1>9, <1>10, <1>11, <1>12,
     <1>13, <1>14, <1>15, <1>16 DEF Next

-----------------------------------------------------------------------------
(***************************************************************************)
(* Theorems                                                                *)
(***************************************************************************)

\* The inductive invariant holds in every behaviour of the rule.
THEOREM Invariance == Spec => []Inv
<1>1. Init => Inv
  BY InvInit
<1>2. Inv /\ [Next]_vars => Inv'
  BY InvNext
<1> QED
  BY <1>1, <1>2, PTL DEF Spec

\* Every variable of the rule keeps its type: no count ever leaves a row of
\* l_uplink[], l_root_adjacent[] or relay_rx[].
THEOREM TypeCorrect == Spec => []TypeOK
<1>1. Inv => TypeOK
  BY DEF Inv, RestOK, TableOK, CellsOK, TypeOK
<1> QED
  BY <1>1, Invariance, PTL

\* A node never holds uplink and root-adjacent cells at once.
THEOREM OneGroupOnly == Spec => []OneGroup
<1>1. Inv => OneGroup
  BY DEF Inv, CellsOK
<1> QED
  BY <1>1, Invariance, PTL

\* A node has cells only towards a parent that knows it.
THEOREM CellsNeedAnAcknowledgedDao == Spec => []OnlyToAParentThatKnowsUs
<1>1. Inv => OnlyToAParentThatKnowsUs
  BY DEF Inv, CellsOK
<1> QED
  BY <1>1, Invariance, PTL

\* The receive cells of every child are those of the count held for it.
THEOREM RxAlwaysMatches == Spec => []RxMatchesCount
<1>1. Inv => RxMatchesCount
  BY DEF Inv, TableOK
<1> QED
  BY <1>1, Invariance, PTL

\* With the hold and a flat cap a node never claims more cells than its last
\* EB announced, nor more than its own shard count.
THEOREM HoldAlwaysRespected == Spec => []HoldRespected
<1>1. Inv => HoldRespected
  BY DEF Inv, CellsOK
<1> QED
  BY <1>1, Invariance, PTL
-----------------------------------------------------------------------------
(***************************************************************************)
(* An action property                                                      *)
(***************************************************************************)

\* A recomputation of the own cells, for whatever parent, list and count, stays
\* within the last EB's statement.
LEMMA UpdateIsHeld ==
  ASSUME Inv, HoldBeforeUse, NEW par \in Neighbor \cup {None},
         NEW rts \in SUBSET Neighbor, NEW knows \in BOOLEAN, NEW kids,
         NEW bonus \in BOOLEAN,
         UpdateOwnCells(par, rts, knows, OwnShards(kids, bonus, near))
  PROVE  Claimed' <= announced
<1>1. PICK own \in 1 .. ShardsMax : own = OwnShards(kids, bonus, near)
  BY OwnShardsType DEF Inv, RestOK
<1>2. UpdateOwnCells(par, rts, knows, own)
  BY <1>1
<1> QED
  BY <1>2, UpdateOwnCellsOK DEF Inv, RestOK, Claimed

\* Every step either leaves the cells alone or recomputes them both.
LEMMA StepIsHeld ==
  ASSUME Inv, Next, HoldBeforeUse, ~UNCHANGED <<uplink, rootAdj>>
  PROVE  Claimed' <= announced
<1> USE DEF Own
<1>1. knowsUs \in BOOLEAN /\ parent \in Neighbor \cup {None}
      /\ roots \in SUBSET Neighbor /\ load.bonus \in BOOLEAN
  BY DEF Inv, RestOK
<1>2. ASSUME NEW n \in Neighbor, ChildAdded(n) \/ ChildRemoved(n)
      PROVE  Claimed' <= announced
  BY <1>1, <1>2, UpdateIsHeld DEF ChildAdded, ChildRemoved
<1>3. ASSUME NEW n \in Neighbor, RootAdded(n) PROVE Claimed' <= announced
  <2>1. roots' \in SUBSET Neighbor
    BY <1>1, <1>3 DEF RootAdded
  <2> QED
    BY <1>1, <1>3, <2>1, UpdateIsHeld DEF RootAdded
<1>4. ASSUME NEW n \in Neighbor, RootExpired(n) PROVE Claimed' <= announced
  BY <1>1, <1>4, UpdateIsHeld DEF RootExpired
<1>5. ASSUME NEW p \in Neighbor \cup {None}, NewTimeSource(p)
      PROVE  Claimed' <= announced
  BY <1>1, <1>5, UpdateIsHeld DEF NewTimeSource
<1>6. CASE BootstrapTick
  BY <1>1, <1>6, UpdateIsHeld DEF BootstrapTick
<1>7. CASE LoadTick
  <2> DEFINE e == LoadFold(load.ewma, load.tx)
  <2>1. Busy(e) \in BOOLEAN
    BY DEF Busy
  <2>2. UpdateOwnCells(parent, roots, knowsUs, OwnShards(children, Busy(e), near))
    BY <1>7 DEF LoadTick
  <2> QED
    BY <1>1, <2>1, <2>2, UpdateIsHeld
<1> QED
  BY <1>2, <1>3, <1>4, <1>5, <1>6, <1>7
     DEF Next, ChildEbInput, DataInput, PacketReady, QueueDrained, DaoAcked,
         RankChanged, IdleTick, CreateEb

\* No event whatever installs a cell the last EB did not state, also when a
\* rank change has moved the cap.
THEOREM IncreasesAreAnnounced == Spec => IncreaseIsAnnounced
<1>1. Inv /\ [Next]_vars
        => [HoldBeforeUse /\ Claimed' > Claimed => Claimed' <= announced]_vars
  <2> SUFFICES ASSUME Inv, Next, HoldBeforeUse, Claimed' > Claimed
               PROVE  Claimed' <= announced
    BY DEF vars
  <2>1. ~UNCHANGED <<uplink, rootAdj>>
    <3> SUFFICES ASSUME UNCHANGED <<uplink, rootAdj>> PROVE FALSE
      OBVIOUS
    <3>1. Claimed \in Int /\ Claimed' = Claimed
      BY DEF Claimed, Inv, CellsOK
    <3> QED
      BY <3>1
  <2> QED
    BY <2>1, StepIsHeld
<1> QED
  BY <1>1, Invariance, PTL DEF Spec, IncreaseIsAnnounced

-----------------------------------------------------------------------------
(***************************************************************************)
(* The build without the hold                                              *)
(***************************************************************************)

\* With a flat cap, a step either recomputes both groups from the node's own
\* count as the step leaves it, or disturbs neither the cells nor that count.
LEMMA StepResizesOrNot ==
  ASSUME Inv, [Next]_vars, ~RankCap
  PROVE  \/ \E rts \in SUBSET Neighbor :
              UpdateOwnCells(parent', rts, knowsUs', Own')
         \/ UNCHANGED <<uplink, rootAdj>> /\ Own' = Own
<1> USE DEF Inv
<1>1. roots \in SUBSET Neighbor
  BY DEF RestOK
<1>2. ASSUME NEW n \in Neighbor, ChildAdded(n) \/ ChildRemoved(n)
      PROVE  UpdateOwnCells(parent', roots, knowsUs', Own')
  BY <1>2 DEF ChildAdded, ChildRemoved, Own
<1>3. ASSUME NEW n \in Neighbor, NEW r \in Reports, ChildEbInput(n, r)
      PROVE  UNCHANGED <<uplink, rootAdj>> /\ Own' = Own
  <2>1. Adopted(children[n], r).inUse
    BY <1>3, EntryFromTable, AdoptedOK DEF ChildEbInput
  <2>2. Own' = Own
    BY <1>3, <2>1, SameOwn DEF ChildEbInput, TableOK
  <2> QED
    BY <1>3, <2>2 DEF ChildEbInput
<1>4. ASSUME NEW n \in Neighbor, DataInput(n)
      PROVE  UNCHANGED <<uplink, rootAdj>> /\ Own' = Own
  <2>1. Own' = Own
    BY <1>4, SameOwn DEF DataInput, TableOK, Entry
  <2> QED
    BY <1>4, <2>1 DEF DataInput
<1>5. CASE IdleTick
  <2>1. \A n \in Neighbor : children'[n].inUse = children[n].inUse
    BY <1>5, EntryFromTable, IdleCheckedOK DEF IdleTick
  <2>2. Own' = Own
    BY <1>5, <2>1, SameOwn DEF IdleTick
  <2> QED
    BY <1>5, <2>2 DEF IdleTick
<1>6. ASSUME NEW p \in Neighbor \cup {None}, NewTimeSource(p)
      PROVE  UpdateOwnCells(parent', roots, knowsUs', Own')
  BY <1>6 DEF NewTimeSource, Own
<1>7. ASSUME NEW r \in Neighbor, RootAdded(r)
      PROVE  \/ UpdateOwnCells(parent', roots', knowsUs', Own')
             \/ UNCHANGED <<uplink, rootAdj>> /\ Own' = Own
  BY <1>7 DEF RootAdded, Own
<1>8. ASSUME NEW r \in Neighbor, RootAdded(r) PROVE roots' \in SUBSET Neighbor
  BY <1>1, <1>8 DEF RootAdded
<1>9. ASSUME NEW r \in Neighbor, RootExpired(r)
      PROVE  \/ UpdateOwnCells(parent', roots, knowsUs', Own')
             \/ UNCHANGED <<uplink, rootAdj>> /\ Own' = Own
  BY <1>9 DEF RootExpired, Own
<1>10. CASE BootstrapTick
  <2>1. \/ UpdateOwnCells(parent', roots, knowsUs', Own')
        \/ UNCHANGED <<uplink, rootAdj>> /\ Own' = Own
    BY <1>10 DEF BootstrapTick, Own
  <2> QED
    BY <1>1, <2>1
<1>11. ASSUME NEW n \in Neighbor, PacketReady(n)
       PROVE  UNCHANGED <<uplink, rootAdj>> /\ Own' = Own
  <2>1. load'.bonus = load.bonus
    BY <1>11 DEF PacketReady, RestOK
  <2> QED
    BY <1>11, <2>1 DEF PacketReady, Own
<1>12. CASE LoadTick
  <2> DEFINE e == LoadFold(load.ewma, load.tx)
  <2>1. load' = [tx |-> 0, ewma |-> e, bonus |-> Busy(e)]
        /\ UNCHANGED <<parent, knowsUs, children, near>>
    BY <1>12 DEF LoadTick
  <2> HIDE DEF e
  <2>2. Own' = OwnShards(children, Busy(e), near)
    BY <2>1 DEF Own
  <2>3. CASE Busy(e) # load.bonus
    <3>1. UpdateOwnCells(parent, roots, knowsUs, OwnShards(children, Busy(e), near))
      BY <1>12, <2>3 DEF LoadTick, e
    <3> QED
      BY <1>1, <2>1, <2>2, <3>1
  <2>4. CASE Busy(e) = load.bonus
    <3>1. UNCHANGED <<uplink, rootAdj>>
      BY <1>12, <2>4 DEF LoadTick, e
    <3> QED
      BY <2>2, <2>4, <3>1 DEF Own
  <2> QED
    BY <2>3, <2>4
<1>13. ASSUME NEW n \in Neighbor, QueueDrained(n)
       PROVE  UNCHANGED <<uplink, rootAdj>> /\ Own' = Own
  BY <1>13 DEF QueueDrained, Own
<1>14. CASE DaoAcked \/ RankChanged \/ CreateEb \/ UNCHANGED vars
  BY <1>14 DEF DaoAcked, RankChanged, CreateEb, vars, Own
<1> QED
  BY <1>1, <1>2, <1>3, <1>4, <1>5, <1>6, <1>7, <1>8, <1>9, <1>10, <1>11, <1>12,
     <1>13, <1>14 DEF Next

\* Without the hold a recomputation gives all cells or none.
LEMMA UpdateGivesAllOrNone ==
  ASSUME ~HoldBeforeUse, NEW par, NEW rts, NEW knows \in BOOLEAN,
         NEW own \in 1 .. ShardsMax, UpdateOwnCells(par, rts, knows, own)
  PROVE  Claimed' \in {0, own}
<1>1. CASE par \in rts
  BY <1>1 DEF UpdateOwnCells, UplinkCells, RootAdjacentCells, Held, Claimed
<1>2. CASE par \notin rts
  BY <1>2 DEF UpdateOwnCells, UplinkCells, RootAdjacentCells, Held, Claimed
<1> QED
  BY <1>1, <1>2

\* Without the hold and with a flat cap, a node that has cells has exactly as
\* many as its own shard count, after every event.
THEOREM CellsAlwaysFollow ==
  ASSUME ~RankCap
  PROVE  Spec => []CellsFollowOwnCount
<1>1. Init => CellsFollowOwnCount
  BY DEF Init, CellsFollowOwnCount, Claimed
<1>2. Inv /\ Inv' /\ CellsFollowOwnCount /\ [Next]_vars => CellsFollowOwnCount'
  <2> SUFFICES ASSUME Inv, Inv', CellsFollowOwnCount, [Next]_vars,
                      ~HoldBeforeUse, Claimed' > 0
               PROVE  Claimed' = Own'
    BY DEF CellsFollowOwnCount
  <2>1. CASE \E rts \in SUBSET Neighbor :
               UpdateOwnCells(parent', rts, knowsUs', Own')
    <3>1. PICK own \in 1 .. ShardsMax : own = Own'
      <4>1. OwnShards(children', load.bonus', near') \in 1 .. ShardsMax
        BY OwnShardsType DEF Inv, RestOK
      <4> QED
        BY <4>1 DEF Own
    <3>2. PICK rts \in SUBSET Neighbor : UpdateOwnCells(parent', rts, knowsUs', own)
      BY <2>1, <3>1
    <3>3. Claimed' \in {0, own}
      BY <3>2, UpdateGivesAllOrNone DEF Inv, RestOK
    <3> QED
      BY <3>1, <3>3
  <2>2. CASE UNCHANGED <<uplink, rootAdj>> /\ Own' = Own
    BY <2>2 DEF CellsFollowOwnCount, Claimed
  <2> QED
    BY <2>1, <2>2, StepResizesOrNot
<1> QED
  BY <1>1, <1>2, Invariance, PTL DEF Spec
=============================================================================
