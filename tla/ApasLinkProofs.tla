--------------------------- MODULE ApasLinkProofs ---------------------------
(***************************************************************************)
(* Machine-checked theorems about one parent-child relationship, for every *)
(* table size and cap, and that it implements ShardAgreement.  With the    *)
(* averaged reports (EwmaShardCount) a parent holds counts nobody sent, so *)
(* the theorems that need a plain report say so.                           *)
(***************************************************************************)
EXTENDS ApasLink, ChildGrandchildProofs

-----------------------------------------------------------------------------
(***************************************************************************)
(* The child's side is the rule                                            *)
(***************************************************************************)

\* Whatever happens on the link is one step of the child's rule, or none.
LEMMA LinkStepIsRuleStep == [LNext]_allvars => [Next]_vars
<1> SUFFICES ASSUME [LNext]_allvars PROVE [Next]_vars
  OBVIOUS
<1> USE LinkAssumption
<1>1. CASE ChildStep
  BY <1>1 DEF ChildStep, Next
<1>2. ASSUME NEW b \in BOOLEAN, DaoExchange(b) PROVE [Next]_vars
  BY <1>2 DEF DaoExchange, Next
<1>3. ASSUME NEW b \in BOOLEAN, SendEb(b) PROVE [Next]_vars
  BY <1>3 DEF SendEb
<1>4. CASE BuildEb
  BY <1>4 DEF BuildEb, Next
<1>5. CASE \/ ParentAddsRoute \/ ParentDropsRoute \/ ParentHearsData
           \/ ParentIdleTick
  BY <1>5 DEF ParentAddsRoute, ParentDropsRoute, ParentHearsData, ParentIdleTick
<1>6. CASE UNCHANGED allvars
  BY <1>6 DEF allvars
<1> QED
  BY <1>1, <1>2, <1>3, <1>4, <1>5, <1>6 DEF LNext

-----------------------------------------------------------------------------
(***************************************************************************)
(* The parent's entry and the EB in flight                                 *)
(***************************************************************************)

\* The EB in the queue says a count the child has stated; without one in the
\* queue the fields are those of NoEb.
EbOK == \/ eb = NoEb
        \/ /\ eb \in [listed : BOOLEAN, shards : 1 .. ShardsMax]
           /\ eb.shards \in stated

\* What was sent was stated, and what was last announced too.
HistoryOK == /\ stated \subseteq 1 .. ShardsMax
             /\ sent \subseteq stated
             /\ 1 \in sent
             /\ announced \in stated

\* With the hold, the last EB built is what was announced, and a parent that
\* heard it holds that count (with plain reports).
FreshOK == /\ informed => entry.inUse
           /\ HoldBeforeUse =>
                /\ eb # NoEb => eb.shards = announced
                /\ ~EwmaShardCount /\ informed => entry.shards = announced

LinkOK == /\ EntryOK(entry)
          /\ dao \in BOOLEAN
          /\ informed \in BOOLEAN
          /\ EbOK
          /\ HistoryOK
          /\ FreshOK
          /\ ~EwmaShardCount => HeldWasSent

LInv == Inv /\ LinkOK

\* An EB that carries a list leaves its count in the entry (plain reports).
LEMMA AdoptedCount ==
  ASSUME ~EwmaShardCount, NEW e, EntryOK(e), e.inUse, NEW r \in Reports
  PROVE  Adopted(e, r).shards = r
<1>1. e \in Entry /\ r > 0
  BY ShardsMaxType DEF EntryOK, Reports
<1>2. PICK e1 : e1 = [e EXCEPT !.shards = r]
  OBVIOUS
<1>3. e1.shards = r /\ Resized(e1).shards = r
  BY <1>1, <1>2 DEF Entry, Resized
<1>4. Adopted(e, r) = IF e1.shards # e.shards THEN Resized(e1) ELSE e1
  BY <1>1, <1>2 DEF Adopted
<1> QED
  BY <1>3, <1>4

\* A join keeps the count of a known child and starts an unknown one at 0.
LEMMA JoinedCount ==
  ASSUME NEW e \in Entry
  PROVE  Joined(e).shards = IF e.inUse THEN e.shards ELSE 0
<1>1. CASE e.inUse
  BY <1>1 DEF Joined, Resized, Entry
<1>2. CASE ~e.inUse
  BY <1>2 DEF Joined, Resized, NewEntry
<1> QED
  BY <1>1, <1>2

\* An idle check keeps the count or takes it back to one.
LEMMA IdleCheckedCount ==
  ASSUME NEW e \in Entry
  PROVE  IdleChecked(e).shards \in {e.shards, 1}
<1>1. PICK e1 : e1 = [e EXCEPT !.idle = IdleFold(e.idle, e.heard), !.heard = FALSE]
  OBVIOUS
<1>2. PICK e2 : e2 = [e1 EXCEPT !.shards = 1]
  OBVIOUS
<1>3. e1.shards = e.shards /\ e2.shards = 1 /\ Resized(e2).shards = 1
  BY <1>1, <1>2 DEF Entry, Resized
<1>4. IdleChecked(e) = IF e1.idle < IdleThreshold /\ e.shards > 1
                       THEN Resized(e2) ELSE e1
  BY <1>1, <1>2 DEF IdleChecked
<1> QED
  BY <1>3, <1>4

\* Nothing stated and nothing known: the link starts well formed.
LEMMA LInvInit == LInit => LInv
<1> SUFFICES ASSUME LInit PROVE LInv
  OBVIOUS
<1>1. Inv
  BY InvInit DEF LInit
<1>2. EntryOK(entry) /\ entry.shards = 0
  BY FreeEntryOK DEF LInit, FreeEntry
<1>3. HistoryOK
  BY ShardsMaxType DEF LInit, Init, HistoryOK
<1>4. LinkOK
  BY <1>2, <1>3 DEF LInit, LinkOK, EbOK, FreshOK, HeldWasSent
<1> QED
  BY <1>1, <1>4 DEF LInv

\* A step that leaves the link's own variables and the announcement alone.
LEMMA SameLink ==
  ASSUME LinkOK, UNCHANGED <<lvars, announced>>
  PROVE  LinkOK'
  BY DEF lvars, LinkOK, EbOK, HistoryOK, FreshOK, HeldWasSent, EntryOK

\* Every step of the link preserves the invariant.
LEMMA LInvNext == LInv /\ [LNext]_allvars => LInv'
<1> SUFFICES ASSUME LInv, [LNext]_allvars PROVE LInv'
  OBVIOUS
<1> USE DEF LInv
<1>1. Inv'
  BY InvNext, LinkStepIsRuleStep
<1>2. Own \in 1 .. ShardsMax
  BY OwnType DEF Inv
<1>3. entry \in Entry
  BY DEF LinkOK, EntryOK
<1>4. CASE ChildStep
  <2>1. UNCHANGED <<lvars, announced>>
    BY <1>4 DEF ChildStep, ChildAdded, ChildRemoved, NewTimeSource, DaoAcked,
                RootAdded, RootExpired, RankChanged, BootstrapTick, LoadTick,
                PacketReady
  <2> QED
    BY <1>1, <2>1, SameLink
<1>5. ASSUME NEW b \in BOOLEAN, DaoExchange(b) PROVE LInv'
  BY <1>1, <1>5
     DEF DaoExchange, DaoAcked, vars, LinkOK, EbOK, HistoryOK, FreshOK,
         HeldWasSent, EntryOK
<1>6. CASE BuildEb
  <2>1. /\ eb' = [listed |-> Tracked(children) # {}, shards |-> Own]
        /\ stated' = stated \cup {Own} /\ informed' = FALSE
        /\ UNCHANGED <<entry, dao, sent>>
        /\ announced' = IF HoldBeforeUse THEN Own ELSE announced
    BY <1>6 DEF BuildEb, CreateEb, EbList
  <2>2. EbOK' /\ HistoryOK'
    BY <1>2, <2>1 DEF EbOK, LinkOK, HistoryOK
  <2>3. FreshOK'
    BY <2>1 DEF LinkOK, FreshOK
  <2> QED
    BY <1>1, <2>1, <2>2, <2>3 DEF LinkOK, EntryOK, HeldWasSent
<1>7. ASSUME NEW b \in BOOLEAN, SendEb(b) PROVE LInv'
  <2>1. /\ eb # NoEb /\ eb' = NoEb
        /\ sent' = IF eb.listed THEN sent \cup {eb.shards} ELSE sent
        /\ UNCHANGED <<dao, stated, announced>>
    BY <1>7 DEF SendEb, vars
  <2>2. eb.shards \in Reports /\ eb.shards \in stated /\ eb.listed \in BOOLEAN
    BY <2>1 DEF LinkOK, EbOK, Reports
  <2>3. EbOK' /\ HistoryOK'
    BY <2>1, <2>2 DEF EbOK, LinkOK, HistoryOK
  <2>4. CASE b /\ eb.listed /\ entry.inUse
    <3>1. entry' = Adopted(entry, eb.shards) /\ informed' = TRUE
      BY <1>7, <2>4 DEF SendEb
    <3>2. EntryOK(entry') /\ entry'.inUse
      BY <2>2, <2>4, <3>1, AdoptedOK DEF LinkOK
    <3>3. ~EwmaShardCount => entry'.shards = eb.shards
      BY <2>2, <2>4, <3>1, AdoptedCount DEF LinkOK
    <3>4. FreshOK'
      BY <2>1, <3>1, <3>2, <3>3 DEF LinkOK, FreshOK
    <3>5. ~EwmaShardCount => HeldWasSent'
      BY <2>1, <2>4, <3>3 DEF HeldWasSent
    <3> QED
      BY <1>1, <2>1, <2>3, <3>1, <3>2, <3>4, <3>5 DEF LinkOK, EntryOK
  <2>5. CASE ~(b /\ eb.listed /\ entry.inUse)
    <3>1. UNCHANGED <<entry, informed>>
      BY <1>7, <2>5 DEF SendEb
    <3>2. FreshOK' /\ (~EwmaShardCount => HeldWasSent')
      BY <2>1, <3>1 DEF LinkOK, FreshOK, HeldWasSent
    <3> QED
      BY <1>1, <2>1, <2>3, <3>1, <3>2 DEF LinkOK, EntryOK
  <2> QED
    BY <2>4, <2>5
<1>8. CASE ParentAddsRoute
  <2>1. /\ dao' = FALSE /\ entry' = Joined(entry)
        /\ UNCHANGED <<informed, announced, eb, stated, sent>>
    BY <1>8 DEF ParentAddsRoute, vars
  <2>2. EntryOK(entry') /\ entry'.inUse
    BY <1>3, <2>1, JoinedOK
  <2>3. entry'.shards = IF entry.inUse THEN entry.shards ELSE 0
    BY <1>3, <2>1, JoinedCount
  <2>4. EbOK' /\ HistoryOK'
    BY <2>1 DEF LinkOK, EbOK, HistoryOK
  <2>5. FreshOK' /\ (~EwmaShardCount => HeldWasSent')
    BY <2>1, <2>2, <2>3 DEF LinkOK, FreshOK, HeldWasSent
  <2> QED
    BY <1>1, <2>1, <2>2, <2>4, <2>5 DEF LinkOK, EntryOK
<1>9. CASE ParentDropsRoute
  <2>1. /\ entry' = FreeEntry /\ informed' = FALSE
        /\ UNCHANGED <<announced, dao, eb, stated, sent>>
    BY <1>9 DEF ParentDropsRoute, vars
  <2>2. EntryOK(entry') /\ entry'.shards = 0
    BY <2>1, FreeEntryOK DEF FreeEntry
  <2> QED
    BY <1>1, <2>1, <2>2
       DEF LinkOK, EbOK, HistoryOK, FreshOK, HeldWasSent, EntryOK
<1>10. CASE ParentHearsData
  <2>1. /\ entry' = [entry EXCEPT !.heard = TRUE]
        /\ UNCHANGED <<announced, dao, eb, stated, sent, informed>>
    BY <1>10 DEF ParentHearsData, vars
  <2>2. /\ EntryOK(entry') /\ entry'.inUse = entry.inUse
        /\ entry'.shards = entry.shards
    BY <1>3, <2>1 DEF LinkOK, EntryOK, Entry
  <2> QED
    BY <1>1, <2>1, <2>2
       DEF LinkOK, EbOK, HistoryOK, FreshOK, HeldWasSent, EntryOK
<1>11. CASE ParentIdleTick
  <2>1. /\ entry.inUse /\ entry' = IdleChecked(entry)
        /\ informed' = (informed /\ entry'.shards = entry.shards)
        /\ UNCHANGED <<announced, dao, eb, stated, sent>>
    BY <1>11 DEF ParentIdleTick, vars
  <2>2. EntryOK(entry') /\ entry'.inUse
    BY <2>1, IdleCheckedOK DEF LinkOK
  <2>3. entry'.shards \in {entry.shards, 1}
    BY <1>3, <2>1, IdleCheckedCount
  <2>4. FreshOK' /\ (~EwmaShardCount => HeldWasSent')
    BY <2>1, <2>2, <2>3 DEF LinkOK, FreshOK, HeldWasSent
  <2>5. EbOK' /\ HistoryOK'
    BY <2>1 DEF LinkOK, EbOK, HistoryOK
  <2> QED
    BY <1>1, <2>1, <2>2, <2>4, <2>5 DEF LinkOK, EntryOK
<1>12. CASE UNCHANGED allvars
  BY <1>1, <1>12, SameLink DEF allvars, vars
<1> QED
  BY <1>4, <1>5, <1>6, <1>7, <1>8, <1>9, <1>10, <1>11, <1>12 DEF LNext

-----------------------------------------------------------------------------
(***************************************************************************)
(* Safety theorems                                                         *)
(***************************************************************************)

\* The link's inductive invariant holds in every behaviour.
THEOREM LinkInvariance == LSpec => []LInv
<1>1. LInit => LInv
  BY LInvInit
<1>2. LInv /\ [LNext]_allvars => LInv'
  BY LInvNext
<1> QED
  BY <1>1, <1>2, PTL DEF LSpec

\* The parent's entry for us, the queue of one EB and the histories keep their
\* types.
THEOREM LinkTypeCorrect == LSpec => []LTypeOK
<1>1. LInv => LTypeOK
  <2> SUFFICES ASSUME LInv PROVE LTypeOK
    OBVIOUS
  <2>1. eb \in [listed : BOOLEAN, shards : 0 .. ShardsMax]
    <3>1. NoEb \in [listed : BOOLEAN, shards : 0 .. ShardsMax]
      BY ShardsMaxType DEF NoEb
    <3>2. [listed : BOOLEAN, shards : 1 .. ShardsMax]
            \subseteq [listed : BOOLEAN, shards : 0 .. ShardsMax]
      BY ShardsMaxType
    <3> QED
      BY <3>1, <3>2 DEF LInv, LinkOK, EbOK
  <2> QED
    BY <2>1 DEF LInv, LinkOK, HistoryOK, EntryOK, LTypeOK
<1> QED
  BY <1>1, LinkInvariance, PTL

\* With plain reports a parent never holds a count the child did not send,
\* however joins, expiries, lost EBs and idle reclaims interleave.
THEOREM HeldCountsWereSent ==
  ASSUME ~EwmaShardCount
  PROVE  LSpec => []HeldWasSent
<1>1. LInv => HeldWasSent
  BY DEF LInv, LinkOK
<1> QED
  BY <1>1, LinkInvariance, PTL

\* With the hold, a flat cap and plain reports, a parent that heard the newest
\* EB listens on every cell the child may transmit on.
THEOREM InformedParentsCover ==
  ASSUME ~EwmaShardCount
  PROVE  LSpec => []InformedMeansCovered
<1>1. LInv => InformedMeansCovered
  <2> SUFFICES ASSUME LInv, HoldBeforeUse, ~RankCap, informed,
                      Attached
               PROVE  Claimed <= entry.rx
    BY DEF InformedMeansCovered
  <2>1. Claimed <= announced
    BY DEF LInv, Inv, CellsOK, HoldRespected
  <2>2. entry.shards = announced /\ announced \in 1 .. ShardsMax
    BY DEF LInv, LinkOK, FreshOK, Inv, RestOK
  <2>3. entry.rx = entry.shards
    BY <2>2, ShardsMaxType DEF LInv, LinkOK, EntryOK, RxCells, AtMost, Attached
  <2> QED
    BY <2>1, <2>2, <2>3
<1> QED
  BY <1>1, LinkInvariance, PTL

-----------------------------------------------------------------------------
(***************************************************************************)
(* The link implements the agreement                                       *)
(***************************************************************************)

\* A well-formed entry listens on nothing or on a count that was stated.
LEMMA ListensToStated ==
  ASSUME NEW all \in SUBSET (1 .. ShardsMax), NEW air \in SUBSET all, 1 \in air,
         NEW e, EntryOK(e), e.shards \in air \cup {0, 1}
  PROVE  e.rx \in all \cup {0} /\ e.rx \in 0 .. ShardsMax
<1>1. CASE e.inUse
  <2>1. e.rx = RxCells(e.shards)
    BY <1>1 DEF EntryOK
  <2>2. CASE e.shards = 0
    <3>1. e.rx = 1 /\ 1 \in all
      BY <2>1, <2>2, ShardsMaxType DEF RxCells, AtMost
    <3> QED
      BY <3>1
  <2>3. CASE e.shards \in air
    <3>1. e.shards \in all /\ e.shards \in 1 .. ShardsMax
      BY <2>3
    <3>2. e.rx = e.shards
      BY <2>1, <3>1, ShardsMaxType DEF RxCells, AtMost
    <3> QED
      BY <3>1, <3>2, ShardsMaxType
  <2> QED
    BY <2>2, <2>3
<1>2. CASE ~e.inUse
  BY <1>2, ShardsMaxType DEF EntryOK
<1> QED
  BY <1>1, <1>2

LEMMA OneOfTwo ==
  ASSUME NEW m \in Nat, NEW a \in 0 .. m, NEW b \in 0 .. m, a = 0 \/ b = 0
  PROVE  a + b \in 0 .. m
  OBVIOUS

\* A step of the child, seen from the agreement: it uses fewer cells, or no
\* more than it announced.
LEMMA ChildUses ==
  ASSUME HoldBeforeUse, LInv, LInv', [Next]_vars, UNCHANGED <<stated, entry>>
  PROVE  Abstract!ANext \/ UNCHANGED Abstract!avars
<1>1. CASE UNCHANGED <<uplink, rootAdj>>
  BY <1>1 DEF Abstract!avars, Claimed
<1>2. CASE ~UNCHANGED <<uplink, rootAdj>>
  <2>1. Next
    BY <1>2 DEF vars
  <2>2. Claimed' <= announced /\ announced \in stated
    BY <1>2, <2>1, StepIsHeld DEF LInv, LinkOK, HistoryOK
  <2>3. Claimed' \in 0 .. ShardsMax
    <3>1. /\ uplink' \in 0 .. ShardsMax /\ rootAdj' \in 0 .. ShardsMax
          /\ uplink' = 0 \/ rootAdj' = 0
      BY DEF LInv, Inv, CellsOK, OneGroup
    <3>2. ShardsMax \in Nat
      BY ShardsMaxType
    <3>3. uplink' + rootAdj' \in 0 .. ShardsMax
      BY <3>1, <3>2, OneOfTwo
    <3> QED
      BY <3>3 DEF Claimed
  <2>4. Abstract!Use(Claimed')
    BY <2>2 DEF Abstract!Use
  <2> QED
    BY <2>3, <2>4 DEF Abstract!ANext
<1> QED
  BY <1>1, <1>2

\* With the hold and plain reports every step of the link is a step of the
\* agreement: a stated count, cells the parent listens on, or cells in use.
THEOREM LinkImplementsAgreement ==
  ASSUME HoldBeforeUse, ~EwmaShardCount
  PROVE  LSpec => ImplementsAgreement
<1>1. LInit => Abstract!AInit
  BY DEF LInit, Init, Abstract!AInit, FreeEntry, Claimed
<1>2. LInv /\ LInv' /\ [LNext]_allvars
        => [Abstract!ANext]_(Abstract!avars)
  <2> SUFFICES ASSUME LInv, LInv', [LNext]_allvars
               PROVE  Abstract!ANext \/ UNCHANGED Abstract!avars
    OBVIOUS
  <2>1. [Next]_vars
    BY LinkStepIsRuleStep
  <2>2. CASE UNCHANGED <<stated, entry>>
    BY <2>1, <2>2, ChildUses
  <2>3. CASE BuildEb
    <3>1. Own \in 1 .. ShardsMax
      BY OwnType DEF LInv, Inv
    <3>2. stated' = stated \cup {Own} /\ entry' = entry /\ Claimed' = Claimed
      BY <2>3 DEF BuildEb, CreateEb, Claimed
    <3>3. Abstract!StateCount(Own)
      BY <3>2 DEF Abstract!StateCount
    <3> QED
      BY <3>1, <3>3 DEF Abstract!ANext
  <2>4. CASE UNCHANGED <<vars, stated>>
    <3>1. Claimed' = Claimed
      BY <2>4 DEF vars, Claimed
    <3>2. entry'.rx \in stated' \cup {0} /\ entry'.rx \in 0 .. ShardsMax
      <4>1. EntryOK(entry') /\ HistoryOK' /\ HeldWasSent'
        BY DEF LInv, LinkOK, EntryOK
      <4>2. /\ stated' \in SUBSET (1 .. ShardsMax) /\ sent' \in SUBSET stated'
            /\ 1 \in sent' /\ entry'.shards \in sent' \cup {0, 1}
        BY <4>1 DEF HistoryOK, HeldWasSent
      <4> QED
        BY <4>1, <4>2, ListensToStated
    <3>3. Abstract!Listen(entry'.rx)
      BY <2>4, <3>1, <3>2 DEF Abstract!Listen
    <3> QED
      BY <3>2, <3>3 DEF Abstract!ANext
  <2> QED
    BY <2>2, <2>3, <2>4
       DEF LNext, ChildStep, DaoExchange, SendEb, ParentAddsRoute,
           ParentDropsRoute, ParentHearsData, ParentIdleTick, allvars, lvars
<1> QED
  BY <1>1, <1>2, LinkInvariance, PTL
     DEF LSpec, ImplementsAgreement, Abstract!ASpec
=============================================================================
