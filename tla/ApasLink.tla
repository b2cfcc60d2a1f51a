------------------------------ MODULE ApasLink ------------------------------
(***************************************************************************)
(* One parent-child relationship end to end: the rule on the child (this   *)
(* module EXTENDS ChildGrandchild for it), the parent's table entry for    *)
(* this child, to which the same handlers apply, and what passes between   *)
(* them: DAOs, and the beacons of tsch.c, which wait in a queue, go out    *)
(* unacknowledged and may not be heard.                                    *)
(***************************************************************************)
EXTENDS ChildGrandchild

CONSTANTS
  Upper,     \* the parent this module watches, one of Neighbor
  Elsewhere, \* another node the child can choose as its parent
  Kid        \* the child's own potential children

ASSUME LinkAssumption ==
  /\ Upper \in Neighbor /\ Elsewhere \in Neighbor /\ Kid \subseteq Neighbor
  /\ Upper # Elsewhere /\ {Upper, Elsewhere} \cap Kid = {}

VARIABLES
  entry,     \* the parent's table entry for this child
  dao,       \* a DAO of ours is in the parent's input queue
  eb,        \* the beacon waiting in the child's EB queue, or NoEb
  stated,    \* history: counts put into an EB when it was built
  sent,      \* history: counts on the air in a transmitted EB
  informed   \* history: the parent heard the newest EB since it (re)listed us

lvars == <<entry, dao, eb, stated, sent, informed>>

NoEb == [listed |-> FALSE, shards |-> 0]

LInit ==
  /\ Init
  /\ entry = FreeEntry
  /\ dao = FALSE
  /\ eb = NoEb
  /\ stated = {1}
  /\ sent = {1}
  /\ informed = FALSE

-----------------------------------------------------------------------------
(***************************************************************************)
(* The child                                                               *)
(***************************************************************************)

\* RPL events, root announcements and timers of the child that the parent does
\* not see.
ChildStep ==
  /\ \/ \E k \in Kid : ChildAdded(k) \/ ChildRemoved(k)
     \/ \E p \in {Upper, Elsewhere} : NewTimeSource(p)
     \/ parent = Elsewhere /\ DaoAcked
     \/ \E r \in {Upper, Elsewhere} : RootAdded(r) \/ RootExpired(r)
     \/ RankChanged
     \/ BootstrapTick
     \/ LoadTick
     \/ LoadBonus /\ PacketReady(Upper)
  /\ UNCHANGED lvars

\* A DAO reaches the parent's input queue; its acknowledgement may be lost.
DaoExchange(acked) ==
  /\ parent = Upper
  /\ dao' = TRUE
  /\ IF acked /\ ~knowsUs THEN DaoAcked ELSE UNCHANGED vars
  /\ UNCHANGED <<entry, eb, stated, sent, informed>>

\* tsch_send_eb_process: build an EB only when none is waiting.
BuildEb ==
  /\ eb = NoEb
  /\ CreateEb
  /\ eb' = EbList
  /\ stated' = stated \cup {Own}
  /\ informed' = FALSE
  /\ UNCHANGED <<entry, dao, sent>>

-----------------------------------------------------------------------------
(***************************************************************************)
(* The air and the parent                                                  *)
(***************************************************************************)

\* The EB slot: broadcast once; the parent hears it or not, and an EB without
\* a children list tells it nothing.
SendEb(heard) ==
  /\ eb # NoEb
  /\ eb' = NoEb
  /\ sent' = IF eb.listed THEN sent \cup {eb.shards} ELSE sent
  /\ IF heard /\ eb.listed /\ entry.inUse
     THEN entry' = Adopted(entry, eb.shards) /\ informed' = TRUE
     ELSE UNCHANGED <<entry, informed>>
  /\ UNCHANGED <<vars, dao, stated>>

\* The parent installs the route of the DAO: child_added() for a new neighbour.
ParentAddsRoute ==
  /\ dao
  /\ dao' = FALSE
  /\ entry' = Joined(entry)
  /\ UNCHANGED informed
  /\ UNCHANGED <<vars, eb, stated, sent>>

\* The route expires or is withdrawn.
ParentDropsRoute ==
  /\ entry.inUse
  /\ entry' = FreeEntry
  /\ informed' = FALSE
  /\ UNCHANGED <<vars, dao, eb, stated, sent>>

\* A frame with a payload arrives, on the child's own cells or on the common ones.
ParentHearsData ==
  /\ parent = Upper
  /\ IdleReclaim /\ entry.inUse
  /\ entry' = [entry EXCEPT !.heard = TRUE]
  /\ UNCHANGED <<vars, dao, eb, stated, sent, informed>>

ParentIdleTick ==
  /\ IdleReclaim /\ entry.inUse
  /\ entry' = IdleChecked(entry)
  /\ informed' = (informed /\ entry'.shards = entry.shards)
  /\ UNCHANGED <<vars, dao, eb, stated, sent>>

LNext ==
  \/ ChildStep
  \/ \E b \in BOOLEAN : DaoExchange(b) \/ SendEb(b)
  \/ BuildEb
  \/ ParentAddsRoute
  \/ ParentDropsRoute
  \/ ParentHearsData
  \/ ParentIdleTick

allvars == <<vars, lvars>>

LSpec == LInit /\ [][LNext]_allvars

\* The EB process and the timers run for ever; an EB sent again and again is
\* heard again and again; a parent works through its input queue.
LFairness ==
  /\ WF_allvars(ChildStep /\ BootstrapTick)
  /\ WF_allvars(BuildEb)
  /\ WF_allvars(\E b \in BOOLEAN : SendEb(b))
  /\ SF_allvars(SendEb(TRUE))
  /\ WF_allvars(ParentAddsRoute)

LFairSpec == LSpec /\ LFairness

-----------------------------------------------------------------------------
(***************************************************************************)
(* Properties                                                              *)
(***************************************************************************)

\* The parent's entry is well formed, and the queue holds one EB at most.
LTypeOK ==
  /\ entry \in Entry
  /\ dao \in BOOLEAN
  /\ eb \in [listed : BOOLEAN, shards : 0 .. ShardsMax]
  /\ stated \subseteq 1 .. ShardsMax /\ sent \subseteq 1 .. ShardsMax
  /\ informed \in BOOLEAN

\* The child is attached to this parent and the parent tracks it.
Attached == parent = Upper /\ knowsUs /\ entry.inUse

\* With the hold and a flat cap, a parent that heard the child's newest EB
\* listens on every cell the child transmits on.
InformedMeansCovered ==
  HoldBeforeUse /\ ~RankCap /\ informed /\ Attached =>
    Claimed <= entry.rx

\* "shard_count here is never computed locally: it is exactly what this child
\* signaled": the parent never holds a count the child did not transmit.
HeldWasSent == entry.shards \in sent \cup {0, 1}

\* "the new count reaches our parent the normal way, through our own next EB":
\* a parent that tracks us and hears our EB listens on as many cells as the
\* count the EB was built with.
EbCarriesTheCount ==
  [][SendEb(TRUE) /\ entry.inUse => entry'.rx = RxCells(eb.shards)]_allvars

\* Nothing the two ends agree about changes any more.
LinkSettled == /\ Settled
               /\ entry'.inUse = entry.inUse

\* Once the tree has settled, a child with children of its own ends up using
\* exactly its own shard count, and its parent listens on that many cells again
\* and again (an idle reclaim takes them back until the next EB).
EventuallyAgreed ==
  <>[][LinkSettled]_allvars /\ <>[](Attached /\ Tracked(children) # {}) =>
    <>[](Claimed = Own) /\ []<>(entry.rx = Own)

\* The relationship implements the abstract agreement (with the hold).
Abstract == INSTANCE ShardAgreement WITH
              Max <- ShardsMax, held <- entry.rx, used <- Claimed

ImplementsAgreement == Abstract!ASpec
=============================================================================
