-------------------------- MODULE ChildGrandchild ---------------------------
(***************************************************************************)
(* The APAS scheduling rule on one node (os/services/orchestra/            *)
(* orchestra-rule-child-grandchild.c) with the part of orchestra.c and     *)
(* tsch-roots.c that drives it.                                            *)
(*                                                                         *)
(* The node keeps a table of its direct RPL children with the shard count  *)
(* each child reported of itself, receive cells for every child, and       *)
(* transmit cells to its own parent: uplink cells, or root-adjacent cells  *)
(* when the parent is the DAG root.  Cells are counted here: cell k of a   *)
(* group is installed iff k < count.  That every tsch_schedule_add_link()  *)
(* returns a link of its own is what CgCells drops, link by link.          *)
(*                                                                         *)
(* Every action is one callback or one timer tick, run to completion in    *)
(* process context.  The build switches of the C file are CONSTANTS.       *)
(*                                                                         *)
(* Operators named Bug... are mutated forms of the definition that follows *)
(* them.  Nothing here uses them: they show what the properties catch.     *)
(***************************************************************************)
EXTENDS Integers, FiniteSets, CgEstimators

CONSTANTS
  Neighbor,          \* link-layer addresses of the other nodes
  None,              \* linkaddr_null
  MaxChildren,       \* CG_MAX_CHILDREN
  CapNear,           \* CG_RELAY_SHARDS_NEAR_ROOT
  CapFar,            \* CG_RELAY_SHARDS_FAR, and the flat cap without RankCap
  MaxRoots,          \* TSCH_MAX_ROOT_NODES
  HoldBeforeUse,     \* CG_HOLD_BEFORE_USE
  LoadBonus,         \* CG_LOAD_BONUS
  IdleReclaim,       \* CG_IDLE_RECLAIM
  RankCap,           \* CG_RANK_CAP
  EwmaShardCount     \* CG_EWMA_SHARD_COUNT

ASSUME CgAssumption ==
  /\ IsFiniteSet(Neighbor)
  /\ None \notin Neighbor
  /\ MaxChildren \in Nat \ {0}
  /\ CapNear \in Nat /\ CapFar \in Nat /\ 1 <= CapFar /\ CapFar <= CapNear
  /\ MaxRoots \in Nat \ {0}
  /\ HoldBeforeUse \in BOOLEAN /\ LoadBonus \in BOOLEAN
  /\ IdleReclaim \in BOOLEAN /\ RankCap \in BOOLEAN
  /\ EwmaShardCount \in BOOLEAN

VARIABLES
  parent,      \* orchestra_parent_linkaddr
  knowsUs,     \* orchestra_parent_knows_us
  lastKnowsUs, \* last_parent_knows_us, the tick's edge detector
  roots,       \* tsch_roots: the addresses known to be DAG roots
  near,        \* rank <= CG_RANK_CAP_THRESHOLD, as RPL has it now
  children,    \* the table, by address
  uplink,      \* number of l_uplink[] cells installed
  rootAdj,     \* number of l_root_adjacent[] cells installed
  announced,   \* announced_shards
  load,        \* own_load_tx_count, own_load_ewma_q8, own_load_bonus
  queued       \* neighbours that have packets in their TSCH queue

vars == <<parent, knowsUs, lastKnowsUs, roots, near, children, uplink,
          rootAdj, announced, load, queued>>

-----------------------------------------------------------------------------
(***************************************************************************)
(* Shard counts                                                            *)
(***************************************************************************)

ShardsMax == IF RankCap THEN CapNear ELSE CapFar    \* CG_RELAY_SHARDS_MAX

AtMost(n, cap) == IF n > cap THEN cap ELSE n

EffectiveCap(nr) == IF RankCap /\ nr THEN CapNear ELSE CapFar

\* The entry of an address that is not in the table.
FreeEntry == [inUse |-> FALSE, shards |-> 0, ewma |-> One, heard |-> FALSE,
              idle |-> 0, rx |-> 0]

Tracked(kids) == {n \in Neighbor : kids[n].inUse}

\* cg_own_shard_count(): children + 1 for our own traffic + the load bonus,
\* capped.
OwnShards(kids, bonus, nr) ==
  AtMost(Cardinality(Tracked(kids)) + 1 + (IF bonus THEN 1 ELSE 0),
         EffectiveCap(nr))

Own == OwnShards(children, load.bonus, near)

\* The receive cells update_child() leaves installed for a shard count; a
\* count of 0 (no EB heard yet) gets the one cell every child needs.
RxCells(shards) == AtMost(IF shards > 0 THEN shards ELSE 1, ShardsMax)

\* update_child_relay_rx() / update_child_root_adjacent_rx() for one entry.
Resized(e) == [e EXCEPT !.rx = RxCells(e.shards)]

BugNotHeld(n) == n

\* The clamp of CG_HOLD_BEFORE_USE.
Held(n) == IF HoldBeforeUse THEN AtMost(n, announced) ELSE n

BugUplinkToTheRootToo(par, rts, knows, own) ==
  IF par # None /\ knows THEN Held(own) ELSE 0

\* update_uplink(): cells towards a parent that is not the root.
UplinkCells(par, rts, knows, own) ==
  IF par # None /\ par \notin rts /\ knows THEN Held(own) ELSE 0

BugRootDoesNotKnowUs(par, rts, knows, own) ==
  IF par \in rts THEN Held(own) ELSE 0

\* update_root_adjacent(): cells towards a parent that is the root.
RootAdjacentCells(par, rts, knows, own) ==
  IF par \in rts /\ knows THEN Held(own) ELSE 0

\* The pair of calls every handler ends with.
UpdateOwnCells(par, rts, knows, own) ==
  /\ uplink' = UplinkCells(par, rts, knows, own)
  /\ rootAdj' = RootAdjacentCells(par, rts, knows, own)

-----------------------------------------------------------------------------
Init ==
  /\ parent = None
  /\ knowsUs = FALSE
  /\ lastKnowsUs = FALSE
  /\ roots = {}
  /\ near = FALSE
  /\ children = [n \in Neighbor |-> FreeEntry]
  /\ uplink = 0
  /\ rootAdj = 0
  /\ announced = 1
  /\ load = [tx |-> 0, ewma |-> 0, bonus |-> FALSE]
  /\ queued = {}

-----------------------------------------------------------------------------
(***************************************************************************)
(* The child table                                                         *)
(***************************************************************************)

\* alloc_child(): a new child is taken to be active, and has no cells yet.
NewEntry == [inUse |-> TRUE, shards |-> 0, ewma |-> One, heard |-> IdleReclaim,
             idle |-> IF IdleReclaim THEN One ELSE 0, rx |-> 0]

\* What child_added() makes of an entry.
Joined(e) == Resized(IF e.inUse THEN e ELSE NewEntry)

\* child_added(): a known child is refreshed, an unknown one gets a free slot;
\* with no free slot nothing at all happens.
ChildAdded(n) ==
  /\ \/ children[n].inUse
     \/ Cardinality(Tracked(children)) < MaxChildren
  /\ children' = [children EXCEPT ![n] = Joined(@)]
  /\ UpdateOwnCells(parent, roots, knowsUs,
                    OwnShards(children', load.bonus, near))
  /\ UNCHANGED <<parent, knowsUs, lastKnowsUs, roots, near, announced, load,
                 queued>>

BugRemovedWithoutResize(n) ==
  /\ children[n].inUse
  /\ children' = [children EXCEPT ![n] = FreeEntry]
  /\ queued' = queued \ {n}
  /\ UNCHANGED <<parent, knowsUs, lastKnowsUs, roots, near, uplink, rootAdj,
                 announced, load>>

\* child_removed(): its cells and its queued packets go, then its slot.
ChildRemoved(n) ==
  /\ children[n].inUse
  /\ children' = [children EXCEPT ![n] = FreeEntry]
  /\ queued' = queued \ {n}
  /\ UpdateOwnCells(parent, roots, knowsUs,
                    OwnShards(children', load.bonus, near))
  /\ UNCHANGED <<parent, knowsUs, lastKnowsUs, roots, near, announced, load>>

BugAdoptedWithoutCells(e, reported) ==
  [e EXCEPT !.shards = IF reported > 0 THEN reported ELSE 1]
BugAdoptedUnclamped(e, reported) == Resized([e EXCEPT !.shards = reported + 1])
BugAdoptedPlusOne(e, reported) ==
  Resized([e EXCEPT !.shards = AtMost(reported + 1, ShardsMax)])

\* What an EB report makes of an entry: adopted as it is, or averaged.
Adopted(e, reported) ==
  LET v == IF reported > 0 THEN reported ELSE 1
      avg == ShardFold(e.ewma, v)
      e1 == IF EwmaShardCount
            THEN [e EXCEPT !.ewma = avg, !.shards = Rounded(avg, ShardsMax)]
            ELSE [e EXCEPT !.shards = v]
  IN  IF e1.shards # e.shards THEN Resized(e1) ELSE e1

\* cg_child_eb_input(): an EB of a known child whose list is not empty.
ChildEbInput(n, reported) ==
  /\ children[n].inUse
  /\ children' = [children EXCEPT ![n] = Adopted(@, reported)]
  /\ UNCHANGED <<parent, knowsUs, lastKnowsUs, roots, near, uplink, rootAdj,
                 announced, load, queued>>

\* cg_data_input(): a frame with a payload from a known child.
DataInput(n) ==
  /\ IdleReclaim
  /\ children[n].inUse
  /\ children' = [children EXCEPT ![n].heard = TRUE]
  /\ UNCHANGED <<parent, knowsUs, lastKnowsUs, roots, near, uplink, rootAdj,
                 announced, load, queued>>

\* One child in idle_tick().
IdleChecked(e) ==
  LET e1 == [e EXCEPT !.idle = IdleFold(e.idle, e.heard), !.heard = FALSE]
  IN  IF e1.idle < IdleThreshold /\ e.shards > 1
      THEN Resized([e1 EXCEPT !.shards = 1])
      ELSE e1

\* idle_tick(): every CG_IDLE_CHECK_PERIOD, every child in the table.
IdleTick ==
  /\ IdleReclaim
  /\ children' = [n \in Neighbor |-> IF children[n].inUse
                                     THEN IdleChecked(children[n])
                                     ELSE children[n]]
  /\ UNCHANGED <<parent, knowsUs, lastKnowsUs, roots, near, uplink, rootAdj,
                 announced, load, queued>>

-----------------------------------------------------------------------------
(***************************************************************************)
(* The relationship with the parent                                        *)
(***************************************************************************)

\* orchestra_callback_new_time_source() and then new_time_source() with
\* reconcile_parent_address(): old_addr points at orchestra_parent_linkaddr
\* itself, so the queue that is flushed is the one of the new parent.
NewTimeSource(p) ==
  /\ p # parent
  /\ knowsUs' = FALSE
  /\ parent' = p
  /\ queued' = queued \ {p}
  /\ UpdateOwnCells(p, roots, FALSE, Own)
  /\ UNCHANGED <<lastKnowsUs, roots, near, children, announced, load>>

\* orchestra_packet_sent(): the parent acknowledged a DAO.
DaoAcked ==
  /\ ~knowsUs
  /\ parent # None
  /\ knowsUs' = TRUE
  /\ UNCHANGED <<parent, lastKnowsUs, roots, near, children, uplink, rootAdj,
                 announced, load, queued>>

\* tsch_roots_add_address() of a new root: listed, then root_node_updated().
RootAdded(r) ==
  /\ r \notin roots
  /\ Cardinality(roots) < MaxRoots
  /\ roots' = roots \cup {r}
  /\ IF r = parent THEN UpdateOwnCells(parent, roots', knowsUs, Own)
                   ELSE UNCHANGED <<uplink, rootAdj>>
  /\ UNCHANGED <<parent, knowsUs, lastKnowsUs, near, children, announced,
                 load, queued>>

\* periodic() of tsch-roots.c: root_node_updated() runs while the expired
\* root is still in the list.
RootExpired(r) ==
  /\ r \in roots
  /\ IF r = parent THEN UpdateOwnCells(parent, roots, knowsUs, Own)
                   ELSE UNCHANGED <<uplink, rootAdj>>
  /\ roots' = roots \ {r}
  /\ UNCHANGED <<parent, knowsUs, lastKnowsUs, near, children, announced,
                 load, queued>>

\* RPL moves our rank across CG_RANK_CAP_THRESHOLD: no callback of the rule.
RankChanged ==
  /\ RankCap
  /\ near' = ~near
  /\ UNCHANGED <<parent, knowsUs, lastKnowsUs, roots, children, uplink,
                 rootAdj, announced, load, queued>>

BugTickOnEdgeOnly ==
  /\ lastKnowsUs' = knowsUs
  /\ IF knowsUs /\ ~lastKnowsUs THEN UpdateOwnCells(parent, roots, knowsUs, Own)
                               ELSE UNCHANGED <<uplink, rootAdj>>
  /\ UNCHANGED <<parent, knowsUs, roots, near, children, announced, load,
                 queued>>

\* bootstrap_tick(): the rising edge of knowsUs, or with the hold every tick.
BootstrapTick ==
  /\ lastKnowsUs' = knowsUs
  /\ IF knowsUs /\ (HoldBeforeUse \/ ~lastKnowsUs)
     THEN UpdateOwnCells(parent, roots, knowsUs, Own)
     ELSE UNCHANGED <<uplink, rootAdj>>
  /\ UNCHANGED <<parent, knowsUs, roots, near, children, announced, load,
                 queued>>

-----------------------------------------------------------------------------
(***************************************************************************)
(* Beacons out, packets out, and the load estimate                         *)
(***************************************************************************)

\* The list an EB carries: whether it has an entry at all, and the one value
\* every entry repeats.
EbList == [listed |-> Tracked(children) # {}, shards |-> Own]

\* cg_get_own_children(): called while an EB is being built.
CreateEb ==
  /\ announced' = IF HoldBeforeUse THEN Own ELSE announced
  /\ UNCHANGED <<parent, knowsUs, lastKnowsUs, roots, near, children, uplink,
                 rootAdj, load, queued>>

\* select_packet() for a data frame to the parent: the slotframe it chooses.
Selected ==
  CASE parent = None     -> "none"
    [] parent \in roots  -> IF rootAdj > 0 THEN "sf_root" ELSE "none"
    [] OTHER             -> IF uplink > 0 THEN "sf_short" ELSE "none"

\* orchestra_callback_packet_ready() for a packet to n, then its enqueueing.
\* The window's counter is kept up to the saturation it is read with.
PacketReady(n) ==
  /\ load' = IF LoadBonus /\ n = parent /\ Selected # "none"
             THEN [load EXCEPT !.tx = AtMost(@ + 1, Saturate)]
             ELSE load
  /\ queued' = queued \cup {n}
  /\ UNCHANGED <<parent, knowsUs, lastKnowsUs, roots, near, children, uplink,
                 rootAdj, announced>>

\* The MAC has sent or dropped the last packet of n's queue.
QueueDrained(n) ==
  /\ n \in queued
  /\ queued' = queued \ {n}
  /\ UNCHANGED <<parent, knowsUs, lastKnowsUs, roots, near, children, uplink,
                 rootAdj, announced, load>>

BugBonusWithoutResize ==
  /\ LoadBonus
  /\ LET e == LoadFold(load.ewma, load.tx)
     IN  load' = [tx |-> 0, ewma |-> e, bonus |-> Busy(e)]
  /\ UNCHANGED <<parent, knowsUs, lastKnowsUs, roots, near, children, uplink,
                 rootAdj, announced, queued>>

\* load_tick(): our own cells are resized only when the bonus changes.
LoadTick ==
  /\ LoadBonus
  /\ LET e == LoadFold(load.ewma, load.tx)
     IN  /\ load' = [tx |-> 0, ewma |-> e, bonus |-> Busy(e)]
         /\ IF Busy(e) # load.bonus
            THEN UpdateOwnCells(parent, roots, knowsUs,
                                OwnShards(children, Busy(e), near))
            ELSE UNCHANGED <<uplink, rootAdj>>
  /\ UNCHANGED <<parent, knowsUs, lastKnowsUs, roots, near, children,
                 announced, queued>>

-----------------------------------------------------------------------------
(***************************************************************************)
(* The specification                                                       *)
(***************************************************************************)

\* Every node of a network runs the same build, so a report is at least 1
\* and at most the build's maximum.
Reports == 1 .. ShardsMax

Next ==
  \/ \E n \in Neighbor : \/ ChildAdded(n)
                         \/ ChildRemoved(n)
                         \/ \E r \in Reports : ChildEbInput(n, r)
                         \/ DataInput(n)
                         \/ RootAdded(n)
                         \/ RootExpired(n)
                         \/ PacketReady(n)
                         \/ QueueDrained(n)
  \/ \E p \in Neighbor \cup {None} : NewTimeSource(p)
  \/ DaoAcked
  \/ RankChanged
  \/ BootstrapTick
  \/ IdleTick
  \/ LoadTick
  \/ CreateEb

Spec == Init /\ [][Next]_vars

\* bootstrap_timer re-arms itself for ever; a joined node's EB process loops.
Fairness == WF_vars(BootstrapTick) /\ WF_vars(CreateEb)

FairSpec == Spec /\ Fairness

-----------------------------------------------------------------------------
(***************************************************************************)
(* Properties                                                              *)
(***************************************************************************)

Entry == [inUse : BOOLEAN, shards : 0 .. ShardsMax, ewma : 0 .. ShardsMax * One,
          heard : BOOLEAN, idle : 0 .. One, rx : 0 .. ShardsMax]

\* The values the rule's state variables take.
TypeOK ==
  /\ parent \in Neighbor \cup {None}
  /\ knowsUs \in BOOLEAN
  /\ lastKnowsUs \in BOOLEAN
  /\ roots \subseteq Neighbor
  /\ near \in BOOLEAN
  /\ children \in [Neighbor -> Entry]
  /\ uplink \in 0 .. ShardsMax
  /\ rootAdj \in 0 .. ShardsMax
  /\ announced \in 1 .. ShardsMax
  /\ load \in [tx : 0 .. Saturate, ewma : 0 .. One, bonus : BOOLEAN]
  /\ queued \subseteq Neighbor

\* The cells this node transmits to its parent on; at most one group exists.
Claimed == uplink + rootAdj

\* A node never keeps both groups of cells to its parent, however root
\* announcements, expiries and parent switches interleave.
OneGroup == uplink = 0 \/ rootAdj = 0

\* Cells exist only towards a parent that acknowledged a DAO of ours since we
\* chose it: a switch tears the old ones down before anything else runs.
OnlyToAParentThatKnowsUs == Claimed > 0 => knowsUs /\ parent # None

\* The receive cells of a child are exactly those of the shard count held for
\* it, whichever of join, EB, reclaim or removal came last.
RxMatchesCount ==
  \A n \in Neighbor : children[n].rx = IF children[n].inUse
                                      THEN RxCells(children[n].shards) ELSE 0

\* With the hold and without the rank cap: no cell beyond what the node's last
\* EB stated, and none beyond what it is entitled to now.  (The rank may fall
\* without any callback, so with the rank cap this needs the next tick.)
HoldRespected ==
  HoldBeforeUse /\ ~RankCap => Claimed <= announced /\ Claimed <= Own

\* "every other value in this file only ever changes on an actual event and is
\* recomputed directly from that event": without the hold, a node that has
\* cells has as many as its own shard count.
CellsFollowOwnCount == ~HoldBeforeUse /\ Claimed > 0 => Claimed = Own

\* Cells on the root-adjacent slotframe belong to a parent in the root list,
\* cells on the shared one to a parent that is not in it.
GroupMatchesRootList ==
  /\ rootAdj > 0 => parent \in roots
  /\ uplink > 0 => parent \notin roots

\* An increase of the cells in use never goes past the last EB's statement,
\* whatever event triggers it (with or without the rank cap).
IncreaseIsAnnounced ==
  [][HoldBeforeUse /\ Claimed' > Claimed => Claimed' <= announced]_vars

\* What the size and kind of the cells depend on stays as it is.
Settled == UNCHANGED <<parent, knowsUs, roots, near, Tracked(children),
                       load.bonus>>

\* Once RPL has settled and the parent knows us, the ticks and the EBs bring
\* the cells to exactly the own shard count, in the group the root list calls for.
EventuallySized ==
  <>[][Settled]_vars /\ <>[]knowsUs => <>[](Claimed = Own /\ GroupMatchesRootList)
=============================================================================
