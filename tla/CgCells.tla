------------------------------- MODULE CgCells -------------------------------
(***************************************************************************)
(* The links behind the counts of ChildGrandchild: every handler resizes   *)
(* its groups of cells in the TSCH schedule, through the pointers          *)
(* l_uplink[], l_root_adjacent[] and relay_rx[] / root_adjacent_rx[].      *)
(*                                                                         *)
(* The node runs the rules of examples/6tisch/child-grandchild-tree: the   *)
(* fixed EB slot (slotframe 0), this rule (1 and 0x4001) and the common    *)
(* shared slot (2).  A cell's timeslot is a hash of the two addresses plus *)
(* a multiple of a constant, modulo the slotframe; hashes are CONSTANTS.   *)
(***************************************************************************)
EXTENDS ChildGrandchild, TschSchedule

CONSTANTS
  Broadcast,    \* tsch_broadcast_address
  ChildHash,    \* ORCHESTRA_LINKADDR_HASH2(self, child), per neighbour
  ParentHash,   \* ORCHESTRA_LINKADDR_HASH2(parent, self), per neighbour
  Kappa,        \* 0x85EBCA6B, the spread between shards
  HashSpace     \* 2^32

Eb == 0  Short == 1  Root == 16385  Common == 2     \* slotframe handles

ASSUME CellsAssumption ==
  /\ Broadcast \notin Neighbor \cup {None}
  /\ Address = Neighbor \cup {Broadcast}
  /\ {ChildHash, ParentHash} \subseteq [Neighbor -> 0 .. HashSpace - 1]
  /\ Kappa \in 0 .. HashSpace - 1 /\ HashSpace \in Nat \ {0}
  /\ Handle = {Eb, Short, Root, Common}

VARIABLES
  coordinator,  \* tsch_is_coordinator
  sch,          \* the schedule
  up,           \* l_uplink[]
  ra,           \* l_root_adjacent[]
  rx            \* relay_rx[], or root_adjacent_rx[] on the coordinator

cellvars == <<coordinator, sch, up, ra, rx>>
cvars == <<vars, cellvars>>

Shard == 1 .. ShardsMax
NoCells == [k \in Shard |-> Null]

\* cg_slot() of shard k.
SlotOf(h, hash, k) == ((hash + (k - 1) * Kappa) % HashSpace) % SizeOf(h)

\* The cell of shard k in a group: towards addr to transmit, from it to receive.
CellLink(h, hash, k, tx, addr) == Link(h, SlotOf(h, hash, k), tx, ~tx, addr)

\* A cell that is kept is moved in place, whatever its pointer leads to; the
\* address of a receive cell is not rewritten.
Moved(m, l) == [m EXCEPT !.ts = l.ts, !.addr = IF l.tx THEN l.addr ELSE @]
Retargeted(s, b, l) == [s EXCEPT !.mem[b] = Moved(@, l)]

BugRemovedPointerKept(acc, k, want, l) ==
  LET b == acc.ptr[k]
  IN  CASE k > want -> [acc EXCEPT !.sch = RemoveLink(@, l.sf, b)]
        [] k <= want /\ b = Null ->
             LET a == AddLink(acc.sch, l, TRUE)
             IN  [sch |-> a.sch, ptr |-> [acc.ptr EXCEPT ![k] = a.ptr]]
        [] k <= want /\ b # Null -> [acc EXCEPT !.sch = Retargeted(@, b, l)]

\* Every group is resized like this: pointers past the wanted count are removed,
\* missing cells are added over whatever has their slot, the others are
\* retargeted.
ResizedCell(acc, k, want, l) ==
  LET b == acc.ptr[k]
  IN  CASE k > want /\ b = Null -> acc
        [] k > want /\ b # Null -> [sch |-> RemoveLink(acc.sch, l.sf, b),
                                    ptr |-> [acc.ptr EXCEPT ![k] = Null]]
        [] k <= want /\ b = Null ->
             LET a == AddLink(acc.sch, l, TRUE)
             IN  [sch |-> a.sch, ptr |-> [acc.ptr EXCEPT ![k] = a.ptr]]
        [] k <= want /\ b # Null -> [acc EXCEPT !.sch = Retargeted(@, b, l)]

\* Shard by shard.
Group(s, ptr, want, h, hash, tx, addr) ==
  LET upTo[k \in 0 .. ShardsMax] ==
        IF k = 0 THEN [sch |-> s, ptr |-> ptr]
        ELSE ResizedCell(upTo[k - 1], k, want, CellLink(h, hash, k, tx, addr))
  IN  upTo[ShardsMax]

RxFrame == IF coordinator THEN Root ELSE Short

\* update_child() with the count the entry has after the step.
ChildGroup(n) ==
  Group(sch, rx[n], children'[n].rx, RxFrame, ChildHash[n], FALSE, n)

\* update_uplink() and update_root_adjacent() on schedule s.
OwnGroups(s) ==
  LET hash == IF parent' = None THEN 0 ELSE ParentHash[parent']
  IN  \E u \in {Group(s, up, uplink', Short, hash, TRUE, parent')} :
      \E r \in {Group(u.sch, ra, rootAdj', Root, hash, TRUE, parent')} :
        up' = u.ptr /\ ra' = r.ptr /\ sch' = r.sch

-----------------------------------------------------------------------------
\* orchestra_init(): each rule adds its slotframes; two add their fixed link.
FixedLink(h) == Link(h, 0, TRUE, TRUE, Broadcast)

EmptySchedule ==
  [used |-> {}, mem |-> [b \in Block |-> NoLink(0, None)],
   links |-> [h \in Handle |-> <<>>], txLinks |-> [a \in Address |-> 0],
   current |-> Null]

CInit ==
  /\ Init
  /\ coordinator \in BOOLEAN
  /\ sch = AddLink(AddLink(EmptySchedule, FixedLink(Eb), FALSE).sch,
                   FixedLink(Common), TRUE).sch
  /\ up = NoCells
  /\ ra = NoCells
  /\ rx = [n \in Neighbor |-> NoCells]

CChildAdded(n) ==
  /\ ChildAdded(n)
  /\ LET g == ChildGroup(n)
     IN  rx' = [rx EXCEPT ![n] = g.ptr] /\ OwnGroups(g.sch)
  /\ UNCHANGED coordinator

CChildRemoved(n) ==
  /\ ChildRemoved(n)
  /\ LET g == ChildGroup(n)
     IN  rx' = [rx EXCEPT ![n] = g.ptr] /\ OwnGroups(g.sch)
  /\ UNCHANGED coordinator

\* cg_child_eb_input(): update_child() only if the held count changed.
CChildEbInput(n, r) ==
  /\ ChildEbInput(n, r)
  /\ IF children'[n].shards # children[n].shards
     THEN LET g == ChildGroup(n)
          IN  rx' = [rx EXCEPT ![n] = g.ptr] /\ sch' = g.sch
     ELSE UNCHANGED <<rx, sch>>
  /\ UNCHANGED <<coordinator, up, ra>>

\* The coordinator has no time source.
CNewTimeSource(p) ==
  /\ ~coordinator
  /\ NewTimeSource(p)
  /\ OwnGroups(sch)
  /\ UNCHANGED <<coordinator, rx>>

\* root_node_updated() acts on our parent only.
CRootUpdated(r) ==
  /\ RootAdded(r) \/ RootExpired(r)
  /\ IF r = parent THEN OwnGroups(sch) ELSE UNCHANGED <<sch, up, ra>>
  /\ UNCHANGED <<coordinator, rx>>

BugTickInstallsOnce ==
  /\ BootstrapTick
  /\ IF knowsUs /\ ~lastKnowsUs THEN OwnGroups(sch)
                                ELSE UNCHANGED <<sch, up, ra>>
  /\ UNCHANGED <<coordinator, rx>>

CBootstrapTick ==
  /\ BootstrapTick
  /\ IF knowsUs /\ (HoldBeforeUse \/ ~lastKnowsUs)
     THEN OwnGroups(sch)
     ELSE UNCHANGED <<sch, up, ra>>
  /\ UNCHANGED <<coordinator, rx>>

COther ==
  /\ DaoAcked \/ CreateEb
  /\ UNCHANGED cellvars

\* The slot operation has chosen the link it runs next.
NoPackets == [a \in Address |-> 0]
Chosen(s, asn) == NextActive(s, asn, NoPackets)

\* Slot numbers, up to the common period of the slotframes, and those after
\* which a slot is scheduled here.
CONSTANTS Period, WakeAt
Asn == 0 .. Period - 1

ASSUME AsnAssumption == Period \in Nat /\ WakeAt \subseteq Nat

SlotScheduled(asn) ==
  /\ sch' = [sch EXCEPT !.current = Chosen(sch, asn).best]
  /\ UNCHANGED <<vars, coordinator, up, ra, rx>>

CNext ==
  \/ \E n \in Neighbor : \/ CChildAdded(n)
                         \/ CChildRemoved(n)
                         \/ \E r \in Reports : CChildEbInput(n, r)
                         \/ CRootUpdated(n)
  \/ \E p \in Neighbor \cup {None} : CNewTimeSource(p)
  \/ CBootstrapTick
  \/ COther
  \/ \E asn \in WakeAt : SlotScheduled(asn)

CSpec == CInit /\ [][CNext]_cvars

-----------------------------------------------------------------------------
(***************************************************************************)
(* Properties                                                              *)
(***************************************************************************)

\* A pointer is Null, or one of the wanted cells and leads to an allocated link,
\* in the list of its own slotframe, with the slot, options and address it needs.
Leads(ptr, want, h, hash, tx, addr) ==
  \A k \in Shard : ptr[k] # Null =>
    /\ k <= want
    /\ Contains(sch.links[h], ptr[k])
    /\ sch.mem[ptr[k]] = CellLink(h, hash, k, tx, addr)

\* No two cells a node can hold at one time share a timeslot: those of its
\* children, those towards a parent, and on the shared slotframe both.
SlotsDistinct ==
  /\ \A h \in {Short, Root} :
       /\ \A n, m \in Neighbor : \A j, k \in Shard :
            SlotOf(h, ChildHash[n], j) = SlotOf(h, ChildHash[m], k) =>
              n = m /\ j = k
       /\ \A n \in Neighbor : \A j, k \in Shard :
            SlotOf(h, ParentHash[n], j) = SlotOf(h, ParentHash[n], k) => j = k
  /\ \A n, m \in Neighbor : \A j, k \in Shard :
       SlotOf(Short, ChildHash[n], j) # SlotOf(Short, ParentHash[m], k)

\* No stale pointer, as long as no two cells of a slotframe share a timeslot:
\* whatever order cells were installed, refused, retargeted and removed in.
PointersSound ==
  SlotsDistinct =>
  /\ \A n \in Neighbor :
       Leads(rx[n], children[n].rx, RxFrame, ChildHash[n], FALSE, n)
  /\ IF parent = None THEN up = NoCells /\ ra = NoCells
     ELSE /\ Leads(up, uplink, Short, ParentHash[parent], TRUE, parent)
          /\ Leads(ra, rootAdj, Root, ParentHash[parent], TRUE, parent)

\* No block of the pool is lost: every allocated block is in one list, once.
PoolAccounted ==
  /\ UNION {ToSet(sch.links[h]) : h \in Handle} = sch.used
  /\ \A h, g \in Handle :
       \A i \in DOMAIN sch.links[h], j \in DOMAIN sch.links[g] :
         sch.links[h][i] = sch.links[g][j] => h = g /\ i = j

\* tx_links_count of every neighbour is the number of Tx links towards it,
\* which decides when its queue may be freed.
TxCountsMatch ==
  SlotsDistinct =>
    \A a \in Address :
      sch.txLinks[a] = Cardinality({b \in sch.used : sch.mem[b].tx /\
                                                     sch.mem[b].addr = a}) % 256

\* "The link to be removed is scheduled as next, set it to NULL to abort the
\* next link operation": the next link is an installed one.
CurrentInstalled == sch.current \in sch.used \cup {Null}

\* The scheduled slot is the first with a link due in it, and its link
\* transmits if any link due in that slot does.
Due(asn) == {b \in sch.used :
               (asn - sch.mem[b].ts) % SizeOf(sch.mem[b].sf) = 0}

EarliestTxFirst ==
  SlotsDistinct => \A asn \in Asn :
    LET c == Chosen(sch, asn)
    IN  /\ c.best \in Due(asn + c.wait)
        /\ \A t \in 1 .. c.wait - 1 : Due(asn + t) = {}
        /\ (\E b \in Due(asn + c.wait) : sch.mem[b].tx) => sch.mem[c.best].tx

\* A slot with nothing to send listens whenever some link due in it could, on
\* the one with the lowest slotframe handle.
IdleSlotListens ==
  SlotsDistinct => \A asn \in Asn :
    LET c == Chosen(sch, asn)
        listen == {b \in Due(asn + c.wait) : sch.mem[b].rx}
        run == IdleLink(sch, c.best, c.backup)
    IN  listen # {} => /\ run \in listen
                       /\ \A b \in listen : sch.mem[run].sf <= sch.mem[b].sf

\* Own cells that found the pool exhausted are tried again: a tick leaves every
\* wanted cell installed or no link free.  (A tick that moves from root-adjacent
\* cells to uplink cells adds before it removes, and may need a second one.)
OwnCellsInstalled ==
  \A k \in Shard : (k <= uplink => up[k] # Null) /\ (k <= rootAdj => ra[k] # Null)

TickRetries ==
  [][CBootstrapTick /\ knowsUs /\ (rootAdj = 0 \/ uplink' = 0)
       => OwnCellsInstalled' \/ sch'.used = Block]_cvars

\* "Every child of a given parent gets its own dedicated cell(s)": some link
\* listens in the slot of each child's first cell while links are available.
EveryChildIsHeard ==
  sch.used # Block =>
    \A n \in Tracked(children) : \E b \in sch.used :
      /\ sch.mem[b].sf = RxFrame /\ sch.mem[b].rx
      /\ sch.mem[b].ts = SlotOf(RxFrame, ChildHash[n], 1)
=============================================================================
