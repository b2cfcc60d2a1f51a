# A TLA+ model of APAS on Contiki-NG

The repository is Contiki-NG with an autonomous scheduling scheme for TSCH
networks added to it: APAS, the Orchestra rule
`os/services/orchestra/orchestra-rule-child-grandchild.c`. Every node derives
its own cells from what it knows of its direct RPL children, and tells its
parent how many cells it uses by one byte in its Enhanced Beacons (EBs). Nothing
is negotiated, nothing is acknowledged, and the two ends of a link have to agree
all the same. These modules model that rule, the TSCH schedule its cells are
links of, the queue its packets wait in while an interrupt sends from it, the
implicit-acknowledgement rule where it changes that queue, and 6P, the protocol a
scheduling function would use instead to negotiate cells.

Paths below are relative to the repository. The build that is modelled is that of
`examples/6tisch/child-grandchild-tree`: the rules eb-fixed, child-grandchild
and default-common, with hold-before-use, load bonus, idle reclaim and the rank
cap compiled in. The build switches of the rule are CONSTANTS, so other builds
are instances too.

## 1. Inventory

| Part | State it keeps | Operations | Talks to |
|---|---|---|---|
| child-grandchild rule | table of children (address, shard count, activity average, Rx link pointers), Tx link pointers `l_uplink[]`, `l_root_adjacent[]`, `announced_shards`, load average and bonus, the tick's copy of `orchestra_parent_knows_us` | join, removal, EB in, EB out, data in, new parent, root update, bootstrap tick, idle tick, load tick, packet selection | orchestra.c (callbacks), tsch-schedule (links), tsch-queue (flush), tsch-roots (is the parent a root?), RPL (rank) |
| Orchestra core (`orchestra.c`) | parent address, "the parent knows us" | new time source, packet sent (a DAO acknowledged?), packet ready | calls every rule |
| eb-fixed, default-common | one fixed link each | init, choice of slotframe for EBs and for packets nobody claims | tsch-schedule |
| root list (`tsch-roots.c`) | addresses with a lifetime | announcement received, expiry | tells the rules before it removes an entry |
| schedule (`tsch-schedule.c`) | slotframes, a pool of links, `current_link` | add, remove, find links; next active link and backup | tsch-queue (Tx link counters), read by the slot interrupt |
| queues (`tsch-queue.c`) | per neighbour: ring of packets, Tx link counters, backoff; pool of packets | add, match and promote, remove, report, flush, backoff update | used by processes and by the slot interrupt |
| slot operation (`tsch-slot-operation.c`) | current packet, current and backup link, the lock, dequeued ring | wake-up, Tx slot, Rx slot, lock and release | rtimer interrupt, preempts every process between two of its own yields |
| TSCH core (`tsch.c`) | association state, EB period, EB packet | scan, associate, EB process, report of sent packets, keep-alive | everything above |
| implicit-ack rule (`orchestra-rule-implicit-ack.c`) | cells rotating with the ASFN, per-packet pending state and deadline, tables of children and grandchildren | tag a packet, ask for no ACK, overhear the parent's relay, time out | tsch-queue, slot operation (deferred acknowledgement), tsch-schedule (ASFN callback) |
| 6P (`sixtop/sixp*.c`) | a pool of transactions, one SeqNum per peer | request, response, confirmation, MAC callback, input, timer, restart | scheduling functions above, TSCH queues below |
| pools and rings (`memb.c`, `ringbufindex.c`) | allocation bytes, two indices | allocate, free, put, get | schedule, queues |

What is hard about it:

* **Unacknowledged agreement.** A child transmits on cells its parent must have
  installed from a beacon it may not have heard, while the parent's route to the
  child appears, expires and reappears, and while the parent takes cells of idle
  children back without telling them.
* **Event ordering.** New parents, acknowledged DAOs, root announcements and
  expiries, rank changes and timers come in any order, and each handler
  recomputes part of the state. A boolean edge is detected by
  comparing two samples of a timer, 250 ms apart.
* **Aliasing.** The rule holds pointers to links of a pool; another cell in the
  same timeslot takes the link away under it.
* **Interrupt against process.** The slot operation reads and writes the rings
  and links that a process is changing, under a lock some paths do not take.
* **Late and lost answers.** A 6P request and its answer are queued, lost,
  retransmitted and timed out at two nodes, with one octet and one transaction
  block to tell generations apart; an implicitly acknowledged frame is resolved
  by something overheard or by a deadline.
* **Limits.** Ten children, 32 links, small rings, 8-bit counters, and averages
  in 8-bit fixed point with rounding shifts.

Correctness, part by part. The rule: one group of cells at a time, only towards
a parent that knows us, never more than announced, and in the end exactly as many
as the own shard count says. The link: the parent holds only counts the child
sent, covers what the child uses once it has heard it, and the two agree in the end. The
schedule: no stale pointer, no lost block, exact counters, the earliest due link
runs and an idle slot listens where it can. The queue: one owner and one
callback per packet, the packet on the air stays where it is, order per cell,
and no cell is starved by another one's packets; only a packet that was sent is
pending. 6P: where one peer only counts an answer belongs to the request it is taken
for, both ends count the
same generation after a delivered response, a MAC callback should find its transaction,
and every transaction gives its block back.

`PROJECT.json` lists the places where each of these can go wrong ("hazards"),
each with the properties that watch it.

## 2. Plan

| Order | Module | Models | State |
|---|---|---|---|
| 1 | `CgEstimators` | the fixed-point averages, as operators | done |
| 2 | `ChildGrandchild` | the rule on one node, cells counted | done |
| 3 | `ChildGrandchildProofs` | type correctness and safety of 2 for all constants | done |
| 4 | `CgHistory` | 2 with history variables, for what the averages promise | done |
| 5 | `ShardAgreement`, `ApasLink` | abstract agreement of a parent and a child; 2 composed with a parent and the air, refining it | done |
| 6 | `TschSchedule`, `CgCells` | the schedule's operators; 2 with real links in a finite pool | done |
| 7 | `TschTx` | one neighbour queue between processes and the slot interrupt | done |
| 8 | `ApasLinkProofs` | types, `HeldWasSent`, `InformedMeansCovered`, and that every step is a step of `ShardAgreement` | done |
| 9 | `TschTxProofs` | all invariants of 7 when no flush preempts a Tx slot | done |
| 10 | `Sixp`, `SixpProofs` | 6P transactions between nodes that lose frames and restart, and proofs of three of its invariants | done |
| 11 | `SixpPairProofs` | what is in flight between two peers: `GenerationsAgree` and `NothingMistaken` | done |
| 12 | implicit acknowledgement | the pending state of `orchestra-rule-implicit-ack.c`, inside `TschTx` so that promotion, flush and backoff meet it | done |
| 13 | `TschScheduleProofs`, `CgCellsProofs` | what the schedule's operators do; all properties of `CgCells` | done |
| 14 | `CgHistoryProofs` | the promises of 4 for all caps, saturations and ranges of thresholds | done |
| 15 | association | `tsch.c` scan, association, keep-alive, disassociation and the resets they cause in the schedule and the queues | later |
| 16 | tables of the implicit-ack rule | children, grandchildren, shards and the rehash per ASFN | later |

The layers are kept apart on purpose: `ChildGrandchild` has no link, `CgCells`
adds links without changing an action (each of its actions is an action of `ChildGrandchild` and what it does to the pointers and the schedule),
and `ApasLink` adds the other end. None of them uses a RECURSIVE operator: the loops of the schedule (`Group`,
`FrameScanned`, `NextActive`) are recursive functions, so that they can be proved about.

## 3. Modules and the code

### CgEstimators
The three averages. `Towards` is the asymmetric step all of them share; the C
code shifts a negative difference to the right, which rounds to minus infinity, as
`\div` does. `IdleFold`, `LoadFold`, `ShardFold` are the steps in `idle_tick()`,
`load_tick()` and, in the optional build, `cg_child_eb_input()`; `Rounded` is the
clamped value installed.

### ChildGrandchild
One action per handler, run to completion as Contiki processes are.

| Action | Code |
|---|---|
| `ChildAdded`, `ChildRemoved` | `child_added()` with `alloc_child()` and `update_child()`, `child_removed()` |
| `ChildEbInput`, `DataInput` | `cg_child_eb_input()`, `cg_data_input()` |
| `CreateEb`, `EbList` | `cg_get_own_children()`, called while an EB is built |
| `NewTimeSource` | `orchestra_callback_new_time_source()`, `new_time_source()`, `reconcile_parent_address()` |
| `DaoAcked` | `orchestra_packet_sent()` |
| `RootAdded`, `RootExpired` | `tsch_roots_add_address()`, `periodic()` of `tsch-roots.c`, with `root_node_updated()` |
| `RankChanged` | RPL's rank, read in `cg_effective_cap()`; no callback of the rule |
| `BootstrapTick`, `IdleTick`, `LoadTick` | the three timers |
| `PacketReady`, `QueueDrained` | `select_packet()`, the queue filling and draining |

`uplink` and `rootAdj` are the lengths of the installed prefixes of `l_uplink[]`
and `l_root_adjacent[]`; `children[n].rx` the same for the receive pointers.
Every handler that changes an input of the own shard count ends with
`UpdateOwnCells`, except where the C code does not. Two details are kept because
they matter: the address `reconcile_parent_address()` flushes is the *new*
parent's, and a root expires while it is still in the list.

### CgHistory
`ChildGrandchild` restricted to the callbacks the averages depend on, with
counters of silent checks, busy and quiet windows and repeated reports. The
counters are history only: no guard reads them. The estimates about children and
the one about load do not read each other, so a behaviour is about one of the two
(`watched`, chosen at the start); both kinds are checked in one run.

### ShardAgreement and ApasLink
`ShardAgreement` is what a parent and a child promise each other: the child states
counts, the parent listens on none or on a stated count, the child transmits on no more
than a stated count. `ApasLink` composes the rule on the child with the parent's table
entry for it (the same handlers, through `Joined`, `Adopted`, `IdleChecked`), a
DAO in the parent's input queue, and the EB of `tsch_send_eb_process`, which
waits in its queue between being built and being sent, goes out once and may be
missed. `ImplementsAgreement` is the refinement, with `held <- entry.rx` and
`used <- Claimed`. Root announcements and expiries reach the child like any other
event; the parent is one entry, and whether it is a root itself is not a variable of
the pair. What is said of the two ends is therefore about counts: that both use the
same slotframe (relay or root-adjacent) is not claimed, and `cg_root_expiry` shows a
way in which they do not.

### TschSchedule and CgCells
A schedule is a value: allocated blocks, the content of every block (freeing one
leaves its content, as `memb_free()` does), one list per slotframe, a Tx counter
per address modulo 256, and the next link. `AddLink`, `RemoveLink`, `NextActive`,
`IdleLink` translate the C functions; each runs under the TSCH lock, so one
operator is one step. `CgCells` holds the pointers of the rule and resizes
them as the four `update_...` functions do: drop what is past the count, add what
is missing over whatever has its timeslot, rewrite the others in place (`Retargeted`,
whatever the pointer leads to; only a transmit cell's address is rewritten).
`PointersSound`, `TxCountsMatch`, `EarliestTxFirst` and `IdleSlotListens` are claimed
while `SlotsDistinct` holds of the hashes: with one shared timeslot the installation for
one child evicts the link of the other (`cells_collide`), whose pointer is then stale,
and a removal or a retarget through it meets whatever has the block by then.
The timeslot hash is a CONSTANT, so a run chooses whether cells collide.
The load, idle and rank builds are off in its runs, so the
handlers of those builds are left to `ChildGrandchild`, and so are the packets,
which touch no link.

### TschTx
The queue of one neighbour, the parent. Process steps: `AddPacket`, `WriteEntry`,
`CommitEntry` (the three stores of `tsch_queue_add_packet()`), `FlushHead`,
`FlushEnd`, `TxProcessPending`, `RequestLock`, `TakeLock`, `ChangeCells`. Interrupt
steps: `TxSlotStart` to `TxSlotOk`, `TxSlotDeferred` or `TxSlotFailed`,
`RxSlotStart` to `RxSlotEnd` or `Overheard`, `IdleSlot`, and `BlockedSlot`, where the
packet has moved to the head but the dequeued ring has no room; processes run between the
start and the end of a slot, and an interrupt falls between any two process steps.
The links that stand for the schedule are `common` (shared, broadcast), `own` (Tx
to the parent) and `listen`. A packet is tagged with the slotframe chosen when it
is queued. `TxSlotFailed` is a frame the radio refuses as well as one that is not
acknowledged.

`implicit`, chosen at the start, says which of the two rules runs. Under the
implicit-ack rule there is also a cell `relay`, standing for the tagged cells whose
packets are resolved in their slot (handles from 0x2000), and a packet of our own
may ask for no ACK (`quiet`). Such a frame stays in the queue after it was sent
(`TxSlotDeferred`), pending, until we overhear our parent relay a packet of ours
(`orchestra_ia_overhear()`) or the callback at a new ASFN finds its deadline
passed (`check_ia_timeout()`). That callback runs inside the choice of the next
link, so a slot ends in two ways: at once, or with a `due` packet at the head that
`AckTimeout` resolves before any process runs. Deadlines are not counted: a
pending packet may be due at any later end of a slot. `lost` is what the code
leaves to nobody: neither caller in the rule puts the packet it took from the
queue in the dequeued ring. `stale` marks a pending packet whose `ia_link` has
been removed: what the code then reads of the link is any value.

### Sixp
Nodes with a pool of transactions (`sixp-trans.c`), a SeqNum per peer
(`sixp-nbr.c`), a MAC queue per peer and an input queue. What the scheduling
function does is free: `Request`, `Reply` and `Confirm` are `sixp_output()` with its three packet types,
`RequestAbandoned` the request the MAC has no room for. `Transmit` is a frame that
is heard while its sender still retries, `MacCallback` the end of a frame with any
status, heard or not: acknowledgements are lost too. `sixp_input()` is split by what it
finds: `RequestWhileBusy` (a transaction with the peer exists), `RequestNoMemory`,
`RequestTaken`, `AnswerTaken`. `Process` and `Timeout` are the two timer handlers;
`Restart` is a power cycle, which loses the pool, the SeqNums and the queues.

Three reductions. The two timer events `process_trans()` needs for a transaction
that is over are one step, and rearming a timer is none: nothing of the state
changes between them. A node's MAC hands a frame up once (`packet_input()` filters duplicates). And
`WAIT_FREE` is never reached after boot, because `sixp_trans_free()` looks for a
`*_SENDING` state when the state already is `TERMINATING`, so blocks are free at once:
`Process` and `Timeout` do not ask whether the MAC still has a packet of the block.
A response may fail for want of memory (`NotResponded`): the transaction then keeps
its request until it is answered again or times out.

Operators named `Bug...` in every module are mutated forms of the definition
after them. No specification uses them; `PROJECT.json` says which property
notices each.

## 4. What the runs show

### Runs that hold

* **cg_node** - the rule with every switch of the example build on. At most one
  group of cells, only towards a parent that knows us, receive cells as the table
  says, no increase past the last EB (with the rank cap too), and, once RPL
  settles, exactly the own shard count in the right group.
* **cg_estimates** - what the averages promise, with the real shifts. A reclaim at
  the fifth silent check and no earlier, an averaged report never behind an
  increase, a count repeated nine times held exactly; the load bonus kept through
  a quiet window after five busy ones and not won by one busy window after eleven
  quiet ones; cells follow the own count at once.
* **link_pair** - a parent and a child with two possible children, the child
  moving between two parents, EBs lost, acknowledgements lost, routes expiring,
  idle reclaim at the parent, the parent's address entering and leaving the child's
  root list. The hold is respected, a parent that heard the
  newest EB covers the cells in use, it never holds a count that was not
  transmitted, the pair implements `ShardAgreement`, and they agree in the end.
* **cells** - two children and our own cells compete for a pool of four links
  (two are taken by the fixed rules' links). Pointers, pool, counters and next
  link are sound; the chosen link is the earliest due and transmits if any does;
  an idle slot listens if it can; a tick installs what the pool had refused.
* **tx** - three packets (two under the implicit-ack rule), four ring places (three
  usable), one place in the dequeued ring, two transmissions, one change of cells.
  One owner and one callback per packet, the packet on the air untouched, order
  per cell, nothing pending that was not sent, links stable under a Tx slot, and,
  under the child-grandchild rule, every packet whose cell stays is answered.
  Without the reset of `ia_pending` when a block is reused, `PendingWasSent`
  fails, which is the failure the comment in `tsch_queue_add_packet()` describes.
* **sixp** - three nodes with one transaction block each: one asks the second
  for cells or for a CLEAR, the second asks the first, the third asks the second
  in three steps, which is then busy. Requests cross, answers come late, frames and acknowledgements
  are lost, the first node may be power-cycled. Between the third node and the second no
  answer is taken for that to another request, the two generations agree after a delivered
  response, a CLEAR's reset holds, and all blocks become free again.

### Runs that find a disagreement

Each checks one property that the repository's own words state.

* **cg_root_expiry**, `GroupMatchesRootList`: a root expires, the rule is
  told while the entry is still listed, and cells stay on the root-adjacent
  slotframe for a node that is no root; without the hold nothing repairs it until
  the next event.
* **link_leaf**, `EbCarriesTheCount`: a leaf with a load bonus has no list entry to
  carry its count; the parent never learns of the second cell.
* **cells_collide**, `EveryChildIsHeard`: two children with one hash share a
  link, and removing either leaves the other unheard for good.
* **tx_flush**, `InFlightIsHead`: the flush of a removed child or a switched
  parent runs during a transmission and frees the packet on the air.
* **tx_stuck**, `EveryPacketAnswered`: a packet queued for a cell that is removed
  is neither sent nor dropped, although the default slotframe is there for
  neighbours without a link (and the other way round when a cell appears).
* **sixp_callback**, `CallbackFindsItsTransaction`: a request times out and its
  block is freed while the MAC still has the packet; the next request takes the
  block, and the callback of the first packet acts on it. The deferred free that a
  comment and the tests of `sixp_trans_free()` describe is not reached.

Some observations have no run of their own.

* `reconcile_parent_address()` keeps the old parent's address as a pointer to the
  variable it overwrites, so a parent switch flushes the queue of the new parent and
  leaves the packets to the old one, against what the comment in
  `orchestra-rule-implicit-ack.c` says of the same call. `NewTimeSource` models it so.
* Without the hold, a switch and a new acknowledgement between two bootstrap ticks
  leave no edge to see, and the cells are missing until the next event that
  resizes them. With the hold every tick repairs this.
* `announced_shards` is set when an EB is built, not when it is sent, so the hold
  ends up to one queueing delay early.
* A bonus just won (average 180) is lost by one quiet window (157, under the
  threshold of 160), which is why the property asks for five busy windows.
* A receive cell that found the pool empty is not retried until that child's
  count changes.
* The lock stops new slots from starting only until it is taken: an Rx slot may
  begin while the links change.
* Under the implicit-ack rule a packet confirmed by overhearing, or dropped by the
  timeout at its last transmission, leaves the queue without a report: both
  callers of `tsch_queue_packet_sent()` ignore that it returns 0. Its callback
  never runs and its block is never free again (`lost`; `OneOwner` states it).
* "At most one packet to our parent is ever in flight at a time", says the comment
  at `orchestra_ia_overhear()`, but the queue skips pending packets, so several may be
  pending. Overhearing and timeout look at the head only: a relay of the second
  confirms the first, and a pending packet behind a head whose cell is gone
  neither is confirmed nor times out. This is why nothing is claimed of what
  the implicit-ack rule eventually does.
* `ia_link` may point to a removed link when it is read (`stale`).
* `sixp_output()` increments `next_seqno` at once "to prevent the next request from
  having the same seqno", so that a delayed response is not "handled mistakenly for
  the next request". That works only where one peer *only counts* (`OnlyCounts`),
  which is what `NothingMistaken` states. Three things set the SeqNum back:
  a CLEAR (the next request has SeqNum 0 again), a power cycle, and, with neither, a
  response of one's own. Let a ask b with SeqNum 5 and be unheard, ask again
  with 6, be heard by a b that has a transaction of its own, and time out; let b's
  own request, with 5, be answered by a: its delivery sets a's `next_seqno` to
  5 + 1. The next request of a has SeqNum 6 again and takes the busy answer to the
  one before, which b's queue still holds. TLC finds this with four requests of two nodes.
* `send_back_error()` may answer a restarted peer through the old transaction,
  with the old SeqNum, which the peer discards; and a restarted peer whose first
  request is lost goes on with SeqNum 1, which no check tells from the old generation.

### Bounds

* Neighbours: two for the rule (a parent and a child, or two parents, or a root and a
  non-root), four addresses for the link. The rule's children interact only through their
  number, so two are enough for "one more, one less"; `MaxChildren = 1` in
  `cg_node` makes a full table reachable, `2` elsewhere a growing count.
* Caps 3 and 2 (7 and 4 in the example): near and far differ, and each can be below, at
  and above the count. Counters of own frames stop at the saturation they are read
  with.
* Shifts: `cg_node` and `link_pair` use divisors of 1, where an average is its
  last sample, so that the rule's own logic is not multiplied by the history of an
  average; `cg_estimates` uses the real shifts (divisors 4, 2, 8) with
  one child. `Horizon = 12` is above the largest count a property asks for.
* Cells: slotframes of 4, 8, 4 and 2 slots instead of 7 to 397, hashes chosen so
  that all cells differ (`DistinctChildHash`) or two coincide
  (`EqualChildHash`), a hash space of 64. What matters of a size is which links
  are due together, and every pair of slotframes has such slots. `WakeAt` says
  at which slot number the slot operation picks its next link; the properties
  on the choice quantify over the whole common period of 8.
* Queue: three packets are enough for a promotion past an entry with another
  behind it, two for one pending packet before another (three of them, each with
  its pending states, take TLC too long); the ring wraps, the pool is as large as
  the packets; in `tx` backoff exponents are 0 and 1, so the window is empty,
  one or two, in the two runs after it 1 and 2; `Resizes = 1`
  starts from either side, so cells appear in one half of the behaviours and go
  in the other.

* 6P: SeqNums start at 255, so that the first increment wraps past 0, and
  restart at 0 and 1 after a CLEAR or a power cycle. Two requests are enough for one to meet
  what is left of the other, in both directions and from a third node; one block
  per node makes every second transaction a matter of `RequestNoMemory` or
  `RequestWhileBusy`; a queue of two refuses a third packet.

### Fairness

* `ChildGrandchild`: weak fairness of `BootstrapTick` and `CreateEb`. The tick's
  ctimer re-arms itself for ever, and a joined node's EB process loops. Nothing is
  assumed of joins, acknowledgements or RPL: `EventuallySized` assumes in its own
  text that they have settled.
* `ApasLink`: the same for the child, weak fairness of the EB slot and of the
  parent's input queue, and strong fairness of an EB being *heard*: a beacon that is
  sent again and again is heard again and again. Without it no broadcast
  protocol agrees on anything.
* `TschTx`: weak fairness of process steps that are pending (the scheduler runs a
  process that has work, a busy wait ends) and of slots (the rtimer), and strong
  fairness of each installed link becoming the current one: slotframes are
  periodic. Adding, flushing and asking for the lock are never forced. All of it
  is stated for the child-grandchild rule only (`~implicit`).
* `Sixp`: weak fairness of one action, that some input is taken, some MAC ends
  with a packet or some timer expires. No frame need be heard, and no scheduling
  function need ask or answer: transactions end by their timers.
  `CgHistory` and `CgCells` are checked for safety only.

The systems never stop, and TLC checks every run for deadlock, but for `sixp`:
once its bounded requests are over, a network with nothing to ask stops.

## 5. What is proved

### The rule

`ChildGrandchildProofs` proves, for every finite set of neighbours, every table
size, all caps with `1 <= CapFar <= CapNear`, every combination of the build
switches and all shifts up to 8, from `CgAssumption` and `EstimatorAssumption`:

| Theorem | Property |
|---|---|
| `Invariance` | `Inv`, the inductive invariant |
| `TypeCorrect` | `TypeOK` |
| `OneGroupOnly` | `OneGroup` |
| `CellsNeedAnAcknowledgedDao` | `OnlyToAParentThatKnowsUs` |
| `RxAlwaysMatches` | `RxMatchesCount` |
| `HoldAlwaysRespected` | `HoldRespected` |
| `IncreasesAreAnnounced` | `IncreaseIsAnnounced`, an action property |
| `CellsAlwaysFollow` | `CellsFollowOwnCount`, for a flat cap |

The argument has three layers. First the averages: `TowardsType` shows that one step stays
between 0 and its top, from which every average has its range (`IdleFoldType`,
`LoadFoldType`, `ShardFoldType`); this is the part that needs the rounding
shift. Second the operators on entries: what a join, a report and an idle check
make of a sound entry is a sound entry (`JoinedOK`, `AdoptedOK`, `IdleCheckedOK`), and what
`UpdateOwnCells` installs satisfies all that is claimed of the cells
(`UpdateOwnCellsOK`). Third the invariant

    Inv == RestOK /\ TableOK /\ CellsOK

with one step per action. `HoldRespected` alone is not inductive: it needs that cells exist only
while the parent knows us (a handler that installs no cells must still find the
old ones within the count), that only one group exists (`Claimed` is a sum) and that
the counts are in range. `OneGroup` in turn holds because `UpdateOwnCells` sets
both groups at once from one root list, and every action that changes the
parent, the acknowledgement or the list either calls it or leaves the cells
alone. `IncreasesAreAnnounced` follows from the invariant and the same lemma on
`UpdateOwnCells`, with one case per action that recomputes cells. `HoldRespected` is stated without the rank cap: a rank that rises lowers
the count with no callback at all, and the excess stays until the next tick.
`CellsAlwaysFollow` is the other side of it: without the hold, a handler that
changes an input of the own count installs all cells or none
(`UpdateGivesAllOrNone`), and the others leave both the count and the cells alone.

### The averages

`CgHistoryProofs` proves what the averages promise over several steps, for every
set of neighbours, every table, every setting of the switches and every `Horizon`
from 12 on. The promises are numbers that belong to the default shifts of the C
file, which the theorems name; the rest is as wide as the promise allows.

| Theorem | Property | Assumed |
|---|---|---|
| `HistoryInvariance` | `HInv`: watching changes nothing of the rule | |
| `FifthSilenceReclaims` | `ReclaimAtFifthSilence` | decay 4, threshold 61 to 81 (default 64) |
| `AverageKeepsUp` | `AverageNeverLags` | attack 1 (any decay, any cap) |
| `NineReportsSettle` | `AverageSettles` | attack 1, decay 4, cap up to 7 (defaults 6 and 4) |
| `BonusOutlivesAQuietWindow` | `SustainedBonusSurvives` | attack 2, decay 8, threshold up to 162 (default 160), any saturation |
| `OneBurstGrantsNothing` | `ColdWindowGrantsNothing` | attack 2, decay 8, threshold from 157 on, any saturation |

Each has an invariant that follows one average along its history counter, with
the rounding of the shift: `SilenceInv` (a child heard or added stands at 256
exactly, then at 192, 144, 108, 81, and from the fifth silent check on at 60 or
less), `LoadInv` (at least 186 after five busy windows, at most 56 after eleven
quiet ones), `ReportInv` (at most 114 above the reported count after nine reports
of it, less than the half a shard that rounds up, and never below it). The bounds
are those of the least and the greatest average a counter may start from, so that
nothing is said of what came before. TLC checked all three with caps of 4 and of 6.
The ranges show the margins: the least average after five busy windows and a
quiet one is 162, the greatest after a burst on a cold average is 156, and the
default 160 lies between; a threshold of 82 would reclaim at the fourth silence.
Only behaviours of `HSpec` are spoken of: those of the callbacks an average depends on.

### The link

`ApasLinkProofs` extends this to the pair, for every set of neighbours.

| Theorem | Property | Assumed |
|---|---|---|
| `LinkTypeCorrect` | `LTypeOK` | |
| `HeldCountsWereSent` | `HeldWasSent` | plain reports |
| `InformedParentsCover` | `InformedMeansCovered` | plain reports |
| `LinkImplementsAgreement` | `ImplementsAgreement`, the refinement | the hold, plain reports |

"Plain reports" is the build without the averaged shard count, as in the
example: an average may hold a count that was never sent. The invariant is

    LInv == Inv /\ LinkOK

where `LinkOK` follows a count from where it is stated: in the history, in the EB
that waits, in what was sent, in the parent's entry. `InformedMeansCovered` needs
`HoldRespected` at the child and, at the parent, that an informed parent holds
exactly the last announced count (`FreshOK`). The refinement is proved step by
step: every step of the link is a step of the rule or leaves it alone
(`LinkStepIsRuleStep`), and changes either what is stated, what is held, or what
is used.

### The cells

`TschScheduleProofs` and `CgCellsProofs` prove all properties of `cells`, for every pool,
every list of slotframes, every hash and hash space, every table and every setting of the switches.

| Theorem | Property | Assumed |
|---|---|---|
| `CellsImplementTheRule` | every behaviour of `CSpec` is one of `Spec` | |
| `CellsInvariance` | `CellsInv`, the inductive invariant | |
| `PoolAlwaysAccounted` | `PoolAccounted` | |
| `CurrentAlwaysInstalled` | `CurrentInstalled` | |
| `PointersAlwaysSound` | `PointersSound` | its own `SlotsDistinct` |
| `TxCountsAlwaysMatch` | `TxCountsMatch` | its own `SlotsDistinct` |
| `EarliestAlwaysTxFirst` | `EarliestTxFirst` | its own `SlotsDistinct` |
| `IdleSlotAlwaysListens` | `IdleSlotListens` | its own `SlotsDistinct` |
| `TicksRetry` | `TickRetries` | the hold, a flat cap |

The first module is about the operators alone. `RemoveLinkIs`, `LinkAtIs` and `AddLinkIs` say
what a schedule with its lists in order (`Accounted`) is after a call: which blocks
are still there, what they hold, and that the lists are in order again;
`RemoveLinkCounts` and the lemmas on a byte that wraps say the same of the Tx
counters. `Found` is the loop invariant of the scan for the next link, taken link by link
(`FrameScannedIs`) and slotframe by slotframe (`NextActiveIs`); `DueAfterWait` turns
the wait of a link into the slot it is due in, which needs its timeslot to be less
than the size of its slotframe. The loops are recursive functions; `Recursion` (such a
function exists, and so has the value its definition says) and `Chain` (what every step keeps
holds at the end) are proved from the least element of a set of naturals (`Least`), since
the library's induction takes an operator as a parameter.

The second module resizes. `CellsInv == PoolInv /\ AimInv`:

* `PoolInv` holds whatever the hashes are: the lists share out the allocated
  blocks, the EB slot stays installed, no pointer lies past its count. It is inductive
  although pointers may be stale, because a removal checks the slotframe and
  the list before it frees, and a retarget leaves slotframe and list alone.
* `AimInv` needs `SlotsDistinct`: every pointer leads to the cell it was made
  for (`Aims`), the counters are exact, every timeslot is in its slotframe. Resizing a group disturbs only
  links in the timeslots of that group (`Spared`), which are nobody else's
  (`OthersAims`). While a group is moved to another parent its pointers aim at the
  old parent's cells in part; but a parent switch drops both groups
  (`uplink' = 0 /\ rootAdj' = 0`), so no step of the code is in that case, and
  `OwnGroupsSound` asks for nothing more.

A handler resizes the cells of a child and then those towards the parent; `Midway` is what holds
between the two, and `OwnStep` and `OwnStays` take it from there, so the proof of each
action is short. `EarliestTxFirst` and `IdleSlotListens` follow from the invariant
and the scan. `TickRetries` holds because a tick with the hold recomputes both groups
and shrinks none (`TickGrows`, which needs `HoldRespected`): resizing without shrinking
leaves everything wanted installed or the pool full. With the rank cap a tick
may shrink a group, and without the hold a tick resizes only after the
acknowledgement, so neither is claimed.

`PoolInv` was checked with TLC before it was proved, on `cells` and on colliding
hashes.

### The transmit path

`TschTxProofs` proves all invariants of `tx`, for every power of two up to 128 as
ring sizes, every pool, every number of packets and transmissions, and both
rules, assuming that no flush preempts a Tx slot (`~FlushInTx`; `tx_flush` shows that
this is needed).

| Theorem | Property |
|---|---|
| `TxInvariance` | `TxInv`, the inductive invariant |
| `TxTypeCorrect` | `TxTypeOK` |
| `OneOwnerAlways` | `OneOwner` |
| `AnsweredExactlyOnce` | `AnsweredOnce` |
| `InFlightStays` | `InFlightIsHead` |
| `SameTagInOrder` | `SameTagOrder` |
| `PendingPacketsSent` | `PendingWasSent` |
| `TxSlotsUndisturbed` | `TxSlotUndisturbed` |

The argument starts from the ring: what `Queue` is after an index has moved, an
entry was written, or a packet was promoted, as lemmas on `%` and on sequences.
`TxInv` then says who owns which block (`OwnersOK`: the queue, the dequeued ring,
the process in the middle of adding, and `lost` share out `used`), what a slot in
progress relies on (`FlightOK`: the packet at the head, not pending, and room to
report it), that the identities of the packets count up with the answers
(`Numbered`), and the order per tag (`Ordered`). Ownership alone is not
inductive: a Tx slot that ends appends `packet` and removes the *head*, which
keeps one owner only because `FlightOK` says they are the same. Order needs that
a promoted packet is the first of its tag that is not pending (`MatchIs`), and that
a packet that was sent may be overtaken; `PendingWasSent` is what makes
the exception harmless, and `QuietOK` confines it to the implicit-ack rule.

### 6P

`SixpProofs` proves, for every set of nodes, pool size, range of SeqNums and number of
requests and restarts:

| Theorem | Property |
|---|---|
| `SixpTypeCorrect` | `SixpTypeOK` |
| `ZeroOnlyWhenCleared` | `ZeroMeansCleared` |
| `ClearStaysReset` | `ClearKeepsZero` |

They follow from `SixpInv`, whose core is `NodeOK`: at most one
transaction per peer, and each with the SeqNum its state implies (`CountsFor`).
Uniqueness is needed because the SeqNum belongs to the peer and not to the
transaction: a second transaction with the peer could reset or count it.

`SixpPairProofs` looks at both ends at once:

| Theorem | Property |
|---|---|
| `LogInvariance` | `PairInv`, the inductive invariant |
| `BothEndsCount` | `GenerationsAgree` |
| `AnswersMatchRequests` | `NothingMistaken`, if `MaxRequests <= SeqMax` |

Neither property says anything of packets in flight, and both depend on all
of them: an answer taken today may have been queued before two power cycles. `PairInv`
says that a *log* of the requests exists (`f`: who asked whom what with which SeqNum)
that explains everything: each transaction is one end of a logged request and in a
state that end may be in (`OneEnd`), each packet in a MAC or input queue is one of
its messages, in its direction and with its SeqNum (`Belongs`), and `next_seqno` has
counted the request, at the asker for as long as it has the transaction, at the
other end when the response was delivered. The log is no variable of the model: the invariant
quantifies it, a request extends it and every other step keeps it. `GenerationsAgree`
follows, since the two transactions are the two ends of one entry. For
`NothingMistaken` the invariant numbers the requests of each pair that only counts
(`Numbered`: the i-th has the i-th SeqNum from the first on, `Nth`); equal SeqNums are then
the same turn, as long as there are no more requests than SeqNums. That
hypothesis is needed: SeqNums are one octet, and 255 requests later an answer
that is still queued has the SeqNum of the new request again.

## 6. What is only model-checked, and what is not modelled

Model-checked only: the liveness properties `EventuallySized`, `EventuallyAgreed`,
`ServedIsAnswered` and `TransactionsEnd` (liveness is out of the
prover's reach). Every other property of a passing run is stated by a theorem,
under the assumptions given there.

Not modelled:

* radio and slot timing, drift, time correction, frame formats and channel
  offsets: the properties do not depend on them;
* association, keep-alive and disassociation of `tsch.c`, and with them the
  resets of schedule and queues (planned);
* the broadcast and EB queues and the life of neighbour entries (the neighbour
  table is taken to have room);
* RPL, IPv6, 6LoWPAN and the applications: their effects on the rule (parent,
  rank, routes, acknowledged DAOs, packets) are free inputs;
* the implicit-ack rule's own tables: children, grandchildren, shards, and the
  rehash of its cells per ASFN; what it does to a queue is in `TschTx`;
* the formats of 6P packets, and the errors of version and scheduling function,
  which change no state;
* the other Orchestra rules, link-layer security, adaptive
  synchronisation, storage, platforms, drivers and examples.

Most of the repository is Contiki-NG as it comes: of its 422,000 lines of
implementation the largest parts are code pages and FAT, radio drivers, platform
headers and application protocols, none of which runs or decides anything in the
scheduling described here. The map covers the scheduling core and 6P, and stays
a small share of that total.

Assumed: a handler runs to completion (`process.c`); nodes of one network share
one build, so a reported count is between 1 and the build's maximum; two children
have different addresses; byte-sized index stores are atomic, as the comment in
`ringbufindex.c` says of most platforms.
