---------------------------- MODULE TschSchedule ----------------------------
(***************************************************************************)
(* The TSCH schedule (os/net/mac/tsch/tsch-schedule.c) as operators on a   *)
(* schedule value s:                                                       *)
(*   s.used     blocks of link_memb that are allocated                     *)
(*   s.mem      the content of every block; freeing a block leaves it be   *)
(*   s.links    for every slotframe, its links_list: blocks in list order  *)
(*   s.txLinks  tx_links_count of every neighbour, a uint8_t               *)
(*   s.current  current_link, the link the slot operation runs next        *)
(* A pointer to a link is a block, or Null.  Each operator runs under the  *)
(* TSCH lock; only one link per timeslot of a slotframe is meant to exist. *)
(***************************************************************************)
EXTENDS Integers, FiniteSets, Sequences, SequencesExt

CONSTANTS
  MaxLinks,     \* TSCH_SCHEDULE_MAX_LINKS
  Slotframes,   \* the slotframes, <<handle, size>>, in slotframe_list order
  Address       \* link addresses, the broadcast address among them

ASSUME ScheduleAssumption ==
  /\ MaxLinks \in Nat \ {0}
  /\ Slotframes \in Seq(Nat \X (Nat \ {0}))
  /\ \A i, j \in DOMAIN Slotframes :
       Slotframes[i][1] = Slotframes[j][1] => i = j

Null  == 0
Block == 1 .. MaxLinks
Handle == {Slotframes[i][1] : i \in DOMAIN Slotframes}
SizeOf(h) == (CHOOSE f \in Range(Slotframes) : f[1] = h)[2]

\* A link: its slotframe_handle, timeslot, address and the Tx and Rx options.
\* Every Tx link of the rules modelled here is shared.
Link(h, ts, tx, rx, addr) ==
  [sf |-> h, ts |-> ts, tx |-> tx, rx |-> rx, addr |-> addr]

\* The zeroed content of the pool.
NoLink(h, addr) == Link(h, 0, FALSE, FALSE, addr)

-----------------------------------------------------------------------------
(***************************************************************************)
(* Adding and removing links                                               *)
(***************************************************************************)

\* tsch_queue_add_nbr() and the counter of the neighbour's Tx links.
Counted(s, l, d) ==
  IF l.tx THEN [s EXCEPT !.txLinks[l.addr] = (@ + d) % 256] ELSE s

BugRemoveKeepsCurrent(s, h, b) ==
  IF b = Null \/ s.mem[b].sf # h THEN s
  ELSE Counted([s EXCEPT !.links[h] = RemoveFirst(@, b), !.used = @ \ {b}],
               s.mem[b], -1)
BugRemoveLeaks(s, h, b) ==
  IF b = Null \/ s.mem[b].sf # h THEN s
  ELSE Counted([s EXCEPT !.links[h] = RemoveFirst(@, b),
                         !.current = IF @ = b THEN Null ELSE @],
               s.mem[b], -1)
BugRemoveUncounted(s, h, b) ==
  IF b = Null \/ s.mem[b].sf # h THEN s
  ELSE [s EXCEPT !.links[h] = RemoveFirst(@, b), !.used = @ \ {b},
                 !.current = IF @ = b THEN Null ELSE @]

\* tsch_schedule_remove_link(): list_remove() and memb_free() ignore a block
\* that is not listed or not allocated, the counter does not.
RemoveLink(s, h, b) ==
  IF b = Null \/ s.mem[b].sf # h THEN s
  ELSE Counted([s EXCEPT !.links[h] = RemoveFirst(@, b), !.used = @ \ {b},
                         !.current = IF @ = b THEN Null ELSE @],
               s.mem[b], -1)

\* tsch_schedule_get_link_by_timeslot(): the first one in list order.
LinkAt(s, h, ts) ==
  LET i == SelectInSeq(s.links[h], LAMBDA b : s.mem[b].ts = ts)
  IN  IF i = 0 THEN Null ELSE s.links[h][i]

\* memb_alloc(): the lowest free block.
Allocated(s) ==
  LET free == Block \ s.used
  IN  IF free = {} THEN Null ELSE CHOOSE b \in free : \A c \in free : b <= c

\* tsch_schedule_add_link(): evicts the link of that timeslot if asked to, and
\* returns a pointer that is Null when the pool is exhausted.
AddLink(s, l, doRemove) ==
  LET t == IF doRemove THEN RemoveLink(s, l.sf, LinkAt(s, l.sf, l.ts)) ELSE s
      b == Allocated(t)
  IN  IF b = Null THEN [sch |-> t, ptr |-> Null]
      ELSE [sch |-> Counted([t EXCEPT !.used = @ \cup {b}, !.mem[b] = l,
                                      !.links[l.sf] = Append(@, b)], l, 1),
            ptr |-> b]

-----------------------------------------------------------------------------
(***************************************************************************)
(* The next active link                                                    *)
(***************************************************************************)

\* Slots from the one at asn to the next occurrence of timeslot ts; asn itself
\* is over, so a link of its timeslot is a whole slotframe away.
Wait(asn, h, ts) ==
  LET now == asn % SizeOf(h)
  IN  IF ts > now THEN ts - now ELSE SizeOf(h) + ts - now

\* default_tsch_link_comparator(), for two links of one slotframe.
Compared(s, a, b, packets) ==
  LET la == s.mem[a]  lb == s.mem[b]
  IN  IF la.tx /\ la.addr # lb.addr /\ packets[la.addr] < packets[lb.addr]
      THEN b ELSE a

BugLowestHandleFirst(s, best, b, packets) ==
  LET l == s.mem[b]  c == s.mem[best]
  IN  CASE l.sf # c.sf                 -> IF l.sf < c.sf THEN b ELSE Null
        [] l.sf = c.sf /\ l.tx # c.tx -> IF l.tx THEN b ELSE Null
        [] OTHER                       -> Compared(s, best, b, packets)

\* Which of two links due in the same slot is new_best; Null when the handles
\* or the Tx option decide for curr_best.
NewBest(s, best, b, packets) ==
  LET l == s.mem[b]  c == s.mem[best]
  IN  CASE l.tx # c.tx                 -> IF l.tx THEN b ELSE Null
        [] l.tx = c.tx /\ l.sf # c.sf -> IF l.sf < c.sf THEN b ELSE Null
        [] OTHER                       -> Compared(s, best, b, packets)

\* A candidate for the backup takes it over from one with a higher handle.
Backup(s, backup, b) ==
  IF s.mem[b].rx /\ (backup = Null \/ s.mem[b].sf < s.mem[backup].sf)
  THEN b ELSE backup

BugBackupForgotten(s, asn, packets, acc, b) ==
  LET wait == Wait(asn, s.mem[b].sf, s.mem[b].ts)
      new == NewBest(s, acc.best, b, packets)
  IN  CASE acc.best = Null \/ wait < acc.wait ->
             [best |-> b, backup |-> Null, wait |-> wait]
        [] acc.best # Null /\ wait = acc.wait ->
             [acc EXCEPT !.best = IF new = Null THEN @ ELSE new,
                         !.backup = IF new # b THEN Backup(s, @, b) ELSE @]
        [] OTHER -> acc

\* The loop body of tsch_schedule_get_next_active_link(): one link of the scan.
Scanned(s, asn, packets, acc, b) ==
  LET wait == Wait(asn, s.mem[b].sf, s.mem[b].ts)
      new == NewBest(s, acc.best, b, packets)
      bk == IF new # b THEN Backup(s, acc.backup, b) ELSE acc.backup
  IN  CASE acc.best = Null \/ wait < acc.wait ->
             [best |-> b, backup |-> Null, wait |-> wait]
        [] acc.best # Null /\ wait = acc.wait ->
             [acc EXCEPT !.best = IF new = Null THEN @ ELSE new,
                         !.backup = IF new # acc.best
                                    THEN Backup(s, bk, acc.best) ELSE bk]
        [] OTHER -> acc

\* The links of one slotframe, from the head of its list.
FrameScanned(s, asn, packets, acc, h) ==
  LET upTo[i \in 0 .. Len(s.links[h])] ==
        IF i = 0 THEN acc
        ELSE Scanned(s, asn, packets, upTo[i - 1], s.links[h][i])
  IN  upTo[Len(s.links[h])]

\* Every slotframe in list order.
NothingDue == [best |-> Null, backup |-> Null, wait |-> 0]

NextActive(s, asn, packets) ==
  LET upTo[i \in 0 .. Len(Slotframes)] ==
        IF i = 0 THEN NothingDue
        ELSE FrameScanned(s, asn, packets, upTo[i - 1], Slotframes[i][1])
  IN  upTo[Len(Slotframes)]

\* tsch_slot_operation(): with nothing to send on the best link, the slot runs
\* the backup link if the best cannot receive or the backup has priority.
IdleLink(s, best, backup) ==
  IF backup # Null /\ (~s.mem[best].rx \/ s.mem[backup].sf < s.mem[best].sf)
  THEN backup ELSE best
=============================================================================
