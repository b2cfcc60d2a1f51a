------------------------------- MODULE TschTx -------------------------------
(***************************************************************************)
(* The transmit path of TSCH towards one neighbour, our parent: processes  *)
(* add, flush and report packets (tsch-queue.c, tsch.c) while the slot     *)
(* operation (tsch-slot-operation.c) preempts them from the rtimer         *)
(* interrupt, sends from the same ring buffer and hands what it dequeued   *)
(* back through a second one.  A process changes the links under the TSCH  *)
(* lock, which it waits for.                                               *)
(*                                                                         *)
(* The links are the shared broadcast cell "common", our Tx cell "own"     *)
(* towards the parent, and a cell "listen" that receives.  Packets carry   *)
(* the slotframe they were queued for.  Under the implicit-ack rule        *)
(* (orchestra-rule-implicit-ack.c) there is also a cell "relay" for what   *)
(* we forward, and own packets may ask for no ACK: they stay in the queue, *)
(* pending, until we overhear our parent relay one or a deadline passes.   *)
(* Broadcast frames and EBs, bursts and disassociation are left out.       *)
(***************************************************************************)
EXTENDS Integers, FiniteSets, Sequences, SequencesExt, FiniteSetsExt

CONSTANTS
  RingSize,         \* TSCH_QUEUE_NUM_PER_NEIGHBOR, a power of two
  DequeuedSize,     \* TSCH_DEQUEUED_ARRAY_SIZE
  PoolSize,         \* QUEUEBUF_NUM, the blocks of packet_memb
  MaxTransmissions, \* of every packet
  MinBe, MaxBe,     \* TSCH_MAC_MIN_BE and TSCH_MAC_MAX_BE
  Packets,          \* bound: packets accepted in a behaviour
  ImplicitPackets,  \* bound: the same under the implicit-ack rule
  Resizes,          \* bound: times the cells towards the parent change
  FlushInTx,        \* may a flush preempt a Tx slot?  In the code it may
  ImplicitAck       \* rules considered: is it the implicit-ack rule?

ASSUME TxAssumption ==
  /\ {RingSize, DequeuedSize} \subseteq {2, 4, 8, 16, 32, 64, 128}
  /\ {PoolSize, MaxTransmissions} \subseteq Nat \ {0}
  /\ MinBe \in Nat /\ MaxBe \in 0 .. 16 /\ MinBe <= MaxBe   \* tsch-conf.h
  /\ Packets \in Nat /\ Resizes \in Nat /\ FlushInTx \in BOOLEAN
  /\ ImplicitAck \subseteq BOOLEAN /\ ImplicitPackets \in 0 .. Packets

Null == 0
NoLink == "none"
Block == 1 .. PoolSize
Id == 1 .. Packets
Index == 0 .. RingSize - 1
OwnCells == {"own", "relay"}
Content == [id : 0 .. Packets, tag : OwnCells \cup {"common"},
            sent : 0 .. MaxTransmissions, quiet : BOOLEAN,
            pending : {"no", "live", "stale"}]

VARIABLES
  used, mem,          \* packet_memb: allocated blocks, and the content of all
  arr, get, put,      \* tx_array and tx_ringbuf of the neighbour
  dequeued,           \* dequeued_array in dequeued_ringbuf order
  pc, blk,            \* what the process is in the middle of, and its packet
  locked, requested,  \* tsch_locked, tsch_lock_requested
  slot, packet,       \* the slot operation in progress, current_packet
  current, backup,    \* current_link, backup_link
  cells,              \* our Tx links to the neighbour (tx_links_count > 0)
  window, exponent,   \* backoff_window and backoff_exponent
  issued,             \* packets accepted so far
  answers,            \* calls of each packet's sent callback
  resized,            \* times the cells changed
  implicit,           \* is this the implicit-ack rule?
  lost                \* packets taken from the queue that nobody reports

queue == <<arr, get, put>>
process == <<pc, blk, locked, requested, issued, answers, resized>>
air == <<slot, packet, current, backup, window, exponent, implicit, lost>>
txvars == <<used, mem, queue, dequeued, process, air, cells>>

Count == (put - get) % RingSize
Room == Count # RingSize - 1
At(i) == (get + i - 1) % RingSize         \* the index of the i-th entry
Queue == [i \in 1 .. Count |-> arr[At(i)]]
DequeuedRoom == Len(dequeued) < DequeuedSize - 1
Pending(b) == mem[b].pending # "no"       \* ia_pending

\* The Tx cells a rule may install, and whether link l serves the neighbour:
\* the broadcast link serves neighbours without a Tx link.
Installable == IF implicit THEN OwnCells ELSE {"own"}
ServedBy(l) == IF cells = {} THEN l = "common" ELSE l \in cells

\* The queue is empty, before or after our own cells were installed.
Init ==
  /\ used = {}
  /\ mem = [b \in Block |-> [id |-> 0, tag |-> "common", sent |-> 0,
                              quiet |-> FALSE, pending |-> "no"]]
  /\ arr = [i \in Index |-> Null] /\ get = 0 /\ put = 0
  /\ dequeued = <<>>
  /\ pc = "idle" /\ blk = Null
  /\ locked = FALSE /\ requested = FALSE
  /\ slot = "off" /\ packet = Null
  /\ current = "common" /\ backup = NoLink
  /\ implicit \in ImplicitAck /\ lost = {}
  /\ cells \in SUBSET Installable
  /\ window = 0 /\ exponent = MinBe
  /\ issued = 0 /\ answers = [i \in Id |-> 0] /\ resized = 0

-----------------------------------------------------------------------------
(***************************************************************************)
(* Process context                                                         *)
(***************************************************************************)

\* select_packet(): the rules tag a packet with the slotframe of a cell of ours,
\* the default rule takes what they leave; own packets may ask for no ACK.
Stamps == {t \in cells \cup {"common"} : t = "common" => "own" \notin cells}
Quiet(t) == IF implicit /\ t # "relay" THEN BOOLEAN ELSE {FALSE}

BugAddPacket ==
  /\ pc = "idle" /\ issued < IF implicit THEN ImplicitPackets ELSE Packets
  /\ Room /\ used # Block
  /\ \E t \in Stamps : \E q \in Quiet(t) :
       LET b == Min(Block \ used)
       IN  /\ used' = used \cup {b}
           /\ mem' = [mem EXCEPT ![b] = [id |-> issued + 1, tag |-> t, sent |-> 0,
                                         quiet |-> q, pending |-> mem[b].pending]]
           /\ blk' = b
  /\ issued' = issued + 1
  /\ pc' = "filled"
  /\ UNCHANGED <<queue, dequeued, air, cells, locked, requested, answers, resized>>

\* tsch_queue_add_packet(): a full ring or pool rejects the packet.
AddPacket ==
  /\ pc = "idle" /\ issued < IF implicit THEN ImplicitPackets ELSE Packets
  /\ Room /\ used # Block
  /\ \E t \in Stamps : \E q \in Quiet(t) :
       LET b == Min(Block \ used)
       IN  /\ used' = used \cup {b}
           /\ mem' = [mem EXCEPT ![b] = [id |-> issued + 1, tag |-> t, sent |-> 0,
                                         quiet |-> q, pending |-> "no"]]
           /\ blk' = b
  /\ issued' = issued + 1
  /\ pc' = "filled"
  /\ UNCHANGED <<queue, dequeued, air, cells, locked, requested, answers, resized>>

\* n->tx_array[put_index] = p; the entry is not in the queue yet ...
WriteEntry ==
  /\ pc = "filled"
  /\ arr' = [arr EXCEPT ![put] = blk]
  /\ pc' = "written"
  /\ UNCHANGED <<used, mem, get, put, dequeued, air, cells, blk, locked,
                 requested, issued, answers, resized>>

\* ... until ringbufindex_put().
CommitEntry ==
  /\ pc = "written"
  /\ put' = (put + 1) % RingSize
  /\ pc' = "idle" /\ blk' = Null
  /\ UNCHANGED <<used, mem, arr, get, dequeued, air, cells, locked, requested,
                 issued, answers, resized>>

\* The sent callback of a packet, and the release of its block.
Answer(b) ==
  /\ answers' = [answers EXCEPT ![mem[b].id] = @ + 1]
  /\ used' = used \ {b}

BugFlushSilently ==
  /\ pc \in {"idle", "flushing"} /\ Count # 0
  /\ FlushInTx \/ slot # "tx"
  /\ used' = used \ {arr[get]}
  /\ get' = (get + 1) % RingSize
  /\ pc' = "flushing"
  /\ UNCHANGED <<mem, arr, put, dequeued, air, cells, blk, locked, requested,
                 issued, answers, resized>>

\* tsch_queue_flush_nbr_queue(), from a rule's tsch_queue_free_packets_to() or
\* tsch_queue_reset(): packets leave from the head until the queue is empty.
FlushHead ==
  /\ pc \in {"idle", "flushing"} /\ Count # 0
  /\ FlushInTx \/ slot # "tx"
  /\ Answer(arr[get])
  /\ get' = (get + 1) % RingSize
  /\ pc' = "flushing"
  /\ UNCHANGED <<mem, arr, put, dequeued, air, cells, blk, locked, requested,
                 issued, resized>>

FlushEnd ==
  /\ pc = "flushing" /\ Count = 0
  /\ pc' = "idle"
  /\ UNCHANGED <<used, mem, queue, dequeued, air, cells, blk, locked, requested,
                 issued, answers, resized>>

\* tsch_tx_process_pending(): one dequeued packet.
TxProcessPending ==
  /\ pc = "idle" /\ dequeued # <<>>
  /\ Answer(Head(dequeued))
  /\ dequeued' = Tail(dequeued)
  /\ UNCHANGED <<mem, queue, air, cells, pc, blk, locked, requested, issued,
                 resized>>

\* tsch_get_lock(): no new slot operation starts, the current one ends.
RequestLock ==
  /\ pc = "idle" /\ resized < Resizes
  /\ requested' = TRUE
  /\ pc' = "locking"
  /\ UNCHANGED <<used, mem, queue, dequeued, air, cells, blk, locked, issued,
                 answers, resized>>

BugTakeLock ==
  /\ pc = "locking"
  /\ locked' = TRUE /\ requested' = FALSE
  /\ pc' = "locked"
  /\ UNCHANGED <<used, mem, queue, dequeued, air, cells, blk, issued, answers,
                 resized>>

TakeLock ==
  /\ pc = "locking" /\ slot = "off"
  /\ locked' = TRUE /\ requested' = FALSE
  /\ pc' = "locked"
  /\ UNCHANGED <<used, mem, queue, dequeued, air, cells, blk, issued, answers,
                 resized>>

\* tsch_schedule_add_link() or _remove_link() of cell c: a removed link does
\* not stay the current one, but the ia_link of a packet may still point to it.
ChangeCells ==
  /\ pc = "locked"
  /\ \E c \in Installable :
       IF c \in cells
       THEN /\ cells' = cells \ {c}
            /\ current' = IF current = c THEN NoLink ELSE current
            /\ mem' = [b \in Block |->
                         IF mem[b].tag = c /\ mem[b].pending = "live"
                         THEN [mem[b] EXCEPT !.pending = "stale"] ELSE mem[b]]
       ELSE /\ cells' = cells \cup {c}
            /\ UNCHANGED <<current, mem>>
  /\ locked' = FALSE
  /\ pc' = "idle"
  /\ resized' = resized + 1
  /\ UNCHANGED <<used, queue, dequeued, blk, requested, issued, answers,
                 slot, packet, backup, window, exponent, implicit, lost>>

-----------------------------------------------------------------------------
(***************************************************************************)
(* The slot operation, between two of its yields                           *)
(***************************************************************************)

\* tsch_schedule_get_next_active_link(): none while the schedule is locked.
NextLinks ==
  IF locked THEN {<<NoLink, NoLink>>}
  ELSE {<<"listen", NoLink>>} \cup ({"common"} \X {NoLink, "listen"})
         \cup (cells \X {NoLink, "common", "listen"})

ChooseNext == \E l \in NextLinks : current' = l[1] /\ backup' = l[2]

\* update_link_backoff(): the window shrinks on the link the neighbour uses.
Waited(w, l) ==
  IF w # 0 /\ ~locked /\ ServedBy(l) THEN w - 1 ELSE w

\* May link l send now?  Every link is shared, so it waits for the backoff.
Serves(l) == ~locked /\ window = 0 /\ ServedBy(l)

BugHeadOnly(l) ==
  IF Serves(l) /\ Count # 0 /\ mem[arr[get]].tag = l THEN 1 ELSE 0

\* tsch_queue_get_packet_for_nbr(): the first packet of the link's slotframe
\* that is not pending ...
Match(l) ==
  IF ~Serves(l) THEN 0
  ELSE SelectInSeq(Queue, LAMBDA b : mem[b].tag = l /\ ~Pending(b))

BugNotPromoted(i) == arr

BugSwapped(i) ==
  [arr EXCEPT ![At(1)] = arr[At(i)], ![At(i)] = arr[At(1)]]

\* ... moves to the head, and those before it move back by one.
Promoted(i) ==
  [k \in Index |->
     LET j == ((k - get) % RingSize) + 1
     IN  CASE j = 1 -> arr[At(i)]
           [] j \in 2 .. i -> arr[At(j - 1)]
           [] OTHER -> arr[k]]

\* The link that is used: the backup if the best has nothing to send and does
\* not receive, or has a higher handle.
UsesBackup ==
  /\ Match(current) = 0 /\ backup # NoLink
  /\ current \in OwnCells \/ (current = "common" /\ backup = "listen")
Runs == IF UsesBackup THEN backup ELSE current

SlotStarts == slot = "off" /\ current # NoLink /\ ~requested

BugTxSlotStart ==
  /\ SlotStarts /\ Match(current) # 0
  /\ slot' = "tx"
  /\ arr' = Promoted(Match(current))
  /\ packet' = arr[At(Match(current))]
  /\ UNCHANGED <<used, mem, get, put, dequeued, process, cells, current, backup,
                 window, exponent, implicit, lost>>

\* A Tx slot needs room for the packet it may dequeue; it yields until the
\* frame is sent and acknowledged.  (A backup link never serves this queue.)
TxSlotStart ==
  /\ SlotStarts /\ Match(current) # 0 /\ DequeuedRoom
  /\ slot' = "tx"
  /\ arr' = Promoted(Match(current))
  /\ packet' = arr[At(Match(current))]
  /\ UNCHANGED <<used, mem, get, put, dequeued, process, cells, current, backup,
                 window, exponent, implicit, lost>>

\* tsch_queue_remove_packet_from_queue() takes the head.
RemoveHead == get' = IF Count = 0 THEN get ELSE (get + 1) % RingSize

BugDequeue ==
  /\ RemoveHead
  /\ UNCHANGED dequeued

\* The packet leaves the queue and the slot reports the one it sent.
Dequeue ==
  /\ RemoveHead
  /\ dequeued' = Append(dequeued, packet)

SlotOver == packet' = Null /\ UNCHANGED <<used, arr, put, process, cells, implicit>>
NextSlot == slot' = "off" /\ ChooseNext

\* The slot is over: the next links are chosen, after the packet at the head was
\* found due if a new ASFN has begun.
EndSlot ==
  /\ SlotOver
  /\ \/ NextSlot
     \/ /\ slot' = "due" /\ ~locked
        /\ Count' # 0 /\ mem'[arr[get']].pending # "no"
        /\ UNCHANGED <<current, backup>>

\* A frame that asked for no ACK and that the radio has sent: resolved at once if
\* we relay it, pending otherwise, with a deadline at least one ASFN away.
Deferred == mem[packet].quiet
ResetBackoff == window' = 0 /\ exponent' = MinBe
Longer == IF exponent < MaxBe THEN exponent + 1 ELSE MaxBe

TxSlotOk ==
  /\ slot = "tx" /\ ~Deferred
  /\ mem' = [mem EXCEPT ![packet].sent = @ + 1]
  /\ Dequeue
  /\ ResetBackoff
  /\ EndSlot
  /\ UNCHANGED lost

TxSlotDeferred ==
  /\ slot = "tx" /\ Deferred
  /\ mem' = [mem EXCEPT ![packet].sent = @ + 1, ![packet].pending = "live"]
  /\ window' = Waited(window, current)
  /\ SlotOver /\ NextSlot
  /\ UNCHANGED <<get, dequeued, exponent, lost>>

\* A failed packet is dropped at its last transmission; the queue backs off
\* either way, for a window whose first slot is this one.
TxSlotFailed ==
  /\ slot = "tx"
  /\ mem' = [mem EXCEPT ![packet].sent = @ + 1]
  /\ IF mem'[packet].sent >= MaxTransmissions THEN Dequeue
                                              ELSE UNCHANGED <<get, dequeued>>
  /\ exponent' = Longer
  /\ \E w \in 1 .. 2^exponent' : window' = Waited(w, current)
  /\ EndSlot
  /\ UNCHANGED lost

\* Nothing to send on a link that receives.
RxSlotStart ==
  /\ SlotStarts /\ Match(current) = 0 /\ Runs \notin OwnCells
  /\ slot' = "rx"
  /\ current' = Runs
  /\ window' = IF UsesBackup THEN Waited(window, current) ELSE window
  /\ UNCHANGED <<used, mem, queue, dequeued, process, cells, packet, backup,
                 exponent, implicit, lost>>

RxSlotEnd ==
  /\ slot = "rx"
  /\ window' = Waited(window, current)
  /\ UNCHANGED <<mem, get, dequeued, exponent, lost>>
  /\ EndSlot

\* A slot with nothing to do, or that is skipped.
IdleSlot ==
  /\ slot = "off"
  /\ SlotStarts => Match(current) = 0 /\ Runs \in OwnCells
  /\ window' = Waited(window, current)
  /\ UNCHANGED <<mem, get, dequeued, exponent, lost>>
  /\ EndSlot

\* No room to report the packet, which has moved to the head all the same.
BlockedSlot ==
  /\ SlotStarts /\ Match(current) # 0 /\ ~DequeuedRoom
  /\ arr' = Promoted(Match(current))
  /\ NextSlot
  /\ UNCHANGED <<used, mem, get, put, dequeued, process, cells, packet, window,
                 exponent, implicit, lost>>

\* The link a pending packet was sent on is shared; read after its removal, it
\* has the options of whatever link has the block by now.
SharedLink(b) == IF mem[b].pending = "stale" THEN BOOLEAN ELSE {TRUE}

\* Both callers of tsch_queue_packet_sent() ignore that the packet has left.
Forgotten(b) == RemoveHead /\ lost' = lost \cup {b}

\* orchestra_ia_overhear(): our parent relays a packet of ours, so the one at the
\* head has arrived.
Overheard ==
  /\ slot = "rx" /\ current = "listen" /\ ~locked
  /\ Count # 0 /\ Pending(arr[get])
  /\ mem' = [mem EXCEPT ![arr[get]].pending = "no"]
  /\ Forgotten(arr[get])
  /\ \E shared \in SharedLink(arr[get]) :
       IF shared \/ Count = 1 THEN ResetBackoff
       ELSE window' = Waited(window, current) /\ UNCHANGED exponent
  /\ UNCHANGED dequeued
  /\ EndSlot

\* check_ia_timeout(): the deadline of the pending packet at the head has passed.
AckTimeout ==
  /\ slot = "due"
  /\ mem' = [mem EXCEPT ![arr[get]].pending = "no"]
  /\ IF mem[arr[get]].sent >= MaxTransmissions THEN Forgotten(arr[get])
                                               ELSE UNCHANGED <<get, lost>>
  /\ \E shared \in SharedLink(arr[get]) :
       IF shared THEN exponent' = Longer /\ window' \in 1 .. 2^exponent'
       ELSE UNCHANGED <<window, exponent>>
  /\ SlotOver /\ NextSlot
  /\ UNCHANGED dequeued

-----------------------------------------------------------------------------
\* What a process does once it runs: a flush it has begun included.
ProcessStep == \/ WriteEntry \/ CommitEntry
               \/ FlushEnd \/ (pc = "flushing" /\ FlushHead)
               \/ TxProcessPending
               \/ TakeLock \/ ChangeCells

SlotStep == TxSlotStart \/ TxSlotOk \/ TxSlotDeferred \/ TxSlotFailed
              \/ RxSlotStart \/ RxSlotEnd \/ IdleSlot \/ BlockedSlot
              \/ Overheard \/ AckTimeout

\* The slot operation looks for due packets without a yield.
Next == \/ slot # "due" /\ (AddPacket \/ FlushHead \/ RequestLock \/ ProcessStep)
        \/ SlotStep

\* The scheduler runs processes that have work, the rtimer fires every slot,
\* and every installed link comes up again in the schedule.  Nothing is claimed
\* of what the implicit-ack rule eventually does: a packet without a cell at the
\* head hides the due ones behind it for ever.
Fairness ==
  /\ WF_txvars(~implicit /\ ProcessStep)
  /\ WF_txvars(~implicit /\ SlotStep)
  /\ SF_txvars(~implicit /\ SlotStep /\ current' = "own")
  /\ SF_txvars(~implicit /\ SlotStep /\ current' = "common")

Spec == Init /\ [][Next]_txvars /\ Fairness
-----------------------------------------------------------------------------
(***************************************************************************)
(* Properties                                                              *)
(***************************************************************************)

TxTypeOK ==
  /\ used \subseteq Block
  /\ mem \in [Block -> Content]
  /\ arr \in [Index -> {Null} \cup Block] /\ get \in Index /\ put \in Index
  /\ dequeued \in Seq(Block) /\ Len(dequeued) < DequeuedSize
  /\ pc \in {"idle", "filled", "written", "flushing", "locking", "locked"}
  /\ blk \in {Null} \cup Block /\ packet \in {Null} \cup Block
  /\ {locked, requested, implicit} \subseteq BOOLEAN
  /\ cells \subseteq Installable /\ lost \subseteq Block
  /\ slot \in {"off", "tx", "rx", "due"}
  /\ current \in OwnCells \cup {NoLink, "common", "listen"}
  /\ backup \in {NoLink, "common", "listen"}
  /\ exponent \in MinBe .. MaxBe /\ window \in 0 .. 2^exponent
  /\ issued \in 0 .. Packets /\ answers \in [Id -> Nat] /\ resized \in 0 .. Resizes

\* Every allocated packet has exactly one owner: the queue, the dequeued ring
\* or the process adding it.  No owner holds a freed or unwritten packet.  Only
\* the implicit-ack rule leaves packets to nobody, for ever.
Owned == Queue \o dequeued \o (IF pc \in {"filled", "written"} THEN <<blk>> ELSE <<>>)

OneOwner == /\ ToSet(Owned) = used \ lost /\ Len(Owned) = Cardinality(used \ lost)
            /\ lost \subseteq used /\ (~implicit => lost = {})

\* The sent callback of an accepted packet runs once, when its block is freed.
AnsweredOnce ==
  \A i \in 1 .. issued :
    answers[i] = IF \E b \in used : mem[b].id = i THEN 0 ELSE 1

\* The packet on the air stays allocated, at the head of the queue, until the
\* slot ends: "from interrupt context if the queuebuf instance is protected
\* with a lock (like in TSCH)".
InFlightIsHead == slot = "tx" => Count # 0 /\ arr[get] = packet /\ packet \in used

\* "packets sharing the same tag keep their original relative order", but for a
\* packet that was sent, which those behind it overtake while it is pending.
SameTagOrder ==
  \A i, j \in 1 .. Count :
    /\ i < j /\ mem[Queue[i]].tag = mem[Queue[j]].tag
    /\ ~Pending(Queue[j])
    => mem[Queue[i]].id < mem[Queue[j]].id

\* Only a packet that was sent is pending, "already sent, awaiting implicit
\* confirmation or timeout": none is declared lost or arrived before.
PendingWasSent ==
  \A i \in 1 .. Count : Pending(Queue[i]) => mem[Queue[i]].sent > 0

\* Links do not change under a Tx slot: tsch_queue_packet_sent() still has the
\* link it was sent on, of a kind that is installed.
TxSlotUndisturbed ==
  slot = "tx" => ~locked /\ ServedBy(current)

\* A queued packet whose cell stays installed is answered, whatever shares its
\* queue and backs off: no cell is starved by another one's packets.
Served(i) == ~implicit /\ \E b \in used : mem[b].id = i /\ ServedBy(mem[b].tag)

ServedIsAnswered ==
  \A i \in Id : Served(i) ~> ~Served(i)

\* Every accepted packet is answered, also when the cells change under it: the
\* default slotframe is "for broadcast or unicast to neighbors we do not have a
\* link to" (default-common), so it sends what the removed cells have left.
EveryPacketAnswered ==
  \A i \in Id : (issued >= i) ~> (answers[i] > 0)
=============================================================================
