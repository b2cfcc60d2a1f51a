-------------------------------- MODULE Sixp --------------------------------
(***************************************************************************)
(* 6P transactions (os/net/mac/tsch/sixtop: sixp.c, sixp-trans.c,          *)
(* sixp-nbr.c, sixtop.c) between nodes whose MAC loses frames and          *)
(* acknowledgements.  A transaction is a block of a small pool, one per    *)
(* peer; it moves through the states of sixp-trans.h and is driven by      *)
(* packets, by the MAC's callback and by one ctimer.  A packet is its      *)
(* type, its command or return code and its SeqNum; `id' names the request *)
(* it belongs to and is read by the properties only.  The scheduling       *)
(* function decides when to ask, answer and confirm.                       *)
(***************************************************************************)
EXTENDS Integers, Sequences, FiniteSets, FiniteSetsExt

CONSTANTS
  Node,
  None,
  Asks,           \* triples <<n, p, cmd>>: n's scheduling function asks p cmd, of
                  \* "Add" (2-step), "Add3" (empty CellList: 3-step), "Clear"
  Cycled,         \* the nodes that may be power-cycled
  MaxTrans,       \* SIXTOP_MAX_TRANSACTIONS
  SeqMax,         \* the largest SeqNum of one octet: 255
  Generations,    \* agreed values of next_seqno the nodes may start with
  QueueCap,       \* packets the MAC queues for one neighbour
  MaxRequests,    \* bound: requests made, by all nodes
  MaxRestarts     \* bound: power cycles, of all nodes

ASSUME SixpConstants ==
  /\ None \notin Node
  /\ Asks \subseteq Node \X Node \X {"Add", "Add3", "Clear"}
  /\ Cycled \subseteq Node
  /\ MaxTrans \in Nat \ {0} /\ SeqMax \in Nat \ {0} /\ QueueCap \in Nat
  /\ MaxRequests \in Nat /\ MaxRestarts \in Nat
  /\ None \notin Nat
  /\ Generations \subseteq 0..SeqMax \cup {None}

VARIABLES
  trans,     \* trans[n][b]: the transaction in block b of trans_memb, or None
  nbr,       \* nbr[n][p]: next_seqno of n's sixp_nbr for p, or None
  out,       \* out[n][p]: n's MAC queue for p; the head is being sent
  inbox,     \* inbox[n]: received packets sixp_input has not seen
  requests,  \* requests made so far
  restarts   \* power cycles so far

sixpVars == <<trans, nbr, out, inbox, requests, restarts>>

Blocks == 1..MaxTrans
Seqno == 0..SeqMax

TransState ==
  {"REQUEST_SENDING", "REQUEST_SENT", "REQUEST_RECEIVED", "RESPONSE_SENDING",
   "RESPONSE_SENT", "RESPONSE_RECEIVED", "CONFIRMATION_SENDING",
   "CONFIRMATION_SENT", "CONFIRMATION_RECEIVED", "TERMINATING"}

Command == {"Add", "Add3", "Clear"}

Code == Command \cup {"SUCCESS", "ERR_BUSY", "ERR_SEQNUM"}

Packet == [type : {"Request", "Response", "Confirmation"}, code : Code,
           seqno : Seqno, id : 1..MaxRequests]

(* answered: the request whose answer (or confirmation) was taken.         *)
Trans == [peer : Node, seqno : Seqno, cmd : Command, state : TransState,
          id : 1..MaxRequests, answered : 1..MaxRequests \cup {None}]

ASSUME NoTransaction == None \notin Trans

(* A packet in the MAC, heard by the peer or not. *)
Queued == [pkt : Packet, block : Blocks \cup {None}, heard : BOOLEAN]

-----------------------------------------------------------------------------

With(n, p) == {b \in Blocks : trans[n][b] # None /\ trans[n][b].peer = p}

TheOne(n, p) == CHOOSE b \in Blocks : b \in With(n, p)

FreeBlocks(n) == {b \in Blocks : trans[n][b] = None}

BugIncrement(s) == s + 1
BugWrapsToZero(s) == IF s = SeqMax THEN 0 ELSE s + 1
Increment(s) == IF s = SeqMax THEN 1 ELSE s + 1

ThreeStep(t) == t.cmd = "Add3"

NewTrans(p, pkt, state) ==
  [peer |-> p, seqno |-> pkt.seqno, cmd |-> pkt.code, state |-> state,
   id |-> pkt.id, answered |-> None]

Room(n, p) == Len(out[n][p]) < QueueCap

(* sixtop_output: the MAC queues the packet, or refuses it and calls the   *)
(* callback with an error before it returns.                               *)
Hand(n, p, pkt, b) ==
  out' = IF Room(n, p)
         THEN [out EXCEPT ![n][p] =
                 Append(@, [pkt |-> pkt, block |-> b, heard |-> FALSE])]
         ELSE out

Started(nxt) == IF nxt = None THEN 0 ELSE nxt

-----------------------------------------------------------------------------
(* What the scheduling function asks for (sixp_output). *)

Request(n, p, cmd) ==
  LET pkt == [type |-> "Request", code |-> cmd,
              seqno |-> Started(nbr[n][p]), id |-> requests + 1]
      b   == Min(FreeBlocks(n))
  IN  /\ <<n, p, cmd>> \in Asks /\ requests < MaxRequests
      /\ With(n, p) = {} /\ FreeBlocks(n) # {}
      /\ trans' = [trans EXCEPT ![n][b] = NewTrans(p, pkt, "REQUEST_SENDING")]
      /\ nbr' = [nbr EXCEPT ![n][p] =
                   IF cmd = "Clear" THEN 0 ELSE Increment(pkt.seqno)]
      /\ Hand(n, p, pkt, b)
      /\ requests' = requests + 1
      /\ UNCHANGED <<inbox, restarts>>

(* No block, or no room in the packet buffer for the 6top headers (then    *)
(* the new transaction is aborted): the neighbour entry stays.             *)
RequestAbandoned(n, p) ==
  /\ \E cmd \in Command : <<n, p, cmd>> \in Asks
  /\ With(n, p) = {} /\ nbr[n][p] = None
  /\ nbr' = [nbr EXCEPT ![n][p] = 0]
  /\ UNCHANGED <<trans, out, inbox, requests, restarts>>

(* A response to a request other than CLEAR needs a neighbour entry.       *)
WithEntry(n, t) ==
  [nbr EXCEPT ![n][t.peer] = IF t.cmd = "Clear" THEN @ ELSE Started(@)]

(* The response takes the SeqNum of its transaction t, in block b. *)
Responded(n, b, t, rc) ==
  /\ trans' = [trans EXCEPT ![n][b] = [t EXCEPT !.state = "RESPONSE_SENDING"]]
  /\ nbr' = WithEntry(n, t)
  /\ Hand(n, t.peer, [type |-> "Response", code |-> rc, seqno |-> t.seqno,
                      id |-> t.id], b)

(* No room for the neighbour entry, or none in the packet buffer: the      *)
(* transaction keeps its request.                                          *)
NotResponded(n, b, t) ==
  /\ trans' = [trans EXCEPT ![n][b] = t]
  /\ nbr' \in {nbr, WithEntry(n, t)}
  /\ UNCHANGED out

Respond(n, b, t, rc) == Responded(n, b, t, rc) \/ NotResponded(n, b, t)

Reply(n, b) ==
  /\ trans[n][b] # None /\ trans[n][b].state = "REQUEST_RECEIVED"
  /\ Respond(n, b, trans[n][b], "SUCCESS")
  /\ UNCHANGED <<inbox, requests, restarts>>

Confirm(n, b) ==
  LET t   == trans[n][b]
      pkt == [type |-> "Confirmation", code |-> "SUCCESS", seqno |-> t.seqno,
              id |-> t.id]
  IN  /\ t # None /\ t.state = "RESPONSE_RECEIVED" /\ ThreeStep(t)
      /\ trans' = [trans EXCEPT ![n][b].state = "CONFIRMATION_SENDING"]
      /\ Hand(n, t.peer, pkt, b)
      /\ UNCHANGED <<nbr, inbox, requests, restarts>>
-----------------------------------------------------------------------------
(* The MAC: FIFO for each neighbour, no duplicates (packet_input drops     *)
(* them), frames and acknowledgements lost.                                *)

Transmit(n, p) ==
  /\ out[n][p] # <<>> /\ ~Head(out[n][p]).heard
  /\ out' = [out EXCEPT ![n][p][1].heard = TRUE]
  /\ inbox' = [inbox EXCEPT ![p] = Append(@, [from |-> n, pkt |-> Head(out[n][p]).pkt])]
  /\ UNCHANGED <<trans, nbr, requests, restarts>>

(* mac_callback in state s of the block it was given: the next state.      *)
Reported(s, ok) ==
  CASE ok /\ s = "REQUEST_SENDING"      -> "REQUEST_SENT"
    [] ok /\ s = "RESPONSE_SENDING"     -> "RESPONSE_SENT"
    [] ok /\ s = "CONFIRMATION_SENDING" -> "CONFIRMATION_SENT"
    [] ~ok /\ s = "REQUEST_SENDING"     -> "TERMINATING"
    [] OTHER                            -> s

BugKeepsOwn(t, nxt) == nxt
BugCountsAfterClear(t, nxt) == IF nxt = None THEN nxt ELSE Increment(t.seqno)

(* A response that arrived sets next_seqno from its transaction; after a   *)
(* CLEAR it stays.                                                         *)
Synchronised(t, nxt) ==
  IF nxt = None \/ t.cmd = "Clear" THEN nxt ELSE Increment(t.seqno)

(* The packet was acknowledged or given up.  The callback runs on the      *)
(* block, whatever the block holds by now.                                 *)
MacCallback(n, p, ok) ==
  LET e == Head(out[n][p])
      t == trans[n][e.block]
      s == Reported(t.state, ok)
  IN  /\ out[n][p] # <<>>
      /\ ok => e.heard
      /\ out' = [out EXCEPT ![n][p] = Tail(@)]
      /\ IF e.block = None \/ trans[n][e.block] = None
         THEN UNCHANGED <<trans, nbr>>
         ELSE /\ trans' = [trans EXCEPT ![n][e.block].state = s]
              /\ nbr' = IF s = "RESPONSE_SENT" /\ s # t.state
                        THEN [nbr EXCEPT ![n][t.peer] = Synchronised(t, @)]
                        ELSE nbr
      /\ UNCHANGED <<inbox, requests, restarts>>

-----------------------------------------------------------------------------
(* sixp_input, one action per kind of outcome. *)

Taking(n, type) ==
  /\ inbox[n] # <<>> /\ Head(inbox[n]).pkt.type = type
  /\ inbox' = [inbox EXCEPT ![n] = Tail(@)]
  /\ UNCHANGED <<requests, restarts>>

(* send_back_error straight through sixtop_output, without a transaction.  *)
SendBack(n, p, pkt, rc) ==
  Hand(n, p, [type |-> "Response", code |-> rc, seqno |-> pkt.seqno,
              id |-> pkt.id], None)

(* Of the two SeqNums exactly one is zero: the peer was power-cycled. *)
PowerCycled(pkt, t) ==
  pkt.code # "Clear" /\ (pkt.seqno = 0) # (t.seqno = 0)

(* A request while a transaction with the peer is in process.              *)
RequestWhileBusy(n) ==
  LET p   == Head(inbox[n]).from
      pkt == Head(inbox[n]).pkt
      b   == TheOne(n, p)
  IN  /\ Taking(n, "Request") /\ With(n, p) # {}
      /\ IF ~PowerCycled(pkt, trans[n][b])
         THEN SendBack(n, p, pkt, "ERR_BUSY") /\ UNCHANGED <<trans, nbr>>
         ELSE IF trans[n][b].state # "REQUEST_RECEIVED"
         THEN SendBack(n, p, pkt, "ERR_SEQNUM") /\ UNCHANGED <<trans, nbr>>
         ELSE Respond(n, b, trans[n][b], "ERR_SEQNUM")

(* A CLEAR resets next_seqno even when no transaction can be allocated. *)
Cleared(n, p, pkt) ==
  IF pkt.code = "Clear" /\ nbr[n][p] # None
  THEN [nbr EXCEPT ![n][p] = 0] ELSE nbr

RequestNoMemory(n) ==
  LET p   == Head(inbox[n]).from
      pkt == Head(inbox[n]).pkt
  IN  /\ Taking(n, "Request") /\ With(n, p) = {} /\ FreeBlocks(n) = {}
      /\ nbr' = Cleared(n, p, pkt)
      /\ SendBack(n, p, pkt, "ERR_BUSY")
      /\ UNCHANGED trans

Inconsistent(pkt, nxt) ==
  /\ pkt.code # "Clear"
  /\ IF nxt = None THEN pkt.seqno # 0 ELSE nxt # 0 /\ pkt.seqno = 0

RequestTaken(n) ==
  LET p   == Head(inbox[n]).from
      pkt == Head(inbox[n]).pkt
      b   == Min(FreeBlocks(n))
      t   == NewTrans(p, pkt, "REQUEST_RECEIVED")
  IN  /\ Taking(n, "Request") /\ With(n, p) = {} /\ FreeBlocks(n) # {}
      /\ IF Inconsistent(pkt, nbr[n][p])
         THEN Respond(n, b, t, "ERR_SEQNUM")
         ELSE /\ trans' = [trans EXCEPT ![n][b] = t]
              /\ nbr' = Cleared(n, p, pkt)
              /\ UNCHANGED out

(* The transitions a response and a confirmation may make. *)
Expects(t, type) ==
  \/ type = "Response" /\ t.state \in {"REQUEST_SENDING", "REQUEST_SENT"}
  \/ /\ type = "Confirmation" /\ ThreeStep(t)
     /\ t.state \in {"RESPONSE_SENDING", "RESPONSE_SENT"}

(* A response or a confirmation that belongs to the transaction reaches    *)
(* the SF; another one is dropped.                                         *)
BugAnswerTaken(n, type) ==
  LET p   == Head(inbox[n]).from
      pkt == Head(inbox[n]).pkt
      b   == TheOne(n, p)
      t   == trans[n][b]
      state == IF type = "Response" THEN "RESPONSE_RECEIVED"
                                    ELSE "CONFIRMATION_RECEIVED"
  IN  /\ Taking(n, type)
      /\ trans' = IF With(n, p) # {} /\ Expects(t, type)
                  THEN [trans EXCEPT ![n][b] =
                          [t EXCEPT !.state = state, !.answered = pkt.id]]
                  ELSE trans
      /\ UNCHANGED <<nbr, out>>

AnswerTaken(n, type) ==
  LET p   == Head(inbox[n]).from
      pkt == Head(inbox[n]).pkt
      b   == TheOne(n, p)
      t   == trans[n][b]
      state == IF type = "Response" THEN "RESPONSE_RECEIVED"
                                    ELSE "CONFIRMATION_RECEIVED"
  IN  /\ Taking(n, type)
      /\ trans' = IF With(n, p) # {} /\ t.seqno = pkt.seqno /\ Expects(t, type)
                  THEN [trans EXCEPT ![n][b] =
                          [t EXCEPT !.state = state, !.answered = pkt.id]]
                  ELSE trans
      /\ UNCHANGED <<nbr, out>>

-----------------------------------------------------------------------------
(* The ctimer of a transaction, and power cycles. *)

Over(t) ==
  \/ ~ThreeStep(t) /\ t.state \in {"RESPONSE_SENT", "RESPONSE_RECEIVED"}
  \/ t.state \in {"CONFIRMATION_SENT", "CONFIRMATION_RECEIVED"}

(* process_trans: what is over is terminated, then freed, by two ctimer    *)
(* events that nothing can tell apart; otherwise the timer is rearmed.     *)
(* Neither asks whether the MAC still has a packet of the block.           *)
Process(n, b) ==
  LET t == trans[n][b]
  IN  /\ t # None
      /\ t.state = "TERMINATING" \/ Over(t)
      /\ trans' = [trans EXCEPT ![n][b] = None]
      /\ UNCHANGED <<nbr, out, inbox, requests, restarts>>

BugNoTimeoutOnRequest(n, b) ==
  LET t == trans[n][b]
  IN  /\ t # None /\ t.state \notin {"TERMINATING", "REQUEST_RECEIVED"} /\ ~Over(t)
      /\ trans' = [trans EXCEPT ![n][b].state = "TERMINATING"]
      /\ UNCHANGED <<nbr, out, inbox, requests, restarts>>

(* handle_trans_timeout *)
Timeout(n, b) ==
  LET t == trans[n][b]
  IN  /\ t # None /\ t.state # "TERMINATING" /\ ~Over(t)
      /\ trans' = [trans EXCEPT ![n][b].state = "TERMINATING"]
      /\ UNCHANGED <<nbr, out, inbox, requests, restarts>>

(* sixp_init at boot: nothing of the node's past is left. *)
Restart(n) ==
  /\ n \in Cycled /\ restarts < MaxRestarts
  /\ restarts' = restarts + 1
  /\ trans' = [trans EXCEPT ![n] = [b \in Blocks |-> None]]
  /\ nbr' = [nbr EXCEPT ![n] = [p \in Node |-> None]]
  /\ out' = [out EXCEPT ![n] = [p \in Node |-> <<>>]]
  /\ inbox' = [inbox EXCEPT ![n] = <<>>]
  /\ UNCHANGED requests

SixpInput(n) ==
  \/ RequestWhileBusy(n) \/ RequestNoMemory(n) \/ RequestTaken(n)
  \/ \E type \in {"Response", "Confirmation"} : AnswerTaken(n, type)

MacStep(n, p) == \E ok \in BOOLEAN : MacCallback(n, p, ok)

TimerStep(n, b) == Process(n, b) \/ Timeout(n, b)

SfStep(n) ==
  \/ \E p \in Node : RequestAbandoned(n, p)
  \/ \E p \in Node, cmd \in Command : Request(n, p, cmd)
  \/ \E b \in Blocks : Reply(n, b) \/ Confirm(n, b)

SixpInit ==
  /\ trans = [n \in Node |-> [b \in Blocks |-> None]]
  /\ \E s \in Generations : nbr = [n \in Node |-> [p \in Node |-> s]]
  /\ out = [n \in Node |-> [p \in Node |-> <<>>]]
  /\ inbox = [n \in Node |-> <<>>]
  /\ requests = 0 /\ restarts = 0

SixpNext ==
  \E n \in Node :
    \/ SfStep(n) \/ SixpInput(n) \/ Restart(n)
    \/ \E p \in Node : MacStep(n, p) \/ Transmit(n, p)
    \/ \E b \in Blocks : TimerStep(n, b)

(* Something that is due is done: a received packet is taken, the MAC ends *)
(* with a packet, a timer expires.  No frame need ever be heard.           *)
SixpFairness ==
  WF_sixpVars(\E n \in Node : \/ SixpInput(n)
                              \/ \E p \in Node : MacStep(n, p)
                              \/ \E b \in Blocks : TimerStep(n, b))

SixpSpec == SixpInit /\ [][SixpNext]_sixpVars /\ SixpFairness
-----------------------------------------------------------------------------

(* The values of the state are those of the C types. *)
SixpTypeOK ==
  /\ trans \in [Node -> [Blocks -> Trans \cup {None}]]
  /\ nbr \in [Node -> [Node -> Seqno \cup {None}]]
  /\ out \in [Node -> [Node -> Seq(Queued)]]
  /\ inbox \in [Node -> Seq([from : Node, pkt : Packet])]
  /\ requests \in 0..MaxRequests
  /\ restarts \in 0..MaxRestarts

(* Nothing sets n's next_seqno for p back while it asks p: n keeps its      *)
(* memory and never clears p, and p, whose requests would move it, asks n  *)
(* nothing.                                                                *)
OnlyCounts(n, p) ==
  /\ n \notin Cycled /\ <<n, p, "Clear">> \notin Asks
  /\ \A cmd \in Command : <<p, n, cmd>> \notin Asks

(* A response or a confirmation handed to the scheduling function belongs  *)
(* to the request it is waiting on, however late it comes, between peers   *)
(* of which one only counts.                                               *)
NothingMistaken ==
  \A n \in Node, b \in Blocks :
    LET t == trans[n][b]
    IN  /\ t # None /\ t.answered # None
        /\ OnlyCounts(n, t.peer) \/ OnlyCounts(t.peer, n)
        => t.answered = t.id

(* When a response was delivered and its requester still has the           *)
(* transaction, both count the same next SeqNum, so that neither end takes *)
(* the next request for a schedule inconsistency.                          *)
Generation(n, p) == Started(nbr[n][p])
GenerationsAgree ==
  \A n, p \in Node : \A b, c \in Blocks :
    LET r == trans[n][b]
        t == trans[p][c]
    IN  r # None /\ t # None /\ r.peer = p /\ t.peer = n
        /\ r.state = "RESPONSE_SENT" /\ r.id = t.id
        => Generation(n, p) = Generation(p, n)

(* next_seqno can be 0 only by initialization or by a CLEAR transaction:   *)
(* not after another request was made or answered.                         *)
ZeroMeansCleared ==
  \A n \in Node, b \in Blocks :
    LET t == trans[n][b]
    IN  t # None /\ t.cmd # "Clear"
        /\ t.state \in {"REQUEST_SENDING", "REQUEST_SENT", "RESPONSE_SENT"}
        => nbr[n][t.peer] \notin {0, None}

(* The assertion of sixp_trans_transit_state: the answer to a CLEAR is     *)
(* sent while next_seqno is still reset.                                   *)
ClearKeepsZero ==
  \A n \in Node, b \in Blocks :
    LET t == trans[n][b]
    IN  t # None /\ t.cmd = "Clear" /\ t.state # "TERMINATING"
        => Generation(n, t.peer) = 0

(* The memory of a transaction is freed when the MAC has called back on    *)
(* its packets (sixp-trans.c:188): a callback never acts on a transaction  *)
(* other than the one that sent the packet.                                *)
CallbackFindsItsTransaction ==
  \A n, p \in Node : \A i \in 1..Len(out[n][p]) :
    LET e == out[n][p][i]
    IN  e.block # None /\ trans[n][e.block] # None
        => trans[n][e.block].id = e.pkt.id

(* Every transaction ends and gives its block back, whatever is lost.      *)
TransactionsEnd == []<>(\A n \in Node, b \in Blocks : trans[n][b] = None)
=============================================================================
