--------------------------- MODULE SixpPairProofs ---------------------------
(***************************************************************************)
(* Machine-checked theorems about both ends of a 6P transaction: the       *)
(* counters of the two peers agree when a response was delivered, and an   *)
(* answer is never taken for the answer to another request where one peer  *)
(* only counts.  Both follow from a log of the requests made: every        *)
(* transaction and every packet, however late, tells the truth about the   *)
(* request it carries the id of.                                           *)
(***************************************************************************)
EXTENDS SixpProofs

-----------------------------------------------------------------------------
(***************************************************************************)
(* The log of requests                                                     *)
(***************************************************************************)

\* f[i] is the i-th request: who asked whom what, with which SeqNum, and how many
\* requests the same asker had made of the same peer before.
Entry(n, p, cmd, s, turn) ==
  [asker |-> n, asked |-> p, cmd |-> cmd, seqno |-> s, turn |-> turn]

AskerStates == {"REQUEST_SENDING", "REQUEST_SENT", "RESPONSE_RECEIVED",
                "CONFIRMATION_SENDING", "CONFIRMATION_SENT", "TERMINATING"}
AskedStates == {"REQUEST_RECEIVED", "RESPONSE_SENDING", "RESPONSE_SENT",
                "CONFIRMATION_RECEIVED", "TERMINATING"}

\* The next SeqNum a request leaves behind.
After(r) == IF r.cmd = "Clear" THEN 0 ELSE Increment(r.seqno)

Same(r, q) == r.asker = q.asker /\ r.asked = q.asked /\ r.seqno = q.seqno

\* A transaction t of n is one end of request r, and next_seqno of the peer, nxt,
\* has counted r: at the asker as long as the transaction exists, at the other end
\* when the response was delivered.
OneEnd(r, n, t, nxt) ==
  /\ t.seqno = r.seqno /\ t.cmd = r.cmd
  /\ \/ r.asker = n /\ r.asked = t.peer /\ t.state \in AskerStates
     \/ r.asker = t.peer /\ r.asked = n /\ t.state \in AskedStates
  /\ n # t.peer /\ (r.asker = n \/ t.state = "RESPONSE_SENT")
       => Started(nxt) = After(r)

\* The transaction is of a logged request, and what it took for the answer carries
\* the same SeqNum in the same direction.
Tells(f, k, n, t, nxt) ==
  /\ t.id \in 1 .. k
  /\ OneEnd(f[t.id], n, t, nxt)
  /\ t.answered # None => t.answered \in 1 .. k /\ Same(f[t.id], f[t.answered])

\* A packet from n to p is one of the messages of a logged request.
Belongs(f, k, n, p, pkt) ==
  /\ pkt.id \in 1 .. k
  /\ pkt.seqno = f[pkt.id].seqno
  /\ pkt.type = "Response" => f[pkt.id].asker = p /\ f[pkt.id].asked = n
  /\ pkt.type # "Response" => f[pkt.id].asker = n /\ f[pkt.id].asked = p
  /\ pkt.type = "Request" => pkt.code = f[pkt.id].cmd

Carried(f, k, n, p) == {e \in SoundQueued : Belongs(f, k, n, p, e.pkt)}
Heard(f, k, n) == {m \in SoundInput : Belongs(f, k, m.from, n, m.pkt)}

AskedOK(f, k) ==
  \A i \in 1 .. k : <<f[i].asker, f[i].asked, f[i].cmd>> \in Asks
TransTell(f, k, pools, next) ==
  \A n \in Node, b \in Blocks :
    pools[n][b] # None => Tells(f, k, n, pools[n][b], next[n][pools[n][b].peer])
OutTells(f, k, queues) ==
  \A n, p \in Node : queues[n][p] \in Seq(Carried(f, k, n, p))
InboxTells(f, k, queues) == \A n \in Node : queues[n] \in Seq(Heard(f, k, n))

Log(f, k) == /\ AskedOK(f, k)
             /\ TransTell(f, k, trans, nbr)
             /\ OutTells(f, k, out)
             /\ InboxTells(f, k, inbox)

\* The SeqNum after k increments of s, as long as no SeqNum comes twice.
Nth(s, k) == IF s + k <= SeqMax THEN s + k ELSE s + k - SeqMax

\* Where nothing sets next_seqno back, the c[n][p] requests of n to p so far took
\* the SeqNums from s on in turn.
Numbered(f, k, c, s, next) ==
  \A n, p \in Node :
    OnlyCounts(n, p) =>
      /\ c[n][p] \in 0 .. k
      /\ Started(next[n][p]) = Nth(s, c[n][p])
      /\ \A i \in 1 .. k :
           f[i].asker = n /\ f[i].asked = p =>
             /\ f[i].turn \in 0 .. (c[n][p] - 1)
             /\ f[i].seqno = Nth(s, f[i].turn)
             /\ \A j \in 1 .. k :
                  /\ f[j].asker = n /\ f[j].asked = p /\ f[j].turn = f[i].turn
                  => i = j

Counted(f, k, c, s, next) ==
  /\ c \in [Node -> [Node -> Nat]] /\ s \in Seqno
  /\ MaxRequests <= SeqMax => Numbered(f, k, c, s, next)

PairInv == \E f, c, s : Log(f, requests) /\ Counted(f, requests, c, s, nbr)

-----------------------------------------------------------------------------
(***************************************************************************)
(* SeqNums in turn                                                         *)
(***************************************************************************)

LEMMA NthType ==
  ASSUME NEW s \in Seqno, NEW k \in 0 .. SeqMax
  PROVE  Nth(s, k) \in Seqno
  BY SixpConstants DEF Nth, Seqno

LEMMA NthIncrement ==
  ASSUME NEW s \in Seqno, NEW k \in Nat, k < SeqMax
  PROVE  Increment(Nth(s, k)) = Nth(s, k + 1)
  BY SixpConstants DEF Nth, Seqno, Increment

\* No SeqNum comes twice in SeqMax turns.
LEMMA NthDistinct ==
  ASSUME NEW s \in Seqno, NEW j \in Nat, NEW k \in Nat, j < SeqMax, k < SeqMax,
         Nth(s, j) = Nth(s, k)
  PROVE  j = k
  BY SixpConstants DEF Nth, Seqno

\* A step that makes no request leaves the numbering alone unless it moves the
\* next_seqno of a pair that only counts.
LEMMA CountKept ==
  ASSUME NEW f, NEW k, NEW c, NEW s, Counted(f, k, c, s, nbr),
         \A n, p \in Node :
           OnlyCounts(n, p) => Started(nbr'[n][p]) = Started(nbr[n][p])
  PROVE  Counted(f, k, c, s, nbr')
<1>2. ASSUME Numbered(f, k, c, s, nbr) PROVE Numbered(f, k, c, s, nbr')
  <2> SUFFICES ASSUME NEW n \in Node, NEW p \in Node, OnlyCounts(n, p)
               PROVE  /\ c[n][p] \in 0 .. k
                      /\ Started(nbr'[n][p]) = Nth(s, c[n][p])
                      /\ \A i \in 1 .. k :
                           f[i].asker = n /\ f[i].asked = p =>
                             /\ f[i].turn \in 0 .. (c[n][p] - 1)
                             /\ f[i].seqno = Nth(s, f[i].turn)
                             /\ \A j \in 1 .. k :
                                  /\ f[j].asker = n /\ f[j].asked = p
                                  /\ f[j].turn = f[i].turn
                                  => i = j
    BY DEF Numbered
  <2> QED
    BY <1>2 DEF Numbered
<1> QED
  BY <1>2 DEF Counted

-----------------------------------------------------------------------------
(***************************************************************************)
(* What keeps the log true                                                 *)
(***************************************************************************)

\* A longer log says the same of the older requests.
LEMMA LogGrows ==
  ASSUME NEW f, NEW g, NEW k \in Nat, \A i \in 1 .. k : g[i] = f[i],
         TransTell(f, k, trans, nbr), OutTells(f, k, out), InboxTells(f, k, inbox)
  PROVE  TransTell(g, k + 1, trans, nbr) /\ OutTells(g, k + 1, out)
         /\ InboxTells(g, k + 1, inbox)
<1>1. 1 .. k \subseteq 1 .. (k + 1)
  OBVIOUS
<1>2. ASSUME NEW n, NEW p, NEW pkt, Belongs(f, k, n, p, pkt)
      PROVE  Belongs(g, k + 1, n, p, pkt)
  BY <1>1, <1>2 DEF Belongs
<1>3. TransTell(g, k + 1, trans, nbr)
  BY <1>1 DEF TransTell, Tells
<1>4. OutTells(g, k + 1, out)
  <2> SUFFICES ASSUME NEW n \in Node, NEW p \in Node
               PROVE  out[n][p] \in Seq(Carried(g, k + 1, n, p))
    BY DEF OutTells
  <2>1. Carried(f, k, n, p) \subseteq Carried(g, k + 1, n, p)
    BY <1>2 DEF Carried
  <2> QED
    BY <2>1, WiderSeq DEF OutTells
<1>5. InboxTells(g, k + 1, inbox)
  <2> SUFFICES ASSUME NEW n \in Node PROVE inbox[n] \in Seq(Heard(g, k + 1, n))
    BY DEF InboxTells
  <2>1. Heard(f, k, n) \subseteq Heard(g, k + 1, n)
    BY <1>2 DEF Heard
  <2> QED
    BY <2>1, WiderSeq DEF InboxTells
<1> QED
  BY <1>3, <1>4, <1>5

\* sixtop_output() queues a message of a logged request.
LEMMA HandTells ==
  ASSUME NEW f, NEW k, OutOK, OutTells(f, k, out), NEW n \in Node, NEW p \in Node,
         NEW pkt \in Sound, NEW b \in Blocks \cup {None},
         Belongs(f, k, n, p, pkt), Hand(n, p, pkt, b)
  PROVE  OutTells(f, k, out')
<1>1. PICK e \in Carried(f, k, n, p) : e = [pkt |-> pkt, block |-> b, heard |-> FALSE]
  BY DEF Carried, SoundQueued
<1>2. out' = out \/ out' = [out EXCEPT ![n][p] = Append(@, e)]
  BY <1>1 DEF Hand
<1>3. Append(out[n][p], e) \in Seq(Carried(f, k, n, p))
  BY DEF OutTells
<1>4. ASSUME NEW m \in Node, NEW q \in Node
      PROVE  out'[m][q] \in Seq(Carried(f, k, m, q))
  <2>1. out[m][q] \in Seq(Carried(f, k, m, q))
    BY DEF OutTells
  <2>2. out'[m][q] = out[m][q] \/ (m = n /\ q = p /\ out'[m][q] = Append(out[n][p], e))
    BY <1>2 DEF OutOK
  <2> QED
    BY <1>3, <2>1, <2>2
<1> QED
  BY <1>4 DEF OutTells

\* A block gets a transaction that tells the truth, next_seqno of its peer the value
\* that goes with it, and no other transaction has that peer.
LEMMA TransTells ==
  ASSUME NEW f, NEW k, TablesOK, TransTell(f, k, trans, nbr),
         NEW n \in Node, NEW b \in Blocks,
         NEW t \in Trans, NEW s \in Seqno \cup {None}, Tells(f, k, n, t, s),
         \A d \in Blocks : trans[n][d] # None /\ trans[n][d].peer = t.peer => d = b,
         NEW pools, pools = [trans EXCEPT ![n][b] = t],
         NEW next, next = [nbr EXCEPT ![n][t.peer] = s]
  PROVE  TransTell(f, k, pools, next)
<1>0. t.peer \in Node
  BY DEF Trans
<1>1. ASSUME NEW m \in Node, NEW d \in Blocks, pools[m][d] # None
      PROVE  Tells(f, k, m, pools[m][d], next[m][pools[m][d].peer])
  <2>1. CASE m = n /\ d = b
    <3>1. pools[m][d] = t /\ next[m][t.peer] = s
      BY <1>0, <2>1 DEF TablesOK
    <3> QED
      BY <2>1, <3>1
  <2>2. CASE ~(m = n /\ d = b)
    <3>1. pools[m][d] = trans[m][d]
      BY <2>2 DEF TablesOK
    <3>2. trans[m][d].peer \in Node
      BY <1>1, <3>1, TransactionOf
    <3>3. m = n => trans[m][d].peer # t.peer
      BY <1>1, <2>2, <3>1
    <3>4. next[m][trans[m][d].peer] = nbr[m][trans[m][d].peer]
      BY <3>2, <3>3 DEF TablesOK
    <3>5. Tells(f, k, m, trans[m][d], nbr[m][trans[m][d].peer])
      BY <1>1, <3>1 DEF TransTell
    <3> QED
      BY <3>1, <3>4, <3>5
  <2> QED
    BY <2>1, <2>2
<1> QED
  BY <1>1 DEF TransTell

\* The same where next_seqno stays.
LEMMA TransMoveTells ==
  ASSUME NEW f, NEW k, TablesOK, TransTell(f, k, trans, nbr),
         NEW n \in Node, NEW b \in Blocks,
         trans[n][b] # None, NEW t \in Trans, t.peer = trans[n][b].peer,
         Tells(f, k, n, t, nbr[n][t.peer]),
         trans' = [trans EXCEPT ![n][b] = t], nbr' = nbr
  PROVE  TransTell(f, k, trans', nbr')
<1>1. t.peer \in Node
      /\ \A d \in Blocks : trans[n][d] # None /\ trans[n][d].peer = t.peer => d = b
  BY TransactionOf
<1>2. PICK s \in Seqno \cup {None} : s = nbr[n][t.peer]
  BY TransactionOf
<1>3. [nbr EXCEPT ![n][t.peer] = s] = nbr
  BY <1>1, <1>2 DEF TablesOK
<1>4. Tells(f, k, n, t, s)
  BY <1>2
<1>5. PICK next : next = [nbr EXCEPT ![n][t.peer] = s]
  OBVIOUS
<1>6. TransTell(f, k, trans', next)
  BY <1>1, <1>4, <1>5, TransTells
<1> QED
  BY <1>3, <1>5, <1>6

\* A node without a transaction with p changes next_seqno of p.
LEMMA NextTells ==
  ASSUME NEW f, NEW k, TablesOK, TransTell(f, k, trans, nbr),
         NEW n \in Node, NEW p \in Node,
         With(n, p) = {}, NEW s, trans' = trans, nbr' = [nbr EXCEPT ![n][p] = s]
  PROVE  TransTell(f, k, trans', nbr')
<1>1. ASSUME NEW m \in Node, NEW d \in Blocks, trans'[m][d] # None
      PROVE  Tells(f, k, m, trans'[m][d], nbr'[m][trans'[m][d].peer])
  <2>1. trans[m][d].peer \in Node /\ trans'[m][d] = trans[m][d]
    BY <1>1, TransactionOf
  <2>2. m = n => trans[m][d].peer # p
    BY <1>1, NoneWith
  <2>3. nbr'[m][trans[m][d].peer] = nbr[m][trans[m][d].peer]
    BY <2>1, <2>2 DEF TablesOK
  <2> QED
    BY <1>1, <2>1, <2>3 DEF TransTell
<1> QED
  BY <1>1 DEF TransTell
\* A node gives up one block.
LEMMA FreeTells ==
  ASSUME NEW f, NEW k, TablesOK, TransTell(f, k, trans, nbr),
         NEW n \in Node, NEW b \in Blocks,
         trans' = [trans EXCEPT ![n][b] = None], nbr' = nbr
  PROVE  TransTell(f, k, trans', nbr')
<1>1. ASSUME NEW m \in Node, NEW d \in Blocks, trans'[m][d] # None
      PROVE  trans'[m][d] = trans[m][d]
  BY <1>1 DEF TablesOK
<1> QED
  BY <1>1 DEF TransTell

\* The MAC has ended with the packet at the head of a queue.
LEMMA TailTells ==
  ASSUME NEW f, NEW k, OutOK, OutTells(f, k, out), NEW n \in Node, NEW p \in Node,
         out[n][p] # <<>>, out' = [out EXCEPT ![n][p] = Tail(@)]
  PROVE  OutTells(f, k, out')
<1>1. Tail(out[n][p]) \in Seq(Carried(f, k, n, p))
  BY DEF OutTells
<1>2. ASSUME NEW m \in Node, NEW q \in Node
      PROVE  out'[m][q] \in Seq(Carried(f, k, m, q))
  <2>1. out[m][q] \in Seq(Carried(f, k, m, q))
    BY DEF OutTells
  <2>2. out'[m][q] = out[m][q] \/ (m = n /\ q = p /\ out'[m][q] = Tail(out[n][p]))
    BY DEF OutOK
  <2> QED
    BY <1>1, <2>1, <2>2
<1> QED
  BY <1>2 DEF OutTells

\* A packet of the input queue is of a logged request, and so is the rest of the queue.
LEMMA TakingTells ==
  ASSUME NEW f, NEW k, InboxOK, InboxTells(f, k, inbox), NEW n \in Node, NEW type,
         Taking(n, type)
  PROVE  /\ InboxTells(f, k, inbox')
         /\ Belongs(f, k, Head(inbox[n]).from, n, Head(inbox[n]).pkt)
<1>1. inbox[n] \in Seq(Heard(f, k, n)) /\ inbox[n] # <<>>
  BY DEF Taking, InboxTells
<1>2. Head(inbox[n]) \in Heard(f, k, n) /\ Tail(inbox[n]) \in Seq(Heard(f, k, n))
  BY <1>1
<1>3. inbox' = [inbox EXCEPT ![n] = Tail(@)]
  BY DEF Taking
<1>4. InboxTells(f, k, inbox')
  BY <1>2, <1>3 DEF InboxTells, InboxOK
<1> QED
  BY <1>2, <1>4 DEF Heard

\* What a step that makes no request keeps.
Kept(f, k, c, s) == Log(f, k) /\ Counted(f, k, c, s, nbr)

LEMMA StepKeeps ==
  ASSUME NEW f, NEW k, NEW c, NEW s, Kept(f, k, c, s),
         TransTell(f, k, trans', nbr'), OutTells(f, k, out'), InboxTells(f, k, inbox'),
         \A n, p \in Node :
           OnlyCounts(n, p) => Started(nbr'[n][p]) = Started(nbr[n][p])
  PROVE  Kept(f, k, c, s)'
<1>1. Counted(f, k, c, s, nbr')
  BY CountKept DEF Kept, Counted
<1> QED
  BY <1>1 DEF Kept, Log, AskedOK

\* n does not only count towards a peer that asked it something.
LEMMA AskedNotOnlyCounts ==
  ASSUME NEW f, NEW k, AskedOK(f, k), NEW i \in 1 .. k, NEW n \in Node, NEW p \in Node,
         f[i].asker = p, f[i].asked = n
  PROVE  ~OnlyCounts(n, p)
<1>1. <<p, n, f[i].cmd>> \in Asks
  BY DEF AskedOK
<1>2. f[i].cmd \in Command
  BY <1>1, SixpConstants DEF Command
<1> QED
  BY <1>1, <1>2 DEF OnlyCounts

\* What the log says of one transaction.
LEMMA TellsOf ==
  ASSUME NEW f, NEW k, TransTell(f, k, trans, nbr),
         NEW n \in Node, NEW b \in Blocks,
         trans[n][b] # None
  PROVE  Tells(f, k, n, trans[n][b], nbr[n][trans[n][b].peer])
  BY DEF TransTell

\* sixp_output() of a response goes back to the one that asked.
LEMMA RespondTells ==
  ASSUME NEW f, NEW k, SixpInv, Log(f, k), NEW n \in Node, NEW b \in Blocks,
         NEW t \in Trans, t.state = "REQUEST_RECEIVED",
         Tells(f, k, n, t, nbr[n][t.peer]),
         \A d \in Blocks : trans[n][d] # None /\ trans[n][d].peer = t.peer => d = b,
         NEW rc \in Code, Respond(n, b, t, rc)
  PROVE  /\ TransTell(f, k, trans', nbr') /\ OutTells(f, k, out')
         /\ \A m, p \in Node : Started(nbr'[m][p]) = Started(nbr[m][p])
<1> USE DEF SixpInv, Log
<1>1. PICK t1 \in Trans, s \in Seqno \cup {None} :
        /\ trans' = [trans EXCEPT ![n][b] = t1]
        /\ nbr' = [nbr EXCEPT ![n][t1.peer] = s]
        /\ t1.peer = t.peer /\ t1.cmd = t.cmd /\ t1.seqno = t.seqno
        /\ t1.id = t.id /\ t1.answered = t.answered
        /\ Started(s) = Started(nbr[n][t.peer])
        /\ \/ t1.state = t.state /\ out' = out
           \/ /\ t1.state = "RESPONSE_SENDING"
              /\ \E pkt \in Sound :
                   /\ pkt = [type |-> "Response", code |-> rc,
                             seqno |-> t.seqno, id |-> t.id]
                   /\ Hand(n, t.peer, pkt, b)
  BY RespondSteps
<1>2. t.peer \in Node
  BY DEF Trans
<1>3. f[t.id].asker = t.peer /\ f[t.id].asked = n
  BY DEF Tells, OneEnd, AskerStates
<1>4. Tells(f, k, n, t1, s)
  <2>1. t1.state \in {"REQUEST_RECEIVED", "RESPONSE_SENDING"}
    BY <1>1
  <2> QED
    BY <1>1, <1>3, <2>1 DEF Tells, OneEnd, AskedStates
<1>5. TransTell(f, k, trans', nbr')
  <2>1. \A d \in Blocks : trans[n][d] # None /\ trans[n][d].peer = t1.peer => d = b
    BY <1>1
  <2> QED
    BY <1>1, <1>4, <2>1, TransTells
<1>6. OutTells(f, k, out')
  <2>1. CASE out' = out
    BY <2>1 DEF OutTells
  <2>2. ASSUME NEW pkt \in Sound, Hand(n, t.peer, pkt, b),
               pkt = [type |-> "Response", code |-> rc, seqno |-> t.seqno, id |-> t.id]
        PROVE  OutTells(f, k, out')
    <3>1. Belongs(f, k, n, t.peer, pkt)
      BY <1>3, <2>2 DEF Belongs, Tells, OneEnd
    <3> QED
      BY <1>2, <2>2, <3>1, HandTells
  <2> QED
    BY <1>1, <2>1, <2>2
<1>7. ASSUME NEW m \in Node, NEW p \in Node
      PROVE  Started(nbr'[m][p]) = Started(nbr[m][p])
  <2>1. nbr'[m][p] = nbr[m][p] \/ (m = n /\ p = t.peer /\ nbr'[m][p] = s)
    BY <1>1, <1>2 DEF TablesOK
  <2> QED
    BY <1>1, <2>1
<1> QED
  BY <1>5, <1>6, <1>7

-----------------------------------------------------------------------------
(***************************************************************************)
(* The scheduling function's steps                                         *)
(***************************************************************************)

\* A step that changes neither tables nor queues of packets keeps what they tell.
LEMMA SameTells ==
  ASSUME NEW f, NEW k, Log(f, k)
  PROVE  /\ trans' = trans /\ nbr' = nbr => TransTell(f, k, trans', nbr')
         /\ out' = out => OutTells(f, k, out')
         /\ inbox' = inbox => InboxTells(f, k, inbox')
  BY DEF Log

\* A step of the SF that makes no request.
LEMMA AnsweringKeeps ==
  ASSUME NEW f, NEW k, NEW c, NEW s, SixpInv, Kept(f, k, c, s), NEW n \in Node,
         \/ \E p \in Node : RequestAbandoned(n, p)
         \/ \E b \in Blocks : Reply(n, b) \/ Confirm(n, b)
  PROVE  Kept(f, k, c, s)'
<1> USE DEF SixpInv
<1>1. Log(f, k) /\ TransTell(f, k, trans, nbr) /\ OutTells(f, k, out)
  BY DEF Kept, Log
<1>2. ASSUME NEW p \in Node, RequestAbandoned(n, p) PROVE Kept(f, k, c, s)'
  <2>1. PICK z \in Seqno \cup {None} : z = 0
    BY SixpConstants DEF Seqno
  <2>2. With(n, p) = {} /\ trans' = trans /\ nbr' = [nbr EXCEPT ![n][p] = z]
        /\ nbr[n][p] = None /\ out' = out /\ inbox' = inbox
    BY <1>2, <2>1 DEF RequestAbandoned
  <2>3. TransTell(f, k, trans', nbr')
    BY <1>1, <2>2, NextTells
  <2>4. \A m, q \in Node : Started(nbr'[m][q]) = Started(nbr[m][q])
    BY <2>1, <2>2, SixpConstants DEF TablesOK, Started
  <2> QED
    BY <1>1, <2>2, <2>3, <2>4, SameTells, StepKeeps
<1>3. ASSUME NEW b \in Blocks, Reply(n, b) PROVE Kept(f, k, c, s)'
  <2>1. /\ TransTell(f, k, trans', nbr') /\ OutTells(f, k, out')
        /\ \A m, p \in Node : Started(nbr'[m][p]) = Started(nbr[m][p])
    BY <1>1, <1>3, TransactionOf, TellsOf, RespondTells DEF Reply, Code
  <2>2. inbox' = inbox
    BY <1>3 DEF Reply
  <2> QED
    BY <1>1, <2>1, <2>2, SameTells, StepKeeps
<1>4. ASSUME NEW b \in Blocks, Confirm(n, b) PROVE Kept(f, k, c, s)'
  <2>1. PICK t \in Trans : t = trans[n][b] /\ trans[n][b] # None
    BY <1>4, TransactionOf DEF Confirm
  <2>2. t.peer \in Node /\ t.seqno \in Seqno /\ t.id \in 1 .. MaxRequests
    BY DEF Trans
  <2>4. PICK t1 : t1 = [t EXCEPT !.state = "CONFIRMATION_SENDING"]
    OBVIOUS
  <2>5. /\ t1 \in Trans /\ t1.peer = t.peer /\ t1.cmd = t.cmd /\ t1.id = t.id
        /\ t1.seqno = t.seqno /\ t1.answered = t.answered
        /\ t1.state = "CONFIRMATION_SENDING" /\ t.state = "RESPONSE_RECEIVED"
    BY <1>4, <2>1, <2>4 DEF Trans, TransState, Confirm
  <2>6. trans' = [trans EXCEPT ![n][b] = t1] /\ nbr' = nbr /\ inbox' = inbox
    BY <1>4, <2>1, <2>4 DEF Confirm, TablesOK
  <2>7. Tells(f, k, n, t, nbr[n][t.peer])
    BY <1>1, <2>1, TellsOf
  <2>8. f[t.id].asker = n /\ f[t.id].asked = t.peer
    BY <2>5, <2>7 DEF Tells, OneEnd, AskedStates
  <2>9. Tells(f, k, n, t1, nbr[n][t1.peer])
    BY <2>5, <2>7, <2>8 DEF Tells, OneEnd, AskerStates
  <2>10. TransTell(f, k, trans', nbr')
    BY <1>1, <2>1, <2>5, <2>6, <2>9, TransMoveTells
  <2>11. PICK pkt \in Sound : pkt = [type |-> "Confirmation", code |-> "SUCCESS",
                                     seqno |-> t.seqno, id |-> t.id]
    BY <2>2, ResponseSound DEF Code
  <2>12. Hand(n, t.peer, pkt, b)
    BY <1>4, <2>1, <2>11 DEF Confirm
  <2>13. Belongs(f, k, n, t.peer, pkt)
    BY <2>7, <2>8, <2>11 DEF Belongs, Tells, OneEnd
  <2>14. OutTells(f, k, out')
    BY <1>1, <2>2, <2>12, <2>13, HandTells
  <2> QED
    BY <1>1, <2>6, <2>10, <2>14, SameTells, StepKeeps
<1> QED
  BY <1>2, <1>3, <1>4

\* A request is logged as it is made.
LEMMA RequestLogs ==
  ASSUME NEW f, NEW c, NEW s, SixpInv, NEW k, k = requests, Kept(f, k, c, s),
         NEW n \in Node, NEW p \in Node, NEW cmd \in Command, Request(n, p, cmd)
  PROVE  PairInv'
<1> USE DEF SixpInv
<1>1. k \in Nat /\ k + 1 \in 1 .. MaxRequests /\ requests' = k + 1
  BY SixpConstants DEF Request, CountersOK
<1>2. PICK nxt \in Seqno \cup {None} : nxt = nbr[n][p]
  BY DEF TablesOK
<1>3. PICK sn \in Seqno : sn = Started(nxt)
  BY StartedType
<1>4. PICK e : e = Entry(n, p, cmd, sn, c[n][p])
  OBVIOUS
<1>5. PICK g : g = [i \in 1 .. MaxRequests |-> IF i = k + 1 THEN e ELSE f[i]]
  OBVIOUS
<1>6. g[k + 1] = e /\ \A i \in 1 .. k : g[i] = f[i]
  BY <1>1, <1>5, SixpConstants
<1>7. e.asker = n /\ e.asked = p /\ e.cmd = cmd /\ e.seqno = sn /\ e.turn = c[n][p]
  BY <1>4 DEF Entry
<1>8. PICK pkt : pkt = [type |-> "Request", code |-> cmd, seqno |-> sn, id |-> k + 1]
  OBVIOUS
<1>9. pkt \in Sound /\ pkt \in Packet
  BY <1>1, <1>8 DEF Sound, Packet, Code
<1>10. PICK b \in Blocks : b = Min(FreeBlocks(n))
  BY FirstFree DEF Request
<1>12. PICK t \in Trans : t = NewTrans(p, pkt, "REQUEST_SENDING")
  BY <1>8, <1>9, NewTransType DEF TransState
<1>13. /\ t \in Trans /\ t.peer = p /\ t.cmd = cmd /\ t.state = "REQUEST_SENDING"
       /\ t.seqno = sn /\ t.id = k + 1 /\ t.answered = None
  BY <1>8, <1>12 DEF NewTrans
<1>14. PICK z \in Seqno : z = IF cmd = "Clear" THEN 0 ELSE Increment(sn)
  BY IncrementType, SixpConstants DEF Seqno
<1>15. /\ With(n, p) = {} /\ <<n, p, cmd>> \in Asks
       /\ trans' = [trans EXCEPT ![n][b] = t]
       /\ nbr' = [nbr EXCEPT ![n][p] = z]
       /\ Hand(n, p, pkt, b) /\ inbox' = inbox
  <2>1. nbr' = [nbr EXCEPT ![n][p] = IF cmd = "Clear" THEN 0 ELSE Increment(pkt.seqno)]
    BY <1>2, <1>3, <1>8 DEF Request
  <2>2. nbr' = [nbr EXCEPT ![n][p] = z]
    BY <1>8, <1>14, <2>1
  <2> QED
    BY <1>2, <1>3, <1>8, <1>10, <1>12, <2>2 DEF Request
<1>16. /\ TransTell(g, k + 1, trans, nbr) /\ OutTells(g, k + 1, out)
       /\ InboxTells(g, k + 1, inbox)
  BY <1>1, <1>6, LogGrows DEF Kept, Log
<1>17. AskedOK(g, k + 1)
  <2>1. AskedOK(f, k)
    BY DEF Kept, Log
  <2>2. \A i \in 1 .. (k + 1) : i = k + 1 \/ i \in 1 .. k
    BY <1>1
  <2> QED
    BY <1>6, <1>7, <1>15, <2>1, <2>2 DEF AskedOK
<1>18. TransTell(g, k + 1, trans', nbr')
  <2>1. Started(z) = After(e)
    <3>1. z # None
      BY SixpConstants DEF Seqno
    <3> QED
      BY <1>7, <1>14, <3>1 DEF After, Started
  <2>2. Tells(g, k + 1, n, t, z)
    BY <1>1, <1>6, <1>7, <1>13, <2>1 DEF Tells, OneEnd, AskerStates
  <2>3. \A d \in Blocks : trans[n][d] # None /\ trans[n][d].peer = t.peer => d = b
    BY <1>13, <1>15, NoneWith
  <2>4. nbr' = [nbr EXCEPT ![n][t.peer] = z]
    BY <1>13, <1>15
  <2>5. t \in Trans /\ z \in Seqno \cup {None} /\ trans' = [trans EXCEPT ![n][b] = t]
    BY <1>13, <1>14, <1>15
  <2> QED
    BY <1>16, <2>2, <2>3, <2>4, <2>5, TransTells
<1>19. OutTells(g, k + 1, out')
  <2>1. Belongs(g, k + 1, n, p, pkt)
    BY <1>1, <1>6, <1>7, <1>8 DEF Belongs
  <2> QED
    BY <1>9, <1>15, <1>16, <2>1, HandTells
<1>20. InboxTells(g, k + 1, inbox')
  BY <1>15, <1>16
<1>21. Log(g, k + 1)'
  BY <1>17, <1>18, <1>19, <1>20 DEF Log, AskedOK
<1>22. PICK d : d = [c EXCEPT ![n][p] = c[n][p] + 1]
  OBVIOUS
<1>23. c \in [Node -> [Node -> Nat]] /\ s \in Seqno /\ d \in [Node -> [Node -> Nat]]
       /\ d[n][p] = c[n][p] + 1
  BY <1>22 DEF Kept, Counted
<1>24. ASSUME MaxRequests <= SeqMax PROVE Numbered(g, k + 1, d, s, nbr')
  <2>1. Numbered(f, k, c, s, nbr)
    BY <1>24 DEF Kept, Counted
  <2> SUFFICES ASSUME NEW m \in Node, NEW q \in Node, OnlyCounts(m, q)
               PROVE  /\ d[m][q] \in 0 .. (k + 1)
                      /\ Started(nbr'[m][q]) = Nth(s, d[m][q])
                      /\ \A i \in 1 .. (k + 1) :
                           g[i].asker = m /\ g[i].asked = q =>
                             /\ g[i].turn \in 0 .. (d[m][q] - 1)
                             /\ g[i].seqno = Nth(s, g[i].turn)
                             /\ \A j \in 1 .. (k + 1) :
                                  /\ g[j].asker = m /\ g[j].asked = q
                                  /\ g[j].turn = g[i].turn
                                  => i = j
    BY DEF Numbered
  <2>2. /\ c[m][q] \in 0 .. k
        /\ Started(nbr[m][q]) = Nth(s, c[m][q])
        /\ \A i \in 1 .. k :
             f[i].asker = m /\ f[i].asked = q =>
               /\ f[i].turn \in 0 .. (c[m][q] - 1)
               /\ f[i].seqno = Nth(s, f[i].turn)
               /\ \A j \in 1 .. k :
                    /\ f[j].asker = m /\ f[j].asked = q /\ f[j].turn = f[i].turn
                    => i = j
    BY <2>1 DEF Numbered
  <2>3. \A i \in 1 .. (k + 1) : i = k + 1 \/ i \in 1 .. k
    BY <1>1
  <2>4. CASE m = n /\ q = p
    <3>1. d[m][q] = c[m][q] + 1 /\ c[m][q] \in Nat /\ c[m][q] < SeqMax
      BY <1>1, <1>23, <1>24, <2>2, <2>4, SixpConstants
    <3>2. sn = Nth(s, c[m][q])
      BY <1>2, <1>3, <2>2, <2>4
    <3>3. cmd # "Clear"
      BY <1>15, <2>4 DEF OnlyCounts
    <3>4. Started(nbr'[m][q]) = Nth(s, c[m][q] + 1)
      <4>1. nbr'[m][q] = z
        BY <1>15, <2>4 DEF TablesOK
      <4>2. z # None
        BY SixpConstants DEF Seqno
      <4>3. Increment(Nth(s, c[m][q])) = Nth(s, c[m][q] + 1)
        BY <1>23, <3>1, NthIncrement
      <4> QED
        BY <1>14, <3>2, <3>3, <4>1, <4>2, <4>3 DEF Started
    <3>5. ASSUME NEW i \in 1 .. (k + 1), g[i].asker = m, g[i].asked = q
          PROVE  /\ g[i].turn \in 0 .. c[m][q]
                 /\ g[i].seqno = Nth(s, g[i].turn)
                 /\ i # k + 1 => g[i].turn # c[m][q]
      <4>1. CASE i = k + 1
        BY <1>6, <1>7, <2>4, <3>1, <3>2, <4>1
      <4>2. CASE i \in 1 .. k
        BY <1>6, <2>2, <3>1, <3>5, <4>2
      <4> QED
        BY <2>3, <4>1, <4>2
    <3>6. ASSUME NEW i \in 1 .. (k + 1), NEW j \in 1 .. (k + 1),
                 g[i].asker = m, g[i].asked = q, g[j].asker = m, g[j].asked = q,
                 g[j].turn = g[i].turn
          PROVE  i = j
      <4>1. g[k + 1].turn = c[m][q]
        BY <1>6, <1>7, <2>4
      <4>2. CASE i = k + 1 \/ j = k + 1
        BY <3>5, <3>6, <4>1, <4>2
      <4>3. CASE i \in 1 .. k /\ j \in 1 .. k
        BY <1>6, <2>2, <3>6, <4>3
      <4> QED
        BY <2>3, <4>2, <4>3
    <3> QED
      BY <1>1, <2>2, <3>1, <3>4, <3>5, <3>6
  <2>5. CASE ~(m = n /\ q = p)
    <3>1. d[m][q] = c[m][q] /\ nbr'[m][q] = nbr[m][q]
      BY <1>15, <1>22, <1>23, <2>5 DEF TablesOK
    <3>2. \A i \in 1 .. (k + 1) :
            g[i].asker = m /\ g[i].asked = q => i \in 1 .. k /\ g[i] = f[i]
      BY <1>6, <1>7, <2>3, <2>5
    <3> QED
      BY <1>1, <2>2, <3>1, <3>2
  <2> QED
    BY <2>4, <2>5
<1>25. Counted(g, k + 1, d, s, nbr')
  BY <1>23, <1>24 DEF Counted
<1> QED
  BY <1>1, <1>21, <1>25 DEF PairInv, Log

-----------------------------------------------------------------------------
(***************************************************************************)
(* The MAC, timers and power cycles                                        *)
(***************************************************************************)

\* The MAC has ended with a packet: a response that arrived sets next_seqno to what
\* the request has left at the asker.
LEMMA MacCallbackKeeps ==
  ASSUME NEW f, NEW k, NEW c, NEW s, SixpInv, Kept(f, k, c, s),
         NEW n \in Node, NEW p \in Node, NEW ok \in BOOLEAN, MacCallback(n, p, ok)
  PROVE  Kept(f, k, c, s)'
<1> USE DEF SixpInv
<1>1. Log(f, k) /\ TransTell(f, k, trans, nbr) /\ OutTells(f, k, out) /\ AskedOK(f, k)
  BY DEF Kept, Log
<1>2. out[n][p] # <<>> /\ out' = [out EXCEPT ![n][p] = Tail(@)] /\ inbox' = inbox
  BY DEF MacCallback
<1>3. OutTells(f, k, out') /\ InboxTells(f, k, inbox')
  BY <1>1, <1>2, TailTells, SameTells
<1>4. PICK e \in SoundQueued : e = Head(out[n][p])
  BY <1>2 DEF OutOK
<1>5. CASE e.block = None \/ trans[n][e.block] = None
  <2>1. trans' = trans /\ nbr' = nbr
    BY <1>4, <1>5 DEF MacCallback
  <2> QED
    BY <1>1, <1>3, <2>1, SameTells, StepKeeps
<1>6. CASE ~(e.block = None \/ trans[n][e.block] = None)
  <2>1. PICK b \in Blocks : b = e.block /\ trans[n][b] # None
    BY <1>6 DEF SoundQueued
  <2>2. PICK t \in Trans : t = trans[n][b]
    BY <2>1, TransactionOf
  <2>3. PICK nxt \in Seqno \cup {None} : nxt = nbr[n][t.peer]
    BY <2>1, <2>2, TransactionOf
  <2>4. CountsFor(t, nxt) /\ t.peer \in Node
        /\ \A d \in Blocks : trans[n][d] # None /\ trans[n][d].peer = t.peer => d = b
    BY <2>1, <2>2, <2>3, TransactionOf
  <2>5. Tells(f, k, n, t, nxt)
    BY <1>1, <2>1, <2>2, <2>3, TellsOf
  <2>6. PICK z \in TransState : z = Reported(t.state, ok)
    BY DEF Reported, Trans, TransState
  <2>7. PICK t1 : t1 = [t EXCEPT !.state = z]
    OBVIOUS
  <2>8. /\ t1 \in Trans /\ t1.peer = t.peer /\ t1.cmd = t.cmd /\ t1.seqno = t.seqno
        /\ t1.id = t.id /\ t1.answered = t.answered /\ t1.state = z
    BY <2>7 DEF Trans
  <2>9. trans' = [trans EXCEPT ![n][b] = t1]
    BY <1>4, <1>6, <2>1, <2>2, <2>6, <2>7 DEF MacCallback, TablesOK
  <2>10. /\ t.state \in AskerStates => z \in AskerStates
         /\ t.state \in AskedStates => z \in AskedStates
    BY <2>6 DEF Reported, AskerStates, AskedStates
  <2>11. CASE z = "RESPONSE_SENT" /\ z # t.state
    <3>1. t.state = "RESPONSE_SENDING"
      BY <2>6, <2>11 DEF Reported
    <3>2. f[t.id].asker = t.peer /\ f[t.id].asked = n /\ t.id \in 1 .. k
      BY <2>5, <3>1 DEF Tells, OneEnd, AskerStates
    <3>3. t.seqno \in Seqno
      BY DEF Trans
    <3>4. PICK w \in Seqno \cup {None} : w = Synchronised(t, nxt)
      BY <3>3, IncrementType DEF Synchronised
    <3>5. Started(w) = After(f[t.id])
      <4>1. t.seqno = f[t.id].seqno /\ t.cmd = f[t.id].cmd
        BY <2>5 DEF Tells, OneEnd
      <4>2. CASE t.cmd = "Clear"
        BY <2>4, <3>1, <3>4, <4>1, <4>2 DEF CountsFor, Synchronised, After
      <4>3. CASE t.cmd # "Clear"
        <5>1. w = Increment(t.seqno) /\ w # None
          BY <2>4, <3>1, <3>3, <3>4, <4>3, IncrementType DEF CountsFor, Synchronised
        <5> QED
          BY <4>1, <4>3, <5>1 DEF After, Started
      <4> QED
        BY <4>2, <4>3
    <3>6. Tells(f, k, n, t1, w)
      BY <2>5, <2>8, <2>11, <3>2, <3>5 DEF Tells, OneEnd, AskedStates
    <3>7. nbr' = [nbr EXCEPT ![n][t.peer] = w]
      <4>1. nbr' = [nbr EXCEPT ![n][t.peer] = Synchronised(t, @)]
        BY <1>4, <1>6, <2>1, <2>2, <2>6, <2>11 DEF MacCallback
      <4> QED
        BY <2>3, <2>4, <3>4, <4>1 DEF TablesOK
    <3>8. TransTell(f, k, trans', nbr')
      <4>1. nbr' = [nbr EXCEPT ![n][t1.peer] = w] /\ t1 \in Trans
            /\ \A d \in Blocks : trans[n][d] # None /\ trans[n][d].peer = t1.peer => d = b
        BY <2>4, <2>8, <3>7
      <4> QED
        BY <1>1, <2>9, <3>6, <4>1, TransTells
    <3>9. ASSUME NEW m \in Node, NEW q \in Node, OnlyCounts(m, q)
          PROVE  Started(nbr'[m][q]) = Started(nbr[m][q])
      <4>1. ~OnlyCounts(n, t.peer)
        BY <1>1, <2>4, <3>2, AskedNotOnlyCounts
      <4> QED
        BY <3>7, <3>9, <4>1 DEF TablesOK
    <3> QED
      BY <1>3, <3>8, <3>9, StepKeeps
  <2>12. CASE ~(z = "RESPONSE_SENT" /\ z # t.state)
    <3>1. nbr' = nbr
      BY <1>4, <1>6, <2>1, <2>2, <2>6, <2>12 DEF MacCallback
    <3>2. Tells(f, k, n, t1, nxt)
      BY <2>5, <2>8, <2>10, <2>12 DEF Tells, OneEnd
    <3>3. TransTell(f, k, trans', nbr')
      BY <1>1, <2>1, <2>2, <2>3, <2>8, <2>9, <3>1, <3>2, TransMoveTells
    <3> QED
      BY <1>3, <3>1, <3>3, StepKeeps
  <2> QED
    BY <2>11, <2>12
<1> QED
  BY <1>5, <1>6

\* A frame that is heard takes its message to the input queue of the peer.
LEMMA TransmitKeeps ==
  ASSUME NEW f, NEW k, NEW c, NEW s, SixpInv, Kept(f, k, c, s),
         NEW n \in Node, NEW p \in Node, Transmit(n, p)
  PROVE  Kept(f, k, c, s)'
<1> USE DEF SixpInv
<1>1. Log(f, k) /\ OutTells(f, k, out) /\ InboxTells(f, k, inbox)
  BY DEF Kept, Log
<1>2. trans' = trans /\ nbr' = nbr /\ out[n][p] # <<>>
  BY DEF Transmit
<1>3. out[n][p] \in Seq(Carried(f, k, n, p))
  BY <1>1 DEF OutTells
<1>4. PICK e \in Carried(f, k, n, p) : e = Head(out[n][p]) /\ e = out[n][p][1]
  BY <1>2, <1>3
<1>5. OutTells(f, k, out')
  <2>1. PICK e1 \in Carried(f, k, n, p) : e1 = [e EXCEPT !.heard = TRUE]
    BY DEF Carried, SoundQueued
  <2>2. [out[n][p] EXCEPT ![1] = e1] \in Seq(Carried(f, k, n, p))
    BY <1>2, <1>3, <2>1
  <2>3. out' = [out EXCEPT ![n][p] = [out[n][p] EXCEPT ![1] = e1]]
    BY <1>2, <1>4, <2>1 DEF Transmit, OutOK
  <2>4. ASSUME NEW m \in Node, NEW q \in Node
        PROVE  out'[m][q] \in Seq(Carried(f, k, m, q))
    <3>1. out'[m][q] = out[m][q]
          \/ (m = n /\ q = p /\ out'[m][q] = [out[n][p] EXCEPT ![1] = e1])
      BY <2>3 DEF OutOK
    <3> QED
      BY <1>1, <2>2, <3>1 DEF OutTells
  <2> QED
    BY <2>4 DEF OutTells
<1>6. InboxTells(f, k, inbox')
  <2>1. PICK m \in Heard(f, k, p) : m = [from |-> n, pkt |-> e.pkt]
    BY DEF Heard, SoundInput, Carried, SoundQueued
  <2>2. inbox' = [inbox EXCEPT ![p] = Append(@, m)]
    BY <1>4, <2>1 DEF Transmit
  <2> QED
    BY <1>1, <2>1, <2>2 DEF InboxTells, InboxOK
<1> QED
  BY <1>1, <1>2, <1>5, <1>6, SameTells, StepKeeps

\* A transaction is over or its time is out.
LEMMA TimerStepKeeps ==
  ASSUME NEW f, NEW k, NEW c, NEW s, SixpInv, Kept(f, k, c, s),
         NEW n \in Node, NEW b \in Blocks, TimerStep(n, b)
  PROVE  Kept(f, k, c, s)'
<1> USE DEF SixpInv
<1>1. Log(f, k) /\ TransTell(f, k, trans, nbr)
  BY DEF Kept, Log
<1>2. nbr' = nbr /\ out' = out /\ inbox' = inbox
  BY DEF TimerStep, Process, Timeout
<1>3. TransTell(f, k, trans', nbr')
  <2>1. CASE Process(n, b)
    BY <1>1, <2>1, FreeTells DEF Process
  <2>2. CASE Timeout(n, b)
    <3>1. PICK t \in Trans : t = trans[n][b] /\ trans[n][b] # None
      BY <2>2, TransactionOf DEF Timeout
    <3>2. PICK t1 : t1 = [t EXCEPT !.state = "TERMINATING"]
      OBVIOUS
    <3>3. /\ t1 \in Trans /\ t1.peer = t.peer /\ t1.cmd = t.cmd /\ t1.seqno = t.seqno
          /\ t1.id = t.id /\ t1.answered = t.answered /\ t1.state = "TERMINATING"
      BY <3>2 DEF Trans, TransState
    <3>4. trans' = [trans EXCEPT ![n][b] = t1]
      BY <2>2, <3>1, <3>2 DEF Timeout, TablesOK
    <3>5. Tells(f, k, n, t, nbr[n][t.peer])
      BY <1>1, <3>1, TellsOf
    <3>6. Tells(f, k, n, t1, nbr[n][t1.peer])
      BY <3>3, <3>5 DEF Tells, OneEnd, AskerStates, AskedStates
    <3> QED
      BY <1>1, <1>2, <3>1, <3>3, <3>4, <3>6, TransMoveTells
  <2> QED
    BY <2>1, <2>2 DEF TimerStep
<1> QED
  BY <1>1, <1>2, <1>3, SameTells, StepKeeps

\* A power cycle forgets; what the others hold, and what is on its way, stays true.
LEMMA RestartKeeps ==
  ASSUME NEW f, NEW k, NEW c, NEW s, SixpInv, Kept(f, k, c, s),
         NEW n \in Node, Restart(n)
  PROVE  Kept(f, k, c, s)'
<1> USE DEF SixpInv
<1>1. /\ TransTell(f, k, trans, nbr) /\ OutTells(f, k, out)
      /\ InboxTells(f, k, inbox)
  BY DEF Kept, Log
<1>2. TransTell(f, k, trans', nbr')
  <2>1. ASSUME NEW m \in Node, NEW b \in Blocks, trans'[m][b] # None
        PROVE  m # n /\ trans'[m] = trans[m] /\ nbr'[m] = nbr[m]
    BY <2>1 DEF Restart, TablesOK
  <2> QED
    BY <1>1, <2>1 DEF TransTell
<1>3. OutTells(f, k, out')
  BY <1>1 DEF Restart, OutTells, OutOK
<1>4. InboxTells(f, k, inbox')
  BY <1>1 DEF Restart, InboxTells, InboxOK
<1>5. \A m, q \in Node : OnlyCounts(m, q) => nbr'[m][q] = nbr[m][q]
  BY DEF Restart, OnlyCounts, TablesOK
<1> QED
  BY <1>2, <1>3, <1>4, <1>5, StepKeeps

-----------------------------------------------------------------------------
(***************************************************************************)
(* Packets in                                                              *)
(***************************************************************************)

\* An error answers the request it is sent back for.
LEMMA SendBackTells ==
  ASSUME NEW f, NEW k, OutOK, OutTells(f, k, out), NEW n \in Node, NEW p \in Node,
         NEW pkt \in Sound, pkt.type = "Request", Belongs(f, k, p, n, pkt),
         NEW rc \in Code, SendBack(n, p, pkt, rc)
  PROVE  OutTells(f, k, out')
<1>1. pkt.seqno \in Seqno /\ pkt.id \in 1 .. MaxRequests
  BY DEF Sound, Packet
<1>2. PICK back \in Sound : back = [type |-> "Response", code |-> rc,
                                    seqno |-> pkt.seqno, id |-> pkt.id]
  BY <1>1, ResponseSound
<1>3. Hand(n, p, back, None)
  BY <1>2 DEF SendBack
<1>4. Belongs(f, k, n, p, back)
  BY <1>2 DEF Belongs
<1> QED
  BY <1>3, <1>4, HandTells

\* sixp_input() takes a request.
LEMMA RequestInKeeps ==
  ASSUME NEW f, NEW k, NEW c, NEW s, SixpInv, Kept(f, k, c, s), NEW n \in Node,
         RequestWhileBusy(n) \/ RequestNoMemory(n) \/ RequestTaken(n)
  PROVE  Kept(f, k, c, s)'
<1> USE DEF SixpInv
<1> DEFINE p == Head(inbox[n]).from
           pkt == Head(inbox[n]).pkt
<1>1. /\ Log(f, k) /\ TransTell(f, k, trans, nbr) /\ OutTells(f, k, out)
      /\ InboxTells(f, k, inbox) /\ AskedOK(f, k)
  BY DEF Kept, Log
<1>2. Taking(n, "Request")
  BY DEF RequestWhileBusy, RequestNoMemory, RequestTaken
<1>3. InboxTells(f, k, inbox') /\ Belongs(f, k, p, n, pkt)
  BY <1>1, <1>2, TakingTells
<1>4. p \in Node /\ pkt \in Sound /\ pkt \in Packet /\ pkt.type = "Request"
      /\ pkt.code \in Command
  BY <1>2, TakingOK DEF Sound
<1>5. /\ pkt.id \in 1 .. k /\ f[pkt.id].asker = p /\ f[pkt.id].asked = n
      /\ pkt.seqno = f[pkt.id].seqno /\ pkt.code = f[pkt.id].cmd
  BY <1>3, <1>4 DEF Belongs
<1>6. ~OnlyCounts(n, p)
  BY <1>1, <1>4, <1>5, AskedNotOnlyCounts
<1> HIDE DEF p, pkt
<1>7. CASE RequestWhileBusy(n)
  <2>1. PICK b : b = TheOne(n, p)
    OBVIOUS
  <2>2. b \in Blocks /\ trans[n][b] # None
    BY <1>4, <1>7, <2>1, TheOneIs DEF RequestWhileBusy, p
  <2>3. \/ \E rc \in Code : SendBack(n, p, pkt, rc) /\ UNCHANGED <<trans, nbr>>
        \/ /\ trans[n][b].state = "REQUEST_RECEIVED"
           /\ Respond(n, b, trans[n][b], "ERR_SEQNUM")
    BY <1>7, <2>1 DEF RequestWhileBusy, Code, p, pkt
  <2>4. CASE \E rc \in Code : SendBack(n, p, pkt, rc) /\ UNCHANGED <<trans, nbr>>
    <3>1. OutTells(f, k, out')
      BY <1>1, <1>3, <1>4, <2>4, SendBackTells
    <3>2. trans' = trans /\ nbr' = nbr
      BY <2>4
    <3> QED
      BY <1>1, <1>3, <3>1, <3>2, SameTells, StepKeeps
  <2>5. CASE /\ trans[n][b].state = "REQUEST_RECEIVED"
             /\ Respond(n, b, trans[n][b], "ERR_SEQNUM")
    <3>1. /\ TransTell(f, k, trans', nbr') /\ OutTells(f, k, out')
          /\ \A m, q \in Node : Started(nbr'[m][q]) = Started(nbr[m][q])
      BY <1>1, <2>2, <2>5, TransactionOf, TellsOf, RespondTells DEF Code
    <3> QED
      BY <1>3, <3>1, StepKeeps
  <2> QED
    BY <2>3, <2>4, <2>5
<1>8. CASE RequestNoMemory(n)
  <2>1. PICK z \in Seqno \cup {None} : Cleared(n, p, pkt) = [nbr EXCEPT ![n][p] = z]
    BY <1>4, ClearedOK
  <2>2. /\ With(n, p) = {} /\ trans' = trans /\ nbr' = [nbr EXCEPT ![n][p] = z]
        /\ SendBack(n, p, pkt, "ERR_BUSY")
    BY <1>8, <2>1 DEF RequestNoMemory, p, pkt
  <2>3. TransTell(f, k, trans', nbr')
    BY <1>1, <1>4, <2>2, NextTells
  <2>4. OutTells(f, k, out')
    BY <1>1, <1>3, <1>4, <2>2, SendBackTells DEF Code
  <2>5. \A m, q \in Node : OnlyCounts(m, q) => nbr'[m][q] = nbr[m][q]
    BY <1>4, <1>6, <2>2 DEF TablesOK
  <2> QED
    BY <1>3, <2>3, <2>4, <2>5, StepKeeps
<1>9. CASE RequestTaken(n)
  <2>1. PICK b \in Blocks : b = Min(FreeBlocks(n))
    BY <1>9, FirstFree DEF RequestTaken
  <2>2. With(n, p) = {}
    BY <1>9 DEF RequestTaken, p
  <2>3. PICK t \in Trans : t = NewTrans(p, pkt, "REQUEST_RECEIVED")
    BY <1>4, NewTransType DEF TransState
  <2>4. /\ t.peer = p /\ t.cmd = pkt.code /\ t.state = "REQUEST_RECEIVED"
        /\ t.seqno = pkt.seqno /\ t.id = pkt.id /\ t.answered = None
    BY <2>3 DEF NewTrans
  <2>5. \A d \in Blocks : trans[n][d] # None /\ trans[n][d].peer = t.peer => d = b
    BY <1>4, <2>2, <2>4, NoneWith
  <2>6. CASE Inconsistent(pkt, nbr[n][p])
    <3>1. Respond(n, b, t, "ERR_SEQNUM")
      BY <1>9, <2>1, <2>3, <2>6 DEF RequestTaken, p, pkt
    <3>2. Tells(f, k, n, t, nbr[n][t.peer])
      BY <1>5, <2>4 DEF Tells, OneEnd, AskedStates
    <3>3. /\ TransTell(f, k, trans', nbr') /\ OutTells(f, k, out')
          /\ \A m, q \in Node : Started(nbr'[m][q]) = Started(nbr[m][q])
      BY <1>1, <2>4, <2>5, <3>1, <3>2, RespondTells DEF Code
    <3> QED
      BY <1>3, <3>3, StepKeeps
  <2>7. CASE ~Inconsistent(pkt, nbr[n][p])
    <3>1. PICK z \in Seqno \cup {None} : Cleared(n, p, pkt) = [nbr EXCEPT ![n][p] = z]
      BY <1>4, ClearedOK
    <3>2. trans' = [trans EXCEPT ![n][b] = t] /\ nbr' = [nbr EXCEPT ![n][t.peer] = z]
          /\ out' = out
      BY <1>9, <2>1, <2>3, <2>4, <2>7, <3>1 DEF RequestTaken, p, pkt
    <3>3. Tells(f, k, n, t, z)
      BY <1>5, <2>4 DEF Tells, OneEnd, AskedStates
    <3>4. TransTell(f, k, trans', nbr')
      BY <1>1, <2>5, <3>2, <3>3, TransTells
    <3>5. \A m, q \in Node : OnlyCounts(m, q) => nbr'[m][q] = nbr[m][q]
      BY <1>4, <1>6, <2>4, <3>2 DEF TablesOK
    <3> QED
      BY <1>1, <1>3, <3>2, <3>4, <3>5, SameTells, StepKeeps
  <2> QED
    BY <2>6, <2>7
<1> QED
  BY <1>7, <1>8, <1>9

\* sixp_input() takes a response or a confirmation: it has the SeqNum of the
\* transaction and comes from the other end of it.
LEMMA AnswerInKeeps ==
  ASSUME NEW f, NEW k, NEW c, NEW s, SixpInv, Kept(f, k, c, s), NEW n \in Node,
         NEW type \in {"Response", "Confirmation"}, AnswerTaken(n, type)
  PROVE  Kept(f, k, c, s)'
<1> USE DEF SixpInv
<1> DEFINE p == Head(inbox[n]).from
           pkt == Head(inbox[n]).pkt
<1>1. /\ Log(f, k) /\ TransTell(f, k, trans, nbr) /\ OutTells(f, k, out)
      /\ InboxTells(f, k, inbox)
  BY DEF Kept, Log
<1>2. Taking(n, type) /\ nbr' = nbr /\ out' = out
  BY DEF AnswerTaken
<1>3. InboxTells(f, k, inbox') /\ Belongs(f, k, p, n, pkt)
  BY <1>1, <1>2, TakingTells
<1>4. p \in Node /\ pkt \in Sound /\ pkt.type = type
  BY <1>2, TakingOK
<1> HIDE DEF p, pkt
<1>5. CASE trans' = trans
  BY <1>1, <1>2, <1>3, <1>5, SameTells, StepKeeps
<1>6. CASE ~(trans' = trans)
  <2>1. PICK b : b = TheOne(n, p)
    OBVIOUS
  <2>2. PICK state \in TransState : state = IF type = "Response"
                                            THEN "RESPONSE_RECEIVED"
                                            ELSE "CONFIRMATION_RECEIVED"
    BY DEF TransState
  <2>3. /\ With(n, p) # {} /\ Expects(trans[n][b], type)
        /\ trans[n][b].seqno = pkt.seqno
        /\ trans' = [trans EXCEPT ![n][b] =
              [trans[n][b] EXCEPT !.state = state, !.answered = pkt.id]]
    BY <1>6, <2>1, <2>2 DEF AnswerTaken, p, pkt
  <2>4. b \in Blocks /\ trans[n][b] # None /\ trans[n][b].peer = p
    BY <1>4, <2>1, <2>3, TheOneIs
  <2>5. PICK t \in Trans : t = trans[n][b]
    BY <2>4, TransactionOf
  <2>6. PICK t1 : t1 = [t EXCEPT !.state = state, !.answered = pkt.id]
    OBVIOUS
  <2>7. pkt.id \in 1 .. MaxRequests
    BY <1>4 DEF Sound, Packet
  <2>8. /\ t1 \in Trans /\ t1.peer = t.peer /\ t1.cmd = t.cmd /\ t1.seqno = t.seqno
        /\ t1.id = t.id /\ t1.answered = pkt.id /\ t1.state = state
    BY <2>6, <2>7 DEF Trans
  <2>9. Tells(f, k, n, t, nbr[n][t.peer])
    BY <1>1, <2>4, <2>5, TellsOf
  <2>10. Tells(f, k, n, t1, nbr[n][t1.peer])
    <3>1. CASE type = "Response"
      <4>1. t.state \in {"REQUEST_SENDING", "REQUEST_SENT"}
        BY <2>3, <2>5, <3>1 DEF Expects
      <4>2. f[t.id].asker = n /\ f[t.id].asked = p
        BY <2>4, <2>5, <2>9, <4>1 DEF Tells, OneEnd, AskedStates
      <4>3. Same(f[t.id], f[pkt.id]) /\ pkt.id \in 1 .. k
        BY <1>3, <1>4, <2>3, <2>5, <2>9, <3>1, <4>2 DEF Belongs, Same, Tells, OneEnd
      <4> QED
        BY <2>2, <2>4, <2>5, <2>8, <2>9, <3>1, <4>2, <4>3 DEF Tells, OneEnd, AskerStates
    <3>2. CASE type = "Confirmation"
      <4>1. t.state \in {"RESPONSE_SENDING", "RESPONSE_SENT"}
        BY <2>3, <2>5, <3>2 DEF Expects
      <4>2. f[t.id].asker = p /\ f[t.id].asked = n
        BY <2>4, <2>5, <2>9, <4>1 DEF Tells, OneEnd, AskerStates
      <4>3. Same(f[t.id], f[pkt.id]) /\ pkt.id \in 1 .. k
        BY <1>3, <1>4, <2>3, <2>5, <2>9, <3>2, <4>2 DEF Belongs, Same, Tells, OneEnd
      <4> QED
        BY <2>2, <2>4, <2>5, <2>8, <2>9, <3>2, <4>2, <4>3 DEF Tells, OneEnd, AskedStates
    <3> QED
      BY <3>1, <3>2
  <2>11. trans' = [trans EXCEPT ![n][b] = t1]
    BY <2>3, <2>5, <2>6
  <2>12. TransTell(f, k, trans', nbr')
    BY <1>1, <1>2, <2>4, <2>5, <2>8, <2>10, <2>11, TransMoveTells
  <2> QED
    BY <1>1, <1>2, <1>3, <2>12, SameTells, StepKeeps
<1> QED
  BY <1>5, <1>6

-----------------------------------------------------------------------------
(***************************************************************************)
(* Theorems                                                                *)
(***************************************************************************)

LEMMA PairInvInit == SixpInit => PairInv
<1> SUFFICES ASSUME SixpInit PROVE PairInv
  OBVIOUS
<1>1. PICK g \in Generations : nbr = [n \in Node |-> [p \in Node |-> g]]
  BY DEF SixpInit
<1>2. PICK s \in Seqno : s = Started(g)
  BY SixpConstants, StartedType DEF Seqno
<1>3. PICK f, c : f = <<>> /\ c = [n \in Node |-> [p \in Node |-> 0]]
  OBVIOUS
<1>4. /\ requests = 0
      /\ \A n \in Node, b \in Blocks : trans[n][b] = None
      /\ \A n, p \in Node : out[n][p] = <<>>
      /\ \A n \in Node : inbox[n] = <<>>
  BY DEF SixpInit
<1>5. Log(f, 0)
  <2>1. AskedOK(f, 0)
    BY DEF AskedOK
  <2>2. TransTell(f, 0, trans, nbr)
    BY <1>4 DEF TransTell
  <2>3. ASSUME NEW S PROVE <<>> \in Seq(S)
    OBVIOUS
  <2>4. OutTells(f, 0, out)
    BY <1>4, <2>3, Zenon DEF OutTells
  <2>5. InboxTells(f, 0, inbox)
    BY <1>4, <2>3, Zenon DEF InboxTells
  <2> QED
    BY <2>1, <2>2, <2>4, <2>5 DEF Log
<1>6. Counted(f, 0, c, s, nbr)
  <2>1. Nth(s, 0) = s
    BY SixpConstants DEF Nth, Seqno
  <2>2. Numbered(f, 0, c, s, nbr)
    BY <1>1, <1>2, <1>3, <2>1 DEF Numbered
  <2> QED
    BY <1>3, <2>2 DEF Counted
<1> QED
  BY <1>4, <1>5, <1>6 DEF PairInv

LEMMA PairInvNext == SixpInv /\ PairInv /\ [SixpNext]_sixpVars => PairInv'
<1> SUFFICES ASSUME SixpInv, PairInv, [SixpNext]_sixpVars PROVE PairInv'
  OBVIOUS
<1>1. PICK f, c, s : Log(f, requests) /\ Counted(f, requests, c, s, nbr)
  BY DEF PairInv
<1>2. PICK k : k = requests
  OBVIOUS
<1>3. Kept(f, k, c, s)
  BY <1>1, <1>2 DEF Kept
<1>4. ASSUME Kept(f, k, c, s)', requests' = requests PROVE PairInv'
  BY <1>2, <1>4 DEF PairInv, Kept
<1>5. ASSUME NEW n \in Node, SfStep(n) PROVE PairInv'
  <2>1. CASE \E p \in Node, cmd \in Command : Request(n, p, cmd)
    BY <1>2, <1>3, <2>1, RequestLogs
  <2>2. CASE \/ \E p \in Node : RequestAbandoned(n, p)
             \/ \E b \in Blocks : Reply(n, b) \/ Confirm(n, b)
    <3>1. requests' = requests
      BY <2>2 DEF RequestAbandoned, Reply, Confirm
    <3> QED
      BY <1>3, <1>4, <2>2, <3>1, AnsweringKeeps
  <2> QED
    BY <1>5, <2>1, <2>2 DEF SfStep
<1>6. ASSUME NEW n \in Node, SixpInput(n) PROVE PairInv'
  <2>1. requests' = requests
    <3>1. ASSUME NEW type, Taking(n, type) PROVE requests' = requests
      BY <3>1 DEF Taking
    <3> QED
      BY <1>6, <3>1 DEF SixpInput, RequestWhileBusy, RequestNoMemory, RequestTaken,
                        AnswerTaken
  <2> QED
    BY <1>3, <1>4, <1>6, <2>1, RequestInKeeps, AnswerInKeeps DEF SixpInput
<1>7. ASSUME NEW n \in Node, Restart(n) PROVE PairInv'
  BY <1>3, <1>4, <1>7, RestartKeeps DEF Restart
<1>8. ASSUME NEW n \in Node, NEW p \in Node, MacStep(n, p) \/ Transmit(n, p)
      PROVE  PairInv'
  <2>1. requests' = requests
    BY <1>8 DEF MacStep, MacCallback, Transmit
  <2> QED
    BY <1>3, <1>4, <1>8, <2>1, MacCallbackKeeps, TransmitKeeps DEF MacStep
<1>9. ASSUME NEW n \in Node, NEW b \in Blocks, TimerStep(n, b) PROVE PairInv'
  <2>1. requests' = requests
    BY <1>9 DEF TimerStep, Process, Timeout
  <2> QED
    BY <1>3, <1>4, <1>9, <2>1, TimerStepKeeps
<1>10. CASE UNCHANGED sixpVars
  BY <1>10 DEF sixpVars, PairInv, Log
<1> QED
  BY <1>5, <1>6, <1>7, <1>8, <1>9, <1>10 DEF SixpNext

\* A log that explains every transaction and every packet exists in every state.
THEOREM LogInvariance == SixpSpec => []PairInv
<1>1. SixpInit => PairInv
  BY PairInvInit
<1>2. SixpInv /\ PairInv /\ [SixpNext]_sixpVars => PairInv'
  BY PairInvNext
<1> QED
  BY <1>1, <1>2, SixpInvariance, PTL DEF SixpSpec

\* A delivered response leaves both peers with the same next SeqNum while the asker
\* has the transaction, for every loss, delay, crossing request and power cycle.
THEOREM BothEndsCount == SixpSpec => []GenerationsAgree
<1>1. SixpInv /\ PairInv => GenerationsAgree
  <2> SUFFICES ASSUME SixpInv, PairInv, NEW n \in Node, NEW p \in Node,
                      NEW b \in Blocks, NEW d \in Blocks,
                      trans[n][b] # None, trans[p][d] # None,
                      trans[n][b].peer = p, trans[p][d].peer = n,
                      trans[n][b].state = "RESPONSE_SENT",
                      trans[n][b].id = trans[p][d].id
               PROVE  Generation(n, p) = Generation(p, n)
    BY DEF GenerationsAgree
  <2>1. CASE n = p
    BY <2>1
  <2>2. CASE n # p
    <3>1. PICK f, k : TransTell(f, k, trans, nbr)
      BY DEF PairInv, Log
    <3>2. PICK r : r = f[trans[n][b].id]
      OBVIOUS
    <3>3. OneEnd(r, n, trans[n][b], nbr[n][p]) /\ OneEnd(r, p, trans[p][d], nbr[p][n])
      BY <3>1, <3>2, TellsOf DEF Tells
    <3>4. Started(nbr[n][p]) = After(r) /\ r.asker = p
      BY <2>2, <3>3 DEF OneEnd, AskerStates
    <3>5. Started(nbr[p][n]) = After(r)
      BY <2>2, <3>3, <3>4 DEF OneEnd
    <3> QED
      BY <3>4, <3>5 DEF Generation
  <2> QED
    BY <2>1, <2>2
<1> QED
  BY <1>1, LogInvariance, SixpInvariance, PTL

\* Between peers of which one only counts, and as long as no SeqNum can come twice,
\* an answer is never taken for the answer to another request, however late it comes.
THEOREM AnswersMatchRequests ==
  ASSUME MaxRequests <= SeqMax
  PROVE  SixpSpec => []NothingMistaken
<1>1. SixpInv /\ PairInv => NothingMistaken
  <2> SUFFICES ASSUME SixpInv, PairInv, NEW n \in Node, NEW b \in Blocks,
                      trans[n][b] # None, trans[n][b].answered # None,
                      \/ OnlyCounts(n, trans[n][b].peer)
                      \/ OnlyCounts(trans[n][b].peer, n)
               PROVE  trans[n][b].answered = trans[n][b].id
    BY DEF NothingMistaken
  <2>1. PICK f, c, s : Log(f, requests) /\ Counted(f, requests, c, s, nbr)
    BY DEF PairInv
  <2>2. PICK k : k = requests /\ k \in Nat /\ k <= MaxRequests
    BY SixpConstants DEF SixpInv, CountersOK
  <2>3. /\ AskedOK(f, k) /\ TransTell(f, k, trans, nbr)
        /\ c \in [Node -> [Node -> Nat]] /\ s \in Seqno /\ Numbered(f, k, c, s, nbr)
    BY <2>1, <2>2 DEF Log, Counted
  <2>4. PICK t \in Trans : t = trans[n][b] /\ t.peer \in Node
    BY TransactionOf DEF SixpInv
  <2>5. Tells(f, k, n, t, nbr[n][t.peer])
    BY <2>3, <2>4, TellsOf
  <2>6. /\ t.id \in 1 .. k /\ t.answered \in 1 .. k
        /\ Same(f[t.id], f[t.answered])
        /\ \/ f[t.id].asker = n /\ f[t.id].asked = t.peer
           \/ f[t.id].asker = t.peer /\ f[t.id].asked = n
    BY <2>4, <2>5 DEF Tells, OneEnd
  <2>7. PICK a \in Node, d \in Node :
          f[t.id].asker = a /\ f[t.id].asked = d /\ OnlyCounts(a, d)
    <3>1. \A x, y \in Node :
            f[t.id].asker = y /\ f[t.id].asked = x => ~OnlyCounts(x, y)
      BY <2>3, <2>6, AskedNotOnlyCounts
    <3> QED
      BY <2>4, <2>6, <3>1
  <2>8. PICK i, j \in 1 .. k : i = t.id /\ j = t.answered
    BY <2>6
  <2>9. /\ f[i].asker = a /\ f[i].asked = d /\ f[j].asker = a /\ f[j].asked = d
        /\ f[i].seqno = f[j].seqno
    BY <2>6, <2>7, <2>8 DEF Same
  <2>10. /\ c[a][d] \in 0 .. k
         /\ f[i].turn \in 0 .. (c[a][d] - 1) /\ f[j].turn \in 0 .. (c[a][d] - 1)
         /\ f[i].seqno = Nth(s, f[i].turn) /\ f[j].seqno = Nth(s, f[j].turn)
         /\ f[j].turn = f[i].turn => i = j
    BY <2>3, <2>7, <2>9 DEF Numbered
  <2>11. /\ f[i].turn \in Nat /\ f[i].turn < SeqMax
         /\ f[j].turn \in Nat /\ f[j].turn < SeqMax
    BY <2>2, <2>10, SixpConstants
  <2>12. f[i].turn = f[j].turn
    BY <2>3, <2>9, <2>10, <2>11, NthDistinct
  <2> QED
    BY <2>4, <2>8, <2>10, <2>12
<1> QED
  BY <1>1, LogInvariance, SixpInvariance, PTL
=============================================================================
