----------------------------- MODULE SixpProofs -----------------------------
(***************************************************************************)
(* Machine-checked theorems about 6P, for any nodes, any pool of           *)
(* transactions, any SeqNum range and any number of requests and power     *)
(* cycles: what next_seqno says while a transaction is in process.         *)
(***************************************************************************)
EXTENDS Sixp, WellFoundedInduction, TLAPS

-----------------------------------------------------------------------------
(***************************************************************************)
(* The invariant                                                           *)
(***************************************************************************)

\* What next_seqno of the peer, nxt, may be in each state of a transaction.
CountsFor(t, nxt) ==
  /\ t.cmd # "Clear" /\ t.state \in {"REQUEST_SENDING", "REQUEST_SENT", "RESPONSE_SENT"}
       => nxt \notin {0, None}
  /\ t.cmd # "Clear" /\ t.state = "RESPONSE_SENDING" => nxt # None
  /\ t.cmd = "Clear" /\ t.state # "TERMINATING" => Started(nxt) = 0

\* One node's pool of transactions and its neighbours' next_seqno: at most one
\* transaction for each peer, and every one counts as it should.
NodeOK(pool, next) ==
  /\ pool \in [Blocks -> Trans \cup {None}]
  /\ next \in [Node -> Seqno \cup {None}]
  /\ \A b, c \in Blocks :
       pool[b] # None /\ pool[c] # None /\ pool[b].peer = pool[c].peer => b = c
  /\ \A b \in Blocks : pool[b] # None => CountsFor(pool[b], next[pool[b].peer])

\* A request on its way carries a command.
Sound == {k \in Packet : k.type = "Request" => k.code \in Command}
SoundQueued == [pkt : Sound, block : Blocks \cup {None}, heard : BOOLEAN]
SoundInput == [from : Node, pkt : Sound]

OutOK == out \in [Node -> [Node -> Seq(SoundQueued)]]
InboxOK == inbox \in [Node -> Seq(SoundInput)]

TablesOK == /\ trans \in [Node -> [Blocks -> Trans \cup {None}]]
            /\ nbr \in [Node -> [Node -> Seqno \cup {None}]]
            /\ \A n \in Node : NodeOK(trans[n], nbr[n])

CountersOK == /\ requests \in 0 .. MaxRequests
              /\ restarts \in 0 .. MaxRestarts

SixpInv == TablesOK /\ OutOK /\ InboxOK /\ CountersOK

-----------------------------------------------------------------------------
(***************************************************************************)
(* Sequence numbers and packets                                            *)
(***************************************************************************)

LEMMA IncrementType ==
  ASSUME NEW s \in Seqno
  PROVE  Increment(s) \in Seqno \ {0} /\ Increment(s) # None
  BY SixpConstants DEF Increment, Seqno

LEMMA StartedType ==
  ASSUME NEW s \in Seqno \cup {None}
  PROVE  Started(s) \in Seqno /\ Started(s) # None
  BY SixpConstants DEF Started, Seqno

LEMMA StartedTwice ==
  ASSUME NEW x \in Seqno \cup {None}
  PROVE  Started(Started(x)) = Started(x)
  BY StartedType DEF Started

LEMMA NewTransType ==
  ASSUME NEW p \in Node, NEW pkt \in Packet, pkt.code \in Command,
         NEW s \in TransState
  PROVE  NewTrans(p, pkt, s) \in Trans
  BY DEF NewTrans, Trans, Packet

\* What sixtop_output() leaves in the MAC's queues.
LEMMA HandOK ==
  ASSUME OutOK, NEW n \in Node, NEW p \in Node, NEW pkt \in Sound,
         NEW b \in Blocks \cup {None}, Hand(n, p, pkt, b)
  PROVE  OutOK'
<1>1. [pkt |-> pkt, block |-> b, heard |-> FALSE] \in SoundQueued
  BY DEF SoundQueued
<1> QED
  BY <1>1 DEF OutOK, Hand

LEMMA ResponseSound ==
  ASSUME NEW rc \in Code, NEW s \in Seqno, NEW i \in 1 .. MaxRequests,
         NEW y \in {"Response", "Confirmation"}
  PROVE  [type |-> y, code |-> rc, seqno |-> s, id |-> i] \in Sound
  BY DEF Sound, Packet

-----------------------------------------------------------------------------
(***************************************************************************)
(* What a step does to one node's tables                                   *)
(***************************************************************************)

\* A block gets a transaction, the only one with its peer, and next_seqno the
\* value that goes with it.
LEMMA BlockSet ==
  ASSUME NEW pool, NEW next, NodeOK(pool, next), NEW b \in Blocks,
         NEW t \in Trans, NEW s \in Seqno \cup {None}, CountsFor(t, s),
         \A c \in Blocks : pool[c] # None /\ pool[c].peer = t.peer => c = b
  PROVE  NodeOK([pool EXCEPT ![b] = t], [next EXCEPT ![t.peer] = s])
<1> DEFINE pool1 == [pool EXCEPT ![b] = t]
           next1 == [next EXCEPT ![t.peer] = s]
<1>1. t.peer \in Node
  BY DEF Trans
<1>2. pool1 \in [Blocks -> Trans \cup {None}] /\ next1 \in [Node -> Seqno \cup {None}]
  BY <1>1 DEF NodeOK
<1>3. pool1[b] = t /\ next1[t.peer] = s
  BY <1>1 DEF NodeOK
<1>4. \A c \in Blocks : c # b => pool1[c] = pool[c]
  BY DEF NodeOK
<1>5. \A q \in Node : q # t.peer => next1[q] = next[q]
  BY DEF NodeOK
<1> HIDE DEF pool1, next1
<1>6. \A c \in Blocks : c # b /\ pool1[c] # None => pool1[c].peer # t.peer
  BY <1>4
<1>7. \A c, d \in Blocks :
        pool1[c] # None /\ pool1[d] # None /\ pool1[c].peer = pool1[d].peer => c = d
  BY <1>3, <1>4, <1>6 DEF NodeOK
<1>8. \A c \in Blocks : pool1[c] # None => CountsFor(pool1[c], next1[pool1[c].peer])
  <2> SUFFICES ASSUME NEW c \in Blocks, pool1[c] # None
               PROVE  CountsFor(pool1[c], next1[pool1[c].peer])
    OBVIOUS
  <2>1. CASE c = b
    BY <1>3, <2>1
  <2>2. CASE c # b
    <3>1. pool[c] \in Trans /\ pool1[c] = pool[c] /\ pool[c].peer # t.peer
      BY <1>4, <1>6, <2>2 DEF NodeOK
    <3>2. pool[c].peer \in Node
      BY <3>1 DEF Trans
    <3> QED
      BY <1>5, <3>1, <3>2 DEF NodeOK
  <2> QED
    BY <2>1, <2>2
<1>9. NodeOK(pool1, next1)
  BY <1>2, <1>7, <1>8 DEF NodeOK
<1> QED
  BY <1>9 DEF pool1, next1

\* A block is given back.
LEMMA BlockFreed ==
  ASSUME NEW pool, NEW next, NodeOK(pool, next), NEW b \in Blocks
  PROVE  NodeOK([pool EXCEPT ![b] = None], next)
  BY DEF NodeOK

\* The next_seqno of a peer with no transaction may take any value.
LEMMA NextSet ==
  ASSUME NEW pool, NEW next, NodeOK(pool, next), NEW p \in Node,
         NEW s \in Seqno \cup {None},
         \A c \in Blocks : pool[c] # None => pool[c].peer # p
  PROVE  NodeOK(pool, [next EXCEPT ![p] = s])
<1> DEFINE next1 == [next EXCEPT ![p] = s]
<1>1. next1 \in [Node -> Seqno \cup {None}]
  BY DEF NodeOK
<1>2. \A q \in Node : q # p => next1[q] = next[q]
  BY DEF NodeOK
<1> HIDE DEF next1
<1>3. \A c \in Blocks : pool[c] # None => pool[c].peer \in Node /\ pool[c].peer # p
  BY DEF NodeOK, Trans
<1>4. NodeOK(pool, next1)
  BY <1>1, <1>2, <1>3 DEF NodeOK
<1> QED
  BY <1>4 DEF next1

\* Only one node's tables change in a step, and they stay well formed.
LEMMA OneNodeSteps ==
  ASSUME TablesOK, NEW n \in Node, NEW pool, NEW next, NodeOK(pool, next),
         trans' = [trans EXCEPT ![n] = pool], nbr' = [nbr EXCEPT ![n] = next]
  PROVE  TablesOK'
<1>1. pool \in [Blocks -> Trans \cup {None}] /\ next \in [Node -> Seqno \cup {None}]
  BY DEF NodeOK
<1>2. \A m \in Node : NodeOK(trans'[m], nbr'[m])
  BY DEF TablesOK
<1> QED
  BY <1>1, <1>2 DEF TablesOK

\* The same for a step that changes one block and its peer's next_seqno.
LEMMA TransactionSteps ==
  ASSUME TablesOK, NEW n \in Node, NEW b \in Blocks, NEW t \in Trans,
         NEW s \in Seqno \cup {None}, CountsFor(t, s),
         \A c \in Blocks : trans[n][c] # None /\ trans[n][c].peer = t.peer => c = b,
         trans' = [trans EXCEPT ![n][b] = t],
         nbr' = [nbr EXCEPT ![n][t.peer] = s]
  PROVE  TablesOK'
<1>1. NodeOK([trans[n] EXCEPT ![b] = t], [nbr[n] EXCEPT ![t.peer] = s])
  BY BlockSet DEF TablesOK
<1> QED
  BY <1>1, OneNodeSteps

\* A transaction that moves to a state next_seqno agrees with already.
LEMMA TransactionMoves ==
  ASSUME TablesOK, NEW n \in Node, NEW b \in Blocks, trans[n][b] # None,
         NEW t \in Trans, t.peer = trans[n][b].peer,
         CountsFor(t, nbr[n][t.peer]),
         trans' = [trans EXCEPT ![n][b] = t], nbr' = nbr
  PROVE  TablesOK'
<1>1. NodeOK(trans[n], nbr[n]) /\ t.peer \in Node
  BY DEF TablesOK, Trans
<1>2. nbr[n][t.peer] \in Seqno \cup {None} /\ nbr[n] \in [Node -> Seqno \cup {None}]
  BY <1>1 DEF NodeOK
<1>3. \A c \in Blocks : trans[n][c] # None /\ trans[n][c].peer = t.peer => c = b
  BY <1>1 DEF NodeOK
<1>4. PICK s \in Seqno \cup {None} : s = nbr[n][t.peer]
  BY <1>2
<1>5. CountsFor(t, s)
  BY <1>4
<1>6. NodeOK([trans[n] EXCEPT ![b] = t], [nbr[n] EXCEPT ![t.peer] = s])
  BY <1>1, <1>3, <1>5, BlockSet
<1>7. [nbr[n] EXCEPT ![t.peer] = s] = nbr[n]
  BY <1>2, <1>4
<1>8. nbr' = [nbr EXCEPT ![n] = nbr[n]]
  BY DEF TablesOK
<1>9. PICK pool : pool = [trans[n] EXCEPT ![b] = t]
  OBVIOUS
<1>10. trans' = [trans EXCEPT ![n] = pool] /\ NodeOK(pool, nbr[n])
  BY <1>6, <1>7, <1>9
<1> QED
  BY <1>8, <1>10, OneNodeSteps

\* No transaction with a peer, in the words of the pool.
LEMMA NoneWith ==
  ASSUME NEW n \in Node, NEW p \in Node, With(n, p) = {}
  PROVE  \A c \in Blocks : trans[n][c] # None => trans[n][c].peer # p
  BY DEF With

\* The block of the peer's transaction.
LEMMA TheOneIs ==
  ASSUME NEW n \in Node, NEW p \in Node, With(n, p) # {}
  PROVE  TheOne(n, p) \in Blocks /\ trans[n][TheOne(n, p)] # None
         /\ trans[n][TheOne(n, p)].peer = p
  BY DEF With, TheOne

\* A set of block numbers has a least one.
LEMMA LeastOne ==
  ASSUME NEW S \in SUBSET Nat, S # {}
  PROVE  Min(S) \in S
<1> DEFINE R == OpToRel(<, Nat)
<1>1. IsWellFoundedOn(R, Nat)
  BY NatLessThanWellFounded
<1>2. R = {ss \in Nat \X Nat : ss[1] < ss[2]}
  BY Zenon DEF OpToRel
<1> HIDE DEF R
<1>3. PICK x \in S : \A y \in S : ~(<<y, x>> \in R)
  BY <1>1, WFMin
<1>4. ASSUME NEW y \in S PROVE x <= y
  <2>1. <<y, x>> \in Nat \X Nat /\ <<y, x>>[1] = y /\ <<y, x>>[2] = x
    OBVIOUS
  <2>2. ~(<<y, x>>[1] < <<y, x>>[2])
    BY <1>2, <1>3, <2>1, Zenon
  <2> QED
    BY <2>1, <2>2
<1> QED
  BY <1>4 DEF Min

\* The first free block is one of the pool's.
LEMMA FirstFree ==
  ASSUME NEW n \in Node, FreeBlocks(n) # {}
  PROVE  Min(FreeBlocks(n)) \in Blocks /\ trans[n][Min(FreeBlocks(n))] = None
<1>1. FreeBlocks(n) \in SUBSET Nat
  BY DEF FreeBlocks, Blocks
<1>2. Min(FreeBlocks(n)) \in FreeBlocks(n)
  BY <1>1, LeastOne
<1> QED
  BY <1>2 DEF FreeBlocks

\* What the invariant says of one block that holds a transaction.
LEMMA TransactionOf ==
  ASSUME TablesOK, NEW n \in Node, NEW b \in Blocks, trans[n][b] # None
  PROVE  /\ trans[n][b] \in Trans /\ trans[n][b].peer \in Node
         /\ nbr[n][trans[n][b].peer] \in Seqno \cup {None}
         /\ CountsFor(trans[n][b], nbr[n][trans[n][b].peer])
         /\ \A c \in Blocks :
              trans[n][c] # None /\ trans[n][c].peer = trans[n][b].peer => c = b
<1>1. NodeOK(trans[n], nbr[n])
  BY DEF TablesOK
<1>2. trans[n][b] \in Trans
  BY <1>1 DEF NodeOK
<1>3. trans[n][b].peer \in Node
  BY <1>2 DEF Trans
<1> QED
  BY <1>1, <1>2, <1>3 DEF NodeOK

\* What sixp_output() of a response does to the transaction t in block b: it moves
\* on and the packet is queued, or it stays as it is; next_seqno keeps its count.
LEMMA RespondSteps ==
  ASSUME TablesOK, NEW n \in Node, NEW b \in Blocks, NEW t \in Trans,
         NEW rc \in Code, Respond(n, b, t, rc)
  PROVE  \E t1 \in Trans, s \in Seqno \cup {None} :
           /\ trans' = [trans EXCEPT ![n][b] = t1]
           /\ nbr' = [nbr EXCEPT ![n][t1.peer] = s]
           /\ t1.peer = t.peer /\ t1.cmd = t.cmd /\ t1.seqno = t.seqno
           /\ t1.id = t.id /\ t1.answered = t.answered
           /\ t.cmd = "Clear" => s = nbr[n][t.peer]
           /\ Started(s) = Started(nbr[n][t.peer])
           /\ \/ t1.state = t.state /\ out' = out
              \/ /\ t1.state = "RESPONSE_SENDING"
                 /\ t.cmd # "Clear" => s # None
                 /\ \E pkt \in Sound :
                      /\ pkt = [type |-> "Response", code |-> rc,
                                seqno |-> t.seqno, id |-> t.id]
                      /\ Hand(n, t.peer, pkt, b)
<1>1. t.peer \in Node /\ t.seqno \in Seqno /\ t.id \in 1 .. MaxRequests
  BY DEF Trans
<1>2. PICK nxt \in Seqno \cup {None} : nxt = nbr[n][t.peer]
  BY <1>1 DEF TablesOK
<1>3. PICK w \in Seqno \cup {None} : w = IF t.cmd = "Clear" THEN nxt ELSE Started(nxt)
  BY StartedType
<1>4. /\ Started(w) = Started(nxt) /\ (t.cmd # "Clear" => w # None)
      /\ t.cmd = "Clear" => w = nxt
  BY <1>3, StartedTwice, StartedType
<1>5. WithEntry(n, t) = [nbr EXCEPT ![n][t.peer] = w]
  BY <1>1, <1>2, <1>3 DEF WithEntry, TablesOK
<1>6. nbr = [nbr EXCEPT ![n][t.peer] = nxt]
  BY <1>1, <1>2 DEF TablesOK
<1>7. CASE Responded(n, b, t, rc)
  <2>1. PICK t1 : t1 = [t EXCEPT !.state = "RESPONSE_SENDING"]
    OBVIOUS
  <2>2. /\ t1 \in Trans /\ t1.peer = t.peer /\ t1.cmd = t.cmd /\ t1.seqno = t.seqno
        /\ t1.id = t.id /\ t1.answered = t.answered /\ t1.state = "RESPONSE_SENDING"
    BY <2>1 DEF Trans, TransState
  <2>3. trans' = [trans EXCEPT ![n][b] = t1] /\ nbr' = [nbr EXCEPT ![n][t1.peer] = w]
    BY <1>5, <1>7, <2>1, <2>2 DEF Responded
  <2>4. PICK pkt \in Sound : pkt = [type |-> "Response", code |-> rc,
                                    seqno |-> t.seqno, id |-> t.id]
    BY <1>1, ResponseSound
  <2>5. Hand(n, t.peer, pkt, b)
    BY <1>7, <2>4 DEF Responded
  <2> QED
    BY <1>2, <1>4, <2>2, <2>3, <2>4, <2>5
<1>8. CASE NotResponded(n, b, t)
  <2>1. PICK z \in {nxt, w} : nbr' = [nbr EXCEPT ![n][t.peer] = z]
    BY <1>5, <1>6, <1>8 DEF NotResponded
  <2>2. z \in Seqno \cup {None} /\ Started(z) = Started(nxt)
        /\ (t.cmd = "Clear" => z = nxt)
    BY <1>4, <2>1
  <2>3. trans' = [trans EXCEPT ![n][b] = t] /\ out' = out
    BY <1>8 DEF NotResponded
  <2> QED
    BY <1>2, <2>1, <2>2, <2>3
<1> QED
  BY <1>7, <1>8 DEF Respond

\* sixp_output() of a response, from the SF or as an error, for the transaction of
\* the block or for a new one.
LEMMA RespondOK ==
  ASSUME TablesOK, OutOK, NEW n \in Node, NEW b \in Blocks, NEW t \in Trans,
         t.state = "REQUEST_RECEIVED", CountsFor(t, nbr[n][t.peer]),
         \A c \in Blocks : trans[n][c] # None /\ trans[n][c].peer = t.peer => c = b,
         NEW rc \in Code, Respond(n, b, t, rc)
  PROVE  TablesOK' /\ OutOK'
<1>1. PICK t1 \in Trans, s \in Seqno \cup {None} :
        /\ trans' = [trans EXCEPT ![n][b] = t1]
        /\ nbr' = [nbr EXCEPT ![n][t1.peer] = s]
        /\ t1.peer = t.peer /\ t1.cmd = t.cmd
        /\ t.cmd = "Clear" => s = nbr[n][t.peer]
        /\ \/ t1.state = t.state /\ out' = out
           \/ /\ t1.state = "RESPONSE_SENDING"
              /\ t.cmd # "Clear" => s # None
              /\ \E pkt \in Sound : Hand(n, t.peer, pkt, b)
  BY RespondSteps
<1>2. CountsFor(t1, s)
  BY <1>1 DEF CountsFor
<1>3. \A c \in Blocks : trans[n][c] # None /\ trans[n][c].peer = t1.peer => c = b
  BY <1>1
<1>4. TablesOK'
  BY <1>1, <1>2, <1>3, TransactionSteps
<1>5. OutOK'
  <2>1. CASE out' = out
    BY <2>1 DEF OutOK
  <2>2. CASE \E pkt \in Sound : Hand(n, t.peer, pkt, b)
    <3>1. t.peer \in Node
      BY DEF Trans
    <3> QED
      BY <2>2, <3>1, HandOK
  <2> QED
    BY <1>1, <2>1, <2>2
<1> QED
  BY <1>4, <1>5

\* A node whose tables have no transaction with p changes next_seqno of p only.
LEMMA NextSteps ==
  ASSUME TablesOK, NEW n \in Node, NEW p \in Node, With(n, p) = {},
         NEW s \in Seqno \cup {None}, trans' = trans,
         nbr' = [nbr EXCEPT ![n][p] = s]
  PROVE  TablesOK'
<1>1. PICK next : next = [nbr[n] EXCEPT ![p] = s]
  OBVIOUS
<1>2. NodeOK(trans[n], next)
  BY <1>1, NextSet, NoneWith DEF TablesOK
<1>3. trans' = [trans EXCEPT ![n] = trans[n]] /\ nbr' = [nbr EXCEPT ![n] = next]
  BY <1>1 DEF TablesOK
<1> QED
  BY <1>2, <1>3, OneNodeSteps

\* A node gives up one block.
LEMMA FreeSteps ==
  ASSUME TablesOK, NEW n \in Node, NEW b \in Blocks,
         trans' = [trans EXCEPT ![n][b] = None], nbr' = nbr
  PROVE  TablesOK'
<1>1. PICK pool : pool = [trans[n] EXCEPT ![b] = None]
  OBVIOUS
<1>2. NodeOK(pool, nbr[n])
  BY <1>1, BlockFreed DEF TablesOK
<1>3. trans' = [trans EXCEPT ![n] = pool] /\ nbr' = [nbr EXCEPT ![n] = nbr[n]]
  BY <1>1 DEF TablesOK
<1> QED
  BY <1>2, <1>3, OneNodeSteps

\* A new transaction for a peer that has none.
LEMMA NewSteps ==
  ASSUME TablesOK, NEW n \in Node, NEW b \in Blocks, NEW t \in Trans,
         With(n, t.peer) = {}, NEW s \in Seqno \cup {None}, CountsFor(t, s),
         trans' = [trans EXCEPT ![n][b] = t],
         nbr' = [nbr EXCEPT ![n][t.peer] = s]
  PROVE  TablesOK'
<1>1. t.peer \in Node
  BY DEF Trans
<1>2. \A c \in Blocks : trans[n][c] # None => trans[n][c].peer # t.peer
  BY <1>1, NoneWith
<1>3. \A c \in Blocks : trans[n][c] # None /\ trans[n][c].peer = t.peer => c = b
  BY <1>2
<1>4. PICK pool, next : pool = [trans[n] EXCEPT ![b] = t]
                        /\ next = [nbr[n] EXCEPT ![t.peer] = s]
  OBVIOUS
<1>5. NodeOK(pool, next)
  BY <1>3, <1>4, BlockSet DEF TablesOK
<1>6. trans' = [trans EXCEPT ![n] = pool] /\ nbr' = [nbr EXCEPT ![n] = next]
  BY <1>4
<1> QED
  BY <1>5, <1>6, OneNodeSteps

-----------------------------------------------------------------------------
(***************************************************************************)
(* The invariant holds                                                     *)
(***************************************************************************)

LEMMA SixpInvInit == SixpInit => SixpInv
<1> SUFFICES ASSUME SixpInit PROVE SixpInv
  OBVIOUS
<1>1. PICK s \in Generations : nbr = [n \in Node |-> [p \in Node |-> s]]
  BY DEF SixpInit
<1>2. s \in Seqno \cup {None}
  BY SixpConstants DEF Seqno
<1>3. /\ trans = [n \in Node |-> [b \in Blocks |-> None]]
      /\ out = [n \in Node |-> [p \in Node |-> <<>>]]
      /\ inbox = [n \in Node |-> <<>>]
  BY DEF SixpInit
<1>4. TablesOK
  BY <1>1, <1>2, <1>3 DEF TablesOK, NodeOK
<1>5. OutOK /\ InboxOK
  BY <1>3 DEF OutOK, InboxOK
<1>6. CountersOK
  BY SixpConstants DEF SixpInit, CountersOK
<1> QED
  BY <1>4, <1>5, <1>6 DEF SixpInv

\* The scheduling function asks, answers and confirms.
LEMMA SfStepOK ==
  ASSUME SixpInv, NEW n \in Node, SfStep(n)
  PROVE  SixpInv'
<1> USE DEF SixpInv
<1>1. ASSUME NEW p \in Node, RequestAbandoned(n, p) PROVE SixpInv'
  <2>1. PICK s \in Seqno \cup {None} : s = 0
    BY SixpConstants DEF Seqno
  <2>2. With(n, p) = {} /\ trans' = trans /\ nbr' = [nbr EXCEPT ![n][p] = s]
    BY <1>1, <2>1 DEF RequestAbandoned
  <2>3. TablesOK'
    BY <2>2, NextSteps
  <2> QED
    BY <1>1, <2>3 DEF RequestAbandoned, OutOK, InboxOK, CountersOK
<1>2. ASSUME NEW p \in Node, NEW cmd \in Command, Request(n, p, cmd) PROVE SixpInv'
  <2>1. PICK nxt \in Seqno \cup {None} : nxt = nbr[n][p]
    BY DEF TablesOK
  <2>2. requests + 1 \in 1 .. MaxRequests
    BY <1>2, SixpConstants DEF Request, CountersOK
  <2>3. PICK pkt : pkt = [type |-> "Request", code |-> cmd, seqno |-> Started(nxt),
                          id |-> requests + 1]
    OBVIOUS
  <2>4. pkt \in Sound /\ pkt \in Packet
    BY <2>1, <2>2, <2>3, StartedType DEF Sound, Packet, Code
  <2>5. PICK b \in Blocks : b = Min(FreeBlocks(n))
    BY <1>2, FirstFree DEF Request
  <2>7. PICK t \in Trans : t = NewTrans(p, pkt, "REQUEST_SENDING")
    BY <2>3, <2>4, NewTransType DEF TransState
  <2>8. t \in Trans /\ t.peer = p /\ t.cmd = cmd /\ t.state = "REQUEST_SENDING"
    BY <2>3, <2>7 DEF NewTrans
  <2>9. PICK s : s = IF cmd = "Clear" THEN 0 ELSE Increment(pkt.seqno)
    OBVIOUS
  <2>10. s \in Seqno \cup {None} /\ CountsFor(t, s)
    <3>1. pkt.seqno \in Seqno /\ 0 \in Seqno
      BY <2>4, SixpConstants DEF Packet, Seqno
    <3>2. Started(0) = 0
      BY DEF Started
    <3> QED
      BY <2>8, <2>9, <3>1, <3>2, IncrementType DEF CountsFor
  <2>11. /\ With(n, p) = {}
         /\ trans' = [trans EXCEPT ![n][b] = t]
         /\ nbr' = [nbr EXCEPT ![n][p] = s]
         /\ Hand(n, p, pkt, b)
         /\ requests' = requests + 1
         /\ UNCHANGED <<inbox, restarts>>
    BY <1>2, <2>1, <2>3, <2>5, <2>7, <2>9 DEF Request
  <2>12. TablesOK'
    BY <2>8, <2>10, <2>11, NewSteps
  <2>13. OutOK'
    BY <2>4, <2>11, HandOK
  <2> QED
    BY <2>2, <2>11, <2>12, <2>13 DEF InboxOK, CountersOK
<1>3. ASSUME NEW b \in Blocks, Reply(n, b) PROVE SixpInv'
  <2>1. TablesOK' /\ OutOK'
    BY <1>3, TransactionOf, RespondOK DEF Reply, Code
  <2> QED
    BY <1>3, <2>1 DEF Reply, InboxOK, CountersOK
<1>4. ASSUME NEW b \in Blocks, Confirm(n, b) PROVE SixpInv'
  <2>1. PICK t \in Trans : t = trans[n][b] /\ trans[n][b] # None
    BY <1>4, TransactionOf DEF Confirm
  <2>2. t.peer \in Node /\ t.seqno \in Seqno /\ t.id \in 1 .. MaxRequests
    BY DEF Trans
  <2>4. PICK t1 : t1 = [t EXCEPT !.state = "CONFIRMATION_SENDING"]
    OBVIOUS
  <2>5. t1 \in Trans /\ t1.peer = t.peer /\ t1.cmd = t.cmd /\ t.cmd = "Add3"
        /\ t1.state = "CONFIRMATION_SENDING"
    BY <1>4, <2>1, <2>4 DEF Trans, TransState, Confirm, ThreeStep
  <2>6. trans' = [trans EXCEPT ![n][b] = t1] /\ nbr' = nbr
    BY <1>4, <2>1, <2>4 DEF Confirm, TablesOK
  <2>7. CountsFor(t1, nbr[n][t1.peer])
    BY <2>5 DEF CountsFor
  <2>8. TablesOK'
    BY <2>1, <2>5, <2>6, <2>7, TransactionMoves
  <2>9. PICK pkt \in Sound : pkt = [type |-> "Confirmation", code |-> "SUCCESS",
                                    seqno |-> t.seqno, id |-> t.id]
    BY <2>2, ResponseSound DEF Code
  <2>10. Hand(n, t.peer, pkt, b)
    BY <1>4, <2>1, <2>9 DEF Confirm
  <2>11. OutOK'
    BY <2>2, <2>10, HandOK
  <2> QED
    BY <1>4, <2>8, <2>11 DEF Confirm, InboxOK, CountersOK
<1> QED
  BY <1>1, <1>2, <1>3, <1>4 DEF SfStep

\* The MAC has ended with a packet: its transaction moves on, and an answer
\* that arrived sets next_seqno.
LEMMA MacCallbackOK ==
  ASSUME SixpInv, NEW n \in Node, NEW p \in Node, NEW ok \in BOOLEAN,
         MacCallback(n, p, ok)
  PROVE  SixpInv'
<1> USE DEF SixpInv
<1>1. out[n][p] # <<>> /\ out' = [out EXCEPT ![n][p] = Tail(@)]
  BY DEF MacCallback
<1>2. out[n][p] \in Seq(SoundQueued)
  BY DEF OutOK
<1>3. PICK e \in SoundQueued : e = Head(out[n][p])
  BY <1>1, <1>2
<1>4. OutOK'
  <2>1. Tail(out[n][p]) \in Seq(SoundQueued)
    BY <1>1, <1>2
  <2> QED
    BY <1>1, <2>1 DEF OutOK
<1>5. CASE e.block = None \/ trans[n][e.block] = None
  <2>1. TablesOK'
    BY <1>3, <1>5 DEF MacCallback, TablesOK
  <2> QED
    BY <1>4, <2>1 DEF MacCallback, InboxOK, CountersOK
<1>6. CASE ~(e.block = None \/ trans[n][e.block] = None)
  <2>1. PICK b \in Blocks : b = e.block /\ trans[n][b] # None
    BY <1>6 DEF SoundQueued
  <2>2. PICK t \in Trans : t = trans[n][b]
    BY <2>1, TransactionOf
  <2>3. PICK nxt \in Seqno \cup {None} : nxt = nbr[n][t.peer]
    BY <2>1, <2>2, TransactionOf
  <2>4. CountsFor(t, nxt) /\ t.peer \in Node
        /\ \A c \in Blocks : trans[n][c] # None /\ trans[n][c].peer = t.peer => c = b
    BY <2>1, <2>2, <2>3, TransactionOf
  <2>5. PICK s \in TransState : s = Reported(t.state, ok)
    BY DEF Reported, Trans, TransState
  <2>6. PICK t1 : t1 = [t EXCEPT !.state = s]
    OBVIOUS
  <2>7. t1 \in Trans /\ t1.peer = t.peer /\ t1.cmd = t.cmd /\ t1.state = s
    BY <2>6 DEF Trans
  <2>8. trans' = [trans EXCEPT ![n][b] = t1]
    BY <1>3, <1>6, <2>1, <2>2, <2>5, <2>6 DEF MacCallback, TablesOK
  <2>9. CASE s = "RESPONSE_SENT" /\ s # t.state
    <3>1. PICK w : w = Synchronised(t, nxt)
      OBVIOUS
    <3>2. t.state = "RESPONSE_SENDING"
      BY <2>5, <2>9 DEF Reported
    <3>3. t.seqno \in Seqno
      BY DEF Trans
    <3>4. w \in Seqno \cup {None} /\ CountsFor(t1, w)
      BY <2>4, <2>7, <2>9, <3>1, <3>2, <3>3, IncrementType
         DEF CountsFor, Synchronised
    <3>5. nbr' = [nbr EXCEPT ![n][t1.peer] = w]
      <4>1. nbr' = [nbr EXCEPT ![n][t.peer] = Synchronised(t, @)]
        BY <1>3, <1>6, <2>1, <2>2, <2>5, <2>9 DEF MacCallback
      <4> QED
        BY <2>3, <2>4, <2>7, <3>1, <4>1 DEF TablesOK
    <3>6. \A c \in Blocks : trans[n][c] # None /\ trans[n][c].peer = t1.peer => c = b
      BY <2>4, <2>7
    <3>7. TablesOK'
      BY <2>7, <2>8, <3>4, <3>5, <3>6, TransactionSteps
    <3> QED
      BY <1>4, <3>7 DEF MacCallback, InboxOK, CountersOK
  <2>10. CASE ~(s = "RESPONSE_SENT" /\ s # t.state)
    <3>1. nbr' = nbr
      BY <1>3, <1>6, <2>1, <2>2, <2>5, <2>10 DEF MacCallback
    <3>2. CountsFor(t1, nxt)
      BY <2>4, <2>5, <2>7, <2>10 DEF CountsFor, Reported
    <3>3. TablesOK'
      BY <2>1, <2>2, <2>3, <2>7, <2>8, <3>1, <3>2, TransactionMoves
    <3> QED
      BY <1>4, <3>3 DEF MacCallback, InboxOK, CountersOK
  <2> QED
    BY <2>9, <2>10
<1> QED
  BY <1>5, <1>6

LEMMA TransmitOK ==
  ASSUME SixpInv, NEW n \in Node, NEW p \in Node, Transmit(n, p)
  PROVE  SixpInv'
<1> USE DEF SixpInv
<1>1. PICK e \in SoundQueued : e = Head(out[n][p])
  BY DEF Transmit, OutOK
<1>2. OutOK'
  <2>1. [e EXCEPT !.heard = TRUE] \in SoundQueued
    BY DEF SoundQueued
  <2>2. out[n][p] \in Seq(SoundQueued) /\ out[n][p] # <<>> /\ e = out[n][p][1]
    BY <1>1 DEF Transmit, OutOK
  <2>3. [out[n][p] EXCEPT ![1] = [e EXCEPT !.heard = TRUE]] \in Seq(SoundQueued)
    BY <2>1, <2>2
  <2>4. out' = [out EXCEPT ![n][p] = [out[n][p] EXCEPT ![1] = [e EXCEPT !.heard = TRUE]]]
    BY <2>2 DEF Transmit, OutOK
  <2> QED
    BY <2>3, <2>4 DEF OutOK
<1>3. InboxOK'
  <2>1. [from |-> n, pkt |-> e.pkt] \in SoundInput
    BY DEF SoundInput, SoundQueued
  <2>2. inbox' = [inbox EXCEPT ![p] = Append(@, [from |-> n, pkt |-> e.pkt])]
    BY <1>1 DEF Transmit
  <2> QED
    BY <2>1, <2>2 DEF InboxOK
<1>4. TablesOK'
  BY DEF Transmit, TablesOK
<1> QED
  BY <1>2, <1>3, <1>4 DEF Transmit, CountersOK

-----------------------------------------------------------------------------
(***************************************************************************)
(* Packets in, timers and power cycles                                     *)
(***************************************************************************)

\* A packet of the input queue is well formed, and so is the rest of the queue.
LEMMA TakingOK ==
  ASSUME InboxOK, NEW n \in Node, NEW type, Taking(n, type)
  PROVE  /\ InboxOK'
         /\ Head(inbox[n]).from \in Node /\ Head(inbox[n]).pkt \in Sound
         /\ Head(inbox[n]).pkt.type = type
<1>1. inbox[n] \in Seq(SoundInput) /\ inbox[n] # <<>>
      /\ inbox' = [inbox EXCEPT ![n] = Tail(@)]
  BY DEF Taking, InboxOK
<1>2. Head(inbox[n]) \in SoundInput /\ Tail(inbox[n]) \in Seq(SoundInput)
  BY <1>1
<1> QED
  BY <1>1, <1>2 DEF Taking, InboxOK, SoundInput

LEMMA SendBackOK ==
  ASSUME OutOK, NEW n \in Node, NEW p \in Node, NEW pkt \in Sound, NEW rc \in Code,
         SendBack(n, p, pkt, rc)
  PROVE  OutOK'
<1>1. pkt.seqno \in Seqno /\ pkt.id \in 1 .. MaxRequests
  BY DEF Sound, Packet
<1>2. PICK back \in Sound : back = [type |-> "Response", code |-> rc,
                                    seqno |-> pkt.seqno, id |-> pkt.id]
  BY <1>1, ResponseSound
<1>3. Hand(n, p, back, None)
  BY <1>2 DEF SendBack
<1> QED
  BY <1>3, HandOK

\* The value a CLEAR leaves in next_seqno, entry or no entry.
LEMMA ClearedOK ==
  ASSUME TablesOK, NEW n \in Node, NEW p \in Node, NEW pkt
  PROVE  \E s \in Seqno \cup {None} :
           /\ Cleared(n, p, pkt) = [nbr EXCEPT ![n][p] = s]
           /\ pkt.code = "Clear" => Started(s) = 0
<1>1. nbr[n][p] \in Seqno \cup {None}
      /\ [nbr EXCEPT ![n][p] = nbr[n][p]] = nbr
  BY DEF TablesOK
<1>2. 0 \in Seqno /\ Started(0) = 0 /\ Started(None) = 0
  BY SixpConstants DEF Seqno, Started
<1>3. CASE pkt.code = "Clear" /\ nbr[n][p] # None
  BY <1>2, <1>3 DEF Cleared
<1>4. CASE ~(pkt.code = "Clear" /\ nbr[n][p] # None)
  BY <1>1, <1>2, <1>4 DEF Cleared
<1> QED
  BY <1>3, <1>4

\* sixp_input() takes one packet.
LEMMA SixpInputOK ==
  ASSUME SixpInv, NEW n \in Node, SixpInput(n)
  PROVE  SixpInv'
<1> USE DEF SixpInv
<1> DEFINE p == Head(inbox[n]).from
           pkt == Head(inbox[n]).pkt
<1>1. CASE RequestWhileBusy(n)
  <2>1. Taking(n, "Request")
    BY <1>1 DEF RequestWhileBusy
  <2>2. InboxOK' /\ p \in Node /\ pkt \in Sound
    BY <2>1, TakingOK
  <2>3. PICK b : b = TheOne(n, p)
    OBVIOUS
  <2>4. b \in Blocks /\ trans[n][b] # None
    BY <1>1, <2>2, <2>3, TheOneIs DEF RequestWhileBusy
  <2>5. \/ \E rc \in Code : SendBack(n, p, pkt, rc) /\ UNCHANGED <<trans, nbr>>
        \/ /\ trans[n][b].state = "REQUEST_RECEIVED"
           /\ Respond(n, b, trans[n][b], "ERR_SEQNUM")
    BY <1>1, <2>3 DEF RequestWhileBusy, Code
  <2>6. TablesOK' /\ OutOK'
    <3>1. CASE \E rc \in Code : SendBack(n, p, pkt, rc) /\ UNCHANGED <<trans, nbr>>
      BY <2>2, <3>1, SendBackOK DEF TablesOK
    <3>2. CASE /\ trans[n][b].state = "REQUEST_RECEIVED"
               /\ Respond(n, b, trans[n][b], "ERR_SEQNUM")
      BY <2>4, <3>2, TransactionOf, RespondOK DEF Code
    <3> QED
      BY <2>5, <3>1, <3>2
  <2> QED
    BY <2>1, <2>2, <2>6 DEF Taking, CountersOK
<1>2. CASE RequestNoMemory(n)
  <2>1. Taking(n, "Request")
    BY <1>2 DEF RequestNoMemory
  <2>2. InboxOK' /\ p \in Node /\ pkt \in Sound
    BY <2>1, TakingOK
  <2>3. PICK s \in Seqno \cup {None} : Cleared(n, p, pkt) = [nbr EXCEPT ![n][p] = s]
    BY <2>2, ClearedOK
  <2>4. /\ With(n, p) = {} /\ trans' = trans
        /\ nbr' = [nbr EXCEPT ![n][p] = s]
        /\ SendBack(n, p, pkt, "ERR_BUSY")
    BY <1>2, <2>3 DEF RequestNoMemory
  <2>5. TablesOK'
    BY <2>2, <2>4, NextSteps
  <2>6. OutOK'
    BY <2>2, <2>4, SendBackOK DEF Code
  <2> QED
    BY <2>1, <2>2, <2>5, <2>6 DEF Taking, CountersOK
<1>3. CASE RequestTaken(n)
  <2>1. Taking(n, "Request")
    BY <1>3 DEF RequestTaken
  <2>2. InboxOK' /\ p \in Node /\ pkt \in Sound /\ pkt \in Packet
        /\ pkt.code \in Command
    BY <2>1, TakingOK DEF Sound
  <2>3. PICK b \in Blocks : b = Min(FreeBlocks(n))
    BY <1>3, FirstFree DEF RequestTaken
  <2>4. With(n, p) = {}
    BY <1>3 DEF RequestTaken
  <2>5. PICK t \in Trans : t = NewTrans(p, pkt, "REQUEST_RECEIVED")
    BY <2>2, NewTransType DEF TransState
  <2>6. t.peer = p /\ t.cmd = pkt.code /\ t.state = "REQUEST_RECEIVED"
    BY <2>5 DEF NewTrans
  <2>7. TablesOK' /\ OutOK'
    <3>1. CASE Inconsistent(pkt, nbr[n][p])
      <4>1. Respond(n, b, t, "ERR_SEQNUM")
        BY <1>3, <2>3, <2>5, <3>1 DEF RequestTaken
      <4>2. CountsFor(t, nbr[n][t.peer])
        BY <2>6, <3>1 DEF CountsFor, Inconsistent
      <4>3. \A c \in Blocks : trans[n][c] # None /\ trans[n][c].peer = t.peer => c = b
        BY <2>2, <2>4, <2>6, NoneWith
      <4> QED
        BY <2>6, <4>1, <4>2, <4>3, RespondOK DEF Code
    <3>2. CASE ~Inconsistent(pkt, nbr[n][p])
      <4>1. PICK s \in Seqno \cup {None} :
              /\ Cleared(n, p, pkt) = [nbr EXCEPT ![n][p] = s]
              /\ pkt.code = "Clear" => Started(s) = 0
        BY <2>2, ClearedOK
      <4>2. CountsFor(t, s)
        BY <2>6, <4>1 DEF CountsFor
      <4>3. trans' = [trans EXCEPT ![n][b] = t] /\ nbr' = [nbr EXCEPT ![n][p] = s]
            /\ out' = out
        BY <1>3, <2>3, <2>5, <3>2, <4>1 DEF RequestTaken
      <4>4. TablesOK'
        BY <2>4, <2>6, <4>2, <4>3, NewSteps
      <4> QED
        BY <4>3, <4>4 DEF OutOK
    <3> QED
      BY <3>1, <3>2
  <2> QED
    BY <2>1, <2>2, <2>7 DEF Taking, CountersOK
<1>4. ASSUME NEW type \in {"Response", "Confirmation"}, AnswerTaken(n, type)
      PROVE  SixpInv'
  <2>1. Taking(n, type)
    BY <1>4 DEF AnswerTaken
  <2>2. InboxOK' /\ p \in Node /\ pkt \in Sound
    BY <2>1, TakingOK
  <2>3. PICK b : b = TheOne(n, p)
    OBVIOUS
  <2>4. PICK state \in TransState : state = IF type = "Response"
                                            THEN "RESPONSE_RECEIVED"
                                            ELSE "CONFIRMATION_RECEIVED"
    BY DEF TransState
  <2>5. nbr' = nbr /\ out' = out
    BY <1>4 DEF AnswerTaken
  <2>6. TablesOK'
    <3>1. CASE trans' = trans
      BY <2>5, <3>1 DEF TablesOK
    <3>2. CASE ~(trans' = trans)
      <4>1. /\ With(n, p) # {} /\ Expects(trans[n][b], type)
            /\ trans' = [trans EXCEPT ![n][b] =
                  [trans[n][b] EXCEPT !.state = state, !.answered = pkt.id]]
        BY <1>4, <2>3, <2>4, <3>2 DEF AnswerTaken
      <4>2. b \in Blocks /\ trans[n][b] # None
        BY <2>2, <2>3, <4>1, TheOneIs
      <4>3. PICK t \in Trans : t = trans[n][b]
        BY <4>2, TransactionOf
      <4>4. pkt.id \in 1 .. MaxRequests
        BY <2>2 DEF Sound, Packet
      <4>5. PICK t1 : t1 = [t EXCEPT !.state = state, !.answered = pkt.id]
        OBVIOUS
      <4>6. t1 \in Trans /\ t1.peer = t.peer /\ t1.cmd = t.cmd /\ t1.state = state
        BY <4>4, <4>5 DEF Trans
      <4>7. CountsFor(t, nbr[n][t.peer]) /\ t.state # "TERMINATING"
        BY <4>1, <4>2, <4>3, TransactionOf DEF Expects
      <4>8. CountsFor(t1, nbr[n][t1.peer])
        BY <2>4, <4>6, <4>7 DEF CountsFor
      <4>9. trans' = [trans EXCEPT ![n][b] = t1]
        BY <4>1, <4>3, <4>5
      <4> QED
        BY <2>5, <4>2, <4>3, <4>6, <4>8, <4>9, TransactionMoves
    <3> QED
      BY <3>1, <3>2
  <2> QED
    BY <2>1, <2>2, <2>5, <2>6 DEF Taking, CountersOK, OutOK
<1> QED
  BY <1>1, <1>2, <1>3, <1>4 DEF SixpInput

\* A transaction is over or its time is out.
LEMMA TimerStepOK ==
  ASSUME SixpInv, NEW n \in Node, NEW b \in Blocks, TimerStep(n, b)
  PROVE  SixpInv'
<1> USE DEF SixpInv
<1>1. CASE Process(n, b)
  <2>1. TablesOK'
    BY <1>1, FreeSteps DEF Process
  <2> QED
    BY <1>1, <2>1 DEF Process, OutOK, InboxOK, CountersOK
<1>2. CASE Timeout(n, b)
  <2>1. PICK t \in Trans : t = trans[n][b] /\ trans[n][b] # None
    BY <1>2, TransactionOf DEF Timeout
  <2>2. PICK t1 : t1 = [t EXCEPT !.state = "TERMINATING"]
    OBVIOUS
  <2>3. t1 \in Trans /\ t1.peer = t.peer /\ t1.state = "TERMINATING"
    BY <2>2 DEF Trans, TransState
  <2>4. trans' = [trans EXCEPT ![n][b] = t1] /\ nbr' = nbr
    BY <1>2, <2>1, <2>2 DEF Timeout, TablesOK
  <2>5. CountsFor(t1, nbr[n][t1.peer])
    BY <2>3 DEF CountsFor
  <2>6. TablesOK'
    BY <2>1, <2>3, <2>4, <2>5, TransactionMoves
  <2> QED
    BY <1>2, <2>6 DEF Timeout, OutOK, InboxOK, CountersOK
<1> QED
  BY <1>1, <1>2 DEF TimerStep

\* A node loses its transactions, its neighbours and its queues together.
LEMMA RestartOK ==
  ASSUME SixpInv, NEW n \in Node, Restart(n)
  PROVE  SixpInv'
<1> USE DEF SixpInv
<1>1. PICK pool, next : /\ pool = [b \in Blocks |-> None]
                        /\ next = [p \in Node |-> None]
  OBVIOUS
<1>2. NodeOK(pool, next)
  BY <1>1 DEF NodeOK
<1>3. trans' = [trans EXCEPT ![n] = pool] /\ nbr' = [nbr EXCEPT ![n] = next]
  BY <1>1 DEF Restart
<1>4. TablesOK'
  BY <1>2, <1>3, OneNodeSteps
<1>5. OutOK' /\ InboxOK'
  BY DEF Restart, OutOK, InboxOK
<1> QED
  BY <1>4, <1>5, SixpConstants DEF Restart, CountersOK

LEMMA SixpInvNext == SixpInv /\ [SixpNext]_sixpVars => SixpInv'
<1> SUFFICES ASSUME SixpInv, [SixpNext]_sixpVars PROVE SixpInv'
  OBVIOUS
<1>1. CASE SixpNext
  BY <1>1, SfStepOK, SixpInputOK, RestartOK, MacCallbackOK, TransmitOK, TimerStepOK
     DEF SixpNext, MacStep
<1>2. CASE UNCHANGED sixpVars
  BY <1>2 DEF sixpVars, SixpInv, TablesOK, OutOK, InboxOK, CountersOK
<1> QED
  BY <1>1, <1>2

-----------------------------------------------------------------------------
(***************************************************************************)
(* Theorems                                                                *)
(***************************************************************************)

\* The inductive invariant holds in every behaviour of 6P.
THEOREM SixpInvariance == SixpSpec => []SixpInv
<1>1. SixpInit => SixpInv
  BY SixpInvInit
<1>2. SixpInv /\ [SixpNext]_sixpVars => SixpInv'
  BY SixpInvNext
<1> QED
  BY <1>1, <1>2, PTL DEF SixpSpec

\* A sequence over a set is one over a larger set.
LEMMA WiderSeq ==
  ASSUME NEW S, NEW T, S \subseteq T
  PROVE  \A q \in Seq(S) : q \in Seq(T)
  OBVIOUS

\* Transactions, neighbours and packets keep their types, whatever is lost.
THEOREM SixpTypeCorrect == SixpSpec => []SixpTypeOK
<1>1. SixpInv => SixpTypeOK
  <2> SUFFICES ASSUME SixpInv PROVE SixpTypeOK
    OBVIOUS
  <2>1. SoundQueued \subseteq Queued
    BY DEF SoundQueued, Queued, Sound
  <2>2. SoundInput \subseteq [from : Node, pkt : Packet]
    BY DEF SoundInput, Sound
  <2>3. \A q \in Seq(SoundQueued) : q \in Seq(Queued)
    BY <2>1, WiderSeq
  <2>4. \A q \in Seq(SoundInput) : q \in Seq([from : Node, pkt : Packet])
    BY <2>2, WiderSeq
  <2> QED
    BY <2>3, <2>4 DEF SixpInv, TablesOK, OutOK, InboxOK, CountersOK, SixpTypeOK
<1> QED
  BY <1>1, SixpInvariance, PTL

\* While a request or an answer that is not of a CLEAR is in process, next_seqno
\* is not the 0 of a reset, for every SeqNum range and every loss.
THEOREM ZeroOnlyWhenCleared == SixpSpec => []ZeroMeansCleared
<1>1. SixpInv => ZeroMeansCleared
  BY TransactionOf DEF SixpInv, ZeroMeansCleared, CountsFor
<1> QED
  BY <1>1, SixpInvariance, PTL

\* The transaction of a CLEAR has next_seqno reset until it terminates.
THEOREM ClearStaysReset == SixpSpec => []ClearKeepsZero
<1>1. SixpInv => ClearKeepsZero
  BY TransactionOf DEF SixpInv, ClearKeepsZero, CountsFor, Generation
<1> QED
  BY <1>1, SixpInvariance, PTL

=============================================================================
