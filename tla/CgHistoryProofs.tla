-------------------------- MODULE CgHistoryProofs ---------------------------
(***************************************************************************)
(* What the estimates of the APAS rule promise over several ticks, proved  *)
(* for every set of neighbours, every table size, every cap and every      *)
(* setting of the build switches.  The promises are about the default      *)
(* weights of the C file (shifts of 2, 1, 3, 0 and 2), which each theorem  *)
(* names; thresholds, the saturation and the largest shard count are left  *)
(* as wide as the promise allows.                                          *)
(*                                                                         *)
(* Each proof follows one average along its history counter: the invariant *)
(* says where the average may stand after k silent checks, k busy or quiet *)
(* windows, or k equal reports.                                            *)
(***************************************************************************)
EXTENDS CgHistory, ChildGrandchildProofs

-----------------------------------------------------------------------------
(***************************************************************************)
(* The invariants                                                          *)
(***************************************************************************)

\* The values of the history variables.
HTypeOK ==
  /\ silence \in [Neighbor -> 0 .. Horizon]
  /\ busy \in 0 .. Horizon
  /\ quiet \in 0 .. Horizon
  /\ reports \in [Neighbor -> [value : 1 .. ShardsMax, times : 0 .. Horizon]]

HInv == Inv /\ HTypeOK

\* The activity of a child after k silent checks in a row: it starts from 256
\* exactly, because hearing the child (or adding it) snaps the average up.
IdleAfter(k, idle) ==
  \/ k = 0 /\ idle = 256
  \/ k = 1 /\ idle = 192
  \/ k = 2 /\ idle = 144
  \/ k = 3 /\ idle = 108
  \/ k = 4 /\ idle = 81
  \/ k >= 5 /\ idle <= 60

SilenceInv ==
  IdleReclaim => \A n \in Neighbor :
    children[n].inUse => IdleAfter(silence[n], children[n].idle)

\* The least load average after k busy windows in a row ...
LoadAfterBusy(k, e) ==
  /\ k >= 1 => e >= 96
  /\ k >= 2 => e >= 144
  /\ k >= 3 => e >= 168
  /\ k >= 4 => e >= 180
  /\ k >= 5 => e >= 186

\* ... and the greatest one after k quiet ones.
LoadAfterQuiet(k, e) ==
  /\ k >= 1 => e <= 224
  /\ k >= 2 => e <= 196
  /\ k >= 3 => e <= 171
  /\ k >= 4 => e <= 149
  /\ k >= 5 => e <= 130
  /\ k >= 6 => e <= 113
  /\ k >= 7 => e <= 98
  /\ k >= 8 => e <= 85
  /\ k >= 9 => e <= 74
  /\ k >= 10 => e <= 64
  /\ k >= 11 => e <= 56

LoadInv == LoadAfterBusy(busy, load.ewma) /\ LoadAfterQuiet(quiet, load.ewma)

\* How far above a count its average may still stand after k reports of it;
\* it never stands below.
DebtAfter(k, debt) ==
  /\ k >= 1 => 0 <= debt /\ debt <= 1152
  /\ k >= 2 => debt <= 864
  /\ k >= 3 => debt <= 648
  /\ k >= 4 => debt <= 486
  /\ k >= 5 => debt <= 364
  /\ k >= 6 => debt <= 273
  /\ k >= 7 => debt <= 204
  /\ k >= 8 => debt <= 153
  /\ k >= 9 => debt <= 114

ReportInv ==
  EwmaShardCount => \A n \in Neighbor :
    children[n].inUse
      => DebtAfter(reports[n].times, children[n].ewma - reports[n].value * One)

-----------------------------------------------------------------------------
(***************************************************************************)
(* Types                                                                   *)
(***************************************************************************)

LEMMA HorizonType == Horizon \in Nat /\ Horizon >= 12
  BY HorizonAssumption

\* The history variables watch: every step is a step of the rule.
LEMMA HistoryStep == [HNext]_hvars => [Next]_vars
<1> SUFFICES ASSUME [HNext]_hvars PROVE [Next]_vars
  OBVIOUS
<1>1. CASE UNCHANGED hvars
  BY <1>1 DEF hvars
<1>2. ASSUME NEW n \in Neighbor, HChildAdded(n) PROVE Next
  BY <1>2 DEF HChildAdded, Next
<1>3. ASSUME NEW n \in Neighbor, NEW r \in Reports, HChildEbInput(n, r)
      PROVE  Next
  BY <1>3 DEF HChildEbInput, Next
<1>4. CASE HIdleTick
  BY <1>4 DEF HIdleTick, Next
<1>5. CASE HLoadTick
  BY <1>5 DEF HLoadTick, Next
<1>6. CASE HOther
  BY <1>6 DEF HOther, Next
<1> QED
  BY <1>1, <1>2, <1>3, <1>4, <1>5, <1>6 DEF HNext

LEMMA HInvInit == HInit => HInv
<1> SUFFICES ASSUME HInit PROVE HInv
  OBVIOUS
<1>1. Inv
  BY InvInit DEF HInit
<1>2. [value |-> 1, times |-> 0]
        \in [value : 1 .. ShardsMax, times : 0 .. Horizon]
  BY HorizonType, ShardsMaxType
<1> QED
  BY <1>1, <1>2, HorizonType DEF HInit, HInv, HTypeOK

LEMMA HInvNext == HInv /\ [HNext]_hvars => HInv'
<1> SUFFICES ASSUME HInv, [HNext]_hvars PROVE HInv'
  OBVIOUS
<1>1. Inv'
  BY HistoryStep, InvNext DEF HInv
<1> USE DEF HInv, HTypeOK
<1>2. CASE UNCHANGED hvars
  BY <1>1, <1>2 DEF hvars
<1>3. ASSUME NEW n \in Neighbor, HChildAdded(n) PROVE HTypeOK'
  <2>1. [value |-> 1, times |-> 0]
          \in [value : 1 .. ShardsMax, times : 0 .. Horizon]
    BY HorizonType, ShardsMaxType
  <2> QED
    BY <1>3, <2>1, HorizonType DEF HChildAdded
<1>4. ASSUME NEW n \in Neighbor, NEW r \in Reports, HChildEbInput(n, r)
      PROVE  HTypeOK'
  <2>1. PICK w : w = [value |-> r, times |-> IF reports[n].value = r
                                    THEN AtMost(reports[n].times + 1, Horizon)
                                    ELSE 1]
    OBVIOUS
  <2>2. w \in [value : 1 .. ShardsMax, times : 0 .. Horizon]
    BY <2>1, HorizonType, ShardsMaxType DEF Reports, AtMost
  <2>3. reports' = IF EwmaShardCount THEN [reports EXCEPT ![n] = w] ELSE reports
    BY <1>4, <2>1 DEF HChildEbInput
  <2> QED
    BY <1>4, <2>2, <2>3 DEF HChildEbInput
<1>5. ASSUME HIdleTick PROVE HTypeOK'
  <2>1. ASSUME NEW n \in Neighbor
        PROVE  Counted(silence[n], children[n].inUse /\ ~children[n].heard)
                 \in 0 .. Horizon
    BY HorizonType DEF Counted, AtMost
  <2> QED
    BY <1>5, <2>1 DEF HIdleTick
<1>6. ASSUME HLoadTick PROVE HTypeOK'
  BY <1>6, HorizonType DEF HLoadTick, Counted, AtMost
<1>7. ASSUME HOther PROVE HTypeOK'
  BY <1>7 DEF HOther
<1>8. HTypeOK'
  BY <1>2, <1>3, <1>4, <1>5, <1>6, <1>7 DEF HNext, hvars
<1> QED
  BY <1>1, <1>8

\* Watching changes nothing: the rule's own invariant and the types of the
\* history hold in every behaviour that is watched.
THEOREM HistoryInvariance == HSpec => []HInv
<1>1. HInit => HInv
  BY HInvInit
<1>2. HInv /\ [HNext]_hvars => HInv'
  BY HInvNext
<1> QED
  BY <1>1, <1>2, PTL DEF HSpec

-----------------------------------------------------------------------------
(***************************************************************************)
(* What each handler does to one entry's averages                          *)
(***************************************************************************)

LEMMA EntryTypes ==
  ASSUME NEW e \in Entry
  PROVE  /\ e.inUse \in BOOLEAN /\ e.heard \in BOOLEAN
         /\ e.shards \in 0 .. ShardsMax /\ e.idle \in 0 .. One
         /\ e.ewma \in 0 .. ShardsMax * One
  BY DEF Entry

LEMMA JoinedAverages ==
  ASSUME NEW e \in Entry
  PROVE  /\ e.inUse => Joined(e).idle = e.idle /\ Joined(e).ewma = e.ewma
         /\ ~e.inUse => Joined(e).idle = IF IdleReclaim THEN 256 ELSE 0
  BY DEF Joined, Resized, NewEntry, Entry, One

LEMMA AdoptedAverages ==
  ASSUME NEW e \in Entry, NEW r \in Reports
  PROVE  /\ Adopted(e, r).idle = e.idle
         /\ EwmaShardCount =>
              /\ Adopted(e, r).ewma = ShardFold(e.ewma, r)
              /\ Adopted(e, r).shards = Rounded(ShardFold(e.ewma, r), ShardsMax)
<1>1. r > 0
  BY ShardsMaxType DEF Reports
<1>2. PICK avg : avg = ShardFold(e.ewma, r)
  OBVIOUS
<1>3. PICK k : k = Rounded(avg, ShardsMax)
  OBVIOUS
<1>4. PICK e1 :
        e1 = IF EwmaShardCount THEN [e EXCEPT !.ewma = avg, !.shards = k]
                               ELSE [e EXCEPT !.shards = r]
  OBVIOUS
<1>5. Adopted(e, r) = IF e1.shards # e.shards THEN Resized(e1) ELSE e1
  BY <1>1, <1>2, <1>3, <1>4 DEF Adopted
<1>6. /\ e1.idle = e.idle
      /\ EwmaShardCount => e1.ewma = avg /\ e1.shards = k
  BY <1>4 DEF Entry
<1>7. /\ Resized(e1).idle = e1.idle
      /\ Resized(e1).ewma = e1.ewma
      /\ Resized(e1).shards = e1.shards
  BY <1>4 DEF Resized, Entry
<1> QED
  BY <1>2, <1>3, <1>5, <1>6, <1>7

LEMMA IdleCheckedAverages ==
  ASSUME NEW e \in Entry
  PROVE  /\ IdleChecked(e).idle = IdleFold(e.idle, e.heard)
         /\ IdleChecked(e).ewma = e.ewma
         /\ IdleChecked(e).inUse = e.inUse
         /\ IdleChecked(e).shards =
              IF IdleFold(e.idle, e.heard) < IdleThreshold /\ e.shards > 1
              THEN 1 ELSE e.shards
<1>1. PICK i : i = IdleFold(e.idle, e.heard)
  OBVIOUS
<1>2. PICK e1 : e1 = [e EXCEPT !.idle = i, !.heard = FALSE]
  OBVIOUS
<1>3. PICK e2 : e2 = [e1 EXCEPT !.shards = 1]
  OBVIOUS
<1>4. IdleChecked(e) = IF e1.idle < IdleThreshold /\ e.shards > 1
                       THEN Resized(e2) ELSE e1
  BY <1>1, <1>2, <1>3 DEF IdleChecked
<1>5. /\ e1.idle = i /\ e1.ewma = e.ewma
      /\ e1.inUse = e.inUse /\ e1.shards = e.shards
  BY <1>2 DEF Entry
<1>6. /\ Resized(e2).idle = i /\ Resized(e2).ewma = e.ewma
      /\ Resized(e2).inUse = e.inUse /\ Resized(e2).shards = 1
  BY <1>2, <1>3, <1>5 DEF Resized, Entry
<1> QED
  BY <1>1, <1>4, <1>5, <1>6

\* What HOther stands for removes a child or leaves its averages alone.
LEMMA OtherKeepsAverages ==
  ASSUME HInv, HOther, NEW n \in Neighbor, children'[n].inUse
  PROVE  /\ children[n].inUse
         /\ children'[n].idle = children[n].idle
         /\ children'[n].ewma = children[n].ewma
<1> USE DEF HInv, Inv
<1>1. /\ children \in [Neighbor -> Entry]
      /\ children[n] \in Entry
  BY DEF TableOK
<1>2. ASSUME NEW m \in Neighbor, ChildRemoved(m)
      PROVE  children'[n] = children[n]
  BY <1>1, <1>2 DEF ChildRemoved, FreeEntry
<1>3. ASSUME NEW m \in Neighbor, DataInput(m)
      PROVE  /\ children'[n].inUse = children[n].inUse
             /\ children'[n].idle = children[n].idle
             /\ children'[n].ewma = children[n].ewma
  BY <1>1, <1>3 DEF DataInput, Entry
<1>4. \/ \E m \in Neighbor : ChildRemoved(m) \/ DataInput(m)
      \/ UNCHANGED children
  BY DEF HOther, PacketReady, NewTimeSource, DaoAcked, BootstrapTick
<1> QED
  BY <1>2, <1>3, <1>4

-----------------------------------------------------------------------------
(***************************************************************************)
(* Silence and reclaim                                                     *)
(***************************************************************************)

\* One check of a child that was heard, and one of a silent child.
LEMMA IdleFoldSteps ==
  ASSUME IdleDecay = 4, NEW e \in 0 .. One
  PROVE  /\ IdleFold(e, TRUE) = 256
         /\ IdleFold(e, FALSE) = e + ((-e) \div 4)
<1>1. CASE e = 0
  BY <1>1 DEF IdleFold, Towards, One
<1>2. CASE e > 0
  BY <1>2 DEF IdleFold, Towards, One
<1>3. e = 0 \/ e > 0
  BY DEF One
<1> QED
  BY <1>1, <1>2, <1>3, Zenon

LEMMA IdleAfterCheck ==
  ASSUME IdleDecay = 4, NEW k \in 0 .. Horizon, NEW e \in 0 .. One,
         NEW silent \in BOOLEAN, IdleAfter(k, e)
  PROVE  IdleAfter(Counted(k, silent), IdleFold(e, ~silent))
<1>1. CASE ~silent
  <2>1. IdleFold(e, ~silent) = 256 /\ Counted(k, silent) = 0
    BY <1>1, IdleFoldSteps DEF Counted
  <2> QED
    BY <2>1 DEF IdleAfter
<1>2. CASE silent
  <2>1. PICK f : f = IdleFold(e, ~silent)
    OBVIOUS
  <2>2. f = e + ((-e) \div 4)
    BY <1>2, <2>1, IdleFoldSteps
  <2>3. PICK j : j = Counted(k, silent)
    OBVIOUS
  <2>4. j = IF k = Horizon THEN k ELSE k + 1
    BY <1>2, <2>3, HorizonType DEF Counted, AtMost
  <2>5. e \in Int /\ 0 <= e
    BY DEF One
  <2>6. CASE k >= 5
    <3>1. e <= 60
      BY <2>6 DEF IdleAfter
    <3> QED
      BY <2>1, <2>2, <2>3, <2>4, <2>5, <2>6, <3>1 DEF IdleAfter
  <2>7. CASE k < 5
    <3>1. j = k + 1
      BY <2>4, <2>7, HorizonType
    <3> QED
      BY <2>1, <2>2, <2>3, <2>5, <2>7, <3>1 DEF IdleAfter
  <2> QED
    BY <2>6, <2>7
<1> QED
  BY <1>1, <1>2

LEMMA SilenceNext ==
  ASSUME IdleDecay = 4, HInv, SilenceInv, [HNext]_hvars
  PROVE  SilenceInv'
<1> SUFFICES ASSUME IdleReclaim, NEW n \in Neighbor, children'[n].inUse
             PROVE  IdleAfter(silence'[n], children'[n].idle)
  BY DEF SilenceInv
<1> USE DEF HInv, HTypeOK, Inv
<1>1. /\ children \in [Neighbor -> Entry]
      /\ children[n] \in Entry
      /\ silence[n] \in 0 .. Horizon
  BY DEF TableOK
<1>2. children[n].inUse => IdleAfter(silence[n], children[n].idle)
  BY DEF SilenceInv
<1>3. CASE UNCHANGED hvars
  BY <1>2, <1>3 DEF hvars, vars
<1>4. ASSUME NEW m \in Neighbor, HChildAdded(m)
      PROVE  IdleAfter(silence'[n], children'[n].idle)
  <2>1. CASE m # n
    <3>1. children'[n] = children[n] /\ silence'[n] = silence[n]
      BY <1>1, <1>4, <2>1 DEF HChildAdded, ChildAdded
    <3> QED
      BY <1>2, <3>1
  <2>2. CASE m = n /\ children[n].inUse
    <3>1. children'[n] = Joined(children[n]) /\ silence'[n] = silence[n]
      BY <1>1, <1>4, <2>2 DEF HChildAdded, ChildAdded
    <3> QED
      BY <1>1, <1>2, <2>2, <3>1, JoinedAverages
  <2>3. CASE m = n /\ ~children[n].inUse
    <3>1. children'[n] = Joined(children[n]) /\ silence'[n] = 0
      BY <1>1, <1>4, <2>3 DEF HChildAdded, ChildAdded
    <3>2. children'[n].idle = 256
      BY <1>1, <2>3, <3>1, JoinedAverages
    <3> QED
      BY <3>1, <3>2 DEF IdleAfter
  <2> QED
    BY <2>1, <2>2, <2>3
<1>5. ASSUME NEW m \in Neighbor, NEW r \in Reports, HChildEbInput(m, r)
      PROVE  IdleAfter(silence'[n], children'[n].idle)
  <2>1. children[m].inUse /\ silence' = silence
        /\ children' = [children EXCEPT ![m] = Adopted(@, r)]
    BY <1>5 DEF HChildEbInput, ChildEbInput
  <2>2. CASE m # n
    BY <1>1, <1>2, <2>1, <2>2
  <2>3. CASE m = n
    BY <1>1, <1>2, <2>1, <2>3, AdoptedAverages
  <2> QED
    BY <2>2, <2>3
<1>6. ASSUME HIdleTick
      PROVE  IdleAfter(silence'[n], children'[n].idle)
  <2>1. children'[n] = IF children[n].inUse THEN IdleChecked(children[n])
                                            ELSE children[n]
    BY <1>6 DEF HIdleTick, IdleTick
  <2>2. children[n].inUse
    BY <2>1
  <2>3. PICK silent \in BOOLEAN : silent = ~children[n].heard
    OBVIOUS
  <2>4. silence'[n] = Counted(silence[n], silent)
    BY <1>6, <2>2, <2>3 DEF HIdleTick, Counted
  <2>5. children[n].heard = ~silent /\ children[n].idle \in 0 .. One
    BY <1>1, <2>3, EntryTypes
  <2>6. children'[n].idle = IdleFold(children[n].idle, ~silent)
    BY <1>1, <2>1, <2>2, <2>5, IdleCheckedAverages
  <2> QED
    BY <1>1, <1>2, <2>2, <2>4, <2>5, <2>6, IdleAfterCheck
<1>7. ASSUME HLoadTick
      PROVE  IdleAfter(silence'[n], children'[n].idle)
  BY <1>2, <1>7 DEF HLoadTick, LoadTick
<1>8. ASSUME HOther
      PROVE  IdleAfter(silence'[n], children'[n].idle)
  BY <1>2, <1>8, OtherKeepsAverages DEF HOther
<1> QED
  BY <1>3, <1>4, <1>5, <1>6, <1>7, <1>8 DEF HNext

\* "5 consecutive idle checks": with the default decay and any threshold from
\* 61 to 81 (64 is the default) a child loses its spare shards at its fifth
\* silent check in a row and at no other, however joins, removals, reports and
\* frames interleave with the checks.
THEOREM FifthSilenceReclaims ==
  ASSUME IdleDecay = 4, IdleThreshold \in 61 .. 81
  PROVE  HSpec => ReclaimAtFifthSilence
<1>1. HInit => SilenceInv
  BY DEF HInit, Init, SilenceInv, FreeEntry
<1>2. HInv /\ SilenceInv /\ [HNext]_hvars => SilenceInv'
  BY SilenceNext
<1>3. HInv /\ SilenceInv /\ SilenceInv'
        => [\A n \in Neighbor : HIdleTick /\ children[n].inUse =>
              /\ children'[n].shards < children[n].shards => silence'[n] >= 5
              /\ silence'[n] >= 5 => children'[n].shards <= 1]_hvars
  <2> SUFFICES ASSUME HInv, SilenceInv, SilenceInv', NEW n \in Neighbor,
                      HIdleTick, children[n].inUse
               PROVE  /\ children'[n].shards < children[n].shards
                           => silence'[n] >= 5
                      /\ silence'[n] >= 5 => children'[n].shards <= 1
    OBVIOUS
  <2>1. children[n] \in Entry /\ IdleReclaim
    BY DEF HInv, Inv, TableOK, HIdleTick, IdleTick
  <2>2. children'[n] = IdleChecked(children[n])
    BY DEF HIdleTick, IdleTick
  <2>3. PICK i : i = IdleFold(children[n].idle, children[n].heard)
    OBVIOUS
  <2>4. /\ children'[n].idle = i /\ children'[n].inUse
        /\ children'[n].shards = IF i < IdleThreshold /\ children[n].shards > 1
                                 THEN 1 ELSE children[n].shards
    BY <2>1, <2>2, <2>3, IdleCheckedAverages
  <2>5. IdleAfter(silence'[n], i)
    BY <2>1, <2>4 DEF SilenceInv
  <2>6. silence'[n] \in Int
    <3>1. silence[n] \in 0 .. Horizon
      BY DEF HInv, HTypeOK
    <3> QED
      BY <3>1, HorizonType DEF HIdleTick, Counted, AtMost
  <2>7. children[n].shards \in Int /\ i \in Int
    <3>1. i \in 0 .. One
      BY <2>1, <2>3, IdleFoldType, EntryTypes
    <3> QED
      BY <2>1, <3>1, EntryTypes DEF One
  <2>8. CASE silence'[n] >= 5
    <3>1. i < IdleThreshold
      BY <2>5, <2>6, <2>7, <2>8 DEF IdleAfter
    <3> QED
      BY <2>4, <2>7, <2>8, <3>1
  <2>9. CASE silence'[n] < 5
    <3>1. ~(i < IdleThreshold)
      BY <2>5, <2>6, <2>7, <2>9 DEF IdleAfter
    <3> QED
      BY <2>4, <2>6, <2>7, <2>9, <3>1
  <2> QED
    BY <2>6, <2>8, <2>9
<1> QED
  BY <1>1, <1>2, <1>3, HistoryInvariance, PTL DEF HSpec, ReclaimAtFifthSilence

-----------------------------------------------------------------------------
(***************************************************************************)
(* The load bonus                                                          *)
(***************************************************************************)

\* Three quarters of the saturation are at least three quarters of the sample.
LEMMA BusySample ==
  ASSUME NEW tx \in 0 .. Saturate, 4 * tx >= 3 * Saturate
  PROVE  LoadSample(tx) \in 192 .. 256
<1>1. Saturate \in 1 .. 255 /\ tx \in Nat
  BY EstimatorAssumption
<1>2. PICK q : q = (tx * 256) \div Saturate
  OBVIOUS
<1>3. LoadSample(tx) = q
  BY <1>1, <1>2 DEF LoadSample, One
<1>4. q \in 0 .. 256
  BY <1>3, LoadSampleType DEF One
<1>5. tx * 256 >= 192 * Saturate
  BY <1>1
<1>6. q >= 192
  BY <1>1, <1>2, <1>5
<1> QED
  BY <1>3, <1>4, <1>6

\* One window, as a function of its sample.
LEMMA LoadFoldSteps ==
  ASSUME LoadAttack = 2, LoadDecay = 8,
         NEW e \in 0 .. One, NEW tx \in 0 .. Saturate
  PROVE  LET s == LoadSample(tx)
         IN  LoadFold(e, tx) = IF s >= e THEN e + ((s - e) \div 2)
                                         ELSE e + ((s - e) \div 8)
  BY DEF LoadFold, Towards

LEMMA LoadAfterWindow ==
  ASSUME LoadAttack = 2, LoadDecay = 8,
         NEW e \in 0 .. One, NEW tx \in 0 .. Saturate,
         NEW b \in 0 .. Horizon, NEW q \in 0 .. Horizon,
         LoadAfterBusy(b, e), LoadAfterQuiet(q, e)
  PROVE  /\ LoadAfterBusy(Counted(b, 4 * tx >= 3 * Saturate), LoadFold(e, tx))
         /\ LoadAfterQuiet(Counted(q, tx = 0), LoadFold(e, tx))
<1>1. PICK s : s = LoadSample(tx)
  OBVIOUS
<1>2. PICK f : f = LoadFold(e, tx)
  OBVIOUS
<1>3. s \in 0 .. 256 /\ e \in 0 .. 256
  BY <1>1, LoadSampleType DEF One
<1>4. f = IF s >= e THEN e + ((s - e) \div 2) ELSE e + ((s - e) \div 8)
  BY <1>1, <1>2, LoadFoldSteps
<1>5. ASSUME 4 * tx >= 3 * Saturate
      PROVE  LoadAfterBusy(Counted(b, 4 * tx >= 3 * Saturate), f)
  <2>1. s >= 192
    BY <1>1, <1>5, BusySample
  <2>2. PICK j : j = IF b = Horizon THEN b ELSE b + 1
    OBVIOUS
  <2>3. Counted(b, 4 * tx >= 3 * Saturate) = j
    BY <1>5, <2>2, HorizonType DEF Counted, AtMost
  <2>4. LoadAfterBusy(j, f)
    BY <1>3, <1>4, <2>1, <2>2, HorizonType DEF LoadAfterBusy
  <2> QED
    BY <2>3, <2>4
<1>6. ASSUME tx = 0
      PROVE  LoadAfterQuiet(Counted(q, tx = 0), f)
  <2>1. s = 0
    BY <1>1, <1>6, EstimatorAssumption DEF LoadSample, One
  <2>2. PICK j : j = IF q = Horizon THEN q ELSE q + 1
    OBVIOUS
  <2>3. Counted(q, tx = 0) = j
    BY <1>6, <2>2, HorizonType DEF Counted, AtMost
  <2>4. LoadAfterQuiet(j, f)
    BY <1>3, <1>4, <2>1, <2>2, HorizonType DEF LoadAfterQuiet
  <2> QED
    BY <2>3, <2>4
<1>7. ASSUME ~(4 * tx >= 3 * Saturate)
      PROVE  LoadAfterBusy(Counted(b, 4 * tx >= 3 * Saturate), f)
  BY <1>7 DEF Counted, LoadAfterBusy
<1>8. ASSUME tx # 0
      PROVE  LoadAfterQuiet(Counted(q, tx = 0), f)
  BY <1>8 DEF Counted, LoadAfterQuiet
<1> QED
  BY <1>2, <1>5, <1>6, <1>7, <1>8

LEMMA LoadTypes ==
  ASSUME HInv
  PROVE  /\ load \in [tx : 0 .. Saturate, ewma : 0 .. One, bonus : BOOLEAN]
         /\ load.tx \in 0 .. Saturate /\ load.ewma \in 0 .. One
         /\ busy \in 0 .. Horizon /\ quiet \in 0 .. Horizon
  BY DEF HInv, HTypeOK, Inv, RestOK

\* Only a load tick moves the load average and its counters.
LEMMA LoadNext ==
  ASSUME LoadAttack = 2, LoadDecay = 8, HInv, LoadInv, [HNext]_hvars
  PROVE  LoadInv'
<1>1. CASE UNCHANGED <<busy, quiet>> /\ load'.ewma = load.ewma
  BY <1>1 DEF LoadInv
<1>2. CASE HLoadTick
  <2>1. load'.ewma = LoadFold(load.ewma, load.tx)
    BY <1>2 DEF HLoadTick, LoadTick
  <2> QED
    BY <1>2, <2>1, LoadTypes, LoadAfterWindow DEF LoadInv, HLoadTick
<1>3. CASE UNCHANGED hvars
  BY <1>1, <1>3 DEF hvars, vars
<1>4. ASSUME NEW n \in Neighbor, HChildAdded(n) PROVE LoadInv'
  BY <1>1, <1>4 DEF HChildAdded, ChildAdded
<1>5. ASSUME NEW n \in Neighbor, NEW r \in Reports, HChildEbInput(n, r)
      PROVE  LoadInv'
  BY <1>1, <1>5 DEF HChildEbInput, ChildEbInput
<1>6. CASE HIdleTick
  BY <1>1, <1>6 DEF HIdleTick, IdleTick
<1>7. CASE HOther
  <2>1. load'.ewma = load.ewma
    <3>1. ASSUME NEW n \in Neighbor, PacketReady(n)
          PROVE  load'.ewma = load.ewma
      BY <3>1, LoadTypes DEF PacketReady
    <3> QED
      BY <1>7, <3>1 DEF HOther, ChildRemoved, DataInput, NewTimeSource,
                        DaoAcked, BootstrapTick
  <2> QED
    BY <1>1, <1>7, <2>1 DEF HOther
<1> QED
  BY <1>2, <1>3, <1>4, <1>5, <1>6, <1>7 DEF HNext

LEMMA LoadInvInit == HInit => LoadInv
  BY DEF HInit, Init, LoadInv, LoadAfterBusy, LoadAfterQuiet

\* A window spent above three quarters of the saturation counts as busy; with
\* the default weights and any threshold up to 162 (160 is the default) a bonus
\* earned by five of them is still there after a window without a frame,
\* whatever the saturation and whatever the windows before were like.
THEOREM BonusOutlivesAQuietWindow ==
  ASSUME LoadAttack = 2, LoadDecay = 8, BusyThreshold <= 162
  PROVE  HSpec => SustainedBonusSurvives
<1>1. HInv /\ LoadInv /\ [HNext]_hvars => LoadInv'
  BY LoadNext
<1>2. HInv /\ LoadInv => [HLoadTick /\ busy >= 5 /\ load.tx = 0
                            => load'.bonus]_hvars
  <2> SUFFICES ASSUME HInv, LoadInv, HLoadTick, busy >= 5, load.tx = 0
               PROVE  load'.bonus
    OBVIOUS
  <2>1. PICK e \in 0 .. One : e = load.ewma
    BY LoadTypes
  <2>2. e >= 186
    BY <2>1 DEF LoadInv, LoadAfterBusy
  <2>3. 0 \in 0 .. Saturate /\ LoadSample(0) = 0
    BY EstimatorAssumption DEF LoadSample, One
  <2>4. PICK f : f = LoadFold(e, 0)
    OBVIOUS
  <2>5. f = e + ((0 - e) \div 8)
    <3>1. ~(0 >= e)
      BY <2>2 DEF One
    <3> QED
      BY <2>3, <2>4, <3>1, LoadFoldSteps
  <2>6. f >= 162
    BY <2>1, <2>2, <2>5 DEF One
  <2>7. Busy(f)
    BY <2>1, <2>5, <2>6, EstimatorAssumption DEF Busy, One
  <2> QED
    BY <2>1, <2>4, <2>7 DEF HLoadTick, LoadTick
<1> QED
  BY <1>1, <1>2, LoadInvInit, HistoryInvariance, PTL
     DEF HSpec, SustainedBonusSurvives

LEMMA BurstOnAColdAverage ==
  ASSUME NEW e \in 0 .. 56, NEW s \in 0 .. 256
  PROVE  /\ s >= e => e + ((s - e) \div 2) \in 0 .. 156
         /\ s < e => e + ((s - e) \div 8) \in 0 .. 156
  OBVIOUS

\* "insurance against a single busy window granting a shard": with the default
\* weights and any threshold from 157 on, no window grants the bonus after
\* eleven without a frame, however many frames it has.
THEOREM OneBurstGrantsNothing ==
  ASSUME LoadAttack = 2, LoadDecay = 8, BusyThreshold >= 157
  PROVE  HSpec => ColdWindowGrantsNothing
<1>1. HInv /\ LoadInv /\ [HNext]_hvars => LoadInv'
  BY LoadNext
<1>2. HInv /\ LoadInv => [HLoadTick /\ quiet >= 11 => ~load'.bonus]_hvars
  <2> SUFFICES ASSUME HInv, LoadInv, HLoadTick, quiet >= 11
               PROVE  ~load'.bonus
    OBVIOUS
  <2>1. PICK e \in 0 .. One : e = load.ewma
    BY LoadTypes
  <2>2. PICK tx \in 0 .. Saturate : tx = load.tx
    BY LoadTypes
  <2>3. e <= 56
    BY <2>1 DEF LoadInv, LoadAfterQuiet
  <2>4. PICK s \in 0 .. 256 : s = LoadSample(tx)
    BY LoadSampleType DEF One
  <2>5. PICK f : f = LoadFold(e, tx)
    OBVIOUS
  <2>6. f = IF s >= e THEN e + ((s - e) \div 2) ELSE e + ((s - e) \div 8)
    BY <2>4, <2>5, LoadFoldSteps
  <2>7. f \in Int /\ f <= 156
    <3>1. e \in 0 .. 56
      BY <2>1, <2>3 DEF One
    <3> QED
      BY <2>4, <2>6, <3>1, BurstOnAColdAverage
  <2>8. ~Busy(f)
    BY <2>7, EstimatorAssumption DEF Busy
  <2>9. load' = [tx |-> 0, ewma |-> f, bonus |-> Busy(f)]
    BY <2>1, <2>2, <2>5 DEF HLoadTick, LoadTick
  <2> QED
    BY <2>8, <2>9
<1> QED
  BY <1>1, <1>2, LoadInvInit, HistoryInvariance, PTL
     DEF HSpec, ColdWindowGrantsNothing

-----------------------------------------------------------------------------
(***************************************************************************)
(* The averaged shard count                                                *)
(***************************************************************************)

\* One report: the average snaps up to a greater count, and comes down by a
\* share of its debt towards a smaller one, never below it.
LEMMA ShardFoldSteps ==
  ASSUME ShardAttack = 1, NEW e \in Nat, NEW r \in Nat
  PROVE  /\ ShardFold(e, r) \in Nat
         /\ ShardFold(e, r) >= r * One
         /\ ShardDecay = 4 /\ e > r * One
              => ShardFold(e, r) = e + ((r * One - e) \div 4)
         /\ e <= r * One => ShardFold(e, r) = r * One
<1>1. PICK v \in Nat : v = r * One
  BY DEF One
<1>2. ShardDecay \in Divisors
  BY EstimatorAssumption
<1>3. CASE e <= v
  <2>1. ShardFold(e, r) = e + ((v - e) \div 1)
    BY <1>1, <1>3 DEF ShardFold, Towards
  <2> QED
    BY <1>1, <1>3, <2>1
<1>4. CASE e > v
  <2>1. ShardFold(e, r) = e + ((v - e) \div ShardDecay)
    BY <1>1, <1>4 DEF ShardFold, Towards
  <2>2. PICK n \in Nat : n = e - v
    BY <1>1, <1>4
  <2>3. PICK q \in (-n) .. 0 : q = (-n) \div ShardDecay
    BY <1>2, DebtType
  <2>4. v - e = -n
    BY <1>1, <2>2
  <2>5. ShardFold(e, r) = e + q
    BY <2>1, <2>3, <2>4
  <2>6. e + q \in Nat /\ e + q >= v
    BY <1>1, <1>4, <2>2, <2>3
  <2> QED
    BY <1>1, <1>4, <2>1, <2>5, <2>6
<1> QED
  BY <1>1, <1>3, <1>4

\* The count installed for an average: not below the report, and the report
\* itself when the average is less than half a shard above it.
LEMMA RoundedSteps ==
  ASSUME NEW max \in Nat, NEW r \in 1 .. max, NEW avg \in Nat, avg >= r * One
  PROVE  /\ Rounded(avg, max) >= r
         /\ avg < r * One + 128 => Rounded(avg, max) = r
<1>1. PICK k : k = (avg + 128) \div 256
  OBVIOUS
<1>2. k \in Int /\ k >= r /\ (avg < r * One + 128 => k = r)
  BY <1>1 DEF One
<1>3. Rounded(avg, max) = IF k < 1 THEN 1 ELSE IF k > max THEN max ELSE k
  BY <1>1 DEF Rounded, One
<1> QED
  BY <1>2, <1>3

\* "adopts increases immediately": with the default attack and any decay the
\* count held for a child is never less than its last report, whatever the
\* average was before.
THEOREM AverageKeepsUp ==
  ASSUME ShardAttack = 1
  PROVE  HSpec => AverageNeverLags
<1>1. HInv => [\A n \in Neighbor : \A r \in Reports :
                 EwmaShardCount /\ HChildEbInput(n, r)
                   => children'[n].shards >= r]_hvars
  <2> SUFFICES ASSUME HInv, NEW n \in Neighbor, NEW r \in Reports,
                      EwmaShardCount, HChildEbInput(n, r)
               PROVE  children'[n].shards >= r
    OBVIOUS
  <2>1. children \in [Neighbor -> Entry] /\ children[n] \in Entry
    BY DEF HInv, Inv, TableOK
  <2>2. PICK e : e = children[n].ewma
    OBVIOUS
  <2>3. e \in Nat /\ r \in Nat /\ r \in 1 .. ShardsMax
    BY <2>1, <2>2, EntryTypes, ShardsMaxType DEF Reports, One
  <2>4. children'[n].shards = Rounded(ShardFold(e, r), ShardsMax)
    BY <2>1, <2>2, AdoptedAverages DEF HChildEbInput, ChildEbInput
  <2>5. PICK avg \in Nat : avg = ShardFold(e, r) /\ avg >= r * One
    BY <2>3, ShardFoldSteps
  <2>6. PICK max \in Nat : max = ShardsMax
    BY ShardsMaxType
  <2>7. Rounded(avg, max) >= r
    BY <2>3, <2>5, <2>6, RoundedSteps
  <2> QED
    BY <2>4, <2>5, <2>6, <2>7
<1> QED
  BY <1>1, HistoryInvariance, PTL DEF AverageNeverLags

\* A report that repeats the last one keeps paying the debt off; a new one
\* starts with at most the debt of the greatest average.
LEMMA DebtAfterReport ==
  ASSUME ShardAttack = 1, ShardDecay = 4, ShardsMax <= 7,
         NEW e \in 0 .. ShardsMax * One, NEW r \in Reports,
         NEW v \in Reports, NEW k \in 0 .. Horizon, DebtAfter(k, e - v * One)
  PROVE  DebtAfter(IF v = r THEN AtMost(k + 1, Horizon) ELSE 1,
                   ShardFold(e, r) - r * One)
<1>1. ShardsMax \in 1 .. 7
  BY ShardsMaxType
<1>2. e \in Nat /\ e <= 1792 /\ r \in 1 .. 7 /\ v \in 1 .. 7
  BY <1>1 DEF Reports, One
<1>3. PICK f : f = ShardFold(e, r)
  OBVIOUS
<1>4. PICK d : d = f - r * One
  OBVIOUS
<1>5. /\ e > r * One => ShardFold(e, r) = e + ((r * One - e) \div 4)
      /\ e <= r * One => ShardFold(e, r) = r * One
  <2>1. e \in Nat /\ r \in Nat
    BY <1>2
  <2> QED
    BY <2>1, ShardFoldSteps
<1>6. d = IF e > r * One THEN (e - r * One) + ((r * One - e) \div 4) ELSE 0
  <2>1. CASE e > r * One
    <3>1. f = e + ((r * One - e) \div 4)
      BY <1>3, <1>5, <2>1
    <3> QED
      BY <1>2, <1>4, <2>1, <3>1 DEF One
  <2>2. CASE e <= r * One
    <3>1. f = r * One
      BY <1>3, <1>5, <2>2
    <3> QED
      BY <1>2, <1>4, <2>2, <3>1 DEF One
  <2> QED
    BY <1>2, <2>1, <2>2 DEF One
<1>7. d \in 0 .. 1152
  BY <1>2, <1>6 DEF One
<1>8. CASE v = r
  <2>1. PICK c : c = e - r * One
    OBVIOUS
  <2>2. c \in Int /\ DebtAfter(k, c)
    BY <1>2, <1>8, <2>1 DEF One
  <2>3. d = IF c > 0 THEN c + ((-c) \div 4) ELSE 0
    BY <1>2, <1>6, <2>1 DEF One
  <2>4. PICK j : j = AtMost(k + 1, Horizon)
    OBVIOUS
  <2>5. j = IF k = Horizon THEN k ELSE k + 1
    BY <2>4, HorizonType DEF AtMost
  <2>6. DebtAfter(j, d)
    BY <1>7, <2>2, <2>3, <2>5, HorizonType DEF DebtAfter
  <2> QED
    BY <1>3, <1>4, <1>8, <2>4, <2>6
<1>9. CASE v # r
  <2>1. DebtAfter(1, d)
    BY <1>7 DEF DebtAfter
  <2> QED
    BY <1>3, <1>4, <1>9, <2>1
<1> QED
  BY <1>8, <1>9

LEMMA ReportNext ==
  ASSUME ShardAttack = 1, ShardDecay = 4, ShardsMax <= 7,
         HInv, ReportInv, [HNext]_hvars
  PROVE  ReportInv'
<1> DEFINE OK(n) == DebtAfter(reports'[n].times,
                              children'[n].ewma - reports'[n].value * One)
<1> SUFFICES ASSUME EwmaShardCount, NEW n \in Neighbor, children'[n].inUse
             PROVE  OK(n)
  BY DEF ReportInv
<1>1. /\ children \in [Neighbor -> Entry]
      /\ children[n] \in Entry
      /\ reports \in [Neighbor ->
                         [value : 1 .. ShardsMax, times : 0 .. Horizon]]
  BY DEF HInv, HTypeOK, Inv, TableOK
<1>2. children[n].inUse
        => DebtAfter(reports[n].times,
                     children[n].ewma - reports[n].value * One)
  BY DEF ReportInv
<1>3. CASE /\ children[n].inUse
           /\ children'[n].ewma = children[n].ewma
           /\ reports'[n] = reports[n]
  BY <1>2, <1>3
<1>4. CASE UNCHANGED hvars
  BY <1>3, <1>4 DEF hvars, vars
<1>5. ASSUME NEW m \in Neighbor, HChildAdded(m) PROVE OK(n)
  <2>1. CASE m # n
    <3>1. children'[n] = children[n] /\ reports'[n] = reports[n]
      BY <1>1, <1>5, <2>1 DEF HChildAdded, ChildAdded
    <3> QED
      BY <1>3, <3>1
  <2>2. CASE m = n /\ children[n].inUse
    <3>1. children'[n] = Joined(children[n]) /\ reports'[n] = reports[n]
      BY <1>1, <1>5, <2>2 DEF HChildAdded, ChildAdded
    <3> QED
      BY <1>1, <1>3, <2>2, <3>1, JoinedAverages
  <2>3. CASE m = n /\ ~children[n].inUse
    <3>1. reports'[n].times = 0
      BY <1>1, <1>5, <2>3 DEF HChildAdded
    <3> QED
      BY <3>1 DEF DebtAfter
  <2> QED
    BY <2>1, <2>2, <2>3
<1>6. ASSUME NEW m \in Neighbor, NEW r \in Reports, HChildEbInput(m, r)
      PROVE  OK(n)
  <2>1. /\ children[m].inUse
        /\ children' = [children EXCEPT ![m] = Adopted(@, r)]
        /\ reports' = [reports EXCEPT ![m] =
             [value |-> r, times |-> IF @.value = r
                                     THEN AtMost(@.times + 1, Horizon)
                                     ELSE 1]]
    BY <1>6 DEF HChildEbInput, ChildEbInput
  <2>2. CASE m # n
    <3>1. children'[n] = children[n] /\ reports'[n] = reports[n]
      BY <1>1, <2>1, <2>2
    <3> QED
      BY <1>3, <3>1
  <2>3. CASE m = n
    <3>1. PICK v \in Reports : v = reports[n].value
      BY <1>1 DEF Reports
    <3>2. PICK k \in 0 .. Horizon : k = reports[n].times
      BY <1>1
    <3>3. PICK e \in 0 .. ShardsMax * One : e = children[n].ewma
      BY <1>1, EntryTypes
    <3>4. DebtAfter(k, e - v * One)
      BY <1>2, <2>1, <2>3, <3>1, <3>2, <3>3
    <3>5. children'[n].ewma = ShardFold(e, r)
      BY <1>1, <2>1, <2>3, <3>3, AdoptedAverages
    <3>6. reports'[n] = [value |-> r,
                         times |-> IF v = r THEN AtMost(k + 1, Horizon) ELSE 1]
      BY <1>1, <2>1, <2>3, <3>1, <3>2
    <3>7. DebtAfter(IF v = r THEN AtMost(k + 1, Horizon) ELSE 1,
                    ShardFold(e, r) - r * One)
      BY <3>4, DebtAfterReport
    <3> QED
      BY <3>5, <3>6, <3>7
  <2> QED
    BY <2>2, <2>3
<1>7. ASSUME HIdleTick PROVE OK(n)
  <2>1. children'[n] = IF children[n].inUse THEN IdleChecked(children[n])
                                            ELSE children[n]
    BY <1>7 DEF HIdleTick, IdleTick
  <2>2. children[n].inUse /\ reports'[n] = reports[n]
    BY <1>7, <2>1 DEF HIdleTick
  <2> QED
    BY <1>1, <1>3, <2>1, <2>2, IdleCheckedAverages
<1>8. ASSUME HLoadTick PROVE OK(n)
  BY <1>3, <1>8 DEF HLoadTick, LoadTick
<1>9. ASSUME HOther PROVE OK(n)
  BY <1>3, <1>9, OtherKeepsAverages DEF HOther
<1> QED
  BY <1>4, <1>5, <1>6, <1>7, <1>8, <1>9 DEF HNext

\* "only smooths decreases": with the default weights and any cap up to 7 (6
\* and 4 are the defaults) a count reported nine times in a row is the count
\* held, whatever was reported before.
THEOREM NineReportsSettle ==
  ASSUME ShardAttack = 1, ShardDecay = 4, ShardsMax <= 7
  PROVE  HSpec => AverageSettles
<1>1. HInit => ReportInv
  BY DEF HInit, Init, ReportInv, FreeEntry
<1>2. HInv /\ ReportInv /\ [HNext]_hvars => ReportInv'
  BY ReportNext
<1>3. HInv /\ HInv' /\ ReportInv'
        => [\A n \in Neighbor : \A r \in Reports :
              EwmaShardCount /\ HChildEbInput(n, r) /\ reports'[n].times >= 9
                => children'[n].shards = r]_hvars
  <2> SUFFICES ASSUME HInv, HInv', ReportInv', NEW n \in Neighbor,
                      NEW r \in Reports, EwmaShardCount, HChildEbInput(n, r),
                      reports'[n].times >= 9
               PROVE  children'[n].shards = r
    OBVIOUS
  <2>1. /\ children \in [Neighbor -> Entry] /\ children[n] \in Entry
        /\ reports \in [Neighbor ->
                         [value : 1 .. ShardsMax, times : 0 .. Horizon]]
    BY DEF HInv, HTypeOK, Inv, TableOK
  <2>2. children' = [children EXCEPT ![n] = Adopted(@, r)] /\ children[n].inUse
    BY DEF HChildEbInput, ChildEbInput
  <2>3. PICK e : e = children[n].ewma
    OBVIOUS
  <2>4. e \in Nat /\ r \in Nat /\ r \in 1 .. ShardsMax
    BY <2>1, <2>3, EntryTypes, ShardsMaxType DEF Reports, One
  <2>5. PICK avg \in Nat : avg = ShardFold(e, r) /\ avg >= r * One
    BY <2>4, ShardFoldSteps
  <2>6. /\ children'[n].shards = Rounded(avg, ShardsMax)
        /\ children'[n].ewma = avg
    BY <2>1, <2>2, <2>3, <2>5, AdoptedAverages
  <2>7. children'[n].inUse
    BY <2>1, <2>2, AdoptedOK DEF HInv, Inv, TableOK, EntryOK, RxMatchesCount
  <2>8. reports'[n].value = r /\ reports'[n].times \in Nat
    BY <2>1, HorizonType DEF HChildEbInput, AtMost
  <2>9. DebtAfter(reports'[n].times, avg - r * One)
    BY <2>6, <2>7, <2>8 DEF ReportInv
  <2>10. avg < r * One + 128
    BY <2>4, <2>5, <2>8, <2>9 DEF DebtAfter, One
  <2>11. PICK max \in Nat : max = ShardsMax
    BY ShardsMaxType
  <2>12. Rounded(avg, max) = r
    BY <2>4, <2>5, <2>10, <2>11, RoundedSteps
  <2> QED
    BY <2>6, <2>11, <2>12
<1> QED
  BY <1>1, <1>2, <1>3, HistoryInvariance, PTL DEF HSpec, AverageSettles
=============================================================================
