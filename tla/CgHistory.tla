----------------------------- MODULE CgHistory ------------------------------
(***************************************************************************)
(* ChildGrandchild with history variables that remember what the two       *)
(* activity estimates have seen, to state what the estimates promise: how  *)
(* long a silence a reclaim needs, and how a load bonus is won and lost.   *)
(* The two estimates share no state, so that a behaviour watches one of    *)
(* them and keeps only the callbacks that one depends on.                  *)
(***************************************************************************)
EXTENDS ChildGrandchild

CONSTANT Horizon        \* history counters stop here

ASSUME HorizonAssumption == Horizon \in Nat /\ Horizon >= 12

VARIABLES
  watched,    \* the estimate this behaviour is about: "children" or "load"
  silence,    \* idle checks in a row that found a child silent
  busy,       \* windows in a row at three quarters of the saturation or more
  quiet,      \* windows in a row with no frame at all
  reports     \* the last EB report and its repetitions, for the average

hvars == <<vars, watched, silence, busy, quiet, reports>>

Counted(n, again) == IF again THEN AtMost(n + 1, Horizon) ELSE 0

HInit ==
  /\ Init
  /\ watched \in {"children", "load"}
  /\ silence = [n \in Neighbor |-> 0]
  /\ busy = 0
  /\ quiet = 0
  /\ reports = [n \in Neighbor |-> [value |-> 1, times |-> 0]]

HChildAdded(n) ==
  /\ ChildAdded(n)
  /\ silence' = [silence EXCEPT ![n] = IF children[n].inUse THEN @ ELSE 0]
  /\ reports' = [reports EXCEPT ![n] = IF children[n].inUse THEN @
                                       ELSE [value |-> 1, times |-> 0]]
  /\ UNCHANGED <<watched, busy, quiet>>

HChildEbInput(n, r) ==
  /\ watched = "children"
  /\ ChildEbInput(n, r)
  /\ reports' = IF EwmaShardCount
                THEN [reports EXCEPT ![n] =
                        [value |-> r, times |-> IF @.value = r
                                                THEN AtMost(@.times + 1, Horizon)
                                                ELSE 1]]
                ELSE reports
  /\ UNCHANGED <<watched, silence, busy, quiet>>

HIdleTick ==
  /\ watched = "children"
  /\ IdleTick
  /\ silence' = [n \in Neighbor |-> Counted(silence[n], children[n].inUse /\
                                                        ~children[n].heard)]
  /\ UNCHANGED <<watched, busy, quiet, reports>>

HLoadTick ==
  /\ watched = "load"
  /\ LoadTick
  /\ busy' = Counted(busy, 4 * load.tx >= 3 * Saturate)
  /\ quiet' = Counted(quiet, load.tx = 0)
  /\ UNCHANGED <<watched, silence, reports>>

HOther ==
  /\ \/ \E n \in Neighbor : ChildRemoved(n)
     \/ watched = "children" /\ \E n \in Neighbor : DataInput(n)
     \/ /\ watched = "load"     \* a parent matters to the load estimate only
        /\ \/ \E n \in Neighbor : PacketReady(n)
           \/ \E p \in Neighbor : parent = None /\ NewTimeSource(p)
           \/ DaoAcked
           \/ BootstrapTick
  /\ UNCHANGED <<watched, silence, busy, quiet, reports>>

HNext ==
  \/ \E n \in Neighbor : HChildAdded(n) \/ \E r \in Reports : HChildEbInput(n, r)
  \/ HIdleTick
  \/ HLoadTick
  \/ HOther

HSpec == HInit /\ [][HNext]_hvars

-----------------------------------------------------------------------------
\* "5 consecutive idle checks, i.e. about 10 minutes of true silence": a tick
\* takes a child's spare shards back at its fifth silent check in a row and
\* no earlier, and every child it finds that silent is down to one shard.
ReclaimAtFifthSilence ==
  [][\A n \in Neighbor : HIdleTick /\ children[n].inUse =>
       /\ children'[n].shards < children[n].shards => silence'[n] >= 5
       /\ silence'[n] >= 5 => children'[n].shards <= 1]_hvars

\* A bonus outlives one quiet window after five busy ones, wherever the
\* average started from.
SustainedBonusSurvives ==
  [][HLoadTick /\ busy >= 5 /\ load.tx = 0 => load'.bonus]_hvars

\* "insurance against a single busy window granting a shard": after eleven
\* quiet windows one busy window, however busy, grants nothing.
ColdWindowGrantsNothing ==
  [][HLoadTick /\ quiet >= 11 => ~load'.bonus]_hvars

\* The averaged variant "adopts increases immediately" and "only smooths
\* decreases": it never holds less than the last report ...
AverageNeverLags ==
  [][\A n \in Neighbor : \A r \in Reports :
       EwmaShardCount /\ HChildEbInput(n, r)
         => children'[n].shards >= r]_hvars

\* ... and a report repeated nine times in a row is the count that is held.
AverageSettles ==
  [][\A n \in Neighbor : \A r \in Reports :
       EwmaShardCount /\ HChildEbInput(n, r) /\ reports'[n].times >= 9
         => children'[n].shards = r]_hvars
=============================================================================
