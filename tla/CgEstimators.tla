---------------------------- MODULE CgEstimators ----------------------------
(***************************************************************************)
(* The three fixed-point running averages of the APAS rule                 *)
(* (orchestra-rule-child-grandchild.c), as pure operators on Q8 integers   *)
(* (256 stands for 1.0).  The C code shifts a negative difference right,   *)
(* which rounds towards minus infinity; \div with a positive divisor does  *)
(* the same.  The weights are build options of the C file, given here as   *)
(* divisors: 2 to the power of the shift.                                  *)
(* Bug... operators are mutated forms of the next definition, used nowhere.*)
(***************************************************************************)
EXTENDS Integers

CONSTANTS
  IdleDecay, IdleThreshold,     \* CG_CONF_IDLE_EWMA_DECAY_SHIFT, .._THRESHOLD
  Saturate,                     \* CG_CONF_LOAD_SATURATE_COUNT
  LoadAttack, LoadDecay,        \* CG_CONF_LOAD_EWMA_ATTACK_SHIFT, .._DECAY_SHIFT
  BusyThreshold,                \* CG_CONF_LOAD_BUSY_THRESHOLD
  ShardAttack, ShardDecay       \* CG_CONF_EWMA_ATTACK_SHIFT, .._DECAY_SHIFT

Divisors == {1, 2, 4, 8, 16, 32, 64, 128, 256}

ASSUME EstimatorAssumption ==
  /\ {IdleDecay, LoadAttack, LoadDecay, ShardAttack, ShardDecay} \subseteq Divisors
  /\ Saturate \in 1 .. 255
  /\ IdleThreshold \in Nat /\ BusyThreshold \in Nat

One == 256                      \* 1 << 8

-----------------------------------------------------------------------------
\* One step of an asymmetric average: attack upwards, decay downwards.
Towards(ewma, sample, attack, decay) ==
  IF sample >= ewma THEN ewma + ((sample - ewma) \div attack)
                    ELSE ewma + ((sample - ewma) \div decay)

BugIdleFold(ewma, heard) ==
  Towards(ewma, IF heard THEN One ELSE 0, 1, IdleDecay \div 2)

\* idle_tick(): hearing a child snaps its activity to 256, silence decays it.
IdleFold(ewma, heard) == Towards(ewma, IF heard THEN One ELSE 0, 1, IdleDecay)

\* load_tick(): the window's frames, saturated at CG_LOAD_SATURATE_COUNT.
LoadSample(tx) == ((IF tx < Saturate THEN tx ELSE Saturate) * One) \div Saturate

BugLoadFoldDecaysFast(ewma, tx) ==
  Towards(ewma, LoadSample(tx), LoadAttack, LoadAttack)
BugLoadFoldSnapsUp(ewma, tx) ==
  Towards(ewma, LoadSample(tx), 1, LoadDecay)

LoadFold(ewma, tx) == Towards(ewma, LoadSample(tx), LoadAttack, LoadDecay)
Busy(ewma) == ewma >= BusyThreshold

BugShardFoldSymmetric(ewma, reported) ==
  Towards(ewma, reported * One, ShardDecay, ShardDecay)
BugShardFoldSlow(ewma, reported) ==
  Towards(ewma, reported * One, ShardAttack, 4 * ShardDecay)

\* cg_child_eb_input() under CG_EWMA_SHARD_COUNT: the average of the reports,
\* and the rounded value that is installed.
ShardFold(ewma, reported) ==
  Towards(ewma, reported * One, ShardAttack, ShardDecay)
Rounded(ewma, max) ==
  LET r == (ewma + One \div 2) \div One
  IN  IF r < 1 THEN 1 ELSE IF r > max THEN max ELSE r
=============================================================================
