SPECIFICATION HSpec
CONSTANTS
  Neighbor = {n1}
  None = None
  MaxChildren = 1
  CapNear = 4
  CapFar = 4
  MaxRoots = 1
  HoldBeforeUse = FALSE
  LoadBonus = TRUE
  IdleReclaim = TRUE
  RankCap = FALSE
  EwmaShardCount = TRUE
  IdleDecay = 4
  IdleThreshold = 64
  Saturate = 4
  LoadAttack = 2
  LoadDecay = 8
  BusyThreshold = 160
  ShardAttack = 1
  ShardDecay = 4
  Horizon = 12
PROPERTIES ReclaimAtFifthSilence AverageNeverLags AverageSettles SustainedBonusSurvives ColdWindowGrantsNothing
INVARIANT CellsFollowOwnCount
