SPECIFICATION Spec
CONSTANTS
  Neighbor = {n1, n2}
  None = None
  MaxChildren = 2
  CapNear = 3
  CapFar = 2
  MaxRoots = 1
  HoldBeforeUse = TRUE
  LoadBonus = FALSE
  IdleReclaim = FALSE
  RankCap = TRUE
  EwmaShardCount = FALSE
  IdleDecay = 4
  IdleThreshold = 64
  Saturate = 4
  LoadAttack = 2
  LoadDecay = 8
  BusyThreshold = 160
  ShardAttack = 1
  ShardDecay = 4
INVARIANT GroupMatchesRootList
