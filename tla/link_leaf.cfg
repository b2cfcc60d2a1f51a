SPECIFICATION LSpec
CONSTANTS
  Upper = up
  Elsewhere = other
  Kid = {}
  Neighbor = {up, other}
  None = None
  MaxChildren = 2
  CapNear = 3
  CapFar = 3
  MaxRoots = 1
  HoldBeforeUse = TRUE
  LoadBonus = TRUE
  IdleReclaim = FALSE
  RankCap = FALSE
  EwmaShardCount = FALSE
  IdleDecay = 4
  IdleThreshold = 64
  Saturate = 4
  LoadAttack = 2
  LoadDecay = 8
  BusyThreshold = 160
  ShardAttack = 1
  ShardDecay = 4
PROPERTY EbCarriesTheCount
