SPECIFICATION FairSpec
CONSTANTS
  Neighbor = {n1, n2}
  None = None
  MaxChildren = 1
  CapNear = 3
  CapFar = 2
  MaxRoots = 1
  HoldBeforeUse = TRUE
  LoadBonus = TRUE
  IdleReclaim = TRUE
  RankCap = TRUE
  EwmaShardCount = FALSE
  IdleDecay = 1
  IdleThreshold = 64
  Saturate = 1
  LoadAttack = 1
  LoadDecay = 1
  BusyThreshold = 160
  ShardAttack = 1
  ShardDecay = 4
INVARIANTS TypeOK OneGroup OnlyToAParentThatKnowsUs RxMatchesCount
PROPERTIES IncreaseIsAnnounced EventuallySized
