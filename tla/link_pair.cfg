SPECIFICATION LFairSpec
CONSTANTS
  Upper = up
  Elsewhere = other
  Kid = {k1, k2}
  Neighbor = {up, other, k1, k2}
  None = None
  MaxChildren = 2
  CapNear = 3
  CapFar = 3
  MaxRoots = 1
  HoldBeforeUse = TRUE
  LoadBonus = FALSE
  IdleReclaim = TRUE
  RankCap = FALSE
  EwmaShardCount = FALSE
  IdleDecay = 1
  IdleThreshold = 64
  Saturate = 4
  LoadAttack = 2
  LoadDecay = 8
  BusyThreshold = 160
  ShardAttack = 1
  ShardDecay = 4
INVARIANTS LTypeOK HoldRespected InformedMeansCovered HeldWasSent
PROPERTIES ImplementsAgreement EventuallyAgreed
