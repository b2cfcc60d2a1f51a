SPECIFICATION CSpec
CONSTANTS
  n1 = n1
  n2 = n2
  Neighbor = {n1, n2}
  None = None
  Broadcast = bc
  Address = {n1, n2, bc}
  MaxChildren = 2
  CapNear = 2
  CapFar = 2
  MaxRoots = 1
  HoldBeforeUse = TRUE
  LoadBonus = FALSE
  IdleReclaim = FALSE
  RankCap = FALSE
  EwmaShardCount = FALSE
  IdleDecay = 4
  IdleThreshold = 64
  Saturate = 4
  LoadAttack = 2
  LoadDecay = 8
  BusyThreshold = 160
  ShardAttack = 1
  ShardDecay = 4
  MaxLinks = 4
  Slotframes <- SmallSlotframes
  ChildHash <- DistinctChildHash
  ParentHash <- OwnHash
  Kappa = 1
  HashSpace = 64
  Period = 8
  WakeAt = {4}
INVARIANTS PointersSound PoolAccounted TxCountsMatch CurrentInstalled EarliestTxFirst IdleSlotListens
PROPERTY TickRetries
