SPECIFICATION SixpSpec
CONSTANTS
  na = na
  nb = nb
  nc = nc
  Asks <- MixedAsks
  Node = {na, nb, nc}
  None = None
  Cycled = {na}
  MaxTrans = 1
  SeqMax = 255
  Generations = {255}
  QueueCap = 2
  MaxRequests = 2
  MaxRestarts = 1
INVARIANTS SixpTypeOK NothingMistaken GenerationsAgree ZeroMeansCleared ClearKeepsZero
PROPERTY TransactionsEnd
CHECK_DEADLOCK FALSE
