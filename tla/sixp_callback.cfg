SPECIFICATION SixpSpec
CONSTANTS
  na = na
  nb = nb
  nc = nc
  Asks <- OneAsk
  Node = {na, nb}
  None = None
  Cycled = {}
  MaxTrans = 1
  SeqMax = 255
  Generations = {None}
  QueueCap = 2
  MaxRequests = 2
  MaxRestarts = 0
INVARIANT CallbackFindsItsTransaction
CHECK_DEADLOCK FALSE
