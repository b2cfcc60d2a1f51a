SPECIFICATION Spec
CONSTANTS
  RingSize = 4
  DequeuedSize = 2
  PoolSize = 3
  MaxTransmissions = 2
  MinBe = 1
  MaxBe = 2
  Packets = 1
  ImplicitPackets = 0
  Resizes = 1
  FlushInTx = FALSE
  ImplicitAck = {FALSE}
PROPERTY EveryPacketAnswered
