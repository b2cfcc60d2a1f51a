SPECIFICATION Spec
CONSTANTS
  RingSize = 4
  DequeuedSize = 2
  PoolSize = 3
  MaxTransmissions = 2
  MinBe = 0
  MaxBe = 1
  Packets = 3
  ImplicitPackets = 2
  Resizes = 1
  FlushInTx = FALSE
  ImplicitAck = {FALSE, TRUE}
INVARIANTS TxTypeOK OneOwner AnsweredOnce InFlightIsHead SameTagOrder PendingWasSent TxSlotUndisturbed
PROPERTY ServedIsAnswered
