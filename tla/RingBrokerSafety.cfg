CONSTANTS
  NumUes = 2
  Restartable = {}
  MaxRestarts = 0
  NoReply = NoReply
  SAMPLES_PER_SLOT = 2
  RING_CAPACITY = 3
  MsgSizes <- ThreeSamples
  Malformed = {Odd}
  MaxStream = 6
  MaxSendFailures = 1
SPECIFICATION Spec
INVARIANTS
  RingHoldsNewest
  UlAligned
  LossHasCause
PROPERTY RelaySpec
