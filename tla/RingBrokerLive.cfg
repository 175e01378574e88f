CONSTANTS
  NumUes = 2
  Restartable = {}
  MaxRestarts = 0
  NoReply = NoReply
  SAMPLES_PER_SLOT = 1
  RING_CAPACITY = 1
  MsgSizes <- OneSample
  Malformed = {}
  MaxStream = 2
  MaxSendFailures = 0
SPECIFICATION FairSpec
PROPERTIES
  DlServed
  UlServed
