CONSTANTS
  NumUes = 1
  Restartable <- GnbAndUe
  MaxRestarts = 2
  NoReply = NoReply
  SAMPLES_PER_SLOT = 2
  RING_CAPACITY = 3
  MsgSizes <- TwoSamples
  Malformed = {}
  MaxStream = 4
  MaxSendFailures = 1
SPECIFICATION FairSpec
INVARIANTS
  SocketAgreement
  DlGapless
  RingPushIsLoop
PROPERTY DlServed
