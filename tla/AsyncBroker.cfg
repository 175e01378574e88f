CONSTANTS
  NumUes = 2
  Restartable <- GnbAndOneUe
  MaxRestarts = 1
  NoReply = NoReply
  Batch = Batch
  IntMax = 6
  MaxSendFailures = 1
SPECIFICATION FairSpec
INVARIANTS
  FlagsMatchSockets
  UlBatchOnce
  DlSomeoneWaits
PROPERTIES
  RelaySpec
  UeServed
  GnbServed
