CONSTANTS
  NumUes = 1
  Restartable <- Both
  MaxRestarts = 3
  NoReply = NoReply
  Batch = Batch
  MaxSendFailures = 2
SPECIFICATION FairSpec
INVARIANT NothingWasted
PROPERTIES
  RelaySpec
  Served
