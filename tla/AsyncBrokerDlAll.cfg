CONSTANTS
  NumUes = 2
  Restartable = {}
  MaxRestarts = 0
  NoReply = NoReply
  Batch = Batch
  IntMax = 6
  MaxSendFailures = 0
SPECIFICATION Spec
INVARIANT DlReachesAll
