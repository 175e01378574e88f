CONSTANTS
  NumServers = 4
  Serves = 5
  Requests = 10
  NoServer = NoServer
SPECIFICATION Spec
INVARIANT OneMissEnds
CHECK_DEADLOCK FALSE
