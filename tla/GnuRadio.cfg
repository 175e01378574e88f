CONSTANTS
  Graphs <- ScriptGraphs
  Sessions <- Uses
  NumUes = 3
  Restartable = {1}
  MaxRestarts = 1
  NoReply = NoReply
  Chunk = Chunk
  NoLoss = NoLoss
  BufferItems = 1
  num_samples = 2
  SliderValues = {10}
SPECIFICATION FairSpec
INVARIANTS
  DownlinksInStep
  PlotsWaitForShortest
  LogsAddUp
  BothWaysAlike
  NamesAreTrue
  NobodyStuck
PROPERTIES
  RelaySpec
  AskersServed
  PlotsComplete
  CloseEnds
CHECK_DEADLOCK FALSE
