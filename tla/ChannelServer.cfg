CONSTANTS
  Places <- OnePlace
  Heights <- TwoHeights
  Models <- TwoModels
  NaN = NaN
  Flat = Flat
  Floor = Floor
  None = None
  InitSettings <- Near
  max_errors = 3
SPECIFICATION FairSpec
INVARIANTS
  SettingsInForce
  ChannelInForce
  StopIsPrompt
PROPERTIES
  StopEnds
  ClientServed
