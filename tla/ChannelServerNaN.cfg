CONSTANTS
  Places <- TwoPlaces
  Heights <- HeightOrNaN
  Models <- OneModel
  NaN = NaN
  Flat = Flat
  Floor = Floor
  None = None
  InitSettings <- Near
  max_errors = 3
SPECIFICATION Spec
INVARIANT SettingsInForce
