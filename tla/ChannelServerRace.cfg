CONSTANTS
  Places <- OnePlace
  Heights <- TwoHeights
  Models <- OneModel
  NaN = NaN
  Flat = Flat
  Floor = Floor
  None = None
  InitSettings <- Near
  max_errors = 3
SPECIFICATION Spec
INVARIANT UpdatesTakeEffect
