CONSTANTS
  NumUes = 5
  hardware_concurrency = 4
SPECIFICATION FairSpec
INVARIANTS
  NoRace
  EachUeOnce
PROPERTY Returns
