SPECIFICATION LiveSpec
CONSTANTS
  Process = {p1, p2}
  Nobody = Nobody
  Loads = {0}
  LoadLimit = 75
  TaoLimit = 1
  Mishaps = {}
PROPERTY CapacityReturns
