SPECIFICATION Spec
CONSTANTS
  Process = {p1, p2, p3}
  Nobody = Nobody
  Loads = {0, 80}
  LoadLimit = 75
  TaoLimit = 2
  Mishaps = {"death", "lockLoss"}
SYMMETRY Symmetry
INVARIANTS GrantRespected OverdrawBounded
PROPERTIES NoUnitsDiscarded StuckForGood
