SPECIFICATION PanelsSpec
CONSTANTS
  Points = {p, q}
  Kinds = {"Facility"}
  None = None
  MaxGestures = 2
  MaxNumber = 2
  MaxPoints = 0
  MaxDepth = 1
INVARIANTS TreeMirrorsScenario
PROPERTIES DragReachesPanel ApplySparesOthers
CHECK_DEADLOCK FALSE
