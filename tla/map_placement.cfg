SPECIFICATION Spec
CONSTANTS
  Points = {p, q}
  Kinds = {"Facility", "Aircraft", "AreaTarget"}
  None = None
  MaxGestures = 2
  MaxNumber = 2
  MaxPoints = 3
  MaxDepth = 2
INVARIANTS MapTypeOK OneEntityPerGesture PlacedAsDrawn DblClickEndsOnce
CHECK_DEADLOCK FALSE
