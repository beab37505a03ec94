\* mvp alone: two exercises computed at once by its two threads.
SPECIFICATION Spec
CONSTANTS
  Exercises = {e1, e2}
  Workers = {w1, w2}
  Engines = {g1, g2}
  Generations = {"mvp"}
  MaxTries = 2
  MaxAccepted <- BoundAccepted
  Mock = Mock
  Uploaded = Uploaded
  None = None
INVARIANTS ComputationsAreIsolated
CHECK_DEADLOCK FALSE
