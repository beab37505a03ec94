\* Two exercises, mvp's two threads, two attempts each: every interference of
\* two computations, a retry after an error, and both engines mvp may start.
SPECIFICATION FairSpec
CONSTANTS
  Exercises = {e1, e2}
  Workers = {w1, w2}
  Engines = {g1, g2}
  Generations = {"mvp", "mvp2", "mvp3"}
  MaxTries = 2
  MaxAccepted <- BoundAccepted
  Mock = Mock
  Uploaded = Uploaded
  None = None
INVARIANTS JobsTypeOK RunningIsAccounted SeatServesOwnDocument Mvp3ServesLastAttempt
PROPERTIES JobsImplementLifecycle EveryJobEnds
CHECK_DEADLOCK FALSE
