SPECIFICATION Spec
INVARIANTS ExerciseTypeOK RunningIsShown
PROPERTIES LostKeepsPausing
CHECK_DEADLOCK FALSE
