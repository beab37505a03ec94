--------------------------- MODULE MCExerciseJobs ---------------------------
(* Bounds for the exercise jobs: mvp, whose two threads interleave, accepts  *)
(* two computations in all - two exercises at once, or one and its retry;    *)
(* mvp2 and mvp3 retry both exercises.                                       *)
EXTENDS ExerciseJobs

BoundAccepted == [g \in Generations |-> IF g = "mvp" THEN 2 ELSE 4]
=============================================================================
