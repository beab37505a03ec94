SPECIFICATION Spec
CONSTANTS
  Names = {n1, n2, n3, n4}
  None = None
  Budget <- PlanBudget
  Services = {"mvp", "v13", "mvp3", "mock2", "mock3"}
  FileScenarios <- Files
  Columns <- ColumnLengths
  MaxSamples = 2
  STEP = 3
  Durations <- ExerciseDurations
  PathPoints = 3
SYMMETRY Renaming
CHECK_DEADLOCK FALSE
INVARIANTS
  AircraftPairsOnce
  DocumentTypeOK
  ReferencesResolve
  ConesRideParents
  ImageMatchesOverlay
  OverlayCoversTarget
  LosShownExactly
