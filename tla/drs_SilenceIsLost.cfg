SPECIFICATION ServerSpec
CONSTANTS
  Offset <- MCOffset
  Variant = {rdfs}
  Precision <- MCPrecision
  NoPrecision = NoPrecision
  WarnMs = 1
  AlertMs = 2
  LostMs = 2
  HealthyRequired = 2
  DriftRequired = 1
  LostSilence = 0
  Client = {webapp}
  MaxPending = 2
PROPERTY SilenceIsLost
\* the service may be shut down, and then nothing is left to do
CHECK_DEADLOCK FALSE
