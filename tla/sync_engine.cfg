SPECIFICATION HSpec
CONSTANTS
  Offset <- MCOffset
  Variant = {rdfs}
  Precision <- MCPrecision
  NoPrecision = NoPrecision
  WarnMs = 1
  AlertMs = 2
  LostMs = 3
  HealthyRequired = 3
  DriftRequired = 2
  LostSilence = 1
INVARIANTS TypeOK
PROPERTIES ImplementsTiers RecoveryIsSustained
