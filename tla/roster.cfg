SPECIFICATION Spec
CONSTANTS
  rdfs = rdfs
  jam = jam
  ghost = ghost
  Instance = {a, b}
  Variant <- MCVariant
  Profiles <- MCProfiles
  Entry <- MCEntry
  NoEntry = NoEntry
  NoInstance = NoInstance
INVARIANTS RosterTypeOK SettledMatchesRoster PortsFreedFirst
PROPERTIES SiblingsUntouched ApplyTerminates ShutdownCompletes
\* a stopped or aborted runtime does nothing more
CHECK_DEADLOCK FALSE
