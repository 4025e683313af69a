SPECIFICATION Spec
CONSTANTS
  MaxStreams = 2
  MaxDrops = 2
  MaxCrashes = 1
  SaveFailures = 1
  MaxRenewals = 1
INVARIANT NeverStranded
CHECK_DEADLOCK FALSE
