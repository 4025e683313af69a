SPECIFICATION FairSpec
CONSTANTS
  MaxStreams = 2
  MaxDrops = 2
  MaxCrashes = 1
  SaveFailures = 1
  MaxRenewals = 1
INVARIANT TypeOK
INVARIANT LatchedOff
INVARIANT GapVisible
PROPERTY StreamReturns
CHECK_DEADLOCK FALSE
