CONSTANTS
  MaxTime = 4
  DayLength = 4
  MaxAge = 1
  Cooldown = 0
  MaxStopouts = 1
  MaxFiles = 1
  MaxFaults = 1
SPECIFICATION Spec
INVARIANT TypeOK
INVARIANT SignalSentOnce
INVARIANT StopoutsCounted
INVARIANT LossesWithinBudget
CHECK_DEADLOCK FALSE
