CONSTANTS
  Qty = 3
  MaxFails = 1
  MaxCrashes = 1
SPECIFICATION Spec
INVARIANT TypeOK
INVARIANT NoReportForgotten
INVARIANT SettledRow
PROPERTY LifecycleMonotone
CHECK_DEADLOCK FALSE
