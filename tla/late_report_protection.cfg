CONSTANTS
  Qty = 3
  MaxFails = 1
  MaxCrashes = 0
SPECIFICATION Spec
INVARIANT ProtectsExecuted
CHECK_DEADLOCK FALSE
