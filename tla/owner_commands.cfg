CONSTANTS
  Actions = {"recover"}
  MaxUpdates = 3
  MaxFaults = 1
  MaxTimeouts = 1
SPECIFICATION Spec
INVARIANT TypeOK
INVARIANT AtMostOnce
INVARIANT SuccessIsReal
INVARIANT ClearAfterReconcile
CHECK_DEADLOCK FALSE
