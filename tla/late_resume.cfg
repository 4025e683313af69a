CONSTANTS
  Actions = {"recover"}
  MaxUpdates = 3
  MaxFaults = 1
  MaxTimeouts = 1
SPECIFICATION Spec
PROPERTY RefusedStaysOff
CHECK_DEADLOCK FALSE
