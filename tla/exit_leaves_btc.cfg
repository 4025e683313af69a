CONSTANTS
  EntryQty = 2
  MaxIntents = 4
  MaxFaults = 0
  MaxTrades = 1
  MaxCrashes = 0
  Endpoints = {"list"}
  Commands = {"emergency"}
SPECIFICATION Spec
INVARIANT TerminalHoldsNoExposure
