CONSTANTS
  EntryQty = 2
  MaxIntents = 4
  MaxFaults = 1
  MaxTrades = 1
  MaxCrashes = 0
  Endpoints = {"list"}
  Commands = {"clear", "resync"}
SPECIFICATION Spec
PROPERTY ClearLeavesEntriesOff
