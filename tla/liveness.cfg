CONSTANTS
  EntryQty = 2
  MaxIntents = 6
  MaxFaults = 0
  MaxTrades = 1
  MaxCrashes = 0
  Endpoints = {"list"}
  Commands = {"stale"}
SPECIFICATION FairSpec
PROPERTY PartialFillEnds
PROPERTY StaleEntryEnds
