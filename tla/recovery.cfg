CONSTANTS
  EntryQty = 2
  MaxIntents = 4
  MaxFaults = 1
  MaxTrades = 1
  MaxCrashes = 1
  Endpoints = {"list"}
  Commands = {"convert", "emergency", "stale", "clear"}
SPECIFICATION Spec
INVARIANT TypeOK
INVARIANT AtMostOncePost
INVARIANT LandedIsDurable
INVARIANT ChildClosesPlan
INVARIANT UncertainNotTerminal
INVARIANT ClosedTradeIsDead
PROPERTY ImplementsLedger
