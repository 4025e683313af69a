CONSTANTS
  EntryQty = 2
  MaxIntents = 4
  MaxFaults = 2
  MaxTrades = 1
  MaxCrashes = 0
  Endpoints = {"list", "order"}
  Commands = {"convert", "auto", "emergency", "stale", "resync"}
SPECIFICATION Spec
INVARIANT OneLiveOrder
INVARIANT ConfirmedCancelTerminal
PROPERTY SellReplaces
