CONSTANTS
  EntryQty = 2
  MaxIntents = 4
  MaxFaults = 1
  MaxTrades = 2
  MaxCrashes = 1
  Endpoints = {"list"}
  Commands = {"manual", "clear"}
SPECIFICATION Spec
INVARIANT ArmedOwned
INVARIANT RejectedNeverFilled
PROPERTY EntryNeedsCertainty
