SPECIFICATION PreflightSpec
CONSTANTS
  RuleSets <- MCRuleSets
  Prices = {1000, 1009, 1030}
  TradeSize = 1000000
  TakeProfit = 120
  FixedStop = 200
  TrailingDelta = 40
  FillBuffer = 20
  Fee = 10
  Slippage = 5
  ProfitLock = 100
  MaxAge = 1
  MaxTime = 2
  MaxOthers = 2
  MaxChanges = 3
INVARIANT ReplacementSound
CHECK_DEADLOCK FALSE
