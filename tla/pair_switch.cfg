CONSTANTS
  Pairs = {"BTC/USDT", "BTC/USDC"}
  Modes = {"testnet", "live"}
  MaxGen = 3
  TestnetFailures = 2
  LiveFailures = 0
  MaxCrashes = 2
SPECIFICATION Spec
INVARIANT ArmedProven
INVARIANT TradeOfGeneration
INVARIANT LiveArmedEvidence
PROPERTY ImplementsSequence
CHECK_DEADLOCK FALSE
