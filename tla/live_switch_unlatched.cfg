CONSTANTS
  Pairs = {"BTC/USDT", "BTC/USDC"}
  Modes = {"testnet", "live"}
  MaxGen = 3
  TestnetFailures = 2
  LiveFailures = 1
  MaxCrashes = 2
SPECIFICATION Spec
INVARIANT LiveArmedEvidence
CHECK_DEADLOCK FALSE
