SPECIFICATION MarketSpec
CONSTANTS
  Symbols = {BTCUSDT, BTCUSDC}
  Window = 1
  StaleAfter = 1
  MaxFlowAge = 1
  Providers = {"coingecko", "coinmarketcap"}
  MinProviders = 1
  RequireExternal = TRUE
  LastTick = 2
  MaxTrades = 3
  MaxGen = 2
  MaxWire = 1
  MaxMishaps = 2
INVARIANT EntryOfPair
INVARIANT EntrySupported
SYMMETRY Symmetry
CHECK_DEADLOCK FALSE
