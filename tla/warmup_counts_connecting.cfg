SPECIFICATION MarketSpec
CONSTANTS
  Symbols = {BTCUSDT, BTCUSDC}
  Window = 2
  StaleAfter = 1
  MaxFlowAge = 1
  Providers = {"coingecko", "coinmarketcap"}
  MinProviders = 1
  RequireExternal = TRUE
  LastTick = 3
  MaxTrades = 3
  MaxGen = 2
  MaxWire = 1
  MaxMishaps = 1
INVARIANT WarmUpComplete
CHECK_DEADLOCK FALSE
