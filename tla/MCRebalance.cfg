\* Every strategy in five markets, with the defaults of config.py, the caps of
\* settings.competition.json, and a drawdown gate that opens the tiers below it.
SPECIFICATION Spec
CONSTANTS
  Base = USDC
  ETH = ETH
  CAKE = CAKE
  XRP = XRP
  Tokens = {ETH, CAKE, XRP}
  MaxTradeBps = 2000
  MaxRiskOnBps = 5000
  MaxTokenBps = 2500
  MinNotional = 100
  MaxPosition <- MCMaxPosition
  ReserveBps = 3500
  MinDriftBps = 400
  TrendThreshold = 50
  Oversold = 32
  Overbought = 68
  BufferBps = 50
  Tier <- MCTier
  Tier1Bps = 5000
  DqBps = 3000
  HighVolBps = 300
  Names <- MCNames
  Markets <- MCMarkets
  Books <- MCBooks
  Drawdowns = {0, 2200, 2600, 2860, 2950}
  HardDeriskBps = 2900
  UnitPrices = {50, 250000}
  LeastUnit = 50
  MaxMoves = 2
INVARIANTS
  TypeOK
  RiskLeaves
PROPERTIES
  NoRiskAddedInTier2
  PositionsCapped
  NoWhipsaw
  EveryTradeSettles
