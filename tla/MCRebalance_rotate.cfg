\* Expected to be violated: the defaults of config.py and the caps and gates of
\* settings.competition.json, beginning with nothing but cash.
SPECIFICATION Spec
CONSTANTS
  Base = USDC
  ETH = ETH
  CAKE = CAKE
  XRP = XRP
  Tokens = {ETH, CAKE, XRP}
  MaxTradeBps = 2000
  MaxRiskOnBps = 5000
  MaxTokenBps = 2500
  MinNotional = 100
  MaxPosition <- MCMaxPosition
  ReserveBps = 3500
  MinDriftBps = 400
  TrendThreshold = 50
  Oversold = 32
  Overbought = 68
  BufferBps = 50
  Tier <- MCTier
  Tier1Bps = 5000
  DqBps = 3000
  HighVolBps = 300
  Names = {"trend_following"}
  Markets <- MCMarkets
  Books <- MCCash
  Drawdowns = {0}
  HardDeriskBps = 1800
  UnitPrices = {50, 250000}
  LeastUnit = 50
  MaxMoves = 2
INVARIANT Rotates
