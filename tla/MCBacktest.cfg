\* Four bars of seven kinds; grids of two rungs on either side.
SPECIFICATION MCSpec
CONSTANTS
  Base = USDC
  ETH = ETH
  LINK = LINK
  Tokens = {ETH, LINK}
  MaxTradeBps = 2000
  MaxRiskOnBps = 5000
  MaxTokenBps = 0
  MinNotional = 10
  HardBps = 1800
  Bars <- MCBars
  MaxBars = 4
  LadderEnabled = TRUE
  LadderVolBps = 300
  GridPrices = {8000, 9700, 9850, 10000, 10150, 10300}
  Atrs = {100, 300}
  Fear = 80
  RungsPerSide = 2
CHECK_DEADLOCK FALSE
INVARIANTS
  TypeOK
  KeelAgrees
  GridTypeOK
  HarvestIsReal
PROPERTIES
  BuysWithinCap
  FillsNeverEnrich
