\* Market swaps only: three tokens, batches of three, wallets of 200, caps of 20
\* (trade), 50 (exposure) and 25 percent (token), one second attempt a tick.
SPECIFICATION Spec
CONSTANTS
  Base = USDC
  t1 = t1
  t2 = t2
  t3 = t3
  Tokens = {t1, t2, t3}
  FallbackToken = t1
  Listed = {USDC, t1}
  MayMiss = {t2, USDC}
  Sizes = {2500}
  FallbackMax = 10
  MaxTradeBps = 2000
  MaxRiskOnBps = 5000
  MaxTokenBps = 2500
  MinNotional = 1
  MaxActions = 3
  Wallets <- MCWallets
  MaxTwice = 1
INVARIANTS
  TypeOK
  CapHeldWhenExact
  ExposureBounded
