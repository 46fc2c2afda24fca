\* Liveness: two swaps, one token, one midnight.
SPECIFICATION FairSpec
CONSTANTS
  Tx = {x1, x2}
  NoTx = NoTx
  Tokens = {eth}
  FallbackToken = eth
  Cooldown = 0
  MaxActions = 1
  Window = 2
  MaxDay = 2
  CompetitionMode = TRUE
PROPERTIES
  PendingSettles
  QuotaDefended
