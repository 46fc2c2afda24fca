\* Expected to be violated: a window of one row, two swaps of one token.
SPECIFICATION FairSpec
CONSTANTS
  Tx = {x1, x2}
  NoTx = NoTx
  Tokens = {eth}
  FallbackToken = eth
  Cooldown = 0
  MaxActions = 1
  Window = 1
  MaxDay = 1
  CompetitionMode = TRUE
PROPERTY EveryPendingSettles
