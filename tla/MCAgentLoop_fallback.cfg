\* Expected to be violated.
SPECIFICATION Spec
CONSTANTS
  Tx = {x1, x2}
  NoTx = NoTx
  Tokens = {eth, cake}
  FallbackToken = eth
  Cooldown = 0
  MaxActions = 2
  Window = 1
  MaxDay = 1
  CompetitionMode = TRUE
PROPERTY FallbackOnlyWhenNeeded
