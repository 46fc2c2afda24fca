\* Two swaps, two tokens, batches of two, one midnight; a cooldown of one tick
\* and a refresh window of one row.
SPECIFICATION Spec
CONSTANTS
  Tx = {x1, x2}
  NoTx = NoTx
  Tokens = {eth, cake}
  FallbackToken = eth
  Cooldown = 1
  MaxActions = 2
  Window = 1
  MaxDay = 2
  CompetitionMode = TRUE
SYMMETRY Symmetry
INVARIANTS
  TypeOK
  QuotaNotOverstated
  OpsRowTraceable
PROPERTIES
  OrphanOnlyByFailure
  CooldownHeld
  LedgerKept
