\* Two settings files, two processes, two ticks, two rounds of tool calls.
SPECIFICATION Spec
CONSTANTS
  ETH = ETH
  XRP = XRP
  USDC = USDC
  Symbols = {ETH, XRP, USDC}
  BuiltIn = {ETH}
  Addresses = {"a", "b"}
  NoAddress = "none"
  Settings <- MCSettings
  Cooldown = 2
  MaxAge = 4
  MaxTicks = 2
  MaxBoots = 2
  LadderEnabled = TRUE
  LadderVolBps = 300
  Answers <- MCAnswers
  Reading <- MCReading
  Drift <- MCDrift
  MaxTradeBps = 2000
  LeastBps = 80
  MaxActions = 2
  MaxRounds = 2
  MaxCalls = 1
CHECK_DEADLOCK FALSE
INVARIANTS
  TypeOK
  PricesAreRead
  AddressesLast
  IdsLast
  BatchSound
  UrgentFirst
PROPERTIES
  TickEnds
