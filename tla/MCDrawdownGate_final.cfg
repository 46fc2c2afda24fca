\* A recovery after a disqualifying fall.
SPECIFICATION Spec
CONSTANTS
  Navs = {0, 45, 65, 75, 85, 100, 120}
  MaxDay = 2
  HardPct = 18
  DqPct = 30
  StartConfigured = TRUE
INVARIANTS
  DqIsFinal
