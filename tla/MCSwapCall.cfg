\* Trades of three kinds in any order, on top of an open ladder of two rungs.
SPECIFICATION FairSpec
CONSTANTS
  LadderEnabled = TRUE
  LadderVolBps = 300
  Trades <- MCTrades
  LeftOpen <- MCLeftOpen
  Ids = 3
INVARIANTS
  TypeOK
  NoDoubleCommitment
  OutcomeTold
  LaddersReplaced
PROPERTIES
  CallEnds
  CallIsOneStep
