SPECIFICATION FairSpec
CONSTANTS
  Seconds = {0, 2}
  Budget = 2
PROPERTY EveryPauseEnds
