SPECIFICATION FairSpec
CONSTANTS
  Seconds = {0, 2}
  Budget = 2
INVARIANTS TypeOK PauseHasEnd SleepHasReason StartKept
PROPERTY PauseEnds
