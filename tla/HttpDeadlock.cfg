SPECIFICATION FairSpec
CONSTANTS
  Modes = {2}
  CertMax = 1
  AutoKinds = {"W"}
  Budget = 2
PROPERTY CommandEnds
CHECK_DEADLOCK FALSE
