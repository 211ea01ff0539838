SPECIFICATION Spec
CONSTANTS
  c1 = c1
  c2 = c2
  r1 = r1
  r2 = r2
  Client = {c1, c2}
  Request = {r1}
  Size = 1
  Spurious = TRUE
INVARIANTS NeverUnsent NoSleeperMissesBit
CHECK_DEADLOCK FALSE
