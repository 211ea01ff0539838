SPECIFICATION FairSpec
CONSTANTS
  c1 = c1
  r1 = r1
  r2 = r2
  Client = {c1}
  Request = {r1, r2}
  Size = 4
  Spurious = TRUE
  me = c1
INVARIANTS TypeOK BuffersOwned
PROPERTIES ImplementsService Served
