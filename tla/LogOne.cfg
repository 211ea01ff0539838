SPECIFICATION Spec
CONSTANTS
  cmd = cmd
  Thread = {cmd}
  Sectors = 3
  Lines = 2
  Numbers = 9
  MaxPuts = 13
  MaxCrashes = 2
INVARIANTS TypeOK KeepsRecent ScanIsExact NumbersContinue
PROPERTIES ImplementsAppendLog ReadsInOrder
CHECK_DEADLOCK FALSE
