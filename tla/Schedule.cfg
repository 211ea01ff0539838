SPECIFICATION Spec
CONSTANTS
  Tables <- MCTables
  Starts = {1433}
  Span = 36
  Budget = 2
  Shifts <- MCShifts
  Apart = 5
INVARIANTS TypeOK NoneSkipped RetriedOnce FullDownload
PROPERTIES AskedOnce RetryMeansFailure
CHECK_DEADLOCK FALSE
