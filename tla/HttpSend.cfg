SPECIFICATION FairSpec
CONSTANTS
  Modes = {0, 2}
  CertMax = 2
  AutoKinds = {"W", "M"}
  Budget = 2
INVARIANTS TypeOK NoReportForgotten RestartFindsHttpIdle TwoSearchesFind
PROPERTIES SuccessIsSent ReportIsWhole Answered
CHECK_DEADLOCK FALSE
