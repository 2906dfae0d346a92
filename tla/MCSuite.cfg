SPECIFICATION SuiteSpec
CONSTANTS
  b1 = b1
  b2 = b2
  b3 = b3
  NumEndpoints = 2
  FileOf <- OwnFiles
  Bodies <- TwoBodies
  NullBody = null
  NoBody = none
  Similar = {}
  ErrorCodes = {2}
  Concurrency = 2
  MayPanic = FALSE
  CasWorks = TRUE
  Approvable = {}
  MaxRuns = 3
  MaxDeploys = 1
INVARIANTS
  TestSound
  RecordComplete
  ReviewComplete
  Settles
CHECK_DEADLOCK FALSE
