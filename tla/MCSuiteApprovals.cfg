SPECIFICATION SuiteSpec
CONSTANTS
  b1 = b1
  b2 = b2
  b3 = b3
  NumEndpoints = 2
  FileOf <- OwnFiles
  Bodies <- ThreeBodies
  NullBody = b3
  NoBody = none
  Similar <- CloseBodies
  ErrorCodes = {3}
  Concurrency = 1
  MayPanic = TRUE
  CasWorks = FALSE
  Approvable = {1}
  MaxRuns = 2
  MaxDeploys = 1
INVARIANTS
  TestVerdict
CHECK_DEADLOCK FALSE
