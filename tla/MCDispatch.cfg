SPECIFICATION DispatchSpec
CONSTANTS
  MaxTotal = 4
  Concurrency = 2
  Outcomes = {"ok", "err"}
  MayPanic = TRUE
INVARIANTS
  Conservation
  InFlightBound
  SlotsAccounted
  NoneForgotten
PROPERTY EventuallyReturns
CHECK_DEADLOCK FALSE
