SPECIFICATION LedgerSpec
CONSTANTS
  Editors = {p1, p2}
  MaxEditors = 1
  Endpoints = {e1, e2, e3}
  MaxCrashes = 2
INVARIANTS
  NoSilentLoss
CHECK_DEADLOCK FALSE
