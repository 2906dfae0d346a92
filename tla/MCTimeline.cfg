SPECIFICATION TimelineSpec
CONSTANTS
  Recorders = {p1, p2}
  MaxRecorders = 1
  MaxCommits = 4
  Roots = {r1, r2}
  MaxCuts = 2
INVARIANTS
  LinearChain
  DeltasTellChanges
  ShowsRecent
  LossBounded
CHECK_DEADLOCK FALSE
