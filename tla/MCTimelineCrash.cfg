SPECIFICATION TimelineSpec
CONSTANTS
  Recorders = {p1, p2}
  MaxRecorders = 1
  MaxCommits = 3
  Roots = {r1, r2}
  MaxCuts = 1
INVARIANT AckedReadable
CHECK_DEADLOCK FALSE
