SPECIFICATION PointersSpec
CONSTANTS
  Writers = {w1}
  Children <- SharedSubtrees
  MaxIngests = 2
  MaxCrashes = 1
  MaxPowerLoss = 1
  Branches = {main, pr}
  Endpoints = {e1}
  Statuses = {ok, failed}
  Agree <- LeavesAgree
  MaxSaves = 2
INVARIANTS
  ObjectsWhole
  AckedReconstruct
  WritesAreTheNewSubtrees
  BranchVerdict
PROPERTY ContentSpec
CHECK_DEADLOCK FALSE
