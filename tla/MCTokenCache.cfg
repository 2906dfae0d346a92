SPECIFICATION TokenFairSpec
CONSTANTS
  Tasks = {t1, t2, t3}
  Lifetimes = {0, 2}
  Margin = 1
  MaxLatency = 1
  MaxClock = 3
  MayOverflow = TRUE
INVARIANTS
  NoStampede
  CachedTokenAccepted
PROPERTY EveryTaskAnswered
CHECK_DEADLOCK FALSE
