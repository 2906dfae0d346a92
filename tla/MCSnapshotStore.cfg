SPECIFICATION StoreSpec
CONSTANTS
  MaxWrites = 4
  MaxWriters = 1
  Size <- Sizes
  KeyMayChange = TRUE
INVARIANTS
  FinalsWhole
  ReadBack
PROPERTY RegisterSpec
CHECK_DEADLOCK FALSE
