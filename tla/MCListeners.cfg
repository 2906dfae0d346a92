SPECIFICATION ListenersSpec
CONSTANTS
  Tools = {"capture", "sniff", "shadow"}
  MaxClients <- Bounds
  MaxWrites = 3
  MaxWriters = 2
  Size <- Sizes
  KeyMayChange = FALSE
  MaxPackets = 1
  MaxRestarts <- Restarts
INVARIANTS
  NewestKept
  CountHonest
PROPERTIES
  SnifferStops
  SessionsEnd
CHECK_DEADLOCK FALSE
