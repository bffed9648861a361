SPECIFICATION Spec
CONSTANTS
  Hosts = {"rpc"}
  Faults = {}
  ReadMax = 3
  MaxId = 3
  MaxSession = 2
INVARIANT EveryTurnSaved
CHECK_DEADLOCK FALSE
