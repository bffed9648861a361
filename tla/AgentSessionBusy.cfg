CONSTANTS
  Msgs = {m1, m2}
  MaxTurns = 2
  MaxRecoveries = 1
  MaxCalls = 2
  Parallel = {FALSE}
SPECIFICATION Spec
INVARIANT IdleIsFree
CHECK_DEADLOCK FALSE
