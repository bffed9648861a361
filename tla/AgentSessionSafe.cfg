CONSTANTS
  Msgs = {m1, m2, m3}
  MaxTurns = 2
  MaxRecoveries = 1
  MaxCalls = 2
  Parallel = {TRUE, FALSE}
SPECIFICATION LiveSpec
INVARIANTS TypeOK EveryCallAnswered NothingLost TurnsClosed
PROPERTIES SteeringInOrder EffectGate PromptEnds
CHECK_DEADLOCK FALSE
