CONSTANTS
  a1 = a1
  a2 = a2
  i1 = i1
  i2 = i2
  r1 = r1
  r2 = r2
  Free = Free
  Attempts = {a1, a2}
  Instances = {i1}
  Runs = {r1, r2}
  RunOf <- DistinctRunOf
  InstOf <- SameServer
  LeaseTTL = 1
  StaleAfter = 1
  Heartbeat = 1
  MaxSetup = 1
  MaxUnwind = 1
  Punctual = FALSE
  RedisFaults = FALSE
  PgFaults = FALSE
SPECIFICATION LiveSpec
PROPERTIES ReleaseOnlyOwn LoserIsCancelled LeaseEnds
