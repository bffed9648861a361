CONSTANTS
  a1 = a1
  a2 = a2
  i1 = i1
  i2 = i2
  r1 = r1
  r2 = r2
  Free = Free
  Attempts = {a1, a2}
  Instances = {i1, i2}
  Runs = {r1, r2}
  RunOf <- DistinctRunOf
  InstOf <- Served
  LeaseTTL = 4
  StaleAfter = 4
  Heartbeat = 1
  MaxSetup = 2
  MaxUnwind = 1
  Punctual = TRUE
  RedisFaults = FALSE
  PgFaults = FALSE
SPECIFICATION Spec
PROPERTY HealthyRunKeepsLease
