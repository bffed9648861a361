SPECIFICATION Spec
CONSTANTS
  Waiters = {w1, w2, w3}
  Local = {w1, w2}
  Cancellers = {c1, c2}
  Attempts = {a1, a2, a3}
  Max = 2
  MaxQps = 2
  Overlap = {}
  Calls = {k1, k2}
  Transports = {"stdio", "ws", "http", "ext"}
  Jobs = {j1}
  PipeSize = 1
  TailSize = 2
  MaxOutput = 3
  Reqs = {r1, r2}
  Execs = {}
  Nodes = {n1, n2}
  Cap = 1
  WarmMax = 1
  Queue = TRUE
  Dirs = {d1, d2, d3, d4}
  Jailed = {n1}
  None = None
INVARIANTS TypesOK WithinMax CallBacked CapacityKept
PROPERTY SlotsReturn CancelHeard CallsEnd AllocEnds
CHECK_DEADLOCK FALSE
