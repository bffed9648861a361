CONSTANTS
  s1 = s1
  s2 = s2
  r1 = r1
  r2 = r2
  None = None
  Sessions = {s1, s2}
  Runs = {r1, r2}
  Loops = {l1}
  SessionOf <- RunsOfTwo
  Handles = {h1, h2, h3}
  Capacity = 1
  MaxHandles = 2
  Races = {}
  Faults = {"reclaim", "setup", "crash"}
SYMMETRY Symmetric
SPECIFICATION Spec
INVARIANTS TypeOK WorkKept NoOrphans
PROPERTY RunsResume
CHECK_DEADLOCK FALSE
