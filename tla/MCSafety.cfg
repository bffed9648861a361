SPECIFICATION Spec
CONSTANTS
  Requests = {r1, r2, r3}
  Batch = 1
  Races = {}
  Hosts = {"repl", "run", "rpc"}
  ReadMax = 2
  MaxId = 4
  MaxSession = 2
  Servers = {"s1", "s2"}
  Tools = {"t1"}
  Files = {f1, f2}
  Declared = {1, 2}
  Upsets = {"lost", "list"}
  MaxVersion = 3
  Asks <- OneAsk
  Replies <- OneReply
  Callings <- OneCalling
  Answers <- OneAnswer
  Foreign <- Pages
  SessionNames <- TwoIds
  Places <- TwoPlaces
  ListMax = 1
  ResumeListMax = 1
  FileReadMax = 5
  ResumeReadMax = 4
  MaxTurns = 2
  MaxMade = 2
  Reqs = {v1, v2}
  Execs = {e1}
  Nodes = {n1}
  Cap = 1
  WarmMax = 1
  Queue = TRUE
  Dirs = {d1, d2, d3, d4, d5}
  Jailed = {}
  Nowhere = Nowhere
  Tenants = {t1, t2}
  Sessions = {i1, i2}
  Keys = {k1, k2}
  Callers = {a1, a2}
  MaxRequests = 3
  Owners <- ThreeSessions
  MaxRows = 2
  MaxCrashes = 2
INVARIANTS
  TypesOK ApprovedOnce CacheCoherent CallsSettled TableIsTrue HandedOverClean
  SessionKept TenantsKept
CHECK_DEADLOCK FALSE
