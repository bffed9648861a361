SPECIFICATION Spec
CONSTANTS
  Packages = {"p1", "p2"}
  Procs = {q1}
  MaxReleases = 3
  Facts = {e1, e2, e3}
  Core = {e1}
  Credentials = {e3}
  Docs = {"memory"}
  Writers = {w1, w2}
  Limit = 1
  MaxWrites = 3
  Tasks = {t1, t2, t3}
  Spellings = {"plain", "odd"}
  MaxSlots = 2
  MaxCalls = 3
  Slashes = {"new", "resume", "fork", "clone", "rewind", "bang", "tree"}
  MaxItems = 3
  MaxSessions = 2
  MaxRetries = 3
  Apis = {"openai", "anthropic", "gemini"}
  MaxHist = 5
  MaxChanges = 2
  MaxDrifts = 1
  MaxGated = 3
  MaxEvents = 5
  MaxEdits = 3
  Handles = {"g"}
  MaxAsked = 4
  MaxHits = 3
  Live = {"retry"}
  Held = {"thinking"}
  Dialogs = {"d1"}
  Declared = {"c1"}
  InReply = {"c1"}
  MaxSid = 2
  MaxBytes = 3
  MaxMeddled = 1
INVARIANTS
  TypesOK ScreenTrue FilesTrue ModelTalk SetupKept
CHECK_DEADLOCK FALSE
