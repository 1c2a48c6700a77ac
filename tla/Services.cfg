\* Three requests on what the Agent keeps for a user.
SPECIFICATION ServicesSpec
CONSTANTS
  Tasks = {t1}
  Requests = {u1, u2}
  Turns = {c1}
  MaxCalls = 4
  Free = Free
  Users = {k1, k2}
  Addresses = {r1, r2, r3}
  Threshold = 2
  Lockout = 2
  MaxEntries = 2
  MaxPairs = 1
  MaxTime = 4
  MaxAttempts = 6
  AccessRequests = {r1, r2, r3}
  Tokens = {k1, k2}
  KeyIds = {k3}
  TTL = 1
  KeyLimit = 1
  MaxClock = 3
  McpRequests = {r1, r2, r3}
  Servers = {s1}
  MaxDeaths = 1
  KbRequests = {r1, r2, r3}
  Sources = {f1}
  KbCrashes = 1
  ProvRequests = {r1, r2, r3}
  Jobs = {j1}
  MaxProviders = 3
  MaxProvEdits = 1
  MaxRestarts = 1
  ModelReqs = {r1, r2, r3}
  LmModels = {k1, k2}
  MaxStrays = 1
  MemRequests = {r1, r2, r3}
  EntryKeys = {k1, k2}
  Texts = {m1, m2}
  Fields = {k1, k2}
  NoText = NoText
  RuleRequests = {r1, r2, r3}
  MaxRules = 2
SYMMETRY Symmetry
INVARIANTS HistoryExplainsState TrailIsPath SessionsSound  AccountsSound ModelsSound UserDataSound
PROPERTIES CancelledIsFinal OthersSpared
CHECK_DEADLOCK FALSE
