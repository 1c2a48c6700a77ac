\* One instance of every component that makes somebody wait.
SPECIFICATION LivenessSpec
CONSTANTS
  Tasks = {t1}
  Requests = {u1}
  Turns = {c1}
  MaxCalls = 3
  Free = Free
  SchedulerJobs = {j1, j2}
  OnceJobs = {j1}
  MaxRuns = 2
  SchedulerRequests = {q1}
  SchedulerOps = {"pause", "resume", "cancel", "delete", "run"}
  MaxParallel = 1
  MaxSlot = 1
  MaxRows = 1
  MaxCrashes = 1
  Chats = {ch1}
  ChatRequests = {q1, q2}
  ChatOps = {"ws", "http", "branch", "delete"}
  GateCap = 1
  MaxChatFaults = 1
  MaxMsg = 6
  Servers = {s1}
  McpRequests = {r1, r2}
  MaxDeaths = 1
  KbRequests = {r1, r2}
  Sources = {f1}
  KbCrashes = 1
  ReviewRequests = {r1, r2}
  PullRequests = {p1}
  Branches = {b1}
  RepoOf <- MCRepoOf
  Trees <- MCTrees
  Models = {1, 2}
  MaxBaseRefs = 1
  MaxPushes = 1
  ReleaseRequests = {r1, r2}
  ReleaseChats = {ch1}
  Versions <- MCVersions
  FirstVersion <- MCFirst
  MaxForeign = 1
  MaxFaults = 1
  MaxSlowStarts = 2
  MaxUiDeaths = 1
  Agents = {"agent"}
  MaxColumns = 1
  MaxFragments = 1
  MaxFailures = 1
PROPERTY EverythingSettles
CHECK_DEADLOCK FALSE
