\* Components of the Agent, the start and the browser, side by side.
SPECIFICATION AgentSpec
CONSTANTS
  Jobs = {j1}
  OnceJobs = {}
  MaxRuns = 2
  Requests = {q1, q2}
  Ops = {"pause", "resume", "cancel", "delete", "run"}
  MaxParallel = 1
  MaxSlot = 3
  MaxRows = 3
  MaxCrashes = 1
  Day = 8
  Horizon = 30
  Zones <- MCZones
  CronExprs <- MCExprs
  Intervals = {2, 3}
  MaxSleep = 9
  TabChats = {a, b}
  MaxExchanges = 1
  MaxJobs = 1
  RequestsFail = TRUE
  PanelItems = {i1, i2}
  MaxItemChanges = 2
  MaxLoads = 2
  MaxItemActions = 1
  EventsQueue = 1
  Agents = {"agent"}
  MaxColumns = 2
  MaxFragments = 2
  MaxFailures = 2
  MaxFaults = 2
  MaxSlowStarts = 4
  MaxUiDeaths = 2
INVARIANTS RunningIsTended CountMatchesRuns  DeletedIsQuiet JobTimesSound  StartSound
PROPERTIES OverIsOver
CHECK_DEADLOCK FALSE
