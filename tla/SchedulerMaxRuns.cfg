\* One recurring job whose second run is its last.
SPECIFICATION Spec
CONSTANTS
  Jobs = {j1}
  OnceJobs = {}
  MaxRuns = 2
  Requests = {q1, q2}
  Ops = {"pause", "resume", "cancel", "delete", "run"}
  MaxParallel = 1
  MaxSlot = 3
  MaxRows = 3
  MaxCrashes = 0
INVARIANT ExhaustedHasNoSlot
CHECK_DEADLOCK FALSE
