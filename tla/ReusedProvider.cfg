\* One job, and requests that make and delete providers.
SPECIFICATION ProvSpec
CONSTANTS
  ProvRequests = {q1, q2, q3}
  Jobs = {j1}
  MaxProviders = 3
  MaxProvEdits = 1
  MaxRestarts = 1
INVARIANT RunUsesItsProvider
CHECK_DEADLOCK FALSE
