\* One task, two requests that reach the lock in either order.
SPECIFICATION Spec
CONSTANTS
  Tasks = {t1}
  Requests = {r1, r2}
  Turns = {c1}
  MaxCalls = 4
  Free = Free
PROPERTY TerminalOutcomeKept
CHECK_DEADLOCK FALSE
