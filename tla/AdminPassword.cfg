\* One Agent and the UI, starts that break off up to twice.
SPECIFICATION StartSpec
CONSTANTS
  Agents = {"agent"}
  MaxColumns = 2
  MaxFragments = 2
  MaxFailures = 2
INVARIANT AdminKnown
CHECK_DEADLOCK FALSE
