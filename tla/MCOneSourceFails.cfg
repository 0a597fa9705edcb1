CONSTANTS
  h1 = h1
  h2 = h2
  Handler = {h1}
  N = 2
  MaxFaults = 1
SPECIFICATION Spec
INVARIANTS EverySourceRuns
CHECK_DEADLOCK FALSE
