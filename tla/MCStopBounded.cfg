CONSTANTS
  j1 = j1
  j2 = j2
  h1 = h1
  h2 = h2
  CronJob = {j1, j2}
  Startup = Startup
  Http = {h1, h2}
SPECIFICATION Spec
INVARIANTS StopBounded
CHECK_DEADLOCK FALSE
