CONSTANTS
  h1 = h1
  h2 = h2
  Handler = {h1, h2}
  N = 3
  MaxFaults = 2
SPECIFICATION FairSpec
INVARIANTS TypeOK SourceIsolation NoWaitCycle
PROPERTIES EveryRunEnds
CHECK_DEADLOCK FALSE
