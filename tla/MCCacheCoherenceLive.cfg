CONSTANTS
  d1 = d1
  d2 = d2
  a1 = a1
  Reader = {d1}
  Run = {a1}
  MaxVersion = 2
  None = None
SPECIFICATION FairSpec
PROPERTIES EventuallyFresh
CHECK_DEADLOCK FALSE
