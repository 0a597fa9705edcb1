CONSTANTS
  h1 = h1
  h2 = h2
  Handler = {h1, h2}
  Days = 2
  DateOf <- MCDateOf
  MaxFaults = 1
  None = None
SPECIFICATION FairSpec
INVARIANTS TypeOK DetailsOfOneWriter FileAgreesWithRows SameKindNeverCircles
PROPERTIES EveryCallEnds
CHECK_DEADLOCK FALSE
