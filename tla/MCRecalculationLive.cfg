CONSTANTS
  r1 = r1
  r2 = r2
  b1 = b1
  b2 = b2
  b3 = b3
  Backend = {b1, b3}
  RedisBackend = {b1}
  Request = {r1, r2}
  Scheduled = {r2}
  Date = {1}
  DateOf <- MCOneDate
  MaxCrashes = 1
  None = None
SPECIFICATION FairSpec
PROPERTIES ComesToRest
CHECK_DEADLOCK FALSE
