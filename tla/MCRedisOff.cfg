CONSTANTS
  r1 = r1
  r2 = r2
  b1 = b1
  b2 = b2
  b3 = b3
  Backend = {b3}
  RedisBackend = {}
  Request = {r1, r2}
  Scheduled = {r2}
  Date = {1, 2}
  DateOf <- MCDateOf
  MaxCrashes = 0
  None = None
SPECIFICATION Spec
INVARIANTS NoPanic
CHECK_DEADLOCK FALSE
