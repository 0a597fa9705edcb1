CONSTANTS
  r1 = r1
  r2 = r2
  b1 = b1
  b2 = b2
  b3 = b3
  Backend = {b1, b2, b3}
  RedisBackend = {b1, b2}
  Request = {r1, r2}
  Scheduled = {r2}
  Date = {1, 2}
  DateOf <- MCDateOf
  MaxCrashes = 1
  None = None
SYMMETRY Replicas
SPECIFICATION Spec
INVARIANTS TypeOK LeaseHeld Exclusive OneRunPerProcess LinkedRowStands CacheNotAhead HealthyRunClosesJob
PROPERTIES OnlyOwnLockReleased JobForward ImplementsLease
CHECK_DEADLOCK FALSE
