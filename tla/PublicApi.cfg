CONSTANTS
  p1 = p1
  p2 = p2
  r1 = r1
  r2 = r2
  Prefixes = {p1, p2}
  Expiry <- MCExpiry
  Requests = {r1, r2}
  MaxConcurrent = 1
  Tick = 2
  MaxAttempts = 2
  Window = 4
  Lockout = 3
  PerMinute = 40
  Burst = 1
  MaxTracked = 1
  MaxTime = 4
  MaxRequests = 4
SYMMETRY Symmetry
SPECIFICATION Spec
INVARIANTS OneRowPerLockout WaitIsEnough RateIsBounded
PROPERTY LockoutStands
CHECK_DEADLOCK FALSE
