SPECIFICATION MCSpec
CONSTANTS
  Handlers = {h1, h2}
  Ips = {i1, i2}
  Emails = {e1}
  Burst = 3
  Cost = 2
  Refill = 1
  Threshold = 2
  Window = 3
  Block = 1
  BucketsCap = 2
  GuardCap = 3
  FewTicks = 2
  MaxTime = 4
SYMMETRY Symmetry
CHECK_DEADLOCK FALSE
INVARIANT RateHolds
PROPERTY LockoutHolds
