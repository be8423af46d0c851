CONSTANTS
  Ips = {ip1, ip2}
  Cap = 4
  Cost = 2
  MaxInstant = 6
SPECIFICATION LimiterSpec
INVARIANT
  BurstBounded
PROPERTY
  ImplementsTokenBucket
CHECK_DEADLOCK FALSE
