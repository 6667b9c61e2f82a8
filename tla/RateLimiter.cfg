SPECIFICATION Spec
CONSTANTS
  Peers = {direct, proxy}
  Trusted = {proxy}
  Claims = {client}
  NoHeader = NoHeader
  Cost = 2
  Burst = 2
  RetryAfter = 3
  Interval = 4
  Lag = 1
  MaxTime = 10
CHECK_DEADLOCK FALSE
INVARIANTS WindowBound ForgottenInTime
PROPERTIES RetryAfterHonest
