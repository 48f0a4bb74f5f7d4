CONSTANTS
  d1 = d1
  d2 = d2
  j1 = j1
  j2 = j2
  j3 = j3
  Jobs = {j1, j2, j3}
  Dispatchers = {d1, d2}
  HttpDispatchers = {d1, d2}
  Requests = {}
  NoOne = NoOne
  Limit = 2
  Lease = 3
  ProviderTimeout <- OneSlow
  Untimed = {}
  MaxAttempts = 1
  RetryDelays <- TwoAttempts
  Cooldown = 1
  MaxManualRetries = 1
  Prompt = TRUE
  CronPeriod = 9
  MaxFaults = 1
  LastEnqueue = 0
  MaxTime = 4
SPECIFICATION Spec
SYMMETRY Symmetry
INVARIANTS ExclusiveInTime
CHECK_DEADLOCK FALSE
