CONSTANTS
  d1 = d1
  d2 = d2
  j1 = j1
  j2 = j2
  Jobs = {j1, j2}
  Dispatchers = {d1, d2}
  HttpDispatchers = {d1, d2}
  Requests = {}
  NoOne = NoOne
  Limit = 2
  Lease = 2
  ProviderTimeout <- OneEach
  Untimed = {}
  MaxAttempts = 2
  RetryDelays <- TwoAttempts
  Cooldown = 1
  MaxManualRetries = 1
  Prompt = TRUE
  CronPeriod = 5
  MaxFaults = 0
  LastEnqueue = 0
  MaxTime = 4
SPECIFICATION Spec
SYMMETRY Symmetry
INVARIANTS ExclusiveDelivery
CHECK_DEADLOCK FALSE
