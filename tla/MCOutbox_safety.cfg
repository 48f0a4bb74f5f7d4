CONSTANTS
  d1 = d1
  d2 = d2
  j1 = j1
  j2 = j2
  Jobs = {j1, j2}
  Dispatchers = {d1, d2}
  HttpDispatchers = {d1, d2}
  Requests = {}
  NoOne = NoOne
  Limit = 2
  Lease = 1
  ProviderTimeout <- OneEach
  Untimed = {}
  MaxAttempts = 3
  RetryDelays <- ThreeAttempts
  Cooldown = 1
  MaxManualRetries = 1
  Prompt = FALSE
  CronPeriod = 5
  MaxFaults = 1
  LastEnqueue = 0
  MaxTime = 2
SPECIFICATION Spec
SYMMETRY AllSymmetry
INVARIANTS TypeOK SentMeansAccepted AttemptsLeft ExclusiveWhileLeased
PROPERTIES LeaseHonoured
CHECK_DEADLOCK FALSE
