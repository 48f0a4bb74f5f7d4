CONSTANTS
  d1 = d1
  d2 = d2
  d3 = d3
  j1 = j1
  r1 = r1
  r2 = r2
  Jobs = {j1}
  Dispatchers = {d1, d2, d3}
  HttpDispatchers = {d1, d2, d3}
  Requests = {r1, r2}
  NoOne = NoOne
  Limit = 1
  Lease = 1
  ProviderTimeout <- TwoEach
  Untimed = {}
  MaxAttempts = 3
  RetryDelays <- StrictAttempts
  Cooldown = 1
  MaxManualRetries = 1
  Prompt = TRUE
  CronPeriod = 9
  MaxFaults = 1
  LastEnqueue = 0
  MaxTime = 4
SPECIFICATION Spec
SYMMETRY Symmetry
INVARIANTS ManualRetryOvershoot
PROPERTIES AttemptsNeverLost ImplementsLifecycle
CHECK_DEADLOCK FALSE
