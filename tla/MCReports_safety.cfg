CONSTANTS
  c1 = c1
  c2 = c2
  m1 = m1
  Crons = {c1, c2}
  Manuals = {m1}
  NoOne = NoOne
  Keys = {k1, k2}
  NoKey = NoKey
  KeyAt <- RepeatedHour
  LockTime = 1
  Prompt = FALSE
  StageTime = 1
  MaxFaults = 2
  MaxTime = 2
  k1 = k1
  k2 = k2
SPECIFICATION FairSpec
INVARIANTS TypeOK ExclusiveWhileLocked
PROPERTIES LockHonoured ImplementsOccurrences CronLeavesRun
CHECK_DEADLOCK FALSE
