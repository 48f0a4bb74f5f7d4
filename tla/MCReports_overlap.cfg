CONSTANTS
  c1 = c1
  m1 = m1
  Crons = {c1}
  Manuals = {m1}
  NoOne = NoOne
  Keys = {k1, k2}
  NoKey = NoKey
  KeyAt <- RepeatedHour
  LockTime = 2
  Prompt = FALSE
  StageTime = 1
  MaxFaults = 0
  MaxTime = 4
  k1 = k1
  k2 = k2
SPECIFICATION Spec
INVARIANTS SingleGeneration
CHECK_DEADLOCK FALSE
