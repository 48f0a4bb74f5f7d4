SPECIFICATION Spec
CONSTANTS
  Always = always
  NoRule = norule
  NoEvent = noevent
  Unknown = unknown
  Ids = {a, b, d}
  NoId = noid
  Channels = {email}
  NoSwitch = {}
  Cap = 2
  OwnRules <- MCOwnRules
  Forecasts <- MCForecasts
  Requests = {r1, r2}
  MaxInFlight = 2
SYMMETRY Symmetry
INVARIANTS TypeOK AtMostCap BulkChangesReachAll ForecastsFit AlertsFollowRules
PROPERTIES DefaultsNeverOverwrite
