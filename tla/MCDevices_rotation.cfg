SPECIFICATION DevicesSpec
CONSTANTS
  Tabs = {t1}
  Browsers = {"b1"}
  BrowserOf <- MCBrowserOf
  Endpoints = {1, 2}
  NoEndpoint = 0
  NoRow = norow
  Names = {n1, n2}
  NoName = noname
  MaxDrawn = 2
  MaxKey = 2
  MaxBusy = 1
INVARIANT RegisteredForCurrentKey
CHECK_DEADLOCK FALSE
