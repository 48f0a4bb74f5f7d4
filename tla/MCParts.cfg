SPECIFICATION PartsSpec
CONSTANTS
  AppIds = {"a1", "a2"}
  NoApp = noapp
  NoFile = nofile
  MaxPolicies = 4
  AccessAccounts <- MCAccounts
  IssuedFirst = 2
  Commits = {1, 2}
  NoCommit = nocommit
  Tables = {"t", "u"}
  Columns = {"y", "z"}
  TableOf <- MCTableOf
  RequiredTables <- MCRequiredTables
  RequiredColumns <- MCRequiredColumns
  Alters <- MCRequiredColumns
  Tabs = {t1, t2}
  Browsers = {"b1"}
  BrowserOf <- MCBrowserOf
  Endpoints = {1, 2}
  NoEndpoint = 0
  NoRow = norow
  Names = {n1, n2}
  NoName = noname
  MaxDrawn = 2
  MaxKey = 1
  MaxBusy = 2
  Runs = {"r1"}
  Deliveries = {"d1", "d2"}
  RunOf <- MCRunOf
  Checks = {"k"}
  Clearings = {"c1"}
  Requests = {"push", "mail", "suggest"}
  LimiterOf <- MCLimiterOf
  ChannelOf <- MCChannelOf
  Interval <- MCInterval
  MaxNow = 3
  Crons = {"cron1", "cron2"}
  TimeZones = {"home"}
  DateAt <- MCDateAt
  HourAt <- MCHourAt
  WeekdayOf <- MCWeekdayOf
  TestHours = {1, 2}
  Channels = {"email"}
  LastTick = 2
  Slots = {6, 12}
  DefaultSlots = {6}
  Presets <- MCPresets
  ReportChannels = {"email"}
  Pages = {"new", "old"}
  OldPages = {"old"}
  MaxSlots = 2
  Sites = {s1, s2}
  StoredFirst = {s1, s2}
  NoSite = nosite
  MaxCalls = 2
INVARIANTS
  PartsTypeOK
  ApplyLeadsToVerified
  SchemaAhead
  VerifiedPairMatches
  VerdictFitsDevice
  ClearedIsGone
  Spaced
  RefusedOnlyWithoutTimes
  OneTestADay
  FormAndDrawerAgree
PROPERTIES
  ApplyKeepsOwner
  RevivedKnowingly
  UnsettledUntouched
CHECK_DEADLOCK FALSE
