SPECIFICATION PartsSpec
CONSTANTS
  Requests = {"r1", "r2", "r3"}
  KeyOf <- MCKeyOf
  Tasks = {"t1", "t2", "t3", "t4"}
  StartsMax = 2
  Window = 1
  PruneEvery = 2
  MaxConcurrent = 2
  MaxClock = 4
  Releases = {1, 2}
  MaxStarts = 2
  Fetches = {"f1", "f2"}
  Hosts = {"a", "b", "c"}
  MaxRedirects = 1
  CacheMax = 2
  RobotsTtl = 1
  WebClock = 1
  Callers = {"c1", "c2"}
  Tokens = {"t1", "t2"}
  Reports <- MCReports
  Asks <- MCAsks
  MaxAge = 0
  Skew = 0
  MaxHour = 2
  Scripts <- MCScripts
INVARIANTS LimitsHold NoWorkOnClosedDatabase FetchesOrderly ProfilesConsistent ReportsOrdered StreamFaithful
PROPERTIES SchemaOnlyGrows SignalsStop
CHECK_DEADLOCK FALSE
