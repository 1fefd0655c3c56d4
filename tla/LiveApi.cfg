SPECIFICATION ApiSpec
CONSTANTS
  Handlers = {h1}
  Known = {s1}
  Unknown = {s2}
  MaxAudit = 2
  Limits = {1, 5}
  MaxRuns = 2
  MaxRequests = 2
INVARIANT
  LiveReachesBroker
CHECK_DEADLOCK FALSE
