SPECIFICATION Spec
CONSTANTS
  Users = {p1, p2}
  Bases = {"TCS", "LT", "GSLT", "NIFTY"}
  Equities = {"TCS"}
  Indices = {"NIFTY"}
  Fallback = {"TCS", "LT", "NIFTY"}
  Listings = {{"TCS", "GSLT"}}
  Lots = {"TCS"}
  PartOf <- MCPartOf
  MinMaster = 2
  None = None
  MaxStarts = 2
  MaxWrites = 1
  Threads = {p1, p2}
  Static = {"LT"}
  Listed = {"NEWCO"}
  OnNSE = {"NEWCO", "LT"}
  OnBSE = {"NEWCO", "LT", "BSECO"}
  Nothing = Nothing
  Broken = Broken
  MaxDays = 2
  MaxBlips = 1
  Fetchers = {p1, p2}
  Life = 3
  Ttl = 2
  MaxClients = 4
  MaxRefused = 2
  LastTick = 5
  Loaders = {p1, p2}
  MaxAge = 2
  NoMaster = NoMaster
  Torn = Torn
  LastHour = 6
  Handlers = {p1, p2}
  Known = {s1}
  Unknown = {s2}
  MaxAudit = 2
  Limits <- MCLimits
  MaxRuns = 2
  MaxRequests = 4
  Clients = {p1, p2}
  Nobody = Nobody
  MaxConns = 4
  MaxFailures = 2
  MaxUses = 5
  Writers = {p1, p2}
  MaxLines = 3
  Backups = 1
  Mentions = {2}
  MaxRecords = 6
  MaxTears = 1
  LastDate = 3
SYMMETRY Symmetry
INVARIANTS
  TypeOK
  NamesFaithful
  MasterAge
  ApiHonest
  PoolSound
  ReportComplete
PROPERTIES
  MasterKept
  CallsExcused
CHECK_DEADLOCK FALSE
