SPECIFICATION PaperSpec
CONSTANTS
  Symbols = {s1}
  Quantities = {1, 3}
  Prices = {1, 4}
  Capital = 18
  Fee = 2
  AvgUnit = 1
  PnlUnit = 3
  MaxTrades = 2
  MaxLoss = 6
  DrawdownParts = 6
  None = None
  MaxHeld = 3
  LastDay = 2
  MaxOrders = 4
  MaxRestarts = 1
  Callers = {t1, t2}
  Slots = {a, b, c}
  Persisted = {a}
  Capacity = 1
  MemTTL = 1
  DiskTTL = 2
  NoFrame = NoFrame
  MaxTime = 4
  MaxCrashes = 1
  Threads = {tick}
  Strategists = {tick}
  Stocks = {x, y}
  TicketSizes = {1, 2}
  TicketPrices = {1, 2}
  Slack = 1
  InitialCash = 3
  NoTicket = NoTicket
  MaxFills = 3
  MaxRestores = 2
SYMMETRY Symmetry
INVARIANTS
  TypeOK
  CacheTypeOK
  AccountTypeOK
  BooksBalance
  DayBounded
  ReportLagsByOne
  AnswerAge
  CapacityOvershoot
  BooksAgree
  CashAgrees
  DiskConsistent
PROPERTY
  LedgerSpec
CHECK_DEADLOCK FALSE
