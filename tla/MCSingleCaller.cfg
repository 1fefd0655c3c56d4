SPECIFICATION Spec
CONSTANTS
  BarPrices = {0, 10, 20, 30}
  Lots = {12, 60}
  SimFee = 3
  SlipParts = 10
  Bars = 6
  Listed = 3
  ClosePrices <- MCClosePrices
  TotalCapital = 9
  ExposureParts = 2
  FixedParts = 2
  MaxPositions = 2
  Dates = 2
  StartDays = {1, 28, 29, 30, 31}
  StartMonths = {0, 1, 11}
  Lengths = {1, 2, 3}
  EndMonth = 15
  Combos = 3
  Failed = Failed
  Strategies = {"ema_cross", "triple_ema"}
  Closes = {20, 30, 40}
  NaN = NaN
  Fast = 1
  Medium = 3
  Slow = 7
  Unit = 65536
  CrossHistory = 3
  TripleHistory = 7
  Capital = 200
  Stake = 190
  Slippage = 1
  MaxBars = 9
  Slots = {slot1, slot2}
  Symbols = {a, b}
  FillPrices = {2, 3}
  Sizes = {1, 3}
  GateCaps = {0, 2}
  InitialCapital = 20
  MaxValue = 6
  MaxDailyLoss = 3
  MaxOpen = 1
  ExposureCap = 9
  MarketPrice = 3
  Commission = 1
  NoOrder = NoOrder
  NoPosition = NoPosition
  MaxOrders = 2
  Requests <- MCRequests
  Times = {1, 2, 3}
  SatSun = {3}
  MaxRows = 3
  FetchMin = 1
  ValidMin = 2
  Shapes <- MCShapes
  NoRv = NoRv
  DeviationPct = 2
  RankIn = 70
  RvWindow = 3
  RvMin = 1
  Weights <- MCWeights
  MinConfidence = 55
  MinWindow = 2
  MaxFrame = 4
  LastSession = 2
  Contracts <- MCContracts
  Spots = {25, 75, 120, 130, 175, 260}
  Width = 2
  Calendar <- MCCalendar
  Expiries = {1, 2}
  NoExpiry = NoExpiry
  NoSpot = NoSpot
  Purses = {1000, 5000}
  UnitPrices = {0, 7, 60}
  LotSizes = {1, 5}
  Edges <- MCEdges
  Atrs = {0, 40, 150, 200, 300, 500}
  NoAtr = NoAtr
  Stops = {0, 2, 9}
  RiskPct = 1
  ExposurePct = 20
  Panel = {"A", "B"}
  ValueCap = 50
  MaxSteps = 1
SYMMETRY Alike
INVARIANTS
  TypeOK
  
  WfForwardsChain
  SignalsAgree
  DomainBooks
  FeedSound
  NoLookahead
  ComputationsSound
CHECK_DEADLOCK FALSE
