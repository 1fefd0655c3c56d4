SPECIFICATION BarSpec
CONSTANTS
  Strategies = {"ema_cross", "triple_ema"}
  Closes = {20, 30, 40, 50}
  NaN = NaN
  Fast = 1
  Medium = 3
  Slow = 7
  Unit = 65536
  CrossHistory = 3
  TripleHistory = 7
  Capital = 200
  Stake = 190
  Slippage = 1
  MaxBars = 9
PROPERTIES
  NoStacking
CHECK_DEADLOCK FALSE
