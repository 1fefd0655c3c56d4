SPECIFICATION Spec
CONSTANTS
  Runners = {r1, r2}
  Traders = {r1}
  Callers = {c1, c2}
  NoRun = NoRun
  MaxRequests = 2
INVARIANT
  HoldingIsReachable
CHECK_DEADLOCK FALSE
SYMMETRY Symmetry
