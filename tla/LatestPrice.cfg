SPECIFICATION Spec
CONSTANTS
  Callers = {c1, c2}
  MaxPrices = 2
PROPERTIES
  NeverFrozen
CHECK_DEADLOCK FALSE
