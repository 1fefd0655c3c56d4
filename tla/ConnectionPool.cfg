SPECIFICATION PoolSpec
CONSTANTS
  Clients = {p1, p2}
  Nobody = Nobody
  MaxConns = 4
  MaxFailures = 2
  MaxUses = 5
INVARIANT
  StaleIsReplaced
CHECK_DEADLOCK FALSE
