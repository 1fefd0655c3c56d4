SPECIFICATION FairSpec
CONSTANTS
  Runners = {r1, r2}
  Traders = {}
  Callers = {c1, c2}
  NoRun = NoRun
  MaxRequests = 2
INVARIANTS
  TypeOK
  NoOrphan
  DeadNeverLooksAlive
  EngineStateHonest
PROPERTIES
  ContractSpec
  StopSettles
  KillSweeps
CHECK_DEADLOCK FALSE
