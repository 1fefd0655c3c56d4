SPECIFICATION FairSpec
CONSTANTS
  e1 = e1
  e2 = e2
  t1 = t1
  t2 = t2
  q1 = q1
  s1 = s1
  NoSignal = NoSignal
  Executors = {e1, e2}
  Threads = {t1, t2, q1}
  Signals = {s1}
  DBThreads = {t1, t2, q1}
  ExecutorOf <- MCExecutorOf
  Emits <- MCEmits
  MaxTrades = 1
  Threshold = 2
  MaxCrashes = 1
INVARIANTS
  TypeOK
  BreakerArmed
  CapOvershoot
  StoredNeverResent
PROPERTY
  BrokenBrokerLeftAlone
