SPECIFICATION Spec
CONSTANTS
  e1 = e1
  e2 = e2
  t1 = t1
  t2 = t2
  q1 = q1
  s1 = s1
  NoSignal = NoSignal
  Executors = {e1}
  Threads = {t1, q1}
  Signals = {s1}
  DBThreads = {t1, q1}
  ExecutorOf <- MCExecutorOf
  Emits <- MCEmits
  MaxTrades = 20
  Threshold = 3
  MaxCrashes = 0
INVARIANT
  OneOrderPerSignal
