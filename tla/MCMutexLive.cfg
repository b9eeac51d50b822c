CONSTANTS
  t1 = t1
  t2 = t2
  m1 = m1
  Threads = {t1, t2}
  Mutexes = {m1}
  NoThread = NoThread
  Timeouts = {1}
  MaxNow = 2
SPECIFICATION FairSpec
PROPERTIES FreeMutexIsTaken TimedLockReturns
