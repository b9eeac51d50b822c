CONSTANTS
  t1 = t1
  t2 = t2
  t3 = t3
  m1 = m1
  Threads = {t1, t2, t3}
  Mutexes = {m1}
  NoThread = NoThread
  Timeouts = {1, 2}
  MaxNow = 3
SPECIFICATION Spec
SYMMETRY Symmetry
INVARIANTS
    CallsSound
    OwnerHolds
    NoLostWakeup
PROPERTIES
    ExpiryIsHonest
    ImplementsLock
