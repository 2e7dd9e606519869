CONSTANTS
  main = main t2 = t2 t3 = t3 t4 = t4 t5 = t5
  tidlock = tidlock lk = lk lk2 = lk2 sm = sm cv = cv
  Threads = {main, t2, t3, t4, t5}
  Idle = idle
  Initial = main
  Null = null
  Locks = {tidlock, lk, lk2}
  TidLock = tidlock
  Semas = {sm}
  Conds = {cv}
  Started = {main, t2, t3}
  Priorities = {1, 2}
  CondLock <- CLock
  SemaInit <- SInit
  Programs <- AllPrograms
SPECIFICATION Spec
CHECK_DEADLOCK FALSE
INVARIANTS TypeOK SharedElemExclusive LockExclusive NoLostWakeup SignalFindsWaiter SignalNotLost TidsUnique
PROPERTIES ImplementsLock UpWakesHighest
