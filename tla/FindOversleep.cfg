CONSTANTS
  Threads = {t1, t2, t3}
  Versions = {"timer"}
  MaxSleep = 2
  MaxTicks = 4
SPECIFICATION Spec
PROPERTY NoneOversleeps
CHECK_DEADLOCK FALSE
