CONSTANTS
  Threads = {t1, t2, t3}
  Versions = {"timer", "timer_list", "timer_sorted_list"}
  MaxSleep = 2
  MaxTicks = 4
  UIntRange = 16384
  FirstLoops = 1024
  Speeds <- AllSpeeds
  TIMER_FREQ = 100
  Delays <- SomeDelays
  Times <- SomeTimes
  Machine = 5000
SPECIFICATION DeviceSpec
SYMMETRY Alike
INVARIANTS SleepersListed TimeKept DelayAccurate
PROPERTIES ListNeverOversleeps OnlySleepersWoken
CHECK_DEADLOCK FALSE
