CONSTANTS
  Threads = {t1, t2, t3}
  NULL = NULL
  Algorithms <- Every
  quant = 2
  Priorities <- SomePriorities
  Lengths <- SomeLengths
  MaxTime = 6
  MaxIO = 1
SPECIFICATION Spec
SYMMETRY Alike
INVARIANTS OnePlace RemainingExact BoundedWait TurnaroundAddsUp
PROPERTIES RunsFirst NeverPreempts
CHECK_DEADLOCK FALSE
