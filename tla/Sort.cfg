CONSTANTS
  size = 4
  Inputs <- SomeInputs
  Versions = {"processes", "threads"}
  THREAD_COUNT = 6
SPECIFICATION SortSpec
INVARIANTS  RecursionEnds
CHECK_DEADLOCK FALSE
