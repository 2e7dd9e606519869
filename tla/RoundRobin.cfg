SPECIFICATION Spec
CONSTANTS
  Threads = {main, t2, t3, t4}
  initial_thread = main
  Idle = idle
  NULL = NULL
  TIME_SLICE = 4
INVARIANTS ReadyExact WaitBounded
