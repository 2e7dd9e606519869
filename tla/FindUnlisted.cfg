SPECIFICATION Spec
CONSTANTS
  MaxTid = 5
  MaxCalls = 4
  Codes = {7}
INVARIANT DeadUnlisted
CHECK_DEADLOCK FALSE
