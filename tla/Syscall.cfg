SPECIFICATION FairSpec
CONSTANTS
  MaxTid = 5
  MaxCalls = 4
  Codes = {7}
  Names = {1, 2}
  NFiles = 5
  MaxFileCalls = 5
  PHYS_BASE = 48
  Programs <- MCPrograms
INVARIANTS ParentWaits WaitNotEarly DescriptorsKept OneFileNeverFull ArgumentsPassed
 
CHECK_DEADLOCK FALSE
