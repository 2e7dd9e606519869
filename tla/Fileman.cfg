CONSTANTS
  Files <- BothFiles
  Bytes = {0, 1, 2, 3, 4, 5, 6}
  Absent = Absent
  Start <- StartFiles
  BufSize = 1
  Programs <- AllPrograms
SPECIFICATION Spec
INVARIANTS AppendsKept  TreeDrawn DirIndented
CHECK_DEADLOCK FALSE
