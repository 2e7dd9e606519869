CONSTANT N = 7
SPECIFICATION ManpageFairSpec
INVARIANTS InOrder
PROPERTY Finishes
