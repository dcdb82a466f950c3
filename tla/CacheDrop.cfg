SPECIFICATION Spec
CONSTANTS
    Threads = {t1}
    WB = wb
    Blocks = {1, 2, 3}
    Ops = {"read"}
    MaxOps = 5
    FreeThreshold = 1
    DirtyThreshold = 0
    FaultyDevice = FALSE
INVARIANTS FreelistSound NoUseAfterFree
