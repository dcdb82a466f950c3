SPECIFICATION FairSpec
CONSTANTS
    Threads = {t1, t2}
    WB = wb
    Blocks = {1}
    Ops = {"read", "update", "overwrite"}
    MaxOps = 2
    FreeThreshold = 0
    DirtyThreshold = 0
    FaultyDevice = TRUE
INVARIANTS TypeOK RefCount BufferLock EventToken DirtyCounted
PROPERTIES OpsReturn UnmountEnds
