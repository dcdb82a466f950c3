SPECIFICATION FairSpec
CONSTANTS
    Threads = {t1}
    WB = wb
    Blocks = {1, 2}
    Ops = {"read", "update"}
    MaxOps = 3
    FreeThreshold = 9
    DirtyThreshold = 0
    FaultyDevice = FALSE
INVARIANTS ReadsLatest Unflushed FlagUpdatesExclusive
PROPERTIES Implements WritesReachDevice
