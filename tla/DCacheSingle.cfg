SPECIFICATION FairSpec
CONSTANTS
    Threads = {t1}
    Names = {"a", "b", "c"}
    LongNames = {"c"}
    Paths <- MCPaths
    Inodes = {2, 3, 4, 5, 6, 7}
    Dir <- MCDir
    RootInode = 2
    MaxLookups = 4
    MaxEntries = 8
INVARIANTS RingSound
PROPERTIES LookupReturns
