SPECIFICATION Spec
CONSTANTS
    Threads = {t1, t2}
    Names = {"a", "b", "c"}
    LongNames = {"c"}
    Paths <- MCPaths
    Inodes = {2, 3, 4, 5, 6, 7}
    Dir <- MCDir
    RootInode = 2
    MaxLookups = 3
    MaxEntries = 6
INVARIANTS TypeOK NoNullEntry
PROPERTIES Implements
