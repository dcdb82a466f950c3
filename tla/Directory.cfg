SPECIFICATION Spec
CONSTANTS
    BS = 2
    NDir = 1
    Addrs = 2
    IBlock <- MCIBlock
    Index <- MCIndex
    Dirs <- MCDirs
    Names <- MCNames
    MaxRoom = 2
INVARIANTS ListsOnce SearchExact

