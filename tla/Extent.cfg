SPECIFICATION FairSpec
CONSTANTS
    LBlocks = {0, 1, 2, 3, 4, 5}
    Groups <- OneGroup
    Held <- Crowded
    RootMax = 2
    BlockMax = 3
    MaxLen = 2
    MaxBlocks = 99
    MaxOps = 6
INVARIANTS LookupAgrees TreeShape BlocksAccounted
PROPERTIES ChangesMarked OpsReturn
