SPECIFICATION FileSpec
CONSTANTS
    LBlocks = {0, 1, 2}
    Groups <- OneGroup
    Held <- Alone
    RootMax = 2
    BlockMax = 3
    MaxLen = 3
    MaxBlocks = 99
    MaxOps = 99
    BS = 2
    Requests <- WholeBlocks
    Lengths = {}
    MaxCalls = 1
INVARIANTS ReadsExact
