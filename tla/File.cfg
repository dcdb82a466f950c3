SPECIFICATION FileSpec
CONSTANTS
    LBlocks = {0, 1, 2}
    Groups <- OneGroup
    Held <- Crowded
    RootMax = 2
    BlockMax = 3
    MaxLen = 3
    MaxBlocks = 99
    MaxOps = 99
    BS = 2
    Requests <- SomeRequests
    Lengths <- SomeLengths
    MaxCalls = 3
INVARIANTS WrittenStays ReadsWritten InodeSaved
PROPERTIES OthersUntouched FileOpsReturn
