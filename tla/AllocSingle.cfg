SPECIFICATION Spec
CONSTANTS
    Threads = {t1}
    Files = {f1, f2}
    NoFile = NoFile
    FirstBlock = 1
    PerGroup = 8
    BlocksCount = 32
    BitmapBits = 8
    SparseSuper = TRUE
    MetaBg = FALSE
    FirstMetaBg = 0
    DescPerBlock = 4
    ReservedGdt = 1
    AtFront <- OwnAtFront
    BitmapBlk <- OwnBitmapBlk
    InodeBitmapBlk <- OwnInodeBitmapBlk
    InodeTable <- OwnInodeTable
    ItbPerGroup = 1
    FlexBg = FALSE
    UninitGroups = {1, 3}
    Used <- OwnUsed
    Goals <- OwnGoals
    MaxWanted = 2
    MaxCalls = 7
    MaxMounts = 1
    GroupRange = 65536
    TotalRange = 65536
INVARIANTS BitsAgree CountsAgree SavedAtUnmount
PROPERTY Implements
