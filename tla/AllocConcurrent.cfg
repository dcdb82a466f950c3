SPECIFICATION FairSpec
CONSTANTS
    Threads = {t1, t2}
    Files = {f1, f2}
    NoFile = NoFile
    FirstBlock = 1
    PerGroup = 7
    BlocksCount = 28
    BitmapBits = 8
    SparseSuper = TRUE
    MetaBg = TRUE
    FirstMetaBg = 0
    DescPerBlock = 2
    ReservedGdt = 0
    AtFront <- MetaAtFront
    BitmapBlk <- MetaBitmapBlk
    InodeBitmapBlk <- MetaInodeBitmapBlk
    InodeTable <- MetaInodeTable
    ItbPerGroup = 2
    FlexBg = FALSE
    UninitGroups = {2, 3}
    Used <- MetaUsed
    Goals <- MetaGoals
    MaxWanted = 1
    MaxCalls = 3
    MaxMounts = 0
    GroupRange = 65536
    TotalRange = 65536
INVARIANT BitsAgree
PROPERTY CallsReturn
