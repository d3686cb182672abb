\* fsck -y: clusters marked in use by the walk.
SPECIFICATION MCSpec
CONSTANTS
    FsClusters = 3
    ClusterBlocks = 4
    SuperBlockBlkno = 2
    FsGeneration = 0
    MaxRecsInode = 2
    MaxRecsEb = 2
    EbLocs = {5, 9}
    SparseAlloc = TRUE
    UnwrittenExtents = FALSE
    RefcountTree = TRUE
    Answers = {TRUE}
    Passes = 2
    MaxStack = 4
    InitImages <- MCTreeImages
INVARIANT
    AccountedWithinVolume
