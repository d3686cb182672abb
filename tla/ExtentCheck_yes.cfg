\* fsck -y, run twice over every corrupted volume, cycles and shared blocks included; the
\* second run is checked clean on volumes without a shared block.
SPECIFICATION MCSpec
CONSTANTS
    FsClusters = 3
    ClusterBlocks = 4
    SuperBlockBlkno = 2
    FsGeneration = 0
    MaxRecsInode = 2
    MaxRecsEb = 2
    EbLocs = {5, 9}
    SparseAlloc = TRUE
    UnwrittenExtents = FALSE
    RefcountTree = TRUE
    Answers = {TRUE}
    Passes = 2
    MaxStack = 4
    InitImages <- MCInitImages
INVARIANT
    TypeOK
    NoReadPastList
    WalkDepthBounded
    SecondRunCleanOnTrees
PROPERTY
    WalkTerminates
    RemovalCompacts
