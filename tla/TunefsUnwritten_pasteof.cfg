\* Disable over files that may have unwritten extents reserved past i_size.
SPECIFICATION Spec
CONSTANTS
    ClusterSize = 2
    PClusters = {0, 1, 2, 3}
    Sparse = TRUE
    MaxRuns = 3
    InitInodes <- MCAllInodes
CHECK_DEADLOCK FALSE
INVARIANT
    FeatureOffNoUnwritten
