\* Enable and disable, three invocations, dying anywhere, over files whose
\* extents lie within i_size.
SPECIFICATION Spec
CONSTANTS
    ClusterSize = 2
    PClusters = {0, 1, 2, 3}
    Sparse = TRUE
    MaxRuns = 3
    InitInodes <- MCInSizeInodes
CHECK_DEADLOCK FALSE
INVARIANT
    NoStaleExposed
    FeatureOffNoUnwritten
PROPERTY
    EmptiesOnlyUnwritten
    RunEnds
