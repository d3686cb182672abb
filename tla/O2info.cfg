\* Every o2info operation on both paths, on a kernel without OCFS2_IOC_INFO,
\* one from before the FREEINODE and FREEFRAG requests and a current one;
\* for --freefrag every ocfs2 cluster size, a range of chunk arguments
\* (valid, not a power of two, smaller than a cluster, default) and small
\* volumes.  o2info exits after one operation, so a final state is no deadlock.
SPECIFICATION Spec
CONSTANTS
    ClusterBits = {12, 13, 14, 15, 16, 17, 18, 19, 20}
    ChunkArgs = {0, 1, 3, 4, 16, 1024}
    MaxClusters = 8
    DefaultChunk = 1048576
    MaxHist = 32
    Ops = {"fs_features", "volinfo", "mkfs", "freeinode", "freefrag", "space_usage", "filestat"}
    Methods = {"ioctl", "libocfs2"}
    Kernels = {{}, {"blocksize", "clustersize", "maxslots", "label", "uuid", "fs_features", "journal_size"}, {"blocksize", "clustersize", "maxslots", "label", "uuid", "fs_features", "journal_size", "freeinode", "freefrag"}}
CHECK_DEADLOCK FALSE
INVARIANT
    TypeOK
    BitCountsExact
    ChunkGeometry
    HistogramLabelsExact
