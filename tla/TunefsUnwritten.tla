--------------------------- MODULE TunefsUnwritten ---------------------------
(***************************************************************************)
(* tunefs.ocfs2's unwritten-extents feature                                *)
(* (src/tunefs.ocfs2/feature_unwritten_extents.c): enabling sets the      *)
(* RO_COMPAT flag; disabling first visits every inode, zeroes the         *)
(* clusters of each unwritten extent and marks the extent written, and    *)
(* only then clears the flag.  tunefs may be run again and again, and may *)
(* die (power loss, a signal outside the blocked window) between any two  *)
(* of its writes; what it wrote stays on disk.                            *)
(*                                                                         *)
(* An inode is [kind, size, ext]: kind "reg" for a regular file that is   *)
(* neither a system file nor inline, "other" for everything the iterator  *)
(* skips; size is i_size in bytes; ext the extents in logical order,      *)
(* each [v, len, p, unw] (first logical cluster, length, first physical   *)
(* cluster, OCFS2_EXT_UNWRITTEN).  data[c] is what physical cluster c     *)
(* holds: "user" data, "zero", or "stale" blocks of a deleted file, which *)
(* only an unwritten extent may cover.                                    *)
(***************************************************************************)
EXTENDS Integers, Sequences, FiniteSets, FiniteSetsExt

CONSTANTS
    ClusterSize,   \* fs_clustersize, in bytes
    PClusters,     \* the physical clusters of the volume
    Sparse,        \* the volume has the sparse-allocation feature
    InitInodes,    \* the inode tables tunefs may find
    MaxRuns        \* bound on the number of tunefs invocations

VARIABLES
    feature,   \* RO_COMPAT_UNWRITTEN in the on-disk superblock
    inode,     \* inode number -> [kind, size, ext]
    data,      \* physical cluster -> "user" | "zero" | "stale"
    pc,        \* "idle" between runs, else the step of the running tunefs
    op,        \* the feature operation of the current run
    todo,      \* inodes tunefs_foreach_inode() has still to visit
    cur,       \* the inode unwritten_iterate() is walking
    v,         \* v_cluster
    runs       \* tunefs invocations so far

vars == <<feature, inode, data, pc, op, todo, cur, v, runs>>

Inodes == DOMAIN inode

\* A v_cluster no walk reaches: a hole after the last extent runs to the
\* end of the logical space (2^32 - 1 in the code; TLC's largest integer
\* stands for it, as only its being past every i_size matters).
VMax == 2147483647

\* Mutant: i_size is rounded down to whole clusters.
MutClustersFloor(size) == size \div ClusterSize

\* unwritten_iterate(): the clusters that i_size covers, rounded up.
clusters(size) == (size + ClusterSize - 1) \div ClusterSize

\* The extent of ext that holds logical cluster vc, if any.
ExtAt(ext, vc) == {k \in DOMAIN ext : ext[k].v <= vc /\ vc < ext[k].v + ext[k].len}

\* ocfs2_get_clusters() at logical cluster vc: the physical cluster, the
\* clusters left in the extent (or the hole), and the unwritten flag.
get_clusters(ext, vc) ==
    IF ExtAt(ext, vc) # {}
    THEN LET e == ext[CHOOSE k \in ExtAt(ext, vc) : TRUE]
         IN  [p |-> e.p + (vc - e.v), num |-> e.v + e.len - vc, unw |-> e.unw]
    ELSE [p |-> 0, unw |-> FALSE,
          num |-> Min({ext[k].v : k \in {k \in DOMAIN ext : ext[k].v > vc}} \cup {VMax}) - vc]

\* Mutant: the zeroed range runs one cluster too far.
MutEmptyOneMore(d, p, n) == [c \in DOMAIN d |-> IF p <= c /\ c <= p + n THEN "zero" ELSE d[c]]

\* Mutant: tunefs_empty_clusters() writes nothing.
MutEmptyNone(d, p, n) == d

\* tunefs_empty_clusters(): n clusters from p are overwritten with zeroes.
tunefs_empty_clusters(d, p, n) == [c \in DOMAIN d |-> IF p <= c /\ c < p + n THEN "zero" ELSE d[c]]

\* ocfs2_mark_extent_written() from logical cluster vc to the end of its
\* extent (the walk always asks for exactly that range).
mark_extent_written(ext, vc) ==
    [k \in DOMAIN ext |-> IF ext[k].v <= vc /\ vc < ext[k].v + ext[k].len
                          THEN [ext[k] EXCEPT !.unw = FALSE] ELSE ext[k]]

\* The end of a run: tunefs exits and the next invocation may start.
EndRun == pc' = "idle" /\ todo' = {} /\ cur' = 0 /\ v' = 0

-----------------------------------------------------------------------------

\* tunefs.ocfs2 is invoked to enable or to disable the feature.
start_tunefs ==
    /\ pc = "idle"
    /\ runs < MaxRuns
    /\ runs' = runs + 1
    /\ \E o \in {"enable", "disable"} : op' = o
    /\ pc' = "start"
    /\ UNCHANGED <<feature, inode, data, todo, cur, v>>

\* enable_unwritten_extents(): nothing to do if already on; refused without
\* sparse allocation; the user may decline; the progress display may fail
\* to start; otherwise the flag is set and the superblock written (which
\* may fail).
enable_unwritten_extents ==
    /\ pc = "start" /\ op = "enable"
    /\ IF ~feature /\ Sparse
       THEN \E proceed, written \in BOOLEAN : feature' = (proceed /\ written)
       ELSE UNCHANGED feature
    /\ EndRun
    /\ UNCHANGED <<inode, data, op, runs>>

\* disable_unwritten_extents(): nothing to do if off; the user may decline;
\* the progress display may fail to start; otherwise every inode is
\* visited (clear_unwritten_extents()).
disable_unwritten_extents ==
    /\ pc = "start" /\ op = "disable"
    /\ IF feature
       THEN \E proceed \in BOOLEAN :
              IF proceed THEN pc' = "foreach" /\ todo' = Inodes /\ UNCHANGED <<cur, v>>
                         ELSE EndRun
       ELSE EndRun
    /\ UNCHANGED <<feature, inode, data, op, runs>>

\* Mutant: a walked file is not taken off the list of inodes to visit.
MutIterateKeepsInode ==
    /\ pc = "foreach"
    /\ todo # {}
    /\ LET i == Min(todo) IN
       IF inode[i].kind # "reg"
       THEN todo' = todo \ {i} /\ UNCHANGED <<pc, cur, v>>
       ELSE \E readOk \in BOOLEAN :
              IF readOk THEN pc' = "walk" /\ cur' = i /\ v' = 0 /\ UNCHANGED todo
                        ELSE EndRun
    /\ UNCHANGED <<feature, inode, data, op, runs>>

\* unwritten_iterate() entry for the next inode: anything but a regular,
\* non-system, non-inline file is skipped; ocfs2_read_cached_inode() may
\* fail, which stops the iteration and the disable.
unwritten_iterate ==
    /\ pc = "foreach"
    /\ todo # {}
    /\ LET i == Min(todo) IN
       IF inode[i].kind # "reg"
       THEN todo' = todo \ {i} /\ UNCHANGED <<pc, cur, v>>
       ELSE \E readOk \in BOOLEAN :
              IF readOk THEN pc' = "walk" /\ cur' = i /\ v' = 0 /\ todo' = todo \ {i}
                        ELSE EndRun
    /\ UNCHANGED <<feature, inode, data, op, runs>>

\* The walk loop, at a written extent or a hole: step over it; the walk of
\* the inode ends once v_cluster reaches the clusters of i_size.
walk_skip ==
    /\ pc = "walk"
    /\ IF v < clusters(inode[cur].size)
       THEN LET g == get_clusters(inode[cur].ext, v) IN
            /\ ~g.unw
            /\ v' = v + g.num
            /\ UNCHANGED pc
       ELSE pc' = "foreach" /\ UNCHANGED v
    /\ UNCHANGED <<feature, inode, data, op, todo, cur, runs>>

\* At an unwritten extent: its clusters are zeroed first; a failure stops
\* the iteration and the disable.
walk_empty ==
    /\ pc = "walk"
    /\ v < clusters(inode[cur].size)
    /\ LET g == get_clusters(inode[cur].ext, v) IN
       /\ g.unw
       /\ \E ok \in BOOLEAN :
            IF ok THEN data' = tunefs_empty_clusters(data, g.p, g.num) /\ pc' = "mark"
                      /\ UNCHANGED <<todo, cur, v>>
                  ELSE EndRun /\ UNCHANGED data
    /\ UNCHANGED <<feature, inode, op, runs>>

\* ...then, with signals blocked, the extent is marked written; a failure
\* stops the iteration and the disable.
walk_mark ==
    /\ pc = "mark"
    /\ \E ok \in BOOLEAN :
        IF ok THEN LET g == get_clusters(inode[cur].ext, v) IN
                   /\ inode' = [inode EXCEPT ![cur].ext = mark_extent_written(@, v)]
                   /\ v' = v + g.num
                   /\ pc' = "walk"
                   /\ UNCHANGED <<todo, cur>>
              ELSE EndRun /\ UNCHANGED inode
    /\ UNCHANGED <<feature, data, op, runs>>

\* Every inode visited: the flag is cleared and the superblock written
\* with signals blocked (the write may fail).
disable_write_super ==
    /\ pc = "foreach"
    /\ todo = {}
    /\ \E written \in BOOLEAN : feature' = (feature /\ ~written)
    /\ EndRun
    /\ UNCHANGED <<inode, data, op, runs>>

\* tunefs dies between two of its writes.
crash ==
    /\ pc \notin {"idle", "start"}
    /\ EndRun
    /\ UNCHANGED <<feature, inode, data, op, runs>>

-----------------------------------------------------------------------------

\* The volume as tunefs finds it: the inode table is one of InitInodes,
\* written extents hold user data, an unwritten one may cover stale
\* blocks, and only a volume with the feature on has unwritten extents.
Init ==
    /\ inode \in InitInodes
    /\ data \in [PClusters -> {"user", "zero", "stale"}]
    /\ \A i \in DOMAIN inode : \A k \in DOMAIN inode[i].ext :
         \A c \in inode[i].ext[k].p .. inode[i].ext[k].p + inode[i].ext[k].len - 1 :
            ~inode[i].ext[k].unw => data[c] = "user"
    /\ feature \in BOOLEAN
    /\ feature \/ \A i \in DOMAIN inode : \A k \in DOMAIN inode[i].ext : ~inode[i].ext[k].unw
    /\ pc = "idle" /\ op = "enable" /\ todo = {} /\ cur = 0 /\ v = 0 /\ runs = 0

Next ==
    \/ start_tunefs \/ enable_unwritten_extents \/ disable_unwritten_extents
    \/ unwritten_iterate \/ walk_skip \/ walk_empty \/ walk_mark
    \/ disable_write_super \/ crash

\* The steps of a running tunefs, which is one sequential process.
TunefsStep ==
    \/ enable_unwritten_extents \/ disable_unwritten_extents \/ unwritten_iterate
    \/ walk_skip \/ walk_empty \/ walk_mark \/ disable_write_super

\* A started tunefs keeps running until it exits or dies; nothing obliges
\* anyone to invoke it again.
Spec == Init /\ [][Next]_vars /\ WF_vars(TunefsStep)

-----------------------------------------------------------------------------

\* The physical clusters extent k of inode i maps.
ExtClusters(i, k) == inode[i].ext[k].p .. inode[i].ext[k].p + inode[i].ext[k].len - 1

\* Whatever tunefs has done and wherever it died, no extent that reads as
\* written covers stale blocks: unwritten_iterate() zeroes an extent before
\* it marks it written.
NoStaleExposed ==
    \A i \in Inodes : \A k \in DOMAIN inode[i].ext :
        ~inode[i].ext[k].unw => \A c \in ExtClusters(i, k) : data[c] # "stale"

\* A volume whose superblock says the feature is off holds no unwritten
\* extent: disable_unwritten_extents() clears the flag only after every
\* unwritten extent was converted.
FeatureOffNoUnwritten ==
    ~feature => \A i \in Inodes : \A k \in DOMAIN inode[i].ext : ~inode[i].ext[k].unw

\* A cluster tunefs overwrites belongs to an extent that is unwritten at
\* that moment: tunefs_empty_clusters() never touches data a file can read.
EmptiesOnlyUnwritten ==
    [][\A c \in PClusters : data'[c] # data[c] =>
         \E i \in Inodes : \E k \in DOMAIN inode[i].ext :
             inode[i].ext[k].unw /\ c \in ExtClusters(i, k)]_vars

\* Every invocation of tunefs ends: the inode walk and each file's
\* cluster walk make progress.
RunEnds == pc = "start" ~> pc = "idle"
=============================================================================
