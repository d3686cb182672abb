------------------------------- MODULE O2info -------------------------------
(***************************************************************************)
(* The operations of o2info (src/o2info/operations.c).  Each operation's  *)
(* *_run() function is one sequential program: it fetches what it reports *)
(* with OCFS2_IOC_INFO requests (or, on an unmounted device, with the     *)
(* libocfs2 readers), turns it into text and prints it.  A program is     *)
(* modelled as the sequence of its steps; each step is an action of its   *)
(* own, with the failure exits the code has.  For `--freefrag' the chunk  *)
(* size argument, the bit counts of ul_log2(), the total number of chunks *)
(* and the histogram labels are modelled exactly.                         *)
(***************************************************************************)
EXTENDS Integers, Sequences

CONSTANTS
    ClusterBits,     \* log2 of the cluster sizes to try (ocfs2: 12..20)
    ChunkArgs,       \* chunk size arguments, in KB (0: the default)
    MaxClusters,     \* volume sizes 0..MaxClusters clusters
    DefaultChunk,    \* DEFAULT_CHUNKSIZE, in bytes
    MaxHist,         \* OCFS2_INFO_MAX_HIST
    Ops,             \* the operations requested on the command line
    Methods,         \* O2INFO_USE_IOCTL ("ioctl") and/or O2INFO_USE_LIBOCFS2
    Kernels          \* for each kernel, the INFO codes it fills ({}: no INFO ioctl)

\* The unit letters "KMGTPEZY": a label may use at most this many units.
NUnits == 8

VARIABLES
    in,          \* the inputs: operation, method, kernel and freefrag's volume
    pc,          \* the index of the current step of the operation's program
    status,      \* "running", then the exit: "ok" (rc 0) or "err" (rc != 0)
    filled,      \* the INFO codes whose answers the program holds
    printed,     \* the report has been (at least partly) printed
    off,         \* struct o2info_freefrag (the fields the report derives)
    labels       \* the histogram row labels the freefrag report prints

vars == <<in, pc, status, filled, printed, off, labels>>

-----------------------------------------------------------------------------
(* The arithmetic.                                                         *)
-----------------------------------------------------------------------------

\* Mutant: the argument is not halved before counting.
RECURSIVE MutLog2NoHalve(_)
MutLog2NoHalve(arg) == IF arg = 0 THEN 0 ELSE 1 + MutLog2NoHalve(arg \div 2)

RECURSIVE Log2Loop(_)
Log2Loop(arg) == IF arg = 0 THEN 0 ELSE 1 + Log2Loop(arg \div 2)

\* ul_log2(): halve once, then count halvings until zero.
ul_log2(arg) == Log2Loop(arg \div 2)

\* Reference: the exponent of the largest power of two not above n.
Log2Ref(n) == IF n = 0 THEN 0 ELSE CHOOSE k \in 0..n : 2^k <= n /\ n < 2^(k + 1)

\* x >> s and x << s on non-negative values.
Shr(x, s) == x \div 2^s
Shl(x, s) == x * 2^s

\* Mutant: the histogram labels skip the switch to M for 1 MB clusters.
MutFirstUnitAlways10(cbits) == 10

\* o2info_report_freefrag(): the first row is labelled in K unless the
\* cluster size is 1 MB, when it starts in M.
FirstUnit(cbits) == IF Shl(1, cbits - 10) = 1024 THEN 20 ELSE 10

\* The rows from bucket i on, with the unit in effect: each row is
\* [start, end, unit]; when `end` reaches 1024 the next row moves to the
\* next unit, and the loop stops once the letters run out.
\* Mutant: `start = end` is dropped, so the unit moves on one row late.
RECURSIVE MutHistRowsStaleStart(_, _, _)
MutHistRowsStaleStart(i, unit, cbits) ==
    IF i >= MaxHist THEN <<>>
    ELSE LET start == Shl(1, i + cbits - unit)
             next  == IF start = 1024 THEN unit + 10 ELSE unit
         IN  <<[start |-> start, end |-> Shl(start, 1), unit |-> unit]>> \o
             (IF next \div 10 > NUnits THEN <<>> ELSE MutHistRowsStaleStart(i + 1, next, cbits))

RECURSIVE HistRows(_, _, _)
HistRows(i, unit, cbits) ==
    IF i >= MaxHist THEN <<>>
    ELSE LET start == Shl(1, i + cbits - unit)
             end   == Shl(start, 1)
             next  == IF end = 1024 THEN unit + 10 ELSE unit
         IN  <<[start |-> start, end |-> end, unit |-> unit]>> \o
             (IF next \div 10 > NUnits THEN <<>> ELSE HistRows(i + 1, next, cbits))

-----------------------------------------------------------------------------
(* The programs: the steps of each *_run() function, on the ioctl path and *)
(* on the libocfs2 path.  A fetch step is named after the INFO request it  *)
(* sends (ioctl) or the libocfs2 reader it calls ("lib_...").               *)
-----------------------------------------------------------------------------

fs_features_run ==
    [ioctl    |-> <<"fs_features", "flags", "print">>,
     libocfs2 |-> <<"lib_fs_features", "flags", "print">>]

\* get_volinfo_ioctl() ends with get_fs_features_ioctl().
volinfo_run ==
    [ioctl    |-> <<"volinfo", "fs_features", "flags", "print">>,
     libocfs2 |-> <<"lib_volinfo", "flags", "print">>]

\* get_mkfs_ioctl() asks for the journal size, then calls get_volinfo_ioctl();
\* the return value of o2info_gen_mkfs_string() is not looked at.
mkfs_run ==
    [ioctl    |-> <<"journal_size", "volinfo", "fs_features", "gen_mkfs", "print">>,
     libocfs2 |-> <<"lib_mkfs", "gen_mkfs", "print">>]

freeinode_run ==
    [ioctl    |-> <<"freeinode", "print">>,
     libocfs2 |-> <<"lib_freeinode", "print">>]

freefrag_run ==
    [ioctl    |-> <<"validate", "volinfo", "fs_features", "chunk_check", "init",
                    "freefrag", "report">>,
     libocfs2 |-> <<"validate", "lib_volinfo", "chunk_check", "init",
                    "lib_freefrag", "report">>]

\* space_usage_run() and filestat_run() refuse a device opened with libocfs2.
space_usage_run ==
    [ioctl    |-> <<"method", "lstat", "volinfo", "fs_features", "fiemap", "print">>,
     libocfs2 |-> <<"method">>]

filestat_run ==
    [ioctl    |-> <<"method", "lstat", "volinfo", "fs_features", "fiemap",
                    "report_filestat">>,
     libocfs2 |-> <<"method">>]

\* The operation table (DEFINE_O2INFO_OP).
RunOf ==
    [fs_features |-> fs_features_run, volinfo |-> volinfo_run, mkfs |-> mkfs_run,
     freeinode |-> freeinode_run, freefrag |-> freefrag_run,
     space_usage |-> space_usage_run, filestat |-> filestat_run]

Program == RunOf[in.op][in.method]
Cur == Program[pc]

\* Step s of the program is due.
Step(s) == status = "running" /\ pc <= Len(Program) /\ Cur = s

\* Step s has completed.
Done(s) == \E k \in 1..(pc - 1) : Program[k] = s

-----------------------------------------------------------------------------
(* Fetching.                                                               *)
-----------------------------------------------------------------------------

VolinfoCodes == {"blocksize", "clustersize", "maxslots", "label", "uuid"}

\* The codes of the requests each ioctl fetch fills in with
\* o2info_fill_request() and sends in one OCFS2_IOC_INFO call.
Asks == [fs_features |-> {"fs_features"}, volinfo |-> VolinfoCodes,
         journal_size |-> {"journal_size"}, freeinode |-> {"freeinode"}]

\* What each libocfs2 reader fills in.
LibReads ==
    [lib_fs_features |-> {"fs_features"},
     lib_volinfo     |-> VolinfoCodes \cup {"fs_features"},
     lib_mkfs        |-> VolinfoCodes \cup {"fs_features", "journal_size"},
     lib_freeinode   |-> {"freeinode"},
     lib_freefrag    |-> {"freefrag"}]

\* A failed ioctl: its requests are scanned and their errors printed, the
\* errno is returned, and every caller returns it at once.
FailFetch ==
    status' = "err" /\ UNCHANGED <<pc, filled>>

\* One OCFS2_IOC_INFO call with the requests of step s.  A kernel without
\* the ioctl fails it; otherwise it may still fail (EFAULT, EIO...).  On
\* success the requests the kernel knows come back FILLED; the others keep
\* the zeroes of the caller's memset().
IoctlCall(s) ==
    /\ Step(s)
    /\ \E ok \in BOOLEAN :
          IF ok /\ in.kernel # {}
          THEN /\ filled' = filled \cup (Asks[s] \cap in.kernel)
               /\ pc' = pc + 1
               /\ UNCHANGED status
          ELSE FailFetch
    /\ UNCHANGED <<in, printed, off, labels>>

get_fs_features_ioctl == IoctlCall("fs_features")
get_volinfo_ioctl == IoctlCall("volinfo")
get_mkfs_ioctl == IoctlCall("journal_size")
get_freeinode_ioctl == IoctlCall("freeinode")

\* The libocfs2 branch of a *_run(): the reader fills everything or fails.
LibCall ==
    /\ \E s \in DOMAIN LibReads :
          /\ Step(s)
          /\ \E ok \in BOOLEAN :
                IF ok
                THEN /\ filled' = filled \cup LibReads[s]
                     /\ pc' = pc + 1
                     /\ UNCHANGED status
                ELSE FailFetch
    /\ UNCHANGED <<in, printed, off, labels>>

-----------------------------------------------------------------------------
(* The other steps of the programs.                                        *)
-----------------------------------------------------------------------------

\* A step that may fail: the run exits with rc != 0, or goes on.
MayFail(s) ==
    /\ Step(s)
    /\ \/ pc' = pc + 1 /\ UNCHANGED status
       \/ status' = "err" /\ UNCHANGED pc
    /\ UNCHANGED <<in, filled, printed, off, labels>>

\* o2info_get_{compat,incompat,rocompat}_flag() allocate the flag strings.
get_feature_flags == MayFail("flags")

\* lstat() of the file.
do_lstat == MayFail("lstat")

\* o2info_get_fiemap() walks the file's extents.
get_fiemap == MayFail("fiemap")

\* mkfs_run() calls o2info_gen_mkfs_string() and ignores what it returns.
o2info_gen_mkfs_string ==
    /\ Step("gen_mkfs")
    /\ pc' = pc + 1
    /\ UNCHANGED <<in, status, filled, printed, off, labels>>

\* Mutant: the libocfs2 refusal is dropped and the run goes on.
MutCheckMethodNoRefusal ==
    /\ Step("method")
    /\ pc' = pc + 1
    /\ UNCHANGED <<in, status, filled, printed, off, labels>>

\* space_usage_run(), filestat_run(): a device opened with libocfs2 is refused.
check_method ==
    /\ Step("method")
    /\ IF in.method = "libocfs2"
       THEN status' = "err" /\ UNCHANGED pc
       ELSE pc' = pc + 1 /\ UNCHANGED status
    /\ UNCHANGED <<in, filled, printed, off, labels>>

\* The report is printed (with o2info_print_line() for the feature lists)
\* and the run returns 0.
print_report ==
    /\ Step("print")
    /\ printed' = TRUE
    /\ status' = "ok"
    /\ UNCHANGED <<in, pc, filled, off, labels>>

\* o2info_report_filestat(): the path, type, owner and permission helpers
\* may fail before anything is printed; the time helpers may fail after
\* the first lines are out; either failure is returned.
o2info_report_filestat ==
    /\ Step("report_filestat")
    /\ \/ printed' = FALSE /\ status' = "err"
       \/ printed' = TRUE /\ status' \in {"ok", "err"}
    /\ UNCHANGED <<in, pc, filled, off, labels>>

-----------------------------------------------------------------------------
(* The freefrag steps.                                                     *)
-----------------------------------------------------------------------------

\* ovf.clustersize as get_volinfo_ioctl() leaves it: the volume's cluster
\* size if the request came back FILLED, else the 0 of its memset().
ClusterSizeRead == IF "clustersize" \in filled THEN 2^in.cbits ELSE 0

\* freefrag_run(): the chunk size (in KB) must be a power of two; it is
\* turned into bytes.  print_usage() ends the program.
freefrag_validate ==
    /\ Step("validate")
    /\ LET kb == in.chunkArg IN
       IF kb # 0 /\ 2^Log2Ref(kb) # kb
       THEN status' = "err" /\ UNCHANGED <<pc, off>>
       ELSE pc' = pc + 1 /\ off' = [off EXCEPT !.chunkbytes = kb * 1024]
                         /\ UNCHANGED status
    /\ UNCHANGED <<in, filled, printed, labels>>

\* Mutant: a chunk smaller than a cluster is accepted.
MutChunkCheckDropped(chunkBytes, clusterSize) == FALSE

\* freefrag_run(): a non-zero chunk size below the cluster size is refused.
ChunkTooSmall(chunkBytes, clusterSize) == chunkBytes # 0 /\ chunkBytes < clusterSize

chunk_check ==
    /\ Step("chunk_check")
    /\ IF ChunkTooSmall(off.chunkbytes, ClusterSizeRead)
       THEN status' = "err" /\ UNCHANGED pc
       ELSE pc' = pc + 1 /\ UNCHANGED status
    /\ UNCHANGED <<in, filled, printed, off, labels>>

\* o2info_init_freefrag(): bit counts and clusters per chunk.
o2info_init_freefrag ==
    /\ Step("init")
    /\ LET cbits == ul_log2(ClusterSizeRead)
           chunk == IF off.chunkbytes # 0 THEN off.chunkbytes ELSE DefaultChunk
       IN  off' = [off EXCEPT !.clustersize_bits = cbits,
                              !.chunkbits = ul_log2(chunk),
                              !.clusters_in_chunk = Shr(chunk, cbits)]
    /\ pc' = pc + 1
    /\ UNCHANGED <<in, status, filled, printed, labels>>

\* get_freefrag_ioctl(): the ioctl may fail; if the kernel filled the
\* request the volume's cluster count is taken (else it stays 0); the
\* total number of chunks is computed either way.
get_freefrag_ioctl ==
    /\ Step("freefrag")
    /\ \E ok \in BOOLEAN :
        IF ~ok \/ in.kernel = {}
        THEN FailFetch /\ UNCHANGED off
        ELSE LET fill == "freefrag" \in in.kernel
                 clusters == IF fill THEN in.clusters ELSE off.clusters IN
             /\ off' = [off EXCEPT !.clusters = clusters,
                          !.total_chunks = Shr(clusters + off.clusters_in_chunk,
                                               off.chunkbits - off.clustersize_bits)]
             /\ filled' = filled \cup ({"freefrag"} \cap in.kernel)
             /\ pc' = pc + 1
             /\ UNCHANGED status
    /\ UNCHANGED <<in, printed, labels>>

\* o2info_report_freefrag(): the histogram rows.
o2info_report_freefrag ==
    /\ Step("report")
    /\ labels' = HistRows(0, FirstUnit(off.clustersize_bits), off.clustersize_bits)
    /\ printed' = TRUE
    /\ status' = "ok"
    /\ UNCHANGED <<in, pc, filled, off>>

-----------------------------------------------------------------------------

\* The freefrag inputs vary the volume; the other operations only the
\* operation, the method and the kernel.
Inputs ==
    [op : Ops \cap {"freefrag"}, method : Methods, kernel : Kernels,
     cbits : ClusterBits, chunkArg : ChunkArgs, clusters : 0..MaxClusters]
    \cup
    [op : Ops \ {"freefrag"}, method : Methods, kernel : Kernels,
     cbits : ClusterBits, chunkArg : {0}, clusters : {0}]

\* The static struct o2info_freefrag starts zeroed.
Init ==
    /\ in \in Inputs
    /\ pc = 1
    /\ status = "running"
    /\ filled = {}
    /\ printed = FALSE
    /\ off = [chunkbytes |-> 0, clustersize_bits |-> 0, chunkbits |-> 0,
              clusters_in_chunk |-> 0, clusters |-> 0, total_chunks |-> 0]
    /\ labels = <<>>

Next ==
    \/ get_fs_features_ioctl \/ get_volinfo_ioctl \/ get_mkfs_ioctl
    \/ get_freeinode_ioctl \/ LibCall
    \/ get_feature_flags \/ do_lstat \/ get_fiemap \/ o2info_gen_mkfs_string
    \/ check_method \/ print_report \/ o2info_report_filestat
    \/ freefrag_validate \/ chunk_check \/ o2info_init_freefrag
    \/ get_freefrag_ioctl \/ o2info_report_freefrag

\* o2info stops after the report or an error.
Spec == Init /\ [][Next]_vars

-----------------------------------------------------------------------------

TypeOK ==
    /\ in \in Inputs
    /\ pc \in 1..Len(Program)
    /\ status \in {"running", "ok", "err"}
    /\ filled \subseteq VolinfoCodes \cup {"fs_features", "journal_size",
                                         "freeinode", "freefrag"}
    /\ printed \in BOOLEAN

\* After o2info_init_freefrag(), ul_log2() has turned the cluster size and
\* the chunk size (the default one when none was given) into their exact
\* bit counts.
BitCountsExact ==
    in.op = "freefrag" /\ Done("init") =>
        /\ off.clustersize_bits = in.cbits
        /\ 2^off.chunkbits = IF off.chunkbytes # 0 THEN off.chunkbytes ELSE DefaultChunk

\* Once o2info_init_freefrag() has run, a chunk holds a whole, non-zero
\* number of clusters and is 2^chunkbits bytes, so that shifting by
\* chunkbits - clustersize_bits divides by clusters_in_chunk.
ChunkGeometry ==
    in.op = "freefrag" /\ Done("init") =>
        /\ off.clusters_in_chunk >= 1
        /\ off.chunkbits >= off.clustersize_bits
        /\ off.clusters_in_chunk = 2^(off.chunkbits - off.clustersize_bits)

\* The total number of chunks that get_freefrag_ioctl() computes, and the
\* report prints when a chunk size was given, is the number of chunks the
\* volume's clusters occupy, the last one possibly partial.
TotalChunksExact ==
    in.op = "freefrag" /\ in.method = "ioctl" /\ Done("freefrag")
    /\ off.chunkbytes # 0 =>
        off.total_chunks = (off.clusters + off.clusters_in_chunk - 1) \div off.clusters_in_chunk

\* Every histogram row is labelled in the unit that keeps its start below
\* 1024 (K for 2^10..2^19 bytes, M for 2^20..2^29, ...), so the label
\* start * 2^unit is the bucket's size 2^(i + clustersize_bits) bytes.
HistogramLabelsExact ==
    in.op = "freefrag" /\ status = "ok" =>
        /\ Len(labels) = MaxHist
        /\ \A i \in 1..Len(labels) :
              /\ labels[i].unit = 10 * ((i - 1 + off.clustersize_bits) \div 10)
              /\ labels[i].start < 1024
=============================================================================
