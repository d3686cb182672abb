---------------------------- MODULE ExtentCheck ----------------------------
(***************************************************************************)
(* The extent-tree check of fsck.ocfs2 (src/fsck.ocfs2/extent.c).          *)
(*                                                                         *)
(* o2fsck_check_extents() walks the extent tree hanging off one inode:     *)
(* check_el() verifies a list and iterates its records, check_er() checks  *)
(* one record and, for an interior record, calls check_eb(), which reads   *)
(* the child extent block, repairs its header and calls check_el() on the  *)
(* child's list.  The mutual recursion is modelled by an explicit stack of *)
(* frames; each frame is one activation of check_el together with the      *)
(* block buffer it works on (the inode for the root, a freshly read        *)
(* extent block below it).  A frame is written back when it is finished,  *)
(* exactly as check_eb() and o2fsck_check_extents() do.                   *)
(*                                                                         *)
(* Every prompt() is a choice from Answers: {TRUE} is "fsck -y", {FALSE}   *)
(* is "fsck -n" and BOOLEAN is an interactive user.  fsck may be run       *)
(* Passes times over the same volume; a run starts from what the previous *)
(* one left on disk, with a fresh walk context.                           *)
(***************************************************************************)
EXTENDS Integers, Sequences, FiniteSets, FiniteSetsExt

CONSTANTS
    FsClusters,        \* fs->fs_clusters
    ClusterBlocks,     \* blocks per cluster (cluster size / block size)
    SuperBlockBlkno,   \* OCFS2_SUPER_BLOCK_BLKNO
    FsGeneration,      \* ost->ost_fs_generation
    MaxRecsInode,      \* ocfs2_extent_recs_per_inode(blocksize)
    MaxRecsEb,         \* ocfs2_extent_recs_per_eb(blocksize)
    EbLocs,            \* blocks whose contents carry an extent-block signature
    SparseAlloc,       \* OCFS2_FEATURE_INCOMPAT_SPARSE_ALLOC
    UnwrittenExtents,  \* ocfs2_writes_unwritten_extents(sb)
    RefcountTree,      \* ocfs2_refcount_tree(sb)
    Answers,           \* what prompt() may return
    InitImages,        \* on-disk images fsck may be started on
    Passes,            \* how many times fsck is run, one after the other
    MaxStack           \* bound on the modelled recursion depth

ASSUME Answers \subseteq BOOLEAN /\ Answers # {}

\* The number of blocks of the volume.
FsBlocks == FsClusters * ClusterBlocks

\* Where the walk's buffer for a frame came from: the inode (-1), or a block.
InodeLoc == -1

(***************************************************************************)
(* On-disk structures.  An extent record is reduced to what the check      *)
(* reads: its cluster count (e_leaf_clusters / e_int_clusters, read        *)
(* through ocfs2_rec_clusters), its block number and its two flags.  The  *)
(* record's cpos only feeds messages and ei_max_size, which no caller in   *)
(* these sources reads, and is left out.                                   *)
(***************************************************************************)
ZeroRec == [clusters |-> 0, blkno |-> 0, unwritten |-> FALSE, refcounted |-> FALSE]

\* libocfs2's ocfs2_block_out_of_range(): below the superblock or past
\* fs_blocks.  Block fs_blocks itself is one past the last block of the
\* device and yet counts as in range.
block_out_of_range(b) == b < SuperBlockBlkno \/ b > FsBlocks

\* A read of a block at or past the end of the device fails with an I/O
\* error, which is not OCFS2_ET_BAD_EXTENT_BLOCK_MAGIC.
ReadFails(b) == b >= FsBlocks

blocks_to_clusters(b) == b \div ClusterBlocks
clusters_to_blocks(c) == c * ClusterBlocks

\* The cluster range a leaf record of the given length covers.
RecRange(er, clusters) ==
    {blocks_to_clusters(er.blkno) + k : k \in 0..(clusters - 1)}

VARIABLES
    dinode,       \* the inode: its root extent list and i_dyn_features
    disk,         \* extent blocks on disk: [EbLocs -> [hblkno, gen, list]]
    stack,        \* activations of check_el, the innermost last
    ei,           \* struct extent_info: ei_expect_depth / ei_expected_depth
    bitmap,       \* clusters marked by o2fsck_mark_clusters_allocated
    refmarked,    \* clusters marked by o2fsck_mark_clusters_refcounted
    ei_clusters,  \* ei.ei_clusters
    pass,         \* how many runs of fsck have started
    asked         \* whether the current run has prompted for any repair

vars == <<dinode, disk, stack, ei, bitmap, refmarked, ei_clusters, pass, asked>>

Top == stack[Len(stack)]
SetTop(f) == stack' = [stack EXCEPT ![Len(stack)] = f]

\* A new activation of check_el on the given buffer.
NewFrame(loc, hdr, list, maxRecs, changed) ==
    [loc |-> loc, hdr |-> hdr, list |-> list, maxRecs |-> maxRecs,
     i |-> 0, bound |-> 0, trust |-> TRUE, changed |-> changed,
     phase |-> "list", valid |-> TRUE]

-----------------------------------------------------------------------------
\* Mutant: the overrun truncation cuts one cluster too many.
MutTruncateOffByOne(r, last) == [r EXCEPT !.clusters = @ - (last - FsClusters + 1)]

\* o2fsck_check_extent_rec(): a record running past the end of the volume
\* is cut back so that it ends at the last cluster.
TruncateOverrun(r, last) == [r EXCEPT !.clusters = @ - (last - FsClusters)]

(***************************************************************************)
(* o2fsck_check_extent_rec(): the leaf checks, each behind its own prompt. *)
(* Returns the repaired record, whether anything changed and whether any  *)
(* prompt was raised.                                                      *)
(***************************************************************************)
o2fsck_check_extent_rec(er, hasRefcount, aAlign, aOverrun, aUnwritten, aRefcount) ==
    LET first == clusters_to_blocks(blocks_to_clusters(er.blkno))
        align == first # er.blkno /\ aAlign
        r1    == IF align THEN [er EXCEPT !.blkno = first] ELSE er
        last  == blocks_to_clusters(r1.blkno) + er.clusters
        over  == last > FsClusters /\ aOverrun
        r2    == IF over THEN TruncateOverrun(r1, last) ELSE r1
        unw   == ~UnwrittenExtents /\ r2.unwritten /\ aUnwritten
        r3    == IF unw THEN [r2 EXCEPT !.unwritten = FALSE] ELSE r2
        ref   == (~RefcountTree \/ ~hasRefcount) /\ r3.refcounted /\ aRefcount
        r4    == IF ref THEN [r3 EXCEPT !.refcounted = FALSE] ELSE r3
    IN  [rec |-> r4, changed |-> align \/ over \/ unw \/ ref,
         asked |-> first # er.blkno \/ last > FsClusters
                   \/ (~UnwrittenExtents /\ r2.unwritten)
                   \/ ((~RefcountTree \/ ~hasRefcount) /\ r3.refcounted)]

\* o2fsck_mark_tree_clusters_allocated(): a refcounted record goes to the
\* refcount tracker, any other to the cluster bitmap.
o2fsck_mark_tree_clusters_allocated(er, clusters) ==
    IF er.refcounted
    THEN /\ refmarked' = refmarked \cup RecRange(er, clusters)
         /\ UNCHANGED bitmap
    ELSE /\ bitmap' = bitmap \cup RecRange(er, clusters)
         /\ UNCHANGED refmarked

\* Mutant: the memcpy() copies nothing; only the last slot is cleared.
MutShiftRecsNoCopy(recs, i, n) ==
    [j \in DOMAIN recs |-> IF j = n - 1 /\ n - i - 1 # 0 THEN ZeroRec ELSE recs[j]]

\* check_el(): the live records n after slot i move down by one; the
\* vacated last slot is zeroed only when something was moved.
ShiftRecs(recs, i, n) ==
    [j \in DOMAIN recs |->
        IF j < i \/ j >= n THEN recs[j]
        ELSE IF j < n - 1 THEN recs[j + 1]
        ELSE IF n - i - 1 # 0 THEN ZeroRec
        ELSE recs[j]]

\* Mutant: l_next_free_rec is not decremented after the removal.
MutRemoveRecKeepsFree(f) ==
    [f EXCEPT !.list = [@ EXCEPT !.recs = ShiftRecs(@, f.i, f.bound)],
              !.bound = f.bound - 1,
              !.i = IF f.bound - f.i - 1 # 0 THEN f.i ELSE f.i + 1,
              !.changed = TRUE]

\* check_el(): removing record i; the loop index stays put (i-- then i++)
\* unless nothing was moved into slot i.
RemoveRec(f) ==
    [f EXCEPT !.list = [@ EXCEPT !.recs = ShiftRecs(@, f.i, f.bound), !.nextFree = @ - 1],
              !.bound = f.bound - 1,
              !.i = IF f.bound - f.i - 1 # 0 THEN f.i ELSE f.i + 1,
              !.changed = TRUE]

(***************************************************************************)
(* check_el(), the rest of one loop iteration once check_er() has looked  *)
(* at record f.i: offer to remove a record pointing out of range, else    *)
(* account a leaf.  `clusters` is the length check_el read before calling *)
(* check_er(), which the leaf checks may since have truncated.            *)
(***************************************************************************)
check_el_finish_rec(f, clusters, prior, aRemove) ==
    LET er == f.list.recs[f.i] IN
    /\ asked' = (prior \/ block_out_of_range(er.blkno))
    /\ IF block_out_of_range(er.blkno) /\ aRemove
       THEN /\ SetTop(IF f.trust THEN RemoveRec(f) ELSE [f EXCEPT !.i = @ + 1])
            /\ UNCHANGED <<bitmap, refmarked, ei_clusters>>
       ELSE IF f.list.depth # 0
       THEN /\ SetTop([f EXCEPT !.i = @ + 1])
            /\ UNCHANGED <<bitmap, refmarked, ei_clusters>>
       ELSE /\ SetTop([f EXCEPT !.i = @ + 1])
            /\ o2fsck_mark_tree_clusters_allocated(er, clusters)
            /\ ei_clusters' = ei_clusters + clusters

-----------------------------------------------------------------------------
(***************************************************************************)
(* Actions.                                                                *)
(***************************************************************************)

\* o2fsck_check_extents(): a run of fsck starts the walk at the inode with a
\* zeroed extent_info.
o2fsck_check_extents ==
    /\ stack = <<>>
    /\ pass < Passes
    /\ pass' = pass + 1
    /\ stack' = <<NewFrame(InodeLoc, [hblkno |-> 0, gen |-> FsGeneration],
                           dinode.list, MaxRecsInode, FALSE)>>
    /\ ei' = [expect |-> FALSE, expected |-> 0]
    /\ bitmap' = {} /\ refmarked' = {} /\ ei_clusters' = 0
    /\ asked' = FALSE
    /\ UNCHANGED <<dinode, disk>>

\* Mutant: a confirmed l_tree_depth repair is not applied.
MutFixDepthNone(el, a) == el

\* check_el(): l_tree_depth is set to the depth the parent expects.
FixDepth(el, a) ==
    IF ei.expect /\ el.depth # ei.expected /\ a THEN [el EXCEPT !.depth = ei.expected] ELSE el

\* Mutant: a confirmed l_count repair is not applied.
MutFixCountNone(el, maxRecs, a) == el

\* check_el(): l_count is cut back to the records the block can hold.
FixCount(el, maxRecs, a) ==
    IF el.count > maxRecs /\ a THEN [el EXCEPT !.count = maxRecs] ELSE el

\* check_el(): the list header checks, then the loop bound.  A declined
\* next_free clamp leaves next_free untrusted; an accepted one sets it to
\* l_count, not to the bound just computed.
check_el_header ==
    /\ stack # <<>>
    /\ Top.phase = "list"
    /\ \E aDepth, aCount, aFree \in Answers :
        LET f    == Top
            el0  == f.list
            el1  == FixDepth(el0, aDepth)
            el2  == FixCount(el1, f.maxRecs, aCount)
            mr   == Min({f.maxRecs, el2.count})
            over == el2.nextFree > mr
            nfix == over /\ aFree
            el3  == IF nfix THEN [el2 EXCEPT !.nextFree = el2.count] ELSE el2
            trust == ~over \/ nfix
        IN  /\ asked' = (asked \/ (ei.expect /\ el0.depth # ei.expected)
                              \/ el1.count > f.maxRecs \/ over)
            /\ SetTop([f EXCEPT !.list = el3, !.trust = trust,
                                 !.bound = IF trust THEN el3.nextFree ELSE mr,
                                 !.i = 0, !.phase = "loop",
                                 !.changed = @ \/ el1 # el0 \/ el2 # el1 \/ nfix])
    /\ UNCHANGED <<dinode, disk, ei, bitmap, refmarked, ei_clusters, pass>>

\* The loop of check_el() is at a record it can read.
AtRec ==
    /\ stack # <<>>
    /\ Top.phase = "loop"
    /\ Top.i < Top.bound
    /\ Top.bound <= Top.maxRecs

CurRec == Top.list.recs[Top.i]

\* check_el(): an empty leftmost record of an interior list of a sparse
\* volume is skipped without any check.
SparseSkip ==
    SparseAlloc /\ Top.list.depth # 0 /\ Top.i = 0 /\ CurRec.clusters = 0

\* Mutant: the skip does not advance the loop index.
MutSkipSparseNoAdvance ==
    /\ AtRec
    /\ SparseSkip
    /\ SetTop(Top)
    /\ UNCHANGED <<dinode, disk, ei, bitmap, refmarked, ei_clusters, pass, asked>>

check_el_skip_sparse ==
    /\ AtRec
    /\ SparseSkip
    /\ SetTop([Top EXCEPT !.i = @ + 1])
    /\ UNCHANGED <<dinode, disk, ei, bitmap, refmarked, ei_clusters, pass, asked>>

\* check_er() returns at once for an out-of-range block; check_el() then
\* offers to remove the record.
check_er_out_of_range ==
    /\ AtRec
    /\ ~SparseSkip
    /\ block_out_of_range(CurRec.blkno)
    /\ \E aRemove \in Answers : check_el_finish_rec(Top, CurRec.clusters, asked, aRemove)
    /\ UNCHANGED <<dinode, disk, ei, pass>>

\* check_er() on a leaf: the leaf checks, then the rest of the iteration.
check_er_leaf ==
    /\ AtRec
    /\ ~SparseSkip
    /\ ~block_out_of_range(CurRec.blkno)
    /\ Top.list.depth = 0
    /\ \E a1, a2, a3, a4, aRemove \in Answers :
        LET res == o2fsck_check_extent_rec(CurRec, dinode.refcount, a1, a2, a3, a4)
            f   == [Top EXCEPT !.list.recs[Top.i] = res.rec,
                               !.changed = @ \/ res.changed]
        IN  check_el_finish_rec(f, CurRec.clusters, asked \/ res.asked, aRemove)
    /\ UNCHANGED <<dinode, disk, ei, pass>>

(***************************************************************************)
(* check_er() on an interior record sets the expected depth and calls      *)
(* check_eb(), which reads the block.  A bad signature makes the block     *)
(* invalid; any other read error leaves it "valid" and unchecked.  A       *)
(* stale generation may make it invalid; otherwise the header is repaired  *)
(* in the fresh buffer and check_el() runs on the child's list.            *)
(***************************************************************************)
check_eb ==
    /\ AtRec
    /\ ~SparseSkip
    /\ ~block_out_of_range(CurRec.blkno)
    /\ Top.list.depth # 0
    /\ Len(stack) < MaxStack
    /\ ei' = [expect |-> TRUE, expected |-> Top.list.depth - 1]
    /\ \E aBlkno, aGenInvalid, aGenFix \in Answers :
        LET b       == CurRec.blkno
            parent(v) == [Top EXCEPT !.phase = "child", !.valid = v]
            eb      == disk[b]
            hfix    == eb.hblkno # b /\ aBlkno
            genBad  == eb.gen # FsGeneration
            gfix    == genBad /\ ~aGenInvalid /\ aGenFix
            hdr     == [hblkno |-> IF hfix THEN b ELSE eb.hblkno,
                        gen    |-> IF gfix THEN FsGeneration ELSE eb.gen]
            read    == ~ReadFails(b) /\ b \in EbLocs
        IN  /\ asked' = (asked \/ (read /\ (eb.hblkno # b \/ genBad)))
            /\ IF ReadFails(b) THEN SetTop(parent(TRUE))
               ELSE IF b \notin EbLocs THEN SetTop(parent(FALSE))
               ELSE IF genBad /\ aGenInvalid THEN SetTop(parent(FALSE))
               ELSE stack' = Append([stack EXCEPT ![Len(stack)] = parent(TRUE)],
                                    NewFrame(b, hdr, eb.list, MaxRecsEb, hfix \/ gfix))
    /\ UNCHANGED <<dinode, disk, bitmap, refmarked, ei_clusters, pass>>

\* check_er() after check_eb() returned: offer to clear the reference to an
\* invalid block; check_el() then offers to remove it if it is out of range.
check_er_after_eb ==
    /\ stack # <<>>
    /\ Top.phase = "child"
    /\ \E aClear, aRemove \in Answers :
        LET clear == ~Top.valid /\ aClear
            f == [Top EXCEPT !.phase = "loop",
                             !.list.recs[Top.i].blkno = IF clear THEN 0 ELSE @,
                             !.changed = @ \/ clear]
        IN  check_el_finish_rec(f, CurRec.clusters, asked \/ ~Top.valid, aRemove)
    /\ UNCHANGED <<dinode, disk, ei, pass>>

\* check_eb() after check_el() on the child: write the block if anything in
\* it changed, and return is_valid = 1 to check_er().
check_eb_write ==
    /\ Len(stack) > 1
    /\ Top.phase = "loop"
    /\ Top.i >= Top.bound
    /\ disk' = IF Top.changed
               THEN [disk EXCEPT ![Top.loc] = [hblkno |-> Top.hdr.hblkno,
                                               gen    |-> Top.hdr.gen,
                                               list   |-> Top.list]]
               ELSE disk
    /\ stack' = SubSeq(stack, 1, Len(stack) - 1)
    /\ UNCHANGED <<dinode, ei, bitmap, refmarked, ei_clusters, pass, asked>>

\* o2fsck_check_extents() after check_el() on the root: write the inode if
\* anything in it changed.
o2fsck_write_inode ==
    /\ Len(stack) = 1
    /\ Top.phase = "loop"
    /\ Top.i >= Top.bound
    /\ dinode' = IF Top.changed THEN [dinode EXCEPT !.list = Top.list] ELSE dinode
    /\ stack' = <<>>
    /\ UNCHANGED <<disk, ei, bitmap, refmarked, ei_clusters, pass, asked>>

\* All runs are over.
Finished ==
    /\ stack = <<>>
    /\ pass = Passes
    /\ UNCHANGED vars

Init ==
    /\ \E img \in InitImages : dinode = img.inode /\ disk = img.eb
    /\ stack = <<>>
    /\ ei = [expect |-> FALSE, expected |-> 0]
    /\ bitmap = {} /\ refmarked = {} /\ ei_clusters = 0
    /\ pass = 0
    /\ asked = FALSE

Next ==
    \/ o2fsck_check_extents
    \/ check_el_header
    \/ check_el_skip_sparse
    \/ check_er_out_of_range
    \/ check_er_leaf
    \/ check_eb
    \/ check_er_after_eb
    \/ check_eb_write
    \/ o2fsck_write_inode
    \/ Finished

Spec == Init /\ [][Next]_vars /\ WF_vars(Next)

-----------------------------------------------------------------------------
(***************************************************************************)
(* Properties.                                                             *)
(***************************************************************************)

Recs == [clusters : Nat, blkno : Nat, unwritten : BOOLEAN, refcounted : BOOLEAN]
Lists == [depth : Nat, count : Nat, nextFree : Nat,
          recs : UNION {[0..(n - 1) -> Recs] : n \in {MaxRecsInode, MaxRecsEb}}]

TypeOK ==
    /\ dinode \in [list : Lists, refcount : BOOLEAN]
    /\ disk \in [EbLocs -> [hblkno : Nat, gen : Nat, list : Lists]]
    /\ \A k \in 1..Len(stack) :
         stack[k].phase \in {"list", "loop", "child"} /\ stack[k].list \in Lists
    /\ ei \in [expect : BOOLEAN, expected : Int]
    /\ bitmap \subseteq Nat /\ refmarked \subseteq Nat
    /\ ei_clusters \in Nat
    /\ pass \in 0..Passes
    /\ asked \in BOOLEAN

\* check_el() never iterates past the records its list can hold: once the
\* header checks are done, the loop bound is at most the structural maximum
\* (ocfs2_extent_recs_per_inode / _per_eb), whatever next_free and l_count
\* said on disk and whichever repairs were accepted.
NoReadPastList ==
    \A k \in 1..Len(stack) :
        stack[k].phase # "list" => stack[k].bound <= stack[k].maxRecs

\* The mutual recursion check_el -> check_er -> check_eb -> check_el is
\* bounded by the depth the inode declares for the tree: the walk never
\* holds more activations than the root list's depth plus one, even on a
\* volume whose extent blocks point back into the tree.
WalkDepthBounded ==
    stack # <<>> => Len(stack) <= stack[1].list.depth + 1

\* The walk never enters an extent block it is already inside: no block is
\* on the path of check_eb() activations twice.  check_eb() keeps no
\* record of the blocks above it, so only the depth repair can stop a
\* block that points back to itself or to an ancestor; with -n nothing is
\* written, the re-entered block reads the same, and the recursion repeats
\* without end.
NoBlockReentered ==
    \A j, k \in 2..Len(stack) : j < k => stack[j].loc # stack[k].loc

\* Every cluster the walk marks as used, in the bitmap or in the refcount
\* tracker, lies inside the volume.
AccountedWithinVolume ==
    \A c \in bitmap \cup refmarked : c < FsClusters

\* A run of fsck after a run that accepted every repair it offered finds
\* nothing more to repair: it raises no prompt at all (spec P6).
SecondRunClean ==
    pass >= 2 => ~asked

\* Removing record i from a list keeps the other live records in their
\* order (spec P7): when a step of check_el()'s loop takes l_next_free_rec
\* down by one, the live records after it are the old ones with slot i
\* left out, whatever the memcpy() and the loop-index adjustment did.
RemovalCompacts ==
    [][ stack # <<>> /\ Len(stack') = Len(stack)
        /\ Top.phase \in {"loop", "child"}
        /\ stack'[Len(stack)].list.nextFree = Top.list.nextFree - 1
        => LET old == Top.list.recs
               new == stack'[Len(stack)].list.recs
           IN  \A j \in 0..(Top.list.nextFree - 2) :
                  new[j] = IF j < Top.i THEN old[j] ELSE old[j + 1]
      ]_vars

\* Every run of fsck eventually finishes its walk.
WalkTerminates == <>[](pass = Passes /\ stack = <<>>)
=============================================================================
