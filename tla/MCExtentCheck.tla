--------------------------- MODULE MCExtentCheck ---------------------------
(***************************************************************************)
(* Model of the extent check for TLC.  The volume has 3 clusters of 4     *)
(* blocks (fs_blocks = 12); extent blocks live at blocks 5 and 9, data at *)
(* the cluster starts 4 and 8.  fsck starts on one of two well-formed     *)
(* trees (depth 1 and depth 2) with up to two fields overwritten by       *)
(* arbitrary values from small domains: these are the corrupt volumes     *)
(* fsck is run on.                                                         *)
(***************************************************************************)
EXTENDS ExtentCheck, TLC

Leaf(b, n) == [clusters |-> n, blkno |-> b, unwritten |-> FALSE, refcounted |-> FALSE]
Ptr(b)     == [clusters |-> 1, blkno |-> b, unwritten |-> FALSE, refcounted |-> FALSE]
List(d, nf, r0, r1) == [depth |-> d, count |-> 2, nextFree |-> nf, recs |-> (0 :> r0 @@ 1 :> r1)]
Eb(b, l) == [hblkno |-> b, gen |-> 0, list |-> l]

\* inode (depth 1) -> {5, 9}; 5 -> leaf at 4; 9 -> leaf at 8
Tree1 == [inode |-> [list |-> List(1, 2, Ptr(5), Ptr(9)), refcount |-> FALSE],
          eb    |-> (5 :> Eb(5, List(0, 1, Leaf(4, 1), ZeroRec)) @@
                     9 :> Eb(9, List(0, 1, Leaf(8, 1), ZeroRec)))]

\* inode (depth 2) -> 5 -> 9 -> leaves at 4 and 8
Tree2 == [inode |-> [list |-> List(2, 1, Ptr(5), ZeroRec), refcount |-> FALSE],
          eb    |-> (5 :> Eb(5, List(1, 1, Ptr(9), ZeroRec)) @@
                     9 :> Eb(9, List(0, 2, Leaf(4, 1), Leaf(8, 1))))]

MCBases == {Tree1, Tree2}

\* Values a corruption may write into a field.
DepthVals  == 0..2
CountVals  == {3}
FreeVals   == 0..3
BlknoVals  == {0, 3, 5, 9, 12, 13}
ClusterVals == {0, 2}

ListLocs == {InodeLoc} \cup EbLocs

\* One overwritten field.
Edits ==
    {[loc |-> l, f |-> "depth", s |-> 0, v |-> v] : l \in ListLocs, v \in DepthVals} \cup
    {[loc |-> l, f |-> "count", s |-> 0, v |-> v] : l \in ListLocs, v \in CountVals} \cup
    {[loc |-> l, f |-> "nextFree", s |-> 0, v |-> v] : l \in ListLocs, v \in FreeVals} \cup
    {[loc |-> l, f |-> "blkno", s |-> s, v |-> v] : l \in ListLocs, s \in 0..1, v \in BlknoVals} \cup
    {[loc |-> l, f |-> "clusters", s |-> s, v |-> v] : l \in ListLocs, s \in 0..1, v \in ClusterVals} \cup
    {[loc |-> l, f |-> g, s |-> s, v |-> TRUE] : l \in ListLocs, s \in 0..1, g \in {"unwritten", "refcounted"}} \cup
    {[loc |-> l, f |-> "hblkno", s |-> 0, v |-> 0] : l \in EbLocs} \cup
    {[loc |-> l, f |-> "gen", s |-> 0, v |-> 1] : l \in EbLocs} \cup
    {[loc |-> InodeLoc, f |-> "irefcount", s |-> 0, v |-> TRUE]}

EditList(l, e) ==
    CASE e.f \in {"depth", "count", "nextFree"} -> [l EXCEPT ![e.f] = e.v]
      [] OTHER -> [l EXCEPT !.recs[e.s][e.f] = e.v]

Apply(img, e) ==
    CASE e.f = "irefcount" -> [img EXCEPT !.inode.refcount = e.v]
      [] e.f \in {"hblkno", "gen"} -> [img EXCEPT !.eb[e.loc][e.f] = e.v]
      [] e.loc = InodeLoc -> [img EXCEPT !.inode.list = EditList(@, e)]
      [] OTHER -> [img EXCEPT !.eb[e.loc].list = EditList(@, e)]

NoEdit == [loc |-> InodeLoc, f |-> "none", s |-> 0, v |-> 0]

ApplyOpt(img, e) == IF e = NoEdit THEN img ELSE Apply(img, e)

MCInitImages ==
    {ApplyOpt(ApplyOpt(b, e1), e2) : b \in MCBases, e1, e2 \in Edits \cup {NoEdit}}

\* The record slots of an image that hold block b.
RefsTo(img, b) ==
    {<<l, s>> \in ListLocs \X (0..1) :
        (IF l = InodeLoc THEN img.inode.list ELSE img.eb[l].list).recs[s].blkno = b}

\* No extent block is referenced from two record slots (the check never
\* looks for blocks that are already in use).
NoSharedBlock(img) == \A b \in EbLocs : Cardinality(RefsTo(img, b)) <= 1

MCTreeImages == {img \in MCInitImages : NoSharedBlock(img)}

-----------------------------------------------------------------------------
(* A history variable: the volume the first fsck run started from.  It    *)
(* never constrains a step; it lets a property speak of the initial      *)
(* volume after repairs have changed it.                                  *)
-----------------------------------------------------------------------------
VARIABLE image0

MCInit == Init /\ image0 = [inode |-> dinode, eb |-> disk]

MCSpec == MCInit /\ [][Next /\ UNCHANGED image0]_<<vars, image0>> /\ WF_vars(Next)

\* On a volume in which no extent block was referenced twice, a run of
\* fsck -y after one that accepted every repair finds nothing more to
\* repair (spec P6).  A block shared by two lists is re-depthed at each
\* visit by check_eb(), which keeps no visited set.
SecondRunCleanOnTrees == NoSharedBlock(image0) => SecondRunClean
=============================================================================
