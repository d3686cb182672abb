------------------------- MODULE MCTunefsUnwritten -------------------------
(***************************************************************************)
(* Inode tables for TunefsUnwritten: clusters of 2 bytes, physical        *)
(* clusters 0..3.  Inode 1 is a regular file whose extents (at most two,  *)
(* holes allowed) sit at physical = logical cluster; its i_size is 0..6   *)
(* bytes, so it may end inside a cluster.  Inode 2 is not a regular file  *)
(* and has one written extent at physical cluster 3.                      *)
(***************************************************************************)
EXTENDS TunefsUnwritten, TLC

E(vc, n, u) == [v |-> vc, len |-> n, p |-> vc, unw |-> u]

Layouts ==
    {<<>>} \cup
    {<<E(vc, n, u)>> : vc \in 0..1, n \in 1..2, u \in BOOLEAN} \cup
    {<<E(0, 1, u1), E(vc, 1, u2)>> : vc \in 1..2, u1, u2 \in BOOLEAN}

Other == [kind |-> "other", size |-> 2, ext |-> <<[v |-> 0, len |-> 1, p |-> 3, unw |-> FALSE]>>]

\* Every inode table, including files with extents reserved past i_size.
MCAllInodes ==
    {(1 :> [kind |-> "reg", size |-> s, ext |-> l]) @@ (2 :> Other) : s \in 0..6, l \in Layouts}

\* Tables whose extents all start inside i_size.
MCInSizeInodes ==
    {t \in MCAllInodes : \A k \in DOMAIN t[1].ext : t[1].ext[k].v * ClusterSize < t[1].size}
=============================================================================
