---------------------------- MODULE MountAtomic ----------------------------
(***************************************************************************)
(* What one run of mount.ocfs2 promises, with every intermediate step     *)
(* hidden: the volume is mounted and, when the mount needs the cluster    *)
(* group, joined to it, in one indivisible step, or nothing happens; then *)
(* the program exits, reporting success only if it mounted.              *)
(*                                                                         *)
(*   need    : this mount must join the o2cb group (clustered, not a      *)
(*             remount, device not read-only)                             *)
(*   mounted : the kernel has the volume mounted                          *)
(*   joined  : this node is a member of the volume's group                *)
(*   did     : this run's mount succeeded                                 *)
(*   done    : the program has exited, with exit status `status`          *)
(***************************************************************************)
VARIABLES need, mounted, joined, did, done, status

avars == <<need, mounted, joined, did, done, status>>

AInit ==
    /\ need \in BOOLEAN
    /\ mounted \in BOOLEAN
    /\ joined \in BOOLEAN
    /\ did = FALSE
    /\ done = FALSE
    /\ status = 0

\* The mount and, when needed, the group join take effect together.
AMount ==
    /\ ~done /\ ~did
    /\ did' = TRUE
    /\ mounted' = TRUE
    /\ joined' = (joined \/ need)
    /\ UNCHANGED <<need, done, status>>

\* The program exits; it may report failure after mounting (it was
\* interrupted), never success without mounting.
AExit ==
    /\ ~done
    /\ done' = TRUE
    /\ status' \in IF did THEN {0, 1} ELSE {1}
    /\ UNCHANGED <<need, mounted, joined, did>>

ANext == AMount \/ AExit

ASpec == AInit /\ [][ANext]_avars
=============================================================================
