----------------------------- MODULE MountOcfs2 -----------------------------
(***************************************************************************)
(* main() of mount.ocfs2 (src/mount.ocfs2/mount.ocfs2.c), one step per    *)
(* call that changes the state of the program, the o2cb group, the kernel *)
(* or /etc/mtab, with SIGINT/SIGTERM able to arrive between any two.      *)
(*                                                                         *)
(* The command line and the volume are the record `conf`: a local-mount  *)
(* volume, -o ro (MS_RDONLY), -o remount (MS_REMOUNT), a read-only block  *)
(* device, -n (nomtab).  A remount finds the volume mounted by an earlier *)
(* mount.ocfs2, joined to its group when that mount needed it.  Every    *)
(* call into libocfs2, o2cb, the kernel or the mtab file may fail.       *)
(***************************************************************************)
EXTENDS FiniteSets

CONSTANTS
    CompleteMayFail     \* o2cb_complete_group_join() may return an error

ASSUME CompleteMayFail \in BOOLEAN

VARIABLES
    conf,        \* command line and volume, fixed for the run
    pc,          \* the next statement of main() to run
    clustered,   \* 0 == ocfs2_mount_local(fs)
    hbPath,      \* hb_ctl_path: "unset" (uninitialised stack array) or "set"
    devRo,       \* dev_ro
    hbStarted,   \* hb_started
    sigBlocked,  \* SIGINT/SIGTERM blocked by block_signals(SIG_BLOCK)
    sigPending,  \* a blocked signal waiting for SIG_UNBLOCK
    signalled,   \* the one signal of a run has been sent (bound: one)
    join,        \* the o2cb group: "none", "begun", "complete", "failed"
    mounted,     \* the kernel has the volume mounted
    mountOk,     \* this run's mount(2) succeeded
    hbCtl,       \* hb_ctl_path given to run_hb_ctl(): "none" (not run) or hbPath
    mtab,        \* /etc/mtab holds an entry for the volume
    status       \* exit status, once pc = "exited"

vars == <<conf, pc, clustered, hbPath, devRo, hbStarted, sigBlocked, sigPending,
          signalled, join, mounted, mountOk, hbCtl, mtab, status>>

Confs == [local : BOOLEAN, rdonly : BOOLEAN, remount : BOOLEAN,
          devro : BOOLEAN, nomtab : BOOLEAN]

\* The statements of main() at which a signal can find the program.
Pcs == {"options", "open", "cluster", "rocheck", "block", "begin", "mount",
        "complete", "hbctl", "mtab", "unblock", "exited"}

\* The error code (errno or errcode_t) a failed call leaves in ret.
Err == 5

\* Mutant: main() returns ret itself.
MutExitStatusRet(ret) == ret

\* return ret ? 1 : 0;
ExitStatus(ret) == IF ret # 0 THEN 1 ELSE 0

\* goto bail before signals are blocked.
Bail ==
    /\ pc' = "exited"
    /\ status' = ExitStatus(Err)

\* block_signals(SIG_UNBLOCK) and the return from main(): a pending signal
\* is delivered first and handle_signal() exits with 1.
UnblockAndExit(ret) ==
    /\ sigBlocked' = FALSE
    /\ pc' = "exited"
    /\ status' = IF sigPending THEN 1 ELSE ExitStatus(ret)

-----------------------------------------------------------------------------

\* read_options() and process_options(): a missing device or mount point,
\* or a type other than ocfs2, ends the run.
process_options ==
    /\ pc = "options"
    /\ \E ok \in BOOLEAN :
        IF ok THEN pc' = "open" /\ UNCHANGED status
              ELSE Bail
    /\ UNCHANGED <<conf, clustered, hbPath, devRo, hbStarted, sigBlocked, sigPending,
                   signalled, join, mounted, mountOk, hbCtl, mtab>>

\* ocfs2_open() of the device may fail; otherwise ocfs2_mount_local() on
\* its superblock says whether the volume is local.
ocfs2_open ==
    /\ pc = "open"
    /\ \E ok \in BOOLEAN :
        IF ok THEN /\ pc' = "cluster"
                   /\ clustered' = ~conf.local
                   /\ UNCHANGED status
              ELSE /\ Bail /\ UNCHANGED clustered
    /\ UNCHANGED <<conf, hbPath, devRo, hbStarted, sigBlocked, sigPending,
                   signalled, join, mounted, mountOk, hbCtl, mtab>>

\* The clustered branch: o2cb_init(), ocfs2_fill_cluster_desc(),
\* ocfs2_fill_heartbeat_desc() and o2cb_get_hb_ctl_path(), any of which
\* may fail.  Only this branch initialises hb_ctl_path.
cluster_setup ==
    /\ pc = "cluster"
    /\ IF clustered
       THEN \E ok \in BOOLEAN :
              IF ok THEN pc' = "rocheck" /\ hbPath' = "set" /\ UNCHANGED status
                    ELSE Bail /\ UNCHANGED hbPath
       ELSE pc' = "rocheck" /\ UNCHANGED <<hbPath, status>>
    /\ UNCHANGED <<conf, clustered, devRo, hbStarted, sigBlocked, sigPending,
                   signalled, join, mounted, mountOk, hbCtl, mtab>>

\* check_dev_readonly() for -o ro: BLKROGET on the device may fail.
check_dev_readonly ==
    /\ pc = "rocheck"
    /\ IF conf.rdonly
       THEN \E ok \in BOOLEAN :
              IF ok THEN pc' = "block" /\ devRo' = conf.devro /\ UNCHANGED status
                    ELSE Bail /\ UNCHANGED devRo
       ELSE pc' = "block" /\ UNCHANGED <<devRo, status>>
    /\ UNCHANGED <<conf, clustered, hbPath, hbStarted, sigBlocked, sigPending,
                   signalled, join, mounted, mountOk, hbCtl, mtab>>

\* Mutant: block_signals() does not block anything.
MutBlockSignalsNone ==
    /\ pc = "block"
    /\ pc' = "begin"
    /\ UNCHANGED <<conf, clustered, hbPath, devRo, hbStarted, sigBlocked, sigPending,
                   signalled, join, mounted, mountOk, hbCtl, mtab, status>>

\* block_signals(SIG_BLOCK).
block_signals ==
    /\ pc = "block"
    /\ pc' = "begin"
    /\ sigBlocked' = TRUE
    /\ UNCHANGED <<conf, clustered, hbPath, devRo, hbStarted, sigPending,
                   signalled, join, mounted, mountOk, hbCtl, mtab, status>>

\* Mutant: the read-only device test is left out of the join condition.
MutNeedJoinIgnoresRo == ~conf.remount /\ clustered

\* The condition under which main() joins the group.
NeedJoin == ~conf.remount /\ ~devRo /\ clustered

\* o2cb_begin_group_join(); on failure signals are unblocked and the run
\* ends.
begin_group_join ==
    /\ pc = "begin"
    /\ IF NeedJoin
       THEN \E ok \in BOOLEAN :
              IF ok THEN /\ pc' = "mount"
                         /\ join' = "begun"
                         /\ hbStarted' = TRUE
                         /\ UNCHANGED <<sigBlocked, status>>
                    ELSE /\ UnblockAndExit(Err)
                         /\ UNCHANGED <<join, hbStarted>>
       ELSE pc' = "mount" /\ UNCHANGED <<join, hbStarted, sigBlocked, status>>
    /\ UNCHANGED <<conf, clustered, hbPath, devRo, sigPending, signalled,
                   mounted, mountOk, hbCtl, mtab>>

\* Mutant: a failed mount(2) leaves the begun join to o2cb.
MutMountFailKeepsJoin ==
    /\ pc = "mount"
    /\ \E ok \in BOOLEAN :
        IF ok THEN /\ pc' = "complete"
                   /\ mounted' = TRUE
                   /\ mountOk' = TRUE
                   /\ UNCHANGED <<join, sigBlocked, status>>
              ELSE UnblockAndExit(Err) /\ UNCHANGED <<join, mounted, mountOk>>
    /\ UNCHANGED <<conf, clustered, hbPath, devRo, hbStarted, sigPending,
                   signalled, hbCtl, mtab>>

\* mount(2) with the heartbeat option; on failure the join is completed
\* with the error, which makes o2cb undo it, signals are unblocked and the
\* run ends.
do_mount ==
    /\ pc = "mount"
    /\ \E ok \in BOOLEAN :
        IF ok THEN /\ pc' = "complete"
                   /\ mounted' = TRUE
                   /\ mountOk' = TRUE
                   /\ UNCHANGED <<join, sigBlocked, status>>
              ELSE /\ join' = IF hbStarted THEN "none" ELSE join
                   /\ UnblockAndExit(Err)
                   /\ UNCHANGED <<mounted, mountOk>>
    /\ UNCHANGED <<conf, clustered, hbPath, devRo, hbStarted, sigPending,
                   signalled, hbCtl, mtab>>

\* o2cb_complete_group_join(..., 0) after a successful mount.  An error is
\* reported and ignored (ret = 0): the mount stays.
complete_group_join ==
    /\ pc = "complete"
    /\ pc' = "hbctl"
    /\ IF hbStarted
       THEN join' \in IF CompleteMayFail THEN {"complete", "failed"} ELSE {"complete"}
       ELSE UNCHANGED join
    /\ UNCHANGED <<conf, clustered, hbPath, devRo, hbStarted, sigBlocked, sigPending,
                   signalled, mounted, mountOk, hbCtl, mtab, status>>

\* run_hb_ctl(hb_ctl_path, dev, "-P"), whatever kind of mount this is; its
\* result is ignored.
run_hb_ctl ==
    /\ pc = "hbctl"
    /\ pc' = "mtab"
    /\ hbCtl' = hbPath
    /\ UNCHANGED <<conf, clustered, hbPath, devRo, hbStarted, sigBlocked, sigPending,
                   signalled, join, mounted, mountOk, mtab, status>>

\* update_mtab_entry(): unless -n, add (or, for a remount, update) the
\* entry; a failed write of /etc/mtab is reported and ignored.
update_mtab_entry ==
    /\ pc = "mtab"
    /\ pc' = "unblock"
    /\ IF conf.nomtab THEN UNCHANGED mtab ELSE mtab' \in {mtab, TRUE}
    /\ UNCHANGED <<conf, clustered, hbPath, devRo, hbStarted, sigBlocked, sigPending,
                   signalled, join, mounted, mountOk, hbCtl, status>>

\* block_signals(SIG_UNBLOCK) after a successful mount, then return 0.
unblock_signals ==
    /\ pc = "unblock"
    /\ UnblockAndExit(0)
    /\ UNCHANGED <<conf, clustered, hbPath, devRo, hbStarted, sigPending,
                   signalled, join, mounted, mountOk, hbCtl, mtab>>

\* SIGINT or SIGTERM: handle_signal() exits with 1 at once, unless the
\* signal is blocked, when it stays pending until SIG_UNBLOCK.
handle_signal ==
    /\ pc # "exited"
    /\ ~signalled
    /\ signalled' = TRUE
    /\ IF sigBlocked
       THEN sigPending' = TRUE /\ UNCHANGED <<pc, status>>
       ELSE pc' = "exited" /\ status' = 1 /\ UNCHANGED sigPending
    /\ UNCHANGED <<conf, clustered, hbPath, devRo, hbStarted, sigBlocked,
                   join, mounted, mountOk, hbCtl, mtab>>

-----------------------------------------------------------------------------

\* A remount finds the volume mounted, with its entry in mtab and joined
\* when the first mount needed the group.
Init ==
    /\ conf \in Confs
    /\ pc = "options"
    /\ clustered = FALSE
    /\ hbPath = "unset"
    /\ devRo = FALSE
    /\ hbStarted = FALSE
    /\ sigBlocked = FALSE
    /\ sigPending = FALSE
    /\ signalled = FALSE
    /\ mounted = conf.remount
    /\ join = IF conf.remount /\ ~conf.local /\ ~conf.devro
              THEN "complete" ELSE "none"
    /\ mountOk = FALSE
    /\ hbCtl = "none"
    /\ mtab = conf.remount
    /\ status = 0

\* The statements of main(), in the order the program runs them.
ProgramStep ==
    \/ process_options \/ ocfs2_open \/ cluster_setup \/ check_dev_readonly \/ block_signals
    \/ begin_group_join \/ do_mount \/ complete_group_join \/ run_hb_ctl
    \/ update_mtab_entry \/ unblock_signals

Next == ProgramStep \/ handle_signal

\* mount.ocfs2 is one sequential process and runs until it exits; a signal
\* may or may not come.
Spec == Init /\ [][Next]_vars /\ WF_vars(ProgramStep)

-----------------------------------------------------------------------------

TypeOK ==
    /\ conf \in Confs
    /\ pc \in Pcs
    /\ hbPath \in {"unset", "set"}
    /\ hbCtl \in {"none", "unset", "set"}
    /\ join \in {"none", "begun", "complete", "failed"}
    /\ {clustered, devRo, hbStarted, sigBlocked, sigPending, signalled,
        mounted, mountOk, mtab} \subseteq BOOLEAN
    /\ status \in {0, 1}

\* Every group join main() begins is eventually completed, with success
\* after a mount or with the error after a failed one: no interruption
\* leaves o2cb holding a half-done join.
JoinEventuallySettled == join = "begun" ~> join # "begun"

\* run_hb_ctl() is only ever given an initialised hb_ctl_path.  TLC finds
\* this violated on every local mount (see README, "Defects found").
HbCtlPathInitialized == hbCtl # "unset"

\* Once mount(2) has succeeded, mount.ocfs2 leaves only through the final
\* block_signals(SIG_UNBLOCK), after run_hb_ctl() and update_mtab_entry():
\* a SIGINT or SIGTERM in between cannot end the run with the volume in
\* the kernel but missing from /etc/mtab and with hb_ctl -P never run.
MountNotLeftUnrecorded ==
    [][pc' = "exited" /\ mountOk => pc = "unblock"]_vars

\* The whole run of main() implements MountAtomic: a join becomes visible
\* only with a successful mount (a begun join counts once mount(2) has
\* succeeded), a failed mount leaves neither, and success is reported
\* only after mounting.
Atomic == INSTANCE MountAtomic
    WITH need    <- ~conf.remount /\ ~(conf.rdonly /\ conf.devro) /\ ~conf.local,
         mounted <- mounted,
         joined  <- join = "complete" \/ (join = "begun" /\ mountOk),
         did     <- mountOk,
         done    <- pc = "exited",
         status  <- status

MountRefinesAtomic == Atomic!ASpec
=============================================================================
