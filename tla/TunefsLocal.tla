----------------------------- MODULE TunefsLocal -----------------------------
(***************************************************************************)
(* tunefs.ocfs2's local-mount feature (src/tunefs.ocfs2/feature_local.c): *)
(* enable_local() makes a volume single-node, disable_local() makes it    *)
(* cluster-aware with the descriptor of the cluster stack that is running.*)
(* Each invocation is one process; SIGINT/SIGTERM may arrive at any step  *)
(* and kill it, unless blocked, when it is delivered on unblocking.       *)
(*                                                                         *)
(* On disk: LOCAL_MOUNT (`local`), USERSPACE_STACK (`userStack`) and the  *)
(* stack name of the cluster descriptor (`stackName`).                    *)
(***************************************************************************)
EXTENDS Naturals

CONSTANTS
    Stacks,     \* cluster stacks; "o2cb" is the classic in-kernel one
    MaxRuns     \* bound on the number of tunefs invocations

ASSUME "o2cb" \in Stacks

VARIABLES
    local, userStack, stackName,   \* the superblock on disk
    pc,          \* "idle" between runs, else the next step of tunefs
    op,          \* "enable" or "disable"
    desc,        \* the descriptor o2cb_running_cluster_desc() returned
    sigBlocked,  \* tunefs_block_signals() in effect
    sigPending,  \* a signal waiting for tunefs_unblock_signals()
    runs         \* invocations so far

vars == <<local, userStack, stackName, pc, op, desc, sigBlocked, sigPending, runs>>

\* tunefs exits (or dies); the next invocation starts with a fresh mask.
EndRun == pc' = "idle" /\ sigBlocked' = FALSE /\ sigPending' = FALSE

\* ocfs2_set_cluster_desc(): the descriptor goes to disk together with the
\* cleared LOCAL_MOUNT; a stack other than o2cb is a userspace stack.
SetClusterDesc(d) ==
    /\ local' = FALSE
    /\ userStack' = (d # "o2cb")
    /\ stackName' = d

\* enable_local(): LOCAL_MOUNT set and USERSPACE_STACK cleared in the
\* in-memory superblock that ocfs2_write_super() writes.
EnableLocalFlags == local' = TRUE /\ userStack' = FALSE

-----------------------------------------------------------------------------

start_tunefs ==
    /\ pc = "idle"
    /\ runs < MaxRuns
    /\ runs' = runs + 1
    /\ \E o \in {"enable", "disable"} : op' = o
    /\ pc' = "start"
    /\ UNCHANGED <<local, userStack, stackName, desc, sigBlocked, sigPending>>

\* Mutant: the ocfs2_mount_local() test is dropped.
MutDisableNoLocalCheck ==
    /\ pc = "start" /\ op = "disable"
    /\ \E ok \in BOOLEAN, d \in Stacks :
        IF ok THEN pc' = "write" /\ desc' = d /\ UNCHANGED <<sigBlocked, sigPending>>
              ELSE EndRun /\ UNCHANGED desc
    /\ UNCHANGED <<local, userStack, stackName, op, runs>>

\* disable_local() up to the descriptor: nothing to do on a clustered
\* volume; the user may decline; the progress display, o2cb_init() and
\* o2cb_running_cluster_desc() may fail.
disable_local ==
    /\ pc = "start" /\ op = "disable"
    /\ IF local
       THEN \E ok \in BOOLEAN, d \in Stacks :
              IF ok THEN pc' = "write" /\ desc' = d /\ UNCHANGED <<sigBlocked, sigPending>>
                    ELSE EndRun /\ UNCHANGED desc
       ELSE EndRun /\ UNCHANGED desc
    /\ UNCHANGED <<local, userStack, stackName, op, runs>>

\* enable_local() up to the write: nothing to do on a local volume; the
\* user may decline; the progress display may fail.
enable_local ==
    /\ pc = "start" /\ op = "enable"
    /\ IF ~local
       THEN \E ok \in BOOLEAN :
              IF ok THEN pc' = "write" /\ UNCHANGED <<sigBlocked, sigPending>>
                    ELSE EndRun
       ELSE EndRun
    /\ UNCHANGED <<local, userStack, stackName, op, desc, runs>>

\* tunefs_block_signals() before the write.
block_signals ==
    /\ pc = "write" /\ ~sigBlocked
    /\ sigBlocked' = TRUE
    /\ UNCHANGED <<local, userStack, stackName, pc, op, desc, sigPending, runs>>

\* The write, which may fail: enable sets LOCAL_MOUNT and clears
\* USERSPACE_STACK in one superblock write; disable writes the descriptor.
write_super ==
    /\ pc = "write" /\ sigBlocked
    /\ pc' = "unblock"
    /\ \E ok \in BOOLEAN :
        IF ~ok THEN UNCHANGED <<local, userStack, stackName>>
        ELSE IF op = "enable"
        THEN EnableLocalFlags /\ UNCHANGED stackName
        ELSE SetClusterDesc(desc)
    /\ UNCHANGED <<op, desc, sigBlocked, sigPending, runs>>

\* After the write enable_local() unblocks signals, and a pending one kills
\* tunefs; disable_local() calls tunefs_block_signals() a second time, so
\* signals stay blocked for the rest of the run.
unblock_signals ==
    /\ pc = "unblock"
    /\ IF op = "enable"
       THEN /\ sigBlocked' = FALSE
            /\ IF sigPending THEN EndRun ELSE pc' = "end" /\ UNCHANGED sigPending
       ELSE pc' = "end" /\ UNCHANGED <<sigBlocked, sigPending>>
    /\ UNCHANGED <<local, userStack, stackName, op, desc, runs>>

\* The progress display stops and enable_local() or disable_local()
\* returns.  What tunefs does after that is outside src/; the next
\* invocation is a new process with a fresh signal mask.
finish ==
    /\ pc = "end"
    /\ EndRun
    /\ UNCHANGED <<local, userStack, stackName, op, desc, runs>>

\* SIGINT/SIGTERM: kills tunefs, or waits while blocked.
signal ==
    /\ pc # "idle" /\ ~sigPending
    /\ IF sigBlocked THEN sigPending' = TRUE /\ UNCHANGED <<pc, sigBlocked>>
                     ELSE EndRun
    /\ UNCHANGED <<local, userStack, stackName, op, desc, runs>>

-----------------------------------------------------------------------------

\* A volume made by mkfs: local, or clustered on some stack.
Init ==
    /\ local \in BOOLEAN
    /\ stackName \in Stacks
    /\ userStack = (~local /\ stackName # "o2cb")
    /\ pc = "idle" /\ op = "enable" /\ desc = "o2cb"
    /\ sigBlocked = FALSE /\ sigPending = FALSE /\ runs = 0

\* The steps tunefs itself takes.
TunefsStep ==
    \/ disable_local \/ enable_local \/ block_signals \/ write_super
    \/ unblock_signals \/ finish

Next == start_tunefs \/ TunefsStep \/ signal

Spec == Init /\ [][Next]_vars

-----------------------------------------------------------------------------

\* Every change tunefs makes to the superblock, whatever the order of the
\* runs and wherever a signal or a failed write stopped one, is one
\* conversion of TunefsLocalAbstract: single-node to cluster-aware on the
\* running stack (disable_local()), or cluster-aware to single-node
\* (enable_local()).  In particular disabling on a volume that is already
\* cluster-aware never rewrites its stack.
Abstract == INSTANCE TunefsLocalAbstract
    WITH mode <- IF local THEN "local" ELSE stackName

TunefsLocalRefinesAbstract == Abstract!Spec

\* enable_local() and disable_local() both block SIGINT and SIGTERM around
\* their superblock write, and each returns to tunefs with them unblocked
\* again, so that an interrupt sent during the write is delivered once the
\* write is done.  enable_local() pairs tunefs_block_signals() with
\* tunefs_unblock_signals(); TLC finds the property violated after
\* disable_local()'s write (see README, "Defects found").
SignalsUnblockedOnReturn == [][finish => ~sigBlocked]_vars
=============================================================================
