# TLA+ models of ocfs2-tools

This directory holds TLA+ specifications of the parts of ocfs2-tools (the
user-space tools of the OCFS2 cluster file system) whose behaviour depends on
the order of steps, on repairs a user may accept or decline, or on signals and
crashes between steps. Each module names, in comments and in `PROJECT.json`'s
`map`, the source lines each definition translates.

## The system and its parts

| part | source | what it does | state that matters |
|------|--------|--------------|--------------------|
| fsck extent check | `src/fsck.ocfs2/extent.c` | walks an inode's extent tree (inode list -> extent blocks -> leaf records), repairing headers and records behind prompts, marking data clusters in use | the on-disk extent lists, the extent blocks, the cluster bitmap and refcount tracker fsck builds, the `extent_info` passed down the recursion |
| mount.ocfs2 | `src/mount.ocfs2/mount.ocfs2.c` | parses options, joins the o2cb group for a clustered mount, calls mount(2), completes the join, starts heartbeat references, updates mtab | signal mask, group-join state, mount state, mtab |
| tunefs unwritten extents | `src/tunefs.ocfs2/feature_unwritten_extents.c` | sets or clears the RO_COMPAT unwritten-extents flag; clearing first zeroes and marks written every unwritten extent of every regular file | superblock flag, per-extent unwritten flag, cluster contents |
| tunefs local mount | `src/tunefs.ocfs2/feature_local.c` | converts a volume between clustered and local | superblock flags, slot count, signal mask |
| fswreck | `src/fswreck/*.c` | test tool that writes one named corruption into a volume | none of its own: its corruptions are the inputs of fsck |
| o2info | `src/o2info/operations.c` | one report per run, fetched with OCFS2_IOC_INFO or libocfs2; the free-space fragmentation report computes chunk counts and a log2 histogram | the INFO answers filled, the exit status, freefrag's chunk geometry |
| headers | `src/include/o2cb/o2cb.h`, `o2dlm.h`, `fsck.ocfs2/include/pass4.h`, `libocfs2/extent_map.h`, `fswreck/include/group.h` | declarations only | - |

fswreck and fsck interact through the volume: fswreck writes a corruption
that fsck must find and repair. mount.ocfs2 and tunefs interact with the
o2cb cluster stack through the calls declared in `o2cb.h`.

## ExtentCheck: the fsck extent check

`ExtentCheck.tla` models `check_el`, `check_er`, `check_eb`,
`o2fsck_check_extent_rec`, `o2fsck_mark_tree_clusters_allocated` and
`o2fsck_check_extents`.

*State.* `dinode` is the inode's extent list (and whether the inode has a
refcount tree); `disk` maps each extent-block location to its header
(`h_blkno`, generation) and list; a list is `[depth, count, nextFree, recs]`
with records `[clusters, blkno, unwritten, refcounted]`. The C recursion
`check_el -> check_er -> check_eb -> check_el` is an explicit `stack` of
frames; a frame holds the in-memory copy of the list being checked (the
buffer check_eb read), the loop index `i`, the loop bound `max_recs`,
`trust_next_free`, the block's `changed` flag and the phase of the C
function it stands for. `ei` is the `extent_info` (`ei_expect_depth`,
`ei_expected_depth`); `bitmap`, `refmarked` and `ei_clusters` are what the
marking callback and the `ei_clusters` sum record. `pass` counts runs of
fsck over the same image and `asked` records whether the current run raised
any repair prompt.

*Prompts.* Every `prompt()` is an `\E a \in Answers`: `{TRUE}` is `fsck -y`,
`{FALSE}` is `fsck -n`, `{TRUE, FALSE}` an interactive user.

*Actions.* `o2fsck_check_extents` (start a run at the inode),
`check_el_header` (depth, count and next_free checks and the loop bound,
lines 203-244), `check_el_skip_sparse` (254-257), `check_er_out_of_range`
(151-152 followed by the removal prompt), `check_er_leaf` (leaf checks then
removal or accounting), `check_eb` (read, `h_blkno` and generation checks,
push of the child list), `check_er_after_eb` (the clear-invalid prompt
162-175 and the rest of the iteration), `check_eb_write` (121-135: write the
block if changed and return), `o2fsck_write_inode` (422-423). A removal,
accounting and the advance of the loop index happen in the same step as
the check that precedes them, as in the C loop body.

*Inputs.* `MCExtentCheck.tla` builds the images fsck starts from: two
well-formed trees on a 3-cluster volume of 4-block clusters (a depth-1 tree
with two extent blocks, a depth-2 chain), each with up to two fields
overwritten by a value from a small domain (depth 0..2, count 3, next_free
0..3, blkno in {0, 3, 5, 9, 12, 13}, clusters {0, 2}, flags, `h_blkno`,
generation, inode refcount flag). These are the corruptions fswreck and
real damage produce: misplaced pointers (including to an ancestor or to
itself), wrong counts, overruns, unaligned blocks. `NoSharedBlock` tells
apart the images in which no extent block is referenced twice. The history
variable `image0` keeps the image a behaviour started from, so a property can
be stated about runs from some images only (`MCSpec` is `Spec` with it).

*Bounds.* Records per list are 2 (enough for a removal with and without a
shift), depths up to 2 exercise interior lists at two levels, `Passes = 2`
is one repair run and one re-check, `MaxStack = 4` caps the explicit stack
(one level beyond the deepest legal tree, so a re-entered block shows as a
violation of `NoBlockReentered`, and excess depth as one of
`WalkDepthBounded`, before the cap is reached).

*Fairness.* `WF_vars(Next)`: fsck is a single sequential process; as long as
the check has a step to take it takes it.

### Runs

| run | cfg | expect | what it shows |
|-----|-----|--------|---------------|
| yes | `ExtentCheck_yes.cfg` | pass | with `-y`, over every image (cycles and shared blocks included), the loop never reads past the list (`NoReadPastList`), removing a record keeps the other live records in their order (`RemovalCompacts`, spec P7), the walk never goes deeper than the repaired tree (`WalkDepthBounded`), every run finishes (`WalkTerminates`), and when the starting image shares no extent block a second run raises no prompt (`SecondRunCleanOnTrees`) |
| ask | `ExtentCheck_ask.cfg` | violation | declining the count fix and accepting the next_free clamp sets next_free to l_count and the loop reads past the list |
| no | `ExtentCheck_no.cfg` | violation | with `-n`, an extent block whose record points back to itself is entered again inside its own check (`NoBlockReentered`); nothing is written under `-n`, so the recursion repeats without end |
| account | `ExtentCheck_account.cfg` | violation | a truncated leaf is accounted with its old length: clusters past the end of the volume are marked |

The three violations are recorded as findings in `PROJECT.json`.
`SecondRunClean` without the `NoSharedBlock(image0)` premise fails on
images where an extent block is referenced from two places at different
depths: `check_eb` keeps no visited set, so each visit re-depths the block
and writes it. It is listed as a hazard, not a finding, because that
corruption is one that fsck's duplicate-cluster pass (outside `src/`)
reports first.

## MountOcfs2 and MountAtomic: mount.ocfs2

`MountOcfs2.tla` models `main()` of `mount.ocfs2.c` as a program counter
`pc` stepping through its statements. `conf` is the command line and volume
kind (local, `-o ro`, remount, `-n`, read-only device), which `Init` ranges
over. The other variables are:

- `clustered`, `devRo`: what `ocfs2_open` (through `ocfs2_mount_local()`)
  and `check_dev_readonly` found;
- `hbPath`: `hb_ctl_path`, `"unset"` (an uninitialised stack array) until
  the clustered branch fills it;
- `hbStarted`: `hb_started`;
- `sigBlocked`, `sigPending`: the signal mask and a blocked SIGINT/SIGTERM;
- `signalled`: whether the run's one signal has been sent;
- `join`: the o2cb group join (`"none"`, `"begun"`, `"complete"`,
  `"failed"`);
- `mounted`, `mountOk`: the kernel mount and the result of mount(2);
- `hbCtl`: the path `run_hb_ctl` was given (`"none"` before it runs);
- `mtab`, `status`: the mtab entry and the exit status.

There is one action per call of `main()` that changes state:

- `process_options`, `ocfs2_open`, `cluster_setup`, `check_dev_readonly`,
  `block_signals`, `begin_group_join`, `do_mount`;
- `complete_group_join`, `run_hb_ctl`, `update_mtab_entry`,
  `unblock_signals`.

Each call's failure is a disjunct that takes the C code's `goto bail`, and
`handle_signal` is the environment. A signal while blocked stays pending
and is delivered when signals are unblocked.

`MountAtomic.tla` is what a run promises: the mount and, when it is
needed, the group join happen in one step or not at all. After that the
program exits, reporting success only if it mounted. `MountRefinesAtomic`
checks `Spec` against `Atomic!ASpec` under a refinement mapping:

- a begun join counts as joined once mount(2) has succeeded;
- `need` is the join condition computed from the configuration.

*Fairness.* `WF_vars(ProgramStep)`: mount.ocfs2 is one sequential process
that keeps running until it exits. A signal is not assumed to come.

*Constant.* `CompleteMayFail` says whether `o2cb_complete_group_join()`
after a successful mount can fail. The mount run sets it to FALSE. When that
call fails, `main()` sets `ret = 0` on purpose: the XXX comment at lines
408-412 follows GFS2 in letting the mount continue. The volume then stays
mounted without a completed join, which `MountAtomic` does not allow, and
with `CompleteMayFail = TRUE` TLC reports `MountRefinesAtomic` violated.
Because the code means to do this, it is a hazard in `PROJECT.json`, not a
defect.

| run | cfg | expect | what it shows |
|-----|-----|--------|---------------|
| mount | `MountOcfs2.cfg` | pass | with every configuration, call failure and signal timing, a begun join is always settled (`JoinEventuallySettled`), the run implements `MountAtomic` (`MountRefinesAtomic`), and once mount(2) has succeeded the run can only end through the final unblock, after `run_hb_ctl` and `update_mtab_entry` (`MountNotLeftUnrecorded`): a signal in that window stays pending |
| mount_hbctl | `MountOcfs2_hbctl.cfg` | violation | on a local mount `run_hb_ctl(hb_ctl_path, ...)` is reached with `hb_ctl_path` never initialised (`HbCtlPathInitialized`) |

## TunefsUnwritten: tunefs.ocfs2 unwritten extents

`TunefsUnwritten.tla` models `enable_unwritten_extents`,
`disable_unwritten_extents` with its `tunefs_foreach_inode` /
`unwritten_iterate` walk, `ocfs2_get_clusters` and `tunefs_empty_clusters`
(on a model of cluster contents), and the final superblock write.

*State.* `feature` is the superblock flag. `inode` holds each inode's kind,
`i_size` and extents `[v, len, p, unw]`. `data` holds each physical
cluster's contents: user data, zeroes, or stale blocks only an unwritten
extent may cover. `pc`, `op`, `todo`, `cur` and `v` are the running
tunefs's position. `crash` ends a run anywhere, keeping what was written.
`runs` bounds the invocations by `MaxRuns`.

*Inputs.* `MCTunefsUnwritten.tla` builds the inode tables: one regular file
and one other inode, with extents over 4 physical clusters of 2 bytes. The
extents may be written or unwritten, and the files may have holes.
`MCInSizeInodes` keeps the tables whose extents start below `i_size`;
`MCAllInodes` allows extents past it, as preallocation produces.

*Fairness.* `WF_vars(TunefsStep)`: a started tunefs keeps running until it
finishes or dies. New invocations are not forced.

| run | cfg | expect | what it shows |
|-----|-----|--------|---------------|
| tunefs_unwritten | `TunefsUnwritten.cfg` | pass | over three invocations that may die at any point, no written extent ever exposes stale data (`NoStaleExposed`), the flag is off only when no unwritten extent remains (`FeatureOffNoUnwritten`), only unwritten extents are zeroed (`EmptiesOnlyUnwritten`) and every run ends (`RunEnds`) |
| tunefs_pasteof | `TunefsUnwritten_pasteof.cfg` | violation | `unwritten_iterate` stops at `i_size` rounded up, so an unwritten extent allocated past `i_size` survives while the flag is cleared |

## TunefsLocal and TunefsLocalAbstract: tunefs.ocfs2 local mount

`TunefsLocal.tla` models `enable_local` and `disable_local` of
`feature_local.c`: the prompts and failures before the write, the signal
blocking around `ocfs2_write_super` / `ocfs2_set_cluster_desc`, and signals
that kill tunefs. The on-disk state is `local`, `userStack` and
`stackName`. No fairness is assumed: the properties are safety properties.

`TunefsLocalAbstract.tla` is what the feature promises: a volume is
`"local"` or cluster-aware on one stack, and a conversion flips it from one
kind to the other in one step. `TunefsLocal` maps its superblock to that
`mode` (`IF local THEN "local" ELSE stackName`), and the run checks
`TunefsLocalRefinesAbstract`. This says that every superblock write is such a
conversion, and that `disable_local()` never rewrites the stack of a volume
that is already cluster-aware (its `ocfs2_mount_local()` test).

| run | cfg | expect | what it shows |
|-----|-----|--------|---------------|
| tunefs_local | `TunefsLocal.cfg` | pass | over three conversions in either direction, interrupted anywhere, every superblock change is a conversion of `TunefsLocalAbstract` (`TunefsLocalRefinesAbstract`) |
| tunefs_signals | `TunefsLocal_signals.cfg` | violation | `disable_local()` blocks signals a second time after the write, so it returns with SIGINT and SIGTERM still blocked (`SignalsUnblockedOnReturn`, an action property: `finish`, the return of `enable_local()` or `disable_local()`, never happens with signals blocked) |

## O2info: the o2info operations

`O2info.tla` models every `*_run()` of `operations.c` (fs_features,
volinfo, mkfs, freeinode, freefrag, space_usage, filestat). Each is a
program: a sequence of step names, one for the ioctl method and one for
the libocfs2 method (`fs_features_run`, ..., `filestat_run`). `pc` is the
current step and `status` the exit (`"running"`, `"ok"`, `"err"`).

*Fetches.* `get_fs_features_ioctl`, `get_volinfo_ioctl` (which ends with
the fs-features call), `get_mkfs_ioctl` (journal size, then volinfo) and
`get_freeinode_ioctl` are `IoctlCall`s. A call fails on a kernel without
OCFS2_IOC_INFO and may fail on any kernel; a failure prints the scan of
`o2i_scan_requests` and ends the run with an error in the same step
(`FailFetch`): the return chain through the callers (`get_volinfo_ioctl`
at 330, `get_mkfs_ioctl` at 436, each `*_run`'s `if (rc)`) is collapsed
into it, so no property is stated about it. On success the
requests the kernel knows come back FILLED (`filled`); the others keep the
zeroes of the caller's `memset`. `LibCall` is the libocfs2 branch, whose
readers live outside `src/` and are modelled as fill-or-fail.

*Other steps.* The flag strings, lstat and fiemap may fail (`MayFail`);
`o2info_gen_mkfs_string`'s result is ignored; space_usage and filestat
refuse the libocfs2 method; `o2info_report_filestat` may fail before or
after its first lines. For freefrag the model keeps the arithmetic exactly:

- the chunk-size checks (`freefrag_validate`, `chunk_check`, the latter
  against `ovf.clustersize` as `get_volinfo_ioctl` left it);
- `ul_log2`, as a recursive operator;
- `o2info_init_freefrag`;
- `get_freefrag_ioctl`: failure, an unfilled reply and a filled reply, then
  `total_chunks`;
- the histogram row labels of `o2info_report_freefrag` (`HistRows`,
  recursive).

*Inputs.* Both methods; three kernels: none with OCFS2_IOC_INFO, one with
the codes up to JOURNAL_SIZE (before FREEINODE and FREEFRAG were added),
and a current one. For freefrag every ocfs2 cluster size (`2^12..2^20`),
chunk arguments 0 (default), 1 (below a cluster), 3 (not a power of two),
4, 16 and 1024 KB, and 0..8 clusters. Printed text, the free-extent
statistics and the fiemap counts are left out. o2info runs one operation
and exits, so deadlock is not checked and no fairness is needed.

| run | cfg | expect | what it shows |
|-----|-----|--------|---------------|
| o2info | `O2info.cfg` | pass | for freefrag, accepted chunks hold a whole power-of-two number of clusters (`ChunkGeometry`), `ul_log2` gives exact bit counts (`BitCountsExact`), and every histogram row is labelled in the unit that keeps its start below 1024 (`HistogramLabelsExact`) |
| freefrag_chunks | `O2info_chunks.cfg` | violation | `total_chunks = (clusters + clusters_in_chunk) >> bits` is one chunk too many whenever `clusters` is a multiple of `clusters_in_chunk` |

Two behaviours are in the model but not stated as properties (they are
hazards in `PROJECT.json`). On a kernel without FREEFRAG or FREEINODE the
ioctl succeeds with the request unfilled, and freefrag and freeinode print
a report of zeroes with exit 0. `mkfs_run` prints the result of
`o2info_gen_mkfs_string` even when it failed, which is `(null)`.

## Defects found

Each is a `finding` in `PROJECT.json` with the run that shows it:

- `extent.c:236`: the next_free clamp uses `l_count`, not the bound just
  computed (run ask).
- `extent.c:248`: a truncated leaf is accounted with its old length (run
  account).
- `extent.c:59`: `check_eb()` does not test whether a block is already in
  use (the XXX there), so with `-n` a self-referencing extent block is
  re-entered and the recursion never ends (run no).
- `feature_unwritten_extents.c:101`: unwritten extents past `i_size` remain
  after the flag is cleared (run tunefs_pasteof).
- `operations.c:710`: `total_chunks` is off by one (run freefrag_chunks).
- `mount.ocfs2.c:417`: `run_hb_ctl(hb_ctl_path, ...)` runs on a local
  mount, where `hb_ctl_path` was never initialised (run mount_hbctl).
- `feature_local.c:84`: `disable_local()` calls `tunefs_block_signals()`
  where `tunefs_unblock_signals()` is meant, so it returns with SIGINT and
  SIGTERM still blocked (run tunefs_signals). Whether tunefs unblocks them
  on its exit path is decided outside `src/`.

## Not modelled, and what is left

- The o2cb, o2dlm, pass 4 and extent-map headers hold declarations only.
- The free-space statistics (min/max/avg in KB) of `--freefrag` are left
  out. Their u32 shift overflows only at values beyond TLC's integers.
- fswreck (`corrupt.c`, `chain.c`) is not modelled. Each corruption is one
  sequential read-modify-write of one structure by a program that exits;
  nothing in it runs concurrently, persists across runs or is retried. What
  a corruption is for is the fsck check that must detect it, and the chain
  and group checks of fsck are not under `src/`. Its extent corruptions
  stand as the inputs of `MCExtentCheck`. One of its numeric edges is
  recorded as a hazard: `mess_up_superblock_clusters()` (`chain.c:297`)
  subtracts 2.5 groups from a u32 `i_clusters`, which wraps on a small volume.
  Another is `create_named_directory()` (`corrupt.c:48`): a failure after
  `ocfs2_new_inode()` exits with the new inode allocated but never linked.
- Spec P7 also says the vacated trailing slot is zero-filled. `check_el()`
  zeroes it only when records moved (`cpy != 0`); removing the last live
  record leaves it in place past `l_next_free_rec`. `RemovalCompacts`
  checks the order and count part of P7 only; the stale slot is harmless
  because every reader stops at `l_next_free_rec`.
- Message formatting, option parsing and `ei_max_size` are left out.
