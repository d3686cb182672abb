\* mount.ocfs2 with every command line, volume kind and call failure, and
\* an interrupting signal at any point; o2cb completes every join it began.
SPECIFICATION Spec
CONSTANTS
    CompleteMayFail = FALSE
CHECK_DEADLOCK FALSE
INVARIANT
    TypeOK
PROPERTY
    JoinEventuallySettled
    MountRefinesAtomic
    MountNotLeftUnrecorded
